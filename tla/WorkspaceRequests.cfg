CONSTANTS
  Blank = Blank
  None = None
  definition = definition
  word = word
  gloss = gloss
  Types = {definition}
  DefaultTypes <- DefinitionOnly
  Texts <- TwoTexts
  StoredStates <- AllStates
  Remembered <- FreshState
  SenseNames <- OneText
  EditTexts <- OneText
  Models = {m1}
  InitialModel = None
  EditFields = {"entry"}
  MaxRevision = 3
  MaxCards = 2
  MaxCommits = 1
SPECIFICATION Spec
PROPERTIES ReceiptRecognised
CHECK_DEADLOCK FALSE
