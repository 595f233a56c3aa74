CONSTANTS
  Blank = Blank
  None = None
  definition = definition
  word = word
  gloss = gloss
  Types = {definition}
  DefaultTypes <- DefinitionOnly
  Texts <- AllTexts
  StoredStates <- AllStates
  Remembered <- RememberedState
  SenseNames <- OneText
  EditTexts <- OneText
  Models = {}
  InitialModel = None
  EditFields = {"entry", "instruction", "card"}
  MaxRevision = 2
  MaxCards = 1
  MaxCommits = 2
SPECIFICATION FairSpec
INVARIANTS FlushedOnExit
PROPERTIES SaveIsSettled SaveAnswered ClosingSettles
CHECK_DEADLOCK FALSE
