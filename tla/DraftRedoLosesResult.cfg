CONSTANTS
  Blank = Blank
  None = None
  definition = definition
  word = word
  DefaultTypes <- DefinitionOnly
  Texts <- BothTexts
  InitialModel = m1
  StoredStates <- OneStored
  EditTexts <- OneText
  SenseNames <- OneText
  Types = {definition}
  Models = {m1}
  EditFields = {"entry"}
  MaxRevision = 8
  MaxCards = 1
SPECIFICATION DraftSpec
INVARIANTS UndoInvertsRedo
CHECK_DEADLOCK FALSE
