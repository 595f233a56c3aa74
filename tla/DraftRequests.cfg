CONSTANTS
  Blank = Blank
  None = None
  definition = definition
  word = word
  DefaultTypes <- DefinitionOnly
  Texts <- BothTexts
  InitialModel = None
  StoredStates <- OneStored
  EditTexts <- OneText
  SenseNames <- OneText
  Types = {definition}
  Models = {m1}
  EditFields = {"entry", "instruction", "card"}
  MaxRevision = 5
  MaxCards = 2
SPECIFICATION FairDraftSpec
INVARIANTS RequestsInStep RedoInvertsUndo
PROPERTIES ReplyFitsDraft ReplyKeepsText LoadingEnds
CHECK_DEADLOCK FALSE
