CONSTANTS
  Languages = {eng, pol}
  Full = full
  Crops = {crop}
  Outside = {outside}
  Invalid = {invalid}
  Backlog = 0
  MaxJobs = 2
  MaxFaults = 2
SPECIFICATION Spec
INVARIANTS AnswerIsOwn CleanedUp
PROPERTIES CleanupEnds
CHECK_DEADLOCK FALSE
