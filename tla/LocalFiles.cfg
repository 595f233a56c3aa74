CONSTANTS
  Providers = {a, b}
  Procs = {p, q}
  None = None
  MaxCalls = 3
  MaxAttempts = 1
  MaxFaults = 1
SPECIFICATION FairSpec
INVARIANTS NothingLeftBehind
PROPERTIES StoreSpec Answered
CHECK_DEADLOCK FALSE
