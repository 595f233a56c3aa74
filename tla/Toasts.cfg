CONSTANTS
  MaxToasts = 3
  VisibleToasts = 2
  Options <- SomeOptions
  Promises <- SomePromises
  MaxCalls = 3
  MaxHovers = 1
SPECIFICATION ToastSpec
INVARIANTS ShowsLatest WithinLimit ClosesItself
PROPERTIES OutcomeReported
CHECK_DEADLOCK FALSE
