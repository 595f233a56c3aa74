CONSTANTS
  None = None
  Torn = Torn
  Users = {ann, bob}
  Devices = {laptop, browser}
  Browsers = {browser}
  MaxCalls = 2
  MaxFaults = 2
SPECIFICATION Spec
INVARIANTS SignInIsWhole RegisteredOnce
PROPERTIES SyncOfOneAccount
CHECK_DEADLOCK FALSE
