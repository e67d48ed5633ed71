SPECIFICATION Spec
CHECK_DEADLOCK FALSE
CONSTANTS
  Discipline = "orderly"
  NewMayFail = TRUE
  Urls = {"ok", "invalid", "insecure"}
  SlotSignals = {"connected", "errorOccurred", "aboutToClose", "textMessageReceived"}
  MaxOpens = 4
  MaxCalls = 7
INVARIANTS
  LeavesNoneOpen
