SPECIFICATION FairSpec
CHECK_DEADLOCK FALSE
CONSTANTS
  Discipline = "waits"
  NewMayFail = TRUE
  Urls = {"ok", "invalid", "insecure"}
  SlotSignals = {"connected", "disconnected", "errorOccurred", "textMessageReceived"}
  MaxOpens = 3
  MaxCalls = 5
INVARIANTS
  StateMatchesBrowser
PROPERTIES
  ImplementsInterface
