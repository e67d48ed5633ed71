SPECIFICATION FairSpec
CHECK_DEADLOCK FALSE
CONSTANTS
  Discipline = "none"
  NewMayFail = FALSE
  Urls = {"ok"}
  SlotSignals = {"stateChanged", "connected", "disconnected", "errorOccurred", "aboutToClose"}
  MaxOpens = 2
  MaxCalls = 4
INVARIANTS
  CanReopen
PROPERTIES
  ConnectingEnds
