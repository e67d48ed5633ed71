SPECIFICATION Spec
CHECK_DEADLOCK FALSE
CONSTANTS
  Discipline = "orderly"
  NewMayFail = FALSE
  Urls = {"ok"}
  SlotSignals = {}
  MaxOpens = 2
  MaxCalls = 4
INVARIANTS
  NothingCallsBack
