SPECIFICATION Spec
CHECK_DEADLOCK FALSE
CONSTANTS
  Clients = {c1, c2}
  c1 = c1
  c2 = c2
  Requests = {"tooLarge"}
  Pipelining = FALSE
  Lookalikes = {}
  SecureMode = FALSE
  HandshakeTimeout = TRUE
  DefaultMaxPendingConnections = 1
  MaxPending = {}
  HandedOver = {}
  SlotSignals = {}
  NestedEventLoops = FALSE
  Messages = FALSE
  Deletes = FALSE
  Failures = {}
INVARIANTS
  EveryErrorSignalled
