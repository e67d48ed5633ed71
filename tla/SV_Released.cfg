SPECIFICATION Spec
CHECK_DEADLOCK FALSE
CONSTANTS
  Clients = {c1}
  c1 = c1
  Requests = {"good"}
  Pipelining = FALSE
  Lookalikes = {}
  SecureMode = FALSE
  HandshakeTimeout = TRUE
  DefaultMaxPendingConnections = 1
  MaxPending = {}
  HandedOver = {}
  SlotSignals = {}
  NestedEventLoops = FALSE
  Messages = FALSE
  Deletes = TRUE
  Failures = {"flush"}
INVARIANTS
  Released
