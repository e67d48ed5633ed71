SPECIFICATION Spec
CHECK_DEADLOCK FALSE
CONSTANTS
  Clients = {c1, c2}
  c1 = c1
  c2 = c2
  Requests = {"good", "refused", "invalid"}
  Pipelining = TRUE
  Lookalikes = {}
  SecureMode = FALSE
  HandshakeTimeout = TRUE
  DefaultMaxPendingConnections = 1
  MaxPending = {2}
  HandedOver = {c2}
  SlotSignals = {"originAuthenticationRequired", "newConnection"}
  NestedEventLoops = TRUE
  Messages = FALSE
  Deletes = FALSE
  Failures = {}
INVARIANTS
  AnnouncedOnce
PROPERTIES
  UpgradedIsLeftAlone
