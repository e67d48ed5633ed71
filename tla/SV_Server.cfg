SPECIFICATION FairSpec
CHECK_DEADLOCK FALSE
CONSTANTS
  Clients = {c1, c2}
  c1 = c1
  c2 = c2
  Requests = {"good", "invalid", "tooLarge"}
  Pipelining = FALSE
  Lookalikes = {}
  SecureMode = TRUE
  HandshakeTimeout = TRUE
  DefaultMaxPendingConnections = 1
  MaxPending = {}
  HandedOver = {}
  SlotSignals = {"originAuthenticationRequired", "newConnection", "serverError"}
  NestedEventLoops = FALSE
  Messages = TRUE
  Deletes = TRUE
  Failures = {"listen"}
INVARIANTS
  NoConnectionLost
  NoMessageMissed
PROPERTIES
  HandshakeEnds
  DisconnectedIsDeleted
  QueuedAreDeleted
