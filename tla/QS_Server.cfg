SPECIFICATION Spec
CHECK_DEADLOCK FALSE
CONSTANTS
  Ports = {0, 1, 2}
  Busy = {}
  AutoPort = 3
  Hosts = {"127.0.0.1", "::0001"}
  Address <- AddressOf
  Names = {"x"}
  SlotSignals = {"listenChanged", "nameChanged", "acceptChanged"}
  MaxCalls = 5
INVARIANTS
  UrlIsTrue
  Listens
