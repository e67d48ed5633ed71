SPECIFICATION QFairSpec
CHECK_DEADLOCK FALSE
CONSTANTS
  Sides = {"client", "server"}
  Urls = {"ok", "other", "badScheme"}
  QmlUrls = {"ok", "other", "badScheme"}
  Responses = {"101", "rejected"}
  Extras = {}
  Frames = {"close"}
  SlotSignals = {"stateChanged", "errorOccurred"}
  Handled = {"Open", "Closing", "Closed", "Error", "activeChanged", "urlChanged"}
  Protocols = {"", "p"}
  AppCalls = {}
  MaxOpens = 5
  MaxCalls = 4
  MaxFrames = 1
INVARIANTS
  NegotiatedIsTrue
  UrlIsConnected
PROPERTIES
  InactiveCloses
