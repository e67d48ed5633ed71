SPECIFICATION QFairSpec
CHECK_DEADLOCK FALSE
CONSTANTS
  Sides = {"client"}
  Urls = {"ok"}
  QmlUrls = {"ok"}
  Responses = {"101", "rejected"}
  Extras = {}
  Frames = {"close"}
  SlotSignals = {"stateChanged", "errorOccurred"}
  Handled = {"Connecting"}
  Protocols = {"", "p"}
  AppCalls = {}
  MaxOpens = 4
  MaxCalls = 3
  MaxFrames = 1
PROPERTIES
  InactiveCloses
