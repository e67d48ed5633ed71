SPECIFICATION FairSpec
CHECK_DEADLOCK FALSE
CONSTANTS
  Sides = {"client"}
  Urls = {"ok"}
  Responses = {"101", "garbled"}
  Extras = {}
  Frames = {"text", "close"}
  SlotSignals = {}
  AppCalls = {"open", "close"}
  MaxOpens = 2
  MaxCalls = 3
  MaxFrames = 1
PROPERTIES
  EveryHandshakeEnds
