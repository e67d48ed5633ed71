SPECIFICATION FairSpec
CHECK_DEADLOCK FALSE
CONSTANTS
  Sides = {"client", "server"}
  Urls = {"ok", "badOrigin", "invalid"}
  Responses = {"partial", "101", "rejected", "401", "401close", "garbled", "oversized"}
  Extras = {"text", "close", "bad"}
  Frames = {"text", "ping", "close", "bad"}
  SlotSignals = {"connected", "disconnected", "textMessageReceived"}
  AppCalls = {"open", "close", "abort", "sendTextMessage", "ping", "flush", "destroy"}
  MaxOpens = 2
  MaxCalls = 4
  MaxFrames = 2
INVARIANTS
  StateMatchesSocket
  NothingBeforeHandshake
  CloseFrameIsLast
  EndedForAReason
  NeverNull
PROPERTIES
  CloseIsFinal
  CloseEnds
  ConnectingEnds
  ImplementsInterface
