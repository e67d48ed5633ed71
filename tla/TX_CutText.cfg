SPECIFICATION Spec
CHECK_DEADLOCK FALSE
CONSTANTS
  Messages <- WideMessages
  Pings = {0, 125, 126}
  Reasons <- AsciiReasons
  FrameSizes = {2}
  maxOutgoingFrameSize = 5
  DefaultOutgoingFrameSize = 3
  m_mustMask = TRUE
  WriteFailures = FALSE
  MaxMessages = 2
  MaxPings = 1
  maxAllowedFrameSize = 125
  maxAllowedMessageSize = 200
  HighBit = 1000000
INVARIANTS
  NeverRefused
