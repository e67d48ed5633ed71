SPECIFICATION FairSpec
CHECK_DEADLOCK FALSE
CONSTANTS
  Messages <- SomeMessages
  Pings = {0, 126}
  Reasons <- AsciiReasons
  FrameSizes = {0, 65532, 65538}
  maxOutgoingFrameSize = 65537
  DefaultOutgoingFrameSize = 65536
  m_mustMask = TRUE
  WriteFailures = TRUE
  MaxMessages = 2
  MaxPings = 1
  maxAllowedFrameSize = 65537
  maxAllowedMessageSize = 200000
  HighBit = 1000000
INVARIANTS
  MessagesArrive
PROPERTIES
  EveryMessageArrives
