SPECIFICATION FairSpec
CHECK_DEADLOCK FALSE
CONSTANTS
  Frames <- FewFrames
  maxAllowedFrameSize = 10
  maxAllowedMessageSize = 10
  m_readBufferSize <- SmallSecond
  HighBit = 100000
  NestedEventLoops = TRUE
  ReadFailures = FALSE
  MaxFrames = 3
  MaxConnections = 2
PROPERTIES
  NothingAfterClose
  EmissionEnds
  EveryFrameHandled
