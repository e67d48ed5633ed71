SPECIFICATION Spec
CONSTANTS
  Frames <- FewFrames
  maxAllowedFrameSize = 10
  maxAllowedMessageSize = 10
  m_readBufferSize <- Unlimited
  HighBit = 100000
  NestedEventLoops = FALSE
  ReadFailures = FALSE
  MaxFrames = 1
  MaxConnections = 1
INVARIANT IncompleteFrameIsTimed
CHECK_DEADLOCK FALSE
