SPECIFICATION Spec
CHECK_DEADLOCK FALSE
CONSTANTS
  Frames <- FragmentFrames
  maxAllowedFrameSize = 10
  maxAllowedMessageSize = 4
  m_readBufferSize <- Unlimited
  HighBit = 100000
  NestedEventLoops = FALSE
  ReadFailures = FALSE
  MaxFrames = 3
  MaxConnections = 2
INVARIANTS
  TypeOK
PROPERTIES
  ImplementsMessageStream
