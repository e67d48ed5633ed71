SPECIFICATION Spec
CHECK_DEADLOCK FALSE
CONSTANTS
  Frames <- HeaderFrames
  maxAllowedFrameSize = 65536
  maxAllowedMessageSize = 65537
  m_readBufferSize <- Unlimited
  HighBit = 100000
  NestedEventLoops = FALSE
  ReadFailures = TRUE
  MaxFrames = 1
  MaxConnections = 1
INVARIANTS
  InSync
  ParsedRight
PROPERTIES
  TimeoutHasCause
  ImplementsMessageStream
