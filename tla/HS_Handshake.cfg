SPECIFICATION FairSpec
CHECK_DEADLOCK FALSE
CONSTANTS
  Peers = {"own", "foreignServer", "foreignClient"}
  ValidNames = {"a", "b", "c"}
  ListNames <- CommaNames
  Options <- OptionLists
  RawHeaders <- RawLists
  Origins = {"", "origin", "newline"}
  Supported <- SupportedSets
  ForeignRequests <- Requests
  ForeignResponses <- Responses
  MaxOpens = 2
  MaxKeys = 2
INVARIANTS
  Agreement
  Negotiated
PROPERTIES
  OwnRequestsAccepted
  AnswersLastRequest
  HandshakeConcludes
