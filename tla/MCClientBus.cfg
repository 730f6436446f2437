CONSTANTS
  MaxConns = 2
  SynBase = 10
  MaxChans = 0
  MaxMsgs = 1
  MaxCmds = 1
  Names = {"test-publisher"}
  Methods = {"test.topic"}
  Patterns <- MCPatterns
  Matching <- MCMatching
  BusClients = {0, 1}
  Topics = {"test.topic"}
  MaxFrames = 1
  MaxIds = 1
  MaxHandles = 1
SPECIFICATION BusFairSpec
PROPERTY PubSubRoundTrip
CHECK_DEADLOCK FALSE
