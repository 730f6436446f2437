CONSTANTS
  MaxConns = 2
  SynBase = 10
  MaxChans = 0
  MaxMsgs = 1
  MaxCmds = 2
  Names = {"netmd"}
  Methods = {"net.status"}
  Patterns = {"net.status"}
  Matching <- MCMatching
  WsClients = {w1}
  MaxBadFrames = 0
SPECIFICATION WsFairSpec
PROPERTY WsPublishReachesSubscribers
CHECK_DEADLOCK FALSE
