CONSTANTS
  MaxConns = 0
  SynBase = 10
  MaxChans = 1
  MaxMsgs = 2
  MaxCmds = 2
  Names = {"netmd"}
  Methods = {"net.status"}
  Patterns = {"net.status"}
  Matching <- MCMatching
  WsClients = {w1, w2}
  MaxBadFrames = 1
SPECIFICATION WsFairSpec
INVARIANT CallAnsweredOnce
PROPERTIES CallReturns EventsArrive
CHECK_DEADLOCK FALSE
