CONSTANTS
  MaxConns = 1
  SynBase = 10
  MaxChans = 2
  MaxMsgs = 1
  MaxCmds = 2
  Names = {"netmd"}
  Methods = {"net.status"}
  Patterns = {"net.status"}
  Matching <- MCMatching
  WsClients = {w1}
  MaxBadFrames = 0
SPECIFICATION WsSpec
INVARIANT DirectSubscriptionHeld
CHECK_DEADLOCK FALSE
