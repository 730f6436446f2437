CONSTANTS
  MaxConns = 2
  SynBase = 10
  MaxChans = 1
  MaxMsgs = 1
  MaxCmds = 2
  Names = {"netmd"}
  Methods = {"net.status"}
  Patterns = {"net.status"}
  Matching <- MCMatching
SPECIFICATION FairSpec
INVARIANTS TypeOK NoDanglingRoute
PROPERTIES PublishReachesSubscribers ClosedIsForgotten
CHECK_DEADLOCK FALSE
