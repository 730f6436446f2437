CONSTANTS
  MaxConns = 2
  SynBase = 10
  MaxChans = 0
  MaxMsgs = 2
  MaxCmds = 2
  Names = {"netmd"}
  Methods = {"net.status"}
  Patterns = {"net.status"}
  Matching <- MCMatching
SPECIFICATION Spec
INVARIANTS NoEcho PerSenderOrder
CHECK_DEADLOCK FALSE
