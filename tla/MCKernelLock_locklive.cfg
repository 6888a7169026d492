SPECIFICATION FairSpec
CONSTANTS
  Cores = {a, b}
  Nodes = {n1, n2, n3}
  ExchangeMayFail = FALSE
  MaxRemote = 2
INVARIANT TargetsAnswer
PROPERTIES LockSpec RemoteCallReturns StallEnds
