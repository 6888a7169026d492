SPECIFICATION Spec
CONSTANTS
  Cores = {a, b}
  Nodes = {n1, n2, n3}
  ExchangeMayFail = TRUE
  MaxRemote = 1
SYMMETRY Symmetry
INVARIANT WaitsInQueue
