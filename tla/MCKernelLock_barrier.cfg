SPECIFICATION Spec
CONSTANTS
  Cores = {a, b, c}
  Nodes = {n1, n2, n3, n4}
  ExchangeMayFail = FALSE
  MaxRemote = 1
SYMMETRY Symmetry
INVARIANT TargetsAnswer
