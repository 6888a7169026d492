SPECIFICATION Spec
CONSTANTS
  Cores = {a, b, c}
  Nodes = {n1, n2, n3, n4}
  ExchangeMayFail = TRUE
  MaxRemote = 1
CHECK_DEADLOCK FALSE
SYMMETRY Symmetry
INVARIANTS TypeOK OwnerFirst CallsSynchronous NoIPIAssertionFails StalledThread
PROPERTIES LockOrder
