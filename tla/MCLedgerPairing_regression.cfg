\* Two workers: a complete pair goes back to incomplete.
SPECIFICATION Spec
CONSTANTS
  NULL = NULL
  w1 = w1
  w2 = w2
  p1 = p1
  r1 = r1
  o1 = o1
  o2 = o2
  Workers = {w1, w2}
  TxIds = {p1, r1}
  Orders = {o1}
  Statuses = {"CREATED", "SETTLED"}
  LedgerEvents <- OnePairEvents
  OrderEvents = {}
  MaxClock = 2
SYMMETRY WorkerSymmetry
PROPERTIES
  RegressionGuard
