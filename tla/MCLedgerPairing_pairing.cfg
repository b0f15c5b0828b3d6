\* Two workers, entries that change their order or related type.
SPECIFICATION Spec
CONSTANTS
  NULL = NULL
  w1 = w1
  w2 = w2
  p1 = p1
  r1 = r1
  o1 = o1
  o2 = o2
  Workers = {w1, w2}
  TxIds = {p1, r1}
  Orders = {o1, o2}
  Statuses = {"CREATED", "SETTLED"}
  LedgerEvents <- MovingEvents
  OrderEvents = {}
  MaxClock = 1
SYMMETRY WorkerSymmetry
INVARIANTS
  TypeOK
  LedgerIsLatest
  PairLegsStored
  PairedUnlessRaced
PROPERTIES
  LedgerMerges
  NoRegressionUnlessRaced
