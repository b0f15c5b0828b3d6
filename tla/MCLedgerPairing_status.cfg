\* Two workers, one payment whose order comes in two versions; fair row locks.
SPECIFICATION FairSpec
CONSTANTS
  NULL = NULL
  w1 = w1
  w2 = w2
  p1 = p1
  r1 = r1
  o1 = o1
  o2 = o2
  Workers = {w1, w2}
  TxIds = {p1, r1}
  Orders = {o1}
  Statuses = {"CREATED", "SETTLED"}
  LedgerEvents <- OnePairEvents
  OrderEvents <- SettledOrder
  MaxClock = 0
INVARIANTS
  OrdersAreLatest
PROPERTIES
  StatusAdvancesUnlessRaced
  TransactionsEnd
