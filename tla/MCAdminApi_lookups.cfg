\* Two workers on one payment, one reader.
SPECIFICATION ApiSpec
CONSTANTS
  NULL = NULL
  w1 = w1
  w2 = w2
  p1 = p1
  r1 = r1
  o1 = o1
  a1 = a1
  W1 = W1
  Workers = {w1, w2}
  TxIds = {p1, r1}
  Orders = {o1}
  Statuses = {"CREATED"}
  LedgerEvents <- Payment
  OrderEvents <- PlacedOrder
  MaxClock = 0
  Readers = {a1}
  Wallets = {W1}
  WalletOf <- OneWallet
  MaxItems = 2
  MaxLookups = 1
SYMMETRY WorkerSymmetry
INVARIANTS
  
  TxLookupSeesPeer
  ViewsAgreeUnlessRaced
  
