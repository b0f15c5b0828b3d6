\* Two consumers share a partition through crashes and rebalances, fair scheduling; DLQ table.
SPECIFICATION FairSyncSpec
CONSTANTS
  NULL = NULL
  c1 = c1
  c2 = c2
  k1 = k1
  t1 = t1
  Consumers = {c1, c2}
  Partitions = {k1}
  Topic <- OneTopic
  Keys = {t1}
  Events <- TwoVersions
  Publishable <- AnyMessage
  OffsetReset = "earliest"
  DlqBackend = "db"
  DlqPrunes = FALSE
  MaxLog = 2
  MaxFaults = 2
INVARIANTS
  LoopTypeOK
  NothingSkipped
  AckedIsInTable
PROPERTIES
  DeliversAtLeastOnce
  
CHECK_DEADLOCK FALSE  \* consumers poll in vain once every message is consumed
