\* One consumer and a message that neither parses nor has a UTF-8 key.
SPECIFICATION FairSpec
CONSTANTS
  NULL = NULL
  c1 = c1
  k1 = k1
  Consumers = {c1}
  Partitions = {k1}
  Topic <- OneTopic
  Events = {}
  Publishable <- PoisonOnly
  OffsetReset = "earliest"
  DlqBackend = "db"
  DlqPrunes = FALSE
  MaxLog = 1
  MaxFaults = 0
PROPERTIES
  ParseFailuresSettled
CHECK_DEADLOCK FALSE  \* consumers poll in vain once every message is consumed
