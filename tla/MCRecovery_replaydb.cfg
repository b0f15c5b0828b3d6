CONSTANTS
  NULL = NULL
  RawAliases <- ProfileAliases
  Required <- ProfileRequired
  Times = {"t0", "t1", "t2"}
  Numbers = {"zero", "ten"}
  Versions = {"zero", "one"}
  Inputs <- FewInputs
  Window = {"t0", "t1"}
  Clock <- TimeClock
  DlqBackend = "db"
  OldLetters <- FewLetters
  Queries <- FewQueries
  MaxBackfills = 2
  MaxReplays = 1
SPECIFICATION Spec
INVARIANT TableReplayed
CHECK_DEADLOCK FALSE  \* both commands end
