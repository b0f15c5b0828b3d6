----------------------------- MODULE RecoveryProofs -----------------------------
(***************************************************************************)
(* The backfill accounts for every record, and stores what its payload     *)
(* says; a replay of the file produces what it was asked for: for all      *)
(* files, ranges, profiles of either order, queries and failures.          *)
(***************************************************************************)
EXTENDS Recovery, FiniteSetTheorems, SequenceTheorems, TLAPS

\* The lines the backfill is done with, also when it has raised at a later one.
Done(k, n) ==
  /\ input[k][n].form = "object"
  /\ \/ k = "ledger" /\ kind = "payment_order"
     \/ k = kind /\ (n < line \/ (n = line /\ stage \in {"reading", "ended"}))

Accounted(k, n) == OutOfRange(k, n) \/ <<k, n>> \in DOMAIN rows \cup dead \cup lost

\* A record in the works is a line of the file, an object.
BackfillStage ==
  /\ input \in Inputs
  /\ kind \in Kinds /\ line \in 0..Len(input[kind])
  /\ stage \in {"idle", "reading", "handling", "dlq_db", "dlq_file", "ended", "raised"}
  /\ stage = "idle" => line = 0 /\ kind = "ledger"
  /\ stage \in {"handling", "dlq_db", "dlq_file"} =>
       line >= 1 /\ input[kind][line].form = "object"

AccountInv ==
  /\ BackfillStage
  /\ \A k \in Kinds : \A n \in 1..Len(input[k]) : Done(k, n) => Accounted(k, n)

LEMMA AccountInit == Init => AccountInv
BY RecoveryAssumption DEF Init, AccountInv, BackfillStage, Done, Kinds

\* A step that passes no record and forgets none.
LEMMA AccountKept ==
  ASSUME AccountInv, BackfillStage', UNCHANGED input,
         DOMAIN rows \subseteq DOMAIN rows', dead \subseteq dead', lost \subseteq lost',
         \A k \in Kinds : \A n \in 1..Len(input[k]) : Done(k, n)' => Done(k, n) \/ Accounted(k, n)'
  PROVE  AccountInv'
BY DEF AccountInv, Accounted, OutOfRange

\* The record in the works is the only one that is done with next.
LEMMA DoneHere ==
  ASSUME AccountInv, stage \in {"handling", "dlq_db", "dlq_file"},
         UNCHANGED <<input, kind, line>>
  PROVE  \A k \in Kinds : \A n \in 1..Len(input[k]) :
           Done(k, n)' => \/ Done(k, n)
                          \/ k = kind /\ n = line /\ stage' \in {"reading", "ended"}
BY DEF AccountInv, BackfillStage, Done

LEMMA AccountNext == AccountInv /\ [Next]_vars => AccountInv'
<1> SUFFICES ASSUME AccountInv, [Next]_vars PROVE AccountInv'
  OBVIOUS
<1> USE RecoveryAssumption DEF AccountInv
<1>1. CASE StartBackfill
  <2>1. BackfillStage'
    BY <1>1 DEF StartBackfill, BackfillStage, Kinds
  <2>2. \A k \in Kinds : \A n \in 1..Len(input[k]) : ~Done(k, n)'
    BY <1>1 DEF StartBackfill, BackfillStage, Done, Kinds
  <2> QED
    BY <1>1, <2>1, <2>2, AccountKept DEF StartBackfill
<1>2. CASE ReadLine
  <2>1. BackfillStage'
    BY <1>2 DEF ReadLine, BackfillStage, Kinds
  <2>2. \A k \in Kinds : \A n \in 1..Len(input[k]) : Done(k, n)' => Done(k, n)
    BY <1>2 DEF ReadLine, BackfillStage, Done, Kinds
  <2> QED
    BY <1>2, <2>1, <2>2, AccountKept DEF ReadLine
<1>3. CASE EndOfFile
  <2>1. BackfillStage'
    BY <1>3 DEF EndOfFile, BackfillStage, Kinds
  <2>2. \A k \in Kinds : \A n \in 1..Len(input[k]) : Done(k, n)' => Done(k, n)
    BY <1>3 DEF EndOfFile, BackfillStage, Done, Kinds
  <2> QED
    BY <1>3, <2>1, <2>2, AccountKept DEF EndOfFile
<1>4. CASE SkipOutOfRange
  <2>1. BackfillStage'
    BY <1>4 DEF SkipOutOfRange, BackfillStage, Kinds
  <2>2. Accounted(kind, line)'
    BY <1>4 DEF SkipOutOfRange, Accounted, OutOfRange, IsEvent, Event, Payload
  <2> QED
    BY <1>4, <2>1, <2>2, AccountKept, DoneHere DEF SkipOutOfRange
<1>5. CASE StoreRecord
  <2>1. BackfillStage'
    BY <1>5 DEF StoreRecord, BackfillStage, Kinds
  <2>2. Accounted(kind, line)' /\ DOMAIN rows \subseteq DOMAIN rows'
    BY <1>5 DEF StoreRecord, WithRow, Accounted, Here
  <2> QED
    BY <1>5, <2>1, <2>2, AccountKept, DoneHere DEF StoreRecord
<1>6. CASE FailRecord
  <2>1. BackfillStage'
    BY <1>6 DEF FailRecord, BackfillStage, Kinds
  <2>2. \A k \in Kinds : \A n \in 1..Len(input[k]) : Done(k, n)' => Done(k, n)
    BY <1>6 DEF FailRecord, BackfillStage, Done
  <2>3. DOMAIN rows \subseteq DOMAIN rows'
    BY <1>6 DEF FailRecord, WithRow
  <2> QED
    BY <1>6, <2>1, <2>2, <2>3, AccountKept DEF FailRecord
<1>7. CASE WriteLetterDb
  <2>1. BackfillStage'
    BY <1>7 DEF WriteLetterDb, BackfillStage, Kinds
  <2>2. stage' = "reading" => Accounted(kind, line)'
    BY <1>7 DEF WriteLetterDb, Accounted, Here
  <2>3. dead \subseteq dead'
    BY <1>7 DEF WriteLetterDb
  <2> QED
    BY <1>7, <2>1, <2>2, <2>3, AccountKept, DoneHere DEF WriteLetterDb
<1>8. CASE WriteLetterFile
  <2>1. BackfillStage'
    BY <1>8 DEF WriteLetterFile, BackfillStage, Kinds
  <2>2. Accounted(kind, line)'
    BY <1>8 DEF WriteLetterFile, Accounted, Here
  <2>3. dead \subseteq dead' /\ lost \subseteq lost'
    BY <1>8 DEF WriteLetterFile
  <2> QED
    BY <1>8, <2>1, <2>2, <2>3, AccountKept, DoneHere DEF WriteLetterFile
<1>9. CASE Interrupt
  <2>1. BackfillStage'
    BY <1>9 DEF Interrupt, BackfillStage, Kinds
  <2>2. \A k \in Kinds : \A n \in 1..Len(input[k]) : Done(k, n)' => Done(k, n)
    BY <1>9 DEF Interrupt, BackfillStage, Done
  <2> QED
    BY <1>9, <2>1, <2>2, AccountKept DEF Interrupt
<1>10. CASE Replay \/ UNCHANGED vars
  <2>1. UNCHANGED <<input, backfillVars>>
    BY <1>10
    DEF Replay, StartReplay, SkipLine, ReplayLine, ReplayTornLine, EndReplayFile,
        SelectLetters, ProduceRows, vars
  <2> QED
    BY <2>1
    DEF backfillVars, BackfillStage, Done, Accounted, OutOfRange
<1> QED
  BY <1>1, <1>2, <1>3, <1>4, <1>5, <1>6, <1>7, <1>8, <1>9, <1>10 DEF Next, Backfill

\* A backfill is done with a record only when its event is stored or out of range,
\* a letter was written or none could be: no skip, failure or interruption hides
\* another record (run_backfill).
THEOREM Accounts == Spec => []BackfillAccounts
<1>1. AccountInv => BackfillAccounts
  BY DEF AccountInv, BackfillStage, BackfillAccounts, Passed, Done, Accounted
<1> QED
  BY <1>1, AccountInit, AccountNext, PTL DEF Spec

-------------------------------------------------------------------------------
(* The metrics *)

\* A letter is being written for a record that is counted already.
Failing == stage \in {"dlq_db", "dlq_file"}

\* The lines that the backfill which runs has counted.
Counted(k) ==
  {n \in 1..Len(input[k]) :
     /\ input[k][n].form = "object" /\ ~OutOfRange(k, n)
     /\ \/ k = "ledger" /\ kind = "payment_order"
        \/ k = kind /\ (n < line \/ (n = line /\ (stage \in {"reading", "ended"} \/ Failing)))}

Tally(k) == metrics[k].success + metrics[k].error = Cardinality(Counted(k))

NewestStored(k) ==
  metrics[k].newest # NULL =>
    \E n \in Counted(k) : <<k, n>> \in DOMAIN rows /\ TimeAt(k, n) = metrics[k].newest

NotNewer(k, n) ==
  TimeAt(k, n) \in Times /\ metrics[k].newest # NULL /\ Clock[TimeAt(k, n)] <= Clock[metrics[k].newest]

NewestLast(k) ==
  \A n \in Counted(k) :
    \/ <<k, n>> \in dead \cup lost
    \/ k = kind /\ n = line /\ Failing
    \/ NotNewer(k, n)

Metrics == [Kinds -> [success : Nat, error : Nat, newest : Times \cup {NULL}]]

MetricsInv ==
  /\ metrics \in Metrics
  /\ stage \notin {"idle", "raised"} =>
       \A k \in Kinds : Tally(k) /\ NewestStored(k) /\ NewestLast(k)

LEMMA MetricsInit == Init => MetricsInv
BY DEF Init, MetricsInv, Metrics, NoMetrics

LEMMA CountedFinite ==
  ASSUME AccountInv, NEW k \in Kinds
  PROVE  IsFiniteSet(Counted(k))
<1>1. Len(input[k]) \in Nat
  BY RecoveryAssumption DEF AccountInv, BackfillStage
<1>2. IsFiniteSet(1..Len(input[k])) /\ Counted(k) \in SUBSET (1..Len(input[k]))
  BY <1>1, FS_Interval DEF Counted
<1> QED
  BY <1>2, FS_Subset

\* A step that counts nothing and forgets nothing.
LEMMA MetricsKept ==
  ASSUME MetricsInv, stage \notin {"idle", "raised"}, UNCHANGED <<input, metrics>>,
         \A k \in Kinds : Counted(k)' = Counted(k),
         DOMAIN rows \subseteq DOMAIN rows', dead \subseteq dead', lost \subseteq lost',
         Failing => \/ Failing' /\ UNCHANGED <<kind, line>>
                    \/ Here \in dead' \cup lost'
  PROVE  MetricsInv'
<1>1. \A k \in Kinds : Tally(k)' /\ NewestStored(k)'
  BY DEF MetricsInv, Tally, NewestStored, TimeAt
<1>2. \A k \in Kinds : NewestLast(k)'
  BY DEF MetricsInv, NewestLast, NotNewer, TimeAt, Here
<1> QED
  BY <1>1, <1>2 DEF MetricsInv

\* A record that is counted is the next one.
LEMMA CountedNext ==
  ASSUME AccountInv, stage = "handling", ~OutOfRange(kind, line),
         UNCHANGED <<input, kind, line>>, stage' = "reading" \/ Failing'
  PROVE  /\ line \notin Counted(kind)
         /\ Counted(kind)' = Counted(kind) \cup {line}
         /\ \A k \in Kinds \ {kind} : Counted(k)' = Counted(k)
<1> USE DEF AccountInv, BackfillStage, Failing, Kinds
<1>1. line \in 1..Len(input[kind]) /\ Len(input[kind]) \in Nat
  BY RecoveryAssumption
<1>2. \A k, n : OutOfRange(k, n)' = OutOfRange(k, n)
  BY DEF OutOfRange
<1>3. line \notin Counted(kind)
  BY <1>1 DEF Counted
<1>4. Counted(kind)' = Counted(kind) \cup {line}
  BY <1>1, <1>2 DEF Counted
<1>5. \A k \in Kinds \ {kind} : Counted(k)' = Counted(k)
  BY <1>2 DEF Counted
<1> QED
  BY <1>3, <1>4, <1>5

LEMMA MetricsNext == AccountInv /\ MetricsInv /\ [Next]_vars => MetricsInv'
<1> SUFFICES ASSUME AccountInv, MetricsInv, [Next]_vars PROVE MetricsInv'
  OBVIOUS
<1> DEFINE OneMore == /\ Counted(kind)' = Counted(kind) \cup {line}
                      /\ Cardinality(Counted(kind)') = Cardinality(Counted(kind)) + 1
                      /\ \A k \in Kinds \ {kind} : Counted(k)' = Counted(k)
<1>0. /\ kind \in Kinds /\ line \in 1..Len(input[kind]) \cup {0}
      /\ metrics \in Metrics
      /\ \A k \in Kinds : Len(input[k]) \in Nat /\ IsFiniteSet(Counted(k))
  BY RecoveryAssumption, CountedFinite DEF AccountInv, BackfillStage, MetricsInv
<1>1. CASE StartBackfill
  <2>1. \A k \in Kinds : Counted(k)' = {}
    BY <1>0, <1>1 DEF StartBackfill, Counted, Kinds
  <2>2. \A k \in Kinds : metrics'[k] = [success |-> 0, error |-> 0, newest |-> NULL]
    BY <1>1 DEF StartBackfill, NoMetrics
  <2>3. \A k \in Kinds : Tally(k)'
    BY <2>1, <2>2, FS_EmptySet DEF Tally
  <2>4. \A k \in Kinds : NewestStored(k)' /\ NewestLast(k)'
    BY <2>1, <2>2 DEF NewestStored, NewestLast
  <2> QED
    BY <1>1, <2>3, <2>4 DEF StartBackfill, NoMetrics, MetricsInv, Metrics
<1>2. CASE ReadLine
  <2>1. CASE stage' = "raised"
    BY <1>0, <1>2, <2>1 DEF ReadLine, MetricsInv
  <2>2. CASE stage' # "raised"
    <3>1. \A k \in Kinds : Counted(k)' = Counted(k)
      BY <1>0, <1>2, <2>2, RecoveryAssumption
      DEF ReadLine, Counted, OutOfRange, Failing, Kinds, AccountInv, BackfillStage
    <3> QED
      BY <1>2, <3>1, MetricsKept DEF ReadLine, Failing
  <2> QED
    BY <2>1, <2>2
<1>3. CASE EndOfFile
  <2>1. \A k \in Kinds : Counted(k)' = Counted(k)
    BY <1>0, <1>3 DEF EndOfFile, Counted, OutOfRange, Failing, Kinds
  <2> QED
    BY <1>3, <2>1, MetricsKept DEF EndOfFile, Failing
<1>4. CASE SkipOutOfRange
  <2>1. OutOfRange(kind, line)
    BY <1>4 DEF SkipOutOfRange, OutOfRange, IsEvent, Event, Payload
  <2>2. \A k \in Kinds : Counted(k)' = Counted(k)
    BY <1>0, <1>4, <2>1 DEF SkipOutOfRange, Counted, OutOfRange, Failing, Kinds
  <2> QED
    BY <1>4, <2>2, MetricsKept DEF SkipOutOfRange, Failing
<1>5. CASE StoreRecord
  <2> DEFINE time == TimeAt(kind, line)
  <2>1. /\ time \in Times /\ ~OutOfRange(kind, line)
        /\ metrics' = [metrics EXCEPT ![kind].success = @ + 1,
                                     ![kind].newest = RecordTime(@, time)]
    BY <1>5, RecoveryAssumption DEF StoreRecord, TimeAt, OutOfRange, Event, Payload
  <2>2. OneMore
    BY <1>0, <1>5, <2>1, CountedNext, FS_AddElement DEF StoreRecord
  <2> DEFINE old == metrics[kind]
             new == [old EXCEPT !.success = @ + 1, !.newest = RecordTime(@, time)]
  <2>3. /\ old \in [success : Nat, error : Nat, newest : Times \cup {NULL}]
        /\ RecordTime(old.newest, time) \in {time, old.newest} \ {NULL}
        /\ Clock[time] <= Clock[RecordTime(old.newest, time)]
        /\ old.newest # NULL =>
             Clock[old.newest] <= Clock[RecordTime(old.newest, time)]
    BY <1>0, <2>1, RecoveryAssumption DEF RecordTime, Metrics
  <2>4. metrics' = [metrics EXCEPT ![kind] = new]
    BY <1>0, <2>1 DEF Metrics
  <2>5. /\ metrics' \in Metrics
        /\ metrics'[kind].success + metrics'[kind].error = old.success + old.error + 1
        /\ metrics'[kind].newest = RecordTime(old.newest, time)
        /\ \A k \in Kinds \ {kind} : metrics'[k] = metrics[k]
    <3>1. /\ new.success = old.success + 1 /\ new.error = old.error
          /\ new.newest = RecordTime(old.newest, time)
      BY <2>3
    <3>2. new \in [success : Nat, error : Nat, newest : Times \cup {NULL}]
      <4> DEFINE Row == [success : Nat, error : Nat, newest : Times \cup {NULL}]
                 one == [old EXCEPT !.success = @ + 1]
      <4>1. one \in Row /\ one.newest = old.newest
        BY <2>3
      <4>2. new = [one EXCEPT !.newest = RecordTime(old.newest, time)]
        BY <4>1
      <4>3. RecordTime(old.newest, time) \in Times \cup {NULL}
        BY <2>1, <2>3
      <4> HIDE DEF one
      <4> QED
        BY <4>1, <4>2, <4>3
    <3> HIDE DEF new
    <3> QED
      BY <1>0, <2>3, <2>4, <3>1, <3>2 DEF Metrics
  <2>6. /\ <<kind, line>> \in DOMAIN rows' /\ DOMAIN rows \subseteq DOMAIN rows'
        /\ \A k, n : TimeAt(k, n)' = TimeAt(k, n)
        /\ \A k \in Kinds : Tally(k) /\ NewestStored(k) /\ NewestLast(k)
        /\ kind' = kind
    BY <1>5 DEF StoreRecord, WithRow, Here, TimeAt, MetricsInv
  <2>7. \A k \in Kinds \ {kind} : Tally(k)' /\ NewestStored(k)' /\ NewestLast(k)'
    BY <1>5, <2>2, <2>5, <2>6
    DEF StoreRecord, Tally, NewestStored, NewestLast, NotNewer, Failing
  <2>8. Tally(kind)'
    BY <1>0, <2>2, <2>3, <2>5, <2>6 DEF Tally
  <2>9. NewestStored(kind)'
    BY <1>0, <2>2, <2>3, <2>5, <2>6 DEF NewestStored
  <2>10. ASSUME NEW n \in Counted(kind)', n = line \/ NotNewer(kind, n)
         PROVE  NotNewer(kind, n)'
    BY <2>1, <2>3, <2>5, <2>6, <2>10, RecoveryAssumption DEF NotNewer
  <2>11. NewestLast(kind)'
    BY <1>0, <1>5, <2>2, <2>6, <2>10 DEF StoreRecord, NewestLast, Failing
  <2> QED
    BY <2>5, <2>6, <2>7, <2>8, <2>9, <2>11 DEF MetricsInv
<1>6. CASE FailRecord
  <2>1. ~OutOfRange(kind, line) /\ Failing'
    BY <1>6 DEF FailRecord, OutOfRange, IsEvent, Event, Payload, Failing
  <2>2. OneMore
    BY <1>0, <1>6, <2>1, CountedNext, FS_AddElement DEF FailRecord
  <2> DEFINE old == metrics[kind]
             new == [success |-> old.success, error |-> old.error + 1,
                     newest |-> old.newest]
  <2>3. old \in [success : Nat, error : Nat, newest : Times \cup {NULL}]
    BY <1>0 DEF Metrics
  <2>4. metrics' = [metrics EXCEPT ![kind] = new]
    <3>1. new = [old EXCEPT !.error = @ + 1]
      BY <2>3
    <3> QED
      BY <1>0, <1>6, <3>1 DEF FailRecord, Metrics
  <2>5. /\ metrics' \in Metrics /\ metrics'[kind] = new
        /\ \A k \in Kinds \ {kind} : metrics'[k] = metrics[k]
    BY <1>0, <2>3, <2>4 DEF Metrics
  <2>6. /\ DOMAIN rows \subseteq DOMAIN rows' /\ UNCHANGED <<kind, line, dead, lost>>
        /\ \A k, n : TimeAt(k, n)' = TimeAt(k, n)
        /\ \A k \in Kinds : Tally(k) /\ NewestStored(k) /\ NewestLast(k)
    BY <1>6 DEF FailRecord, WithRow, TimeAt, MetricsInv
  <2>7. \A k \in Kinds : metrics'[k].newest = metrics[k].newest
    BY <2>5
  <2>8. \A k \in Kinds : Tally(k)'
    <3>1. Tally(kind)'
      BY <1>0, <2>2, <2>3, <2>5, <2>6 DEF Tally
    <3>2. \A k \in Kinds \ {kind} : Tally(k)'
      BY <2>2, <2>5, <2>6 DEF Tally
    <3> QED
      BY <2>6, <3>1, <3>2
  <2>9. \A k \in Kinds : NewestStored(k)'
    BY <1>0, <2>2, <2>6, <2>7 DEF NewestStored
  <2>10. \A k \in Kinds : \A n : NotNewer(k, n) => NotNewer(k, n)'
    BY <2>6, <2>7 DEF NotNewer
  <2>11. ~Failing
    BY <1>6 DEF FailRecord, Failing
  <2>12. \A k \in Kinds : NewestLast(k)'
    BY <1>0, <2>1, <2>2, <2>6, <2>10, <2>11 DEF NewestLast
  <2> QED
    BY <2>5, <2>8, <2>9, <2>12 DEF MetricsInv
<1>7. CASE WriteLetterDb \/ WriteLetterFile
  <2>1. \A k \in Kinds : Counted(k)' = Counted(k)
    BY <1>0, <1>7
    DEF WriteLetterDb, WriteLetterFile, Counted, OutOfRange, Failing
  <2>2. Failing' \/ Here \in dead' \cup lost'
    BY <1>7 DEF WriteLetterDb, WriteLetterFile, Failing
  <2> QED
    BY <1>7, <2>1, <2>2, MetricsKept DEF WriteLetterDb, WriteLetterFile, Failing
<1>8. CASE Interrupt
  BY <1>8 DEF Interrupt, MetricsInv
<1>9. CASE Replay \/ UNCHANGED vars
  <2>1. UNCHANGED <<input, backfillVars>>
    BY <1>9
    DEF Replay, StartReplay, SkipLine, ReplayLine, ReplayTornLine, EndReplayFile,
        SelectLetters, ProduceRows, vars
  <2>2. \A k \in Kinds : Counted(k)' = Counted(k)
    BY <2>1 DEF backfillVars, Counted, OutOfRange, Failing
  <2>3. CASE stage \in {"idle", "raised"}
    BY <2>1, <2>3 DEF backfillVars, MetricsInv
  <2>4. CASE stage \notin {"idle", "raised"}
    BY <2>1, <2>2, <2>4, MetricsKept DEF backfillVars, Failing
  <2> QED
    BY <2>3, <2>4
<1> QED
  BY <1>1, <1>2, <1>3, <1>4, <1>5, <1>6, <1>7, <1>8, <1>9 DEF Next, Backfill

\* Each record a backfill was to store is counted once, as a success or an error,
\* and the freshness of a topic is that of the newest record it has stored
\* (FreshnessTracker and record_consumer_message, as run_backfill calls them).
THEOREM MetricsFollow == Spec => []MetricsAccount
<1>1. AccountInv /\ MetricsInv => MetricsAccount
  <2> SUFFICES ASSUME AccountInv, MetricsInv, stage \in {"reading", "ended"},
                      NEW k \in Kinds
               PROVE  /\ Due(k) = Counted(k)
                      /\ Tally(k) /\ NewestStored(k) /\ NewestLast(k) /\ ~Failing
    BY DEF MetricsAccount, Tally, NewestStored, NewestLast, NotNewer
  <2> QED
    BY DEF AccountInv, BackfillStage, Due, Counted, Passed, MetricsInv, Failing
<1> QED
  BY <1>1, AccountInit, AccountNext, MetricsInit, MetricsNext, PTL DEF Spec

-------------------------------------------------------------------------------
(* What is stored. *)

\* A row was written from an object of its file that is an event.
RowsInv ==
  \A key \in DOMAIN rows :
    /\ key[1] \in Kinds
    /\ Classify(key[1], input[key[1]][key[2]].payload) = "event"
    /\ rows[key] = EventFrom(key[1], input[key[1]][key[2]].payload)

LEMMA RowsNext == AccountInv /\ RowsInv /\ [Next]_vars => RowsInv'
<1> SUFFICES ASSUME AccountInv, RowsInv, [Next]_vars PROVE RowsInv'
  OBVIOUS
<1>1. ASSUME IsEvent, rows' \in {rows, WithRow}, UNCHANGED input PROVE RowsInv'
  BY <1>1
  DEF AccountInv, BackfillStage, RowsInv, IsEvent, WithRow, Event, Payload, Here
<1>2. CASE StoreRecord \/ FailRecord
  BY <1>1, <1>2 DEF StoreRecord, FailRecord, RowsInv
<1>3. CASE ~(StoreRecord \/ FailRecord)
  <2>1. UNCHANGED <<input, rows>>
    BY <1>3
    DEF Next, Backfill, StartBackfill, ReadLine, EndOfFile, SkipOutOfRange, WriteLetterDb,
        WriteLetterFile, Interrupt, Replay, StartReplay, SkipLine, ReplayLine,
        ReplayTornLine, EndReplayFile, SelectLetters, ProduceRows, vars, backfillVars
  <2> QED
    BY <2>1 DEF RowsInv
<1> QED
  BY <1>2, <1>3

\* The names of a group are its canonical name and its aliases.
LEMMA AliasNames ==
  ASSUME NEW k \in Kinds, NEW c \in DOMAIN RawAliases[k], NEW f \in GroupOf(k, c)
  PROVE  /\ c \in DOMAIN Aliases[k]
         /\ \E i \in 1..Len(Aliases[k][c]) : Aliases[k][c][i] = f
<1> DEFINE raw == RawAliases[k][c]
<1>1. raw \in Seq(STRING)
  BY ContractAssumption
<1>2. PICK T : c \in T /\ STRING \subseteq T
  <2>1. c \in STRING \cup {c} /\ STRING \subseteq STRING \cup {c}
    OBVIOUS
  <2> QED
    BY <2>1
<1>3. Aliases[k][c] = IF \E i \in 1..Len(raw) : raw[i] = c THEN raw ELSE <<c>> \o raw
  BY DEF Aliases, ToAliasMap
<1>4. CASE \E i \in 1..Len(raw) : raw[i] = c
  BY <1>3, <1>4 DEF GroupOf, Aliases, ToAliasMap
<1>5. CASE ~\E i \in 1..Len(raw) : raw[i] = c
  <2>1. /\ Len(<<c>> \o raw) = 1 + Len(raw)
        /\ (<<c>> \o raw)[1] = c
        /\ \A i \in 1..Len(raw) : (<<c>> \o raw)[1 + i] = raw[i]
    BY <1>1, <1>2
  <2>2. Len(raw) \in Nat
    BY <1>1
  <2>3. c \in DOMAIN Aliases[k]
    BY DEF Aliases, ToAliasMap
  <2>4. CASE f = c
    BY <1>3, <1>5, <2>1, <2>2, <2>3, <2>4
  <2>5. CASE f # c
    <3>1. PICK i \in 1..Len(raw) : raw[i] = f
      BY <2>5 DEF GroupOf
    <3>2. 1 + i \in 1..Len(<<c>> \o raw) /\ (<<c>> \o raw)[1 + i] = f
      BY <2>1, <2>2, <3>1
    <3> QED
      BY <1>3, <1>5, <2>3, <3>2
  <2> QED
    BY <2>4, <2>5
<1> QED
  BY <1>4, <1>5

\* And nothing else is.
LEMMA NamesOfGroup ==
  ASSUME NEW k \in Kinds, NEW c \in DOMAIN RawAliases[k],
         NEW i \in 1..Len(Aliases[k][c])
  PROVE  Aliases[k][c][i] \in GroupOf(k, c)
<1> DEFINE raw == RawAliases[k][c]
<1>1. raw \in Seq(STRING) /\ Len(raw) \in Nat
  BY ContractAssumption
<1>2. Aliases[k][c] = IF \E j \in 1..Len(raw) : raw[j] = c THEN raw ELSE <<c>> \o raw
  BY DEF Aliases, ToAliasMap
<1>3. CASE \E j \in 1..Len(raw) : raw[j] = c
  BY <1>2, <1>3 DEF GroupOf
<1>4. CASE ~\E j \in 1..Len(raw) : raw[j] = c
  <2>1. /\ Len(<<c>> \o raw) = 1 + Len(raw)
        /\ (<<c>> \o raw)[1] = c
        /\ \A j \in 1..Len(raw) : (<<c>> \o raw)[1 + j] = raw[j]
    BY <1>1
  <2>2. CASE i = 1
    BY <1>2, <1>4, <2>1, <2>2 DEF GroupOf
  <2>3. CASE i # 1
    <3>1. i - 1 \in 1..Len(raw) /\ 1 + (i - 1) = i
      BY <1>1, <1>2, <1>4, <2>1, <2>3
    <3>2. Aliases[k][c][i] = raw[i - 1]
      BY <1>2, <1>4, <2>1, <3>1
    <3> QED
      BY <3>1, <3>2 DEF GroupOf
  <2> QED
    BY <2>2, <2>3
<1> QED
  BY <1>3, <1>4

\* Without a conflict, the canonical name gets the value of any name that has one.
LEMMA GroupResolved ==
  ASSUME NEW k \in Kinds, NEW payload, NEW c \in DOMAIN RawAliases[k],
         ~AliasConflict(payload, Aliases[k][c]),
         NEW f \in GroupOf(k, c), ~IsMissing(Get(payload, f))
  PROVE  Get(Normalize(k, payload), c) = Get(payload, f)
<1> DEFINE names == Aliases[k][c]
<1>1. PICK i \in 1..Len(names) : names[i] = f
  BY AliasNames
<1>2. i \in Candidates(payload, names)
  BY <1>1 DEF Candidates
<1>3. Get(payload, f) = FirstValue(payload, names)
  BY <1>1, <1>2 DEF AliasConflict
<1>4. c \in Resolved(k, payload)
  BY <1>2, AliasNames DEF Resolved
<1> QED
  BY <1>3, <1>4 DEF Normalize, Get

\* The canonical name has no value that no name of its group has.
LEMMA GroupValue ==
  ASSUME NEW k \in Kinds, NEW payload, NEW c \in DOMAIN RawAliases[k],
         ~AliasConflict(payload, Aliases[k][c])
  PROVE  IsMissing(Get(Normalize(k, payload), c))
         \/ Get(Normalize(k, payload), c) \in ValuesOf(k, c, payload)
<1>1. c \in GroupOf(k, c)
  BY DEF GroupOf
<1>2. CASE \E f \in GroupOf(k, c) : ~IsMissing(Get(payload, f))
  BY <1>2, GroupResolved DEF ValuesOf, IsMissing
<1>3. CASE \A f \in GroupOf(k, c) : IsMissing(Get(payload, f))
  <2>1. CASE c \in Resolved(k, payload)
    <3>1. PICK i \in 1..Len(Aliases[k][c]) : ~IsMissing(Get(payload, Aliases[k][c][i]))
      BY <2>1 DEF Resolved, Candidates
    <3>2. Aliases[k][c][i] \in GroupOf(k, c)
      BY <3>1, NamesOfGroup
    <3> QED
      BY <1>3, <3>1, <3>2
  <2>2. CASE c \notin Resolved(k, payload)
    <3>1. Get(Normalize(k, payload), c) = Get(payload, c)
      BY <2>2 DEF Normalize, Get
    <3> QED
      BY <1>1, <1>3, <3>1
  <2> QED
    BY <2>1, <2>2
<1> QED
  BY <1>2, <1>3

\* The other fields are the payload's.
LEMMA FieldKept ==
  ASSUME NEW k \in Kinds, NEW payload, NEW f, f \notin DOMAIN RawAliases[k]
  PROVE  Get(Normalize(k, payload), f) = Get(payload, f)
BY DEF Normalize, Get, Resolved, Aliases, ToAliasMap

LEMMA NoConflict ==
  ASSUME NEW k \in Kinds, NEW payload, Classify(k, payload) = "event"
  PROVE  /\ \A c \in DOMAIN RawAliases[k] : ~AliasConflict(payload, Aliases[k][c])
         /\ WellFormed(k, Normalize(k, payload))
<1>1. \A c \in DOMAIN RawAliases[k] : c \in DOMAIN Aliases[k]
  BY DEF Aliases, ToAliasMap
<1>2. ~\E c \in DOMAIN Aliases[k] : AliasConflict(payload, Aliases[k][c])
  BY DEF Classify
<1>3. WellFormed(k, Normalize(k, payload))
  BY <1>2 DEF Classify
<1> QED
  BY <1>1, <1>2, <1>3

\* What is true of any payload that is an event.
LEMMA VersionAsGiven ==
  ASSUME NEW k \in Kinds, NEW payload, Classify(k, payload) = "event"
  PROVE  Faithful(Version(Normalize(k, payload)), ValuesOf(k, "version", payload))
<1>1. "version" \in DOMAIN RawAliases[k]
  BY ProfileAssumption DEF Kinds
<1>2. SUFFICES ASSUME NEW f \in GroupOf(k, "version"),
                      Get(payload, f) \notin {"none", "empty", "blank", "zero"}
               PROVE  Version(Normalize(k, payload)) = Get(payload, f)
  BY DEF Faithful, ValuesOf
<1>3. Get(Normalize(k, payload), "version") = Get(payload, f)
  BY <1>1, <1>2, NoConflict, GroupResolved DEF IsMissing
<1> QED
  BY <1>2, <1>3 DEF Version, Or

LEMMA EntryTypeAsGiven ==
  ASSUME NEW payload, Classify("ledger", payload) = "event"
  PROVE  EntryType(Normalize("ledger", payload)) \in ValuesOf("ledger", "entry_type", payload)
<1> DEFINE n == Normalize("ledger", payload)
<1>1. "ledger" \in Kinds /\ "entry_type" \in DOMAIN RawAliases["ledger"]
      /\ "type" \notin DOMAIN RawAliases["ledger"]
      /\ "type" \in GroupOf("ledger", "entry_type")
  BY ProfileAssumption DEF Kinds
<1>2. EntryType(n) \notin {"none", "empty", "zero", "blank"}
  BY <1>1, NoConflict DEF WellFormed, WellFormedLedger, HasText
<1>3. Get(n, "type") = Get(payload, "type")
  BY <1>1, FieldKept
<1>4. IsMissing(Get(n, "entry_type")) \/ Get(n, "entry_type") \in ValuesOf("ledger", "entry_type", payload)
  BY <1>1, NoConflict, GroupValue
<1> QED
  BY <1>1, <1>2, <1>3, <1>4 DEF EntryType, Or, IsMissing, ValuesOf

LEMMA TimesAsGiven ==
  ASSUME NEW payload, Classify("ledger", payload) = "event"
  PROVE  LET n == Normalize("ledger", payload)
         IN /\ EventTime(n) \in ValuesOf("ledger", "event_time", payload)
            /\ CreatedAt(n) = EventTime(n)
<1> DEFINE n == Normalize("ledger", payload)
           others == {"source_created_at", "created_at"}
<1>1. /\ "ledger" \in Kinds /\ "event_time" \in DOMAIN RawAliases["ledger"]
      /\ others \cap DOMAIN RawAliases["ledger"] = {}
      /\ others \subseteq GroupOf("ledger", "event_time")
  BY ProfileAssumption DEF Kinds
<1>2. EventTime(n) \in Times /\ CreatedAt(n) \in Times
  BY <1>1, NoConflict DEF WellFormed, WellFormedLedger
<1>3. {"none", "empty", "blank", "zero"} \cap Times = {}
  BY ContractAssumption
<1>4. \A f \in others : Get(n, f) = Get(payload, f)
  BY <1>1, FieldKept
<1>5. \A f \in others : ~IsMissing(Get(n, f)) => Get(n, f) = Get(n, "event_time")
  BY <1>1, <1>4, NoConflict, GroupResolved
<1>6. IsMissing(Get(n, "event_time"))
      \/ Get(n, "event_time") \in ValuesOf("ledger", "event_time", payload)
  BY <1>1, NoConflict, GroupValue
<1>7. EventTime(n) = Get(n, "event_time") /\ CreatedAt(n) = Get(n, "event_time")
  BY <1>2, <1>3, <1>5 DEF EventTime, CreatedAt, Or, IsMissing
<1> QED
  BY <1>2, <1>3, <1>6, <1>7 DEF IsMissing

LEMMA AgreeAsGiven ==
  ASSUME NEW k \in Kinds, NEW payload, Classify(k, payload) = "event"
  PROVE  AliasesAgree(k, payload)
<1> SUFFICES ASSUME NEW c \in DOMAIN RawAliases[k],
                    NEW f \in GroupOf(k, c), ~IsMissing(Get(payload, f)),
                    NEW g \in GroupOf(k, c), ~IsMissing(Get(payload, g))
             PROVE  Get(payload, f) = Get(payload, g)
  BY DEF AliasesAgree, ValuesOf, IsMissing
<1> QED
  BY NoConflict, GroupResolved

LEMMA EventAsGiven ==
  ASSUME NEW k \in Kinds, NEW payload, Classify(k, payload) = "event",
         NEW event, event = EventFrom(k, payload)
  PROVE  /\ AliasesAgree(k, payload)
         /\ Faithful(event.source_version, ValuesOf(k, "version", payload))
         /\ k = "ledger" =>
              /\ event.entry_type \in ValuesOf(k, "entry_type", payload)
              /\ event.event_time \in ValuesOf(k, "event_time", payload)
              /\ event.created_at = event.event_time
<1> DEFINE n == Normalize(k, payload)
<1>1. event.source_version = Version(n)
  BY DEF EventFrom, LedgerEvent, OrderEvent
<1>2. Faithful(event.source_version, ValuesOf(k, "version", payload))
  BY <1>1, VersionAsGiven
<1>3. ASSUME k = "ledger"
      PROVE  /\ event.entry_type \in ValuesOf(k, "entry_type", payload)
             /\ event.event_time \in ValuesOf(k, "event_time", payload)
             /\ event.created_at = event.event_time
  <2>1. /\ event.entry_type = EntryType(n)
        /\ event.event_time = EventTime(n)
        /\ event.created_at = CreatedAt(n)
    BY <1>3 DEF EventFrom, LedgerEvent
  <2> QED
    BY <1>3, <2>1, EntryTypeAsGiven, TimesAsGiven
<1> QED
  BY <1>2, <1>3, AgreeAsGiven

\* A stored event says what its payload says, for every profile with the groups
\* of configs/event_profiles.yaml, whatever the order of their names: no two
\* aliases differ, and entry type, times and version are the values given.
THEOREM AsGiven == Spec => []StoredAsGiven
<1>1. RowsInv => StoredAsGiven
  BY EventAsGiven DEF RowsInv, StoredAsGiven
<1>2. Init => RowsInv
  BY DEF Init, RowsInv
<1> QED
  BY <1>1, <1>2, AccountInit, AccountNext, RowsNext, PTL DEF Spec

-------------------------------------------------------------------------------
(* The replay *)

Sequential(s) == s \in Seq({s[n] : n \in 1..Len(s)})

\* The replay has produced the letters it was asked for among the lines it has
\* read, all of them whole, and its limit has been counted down by as many.
ReplayInv ==
  /\ Sequential(dlq_file)
  /\ replay = "reading" =>
       /\ query \in Queries /\ at \in 0..Len(dlq_file)
       /\ \A n \in 1..at : dlq_file[n].form = "letter"
       /\ Sequential(produced) /\ Len(produced) = Cardinality(Asked(at))
       /\ \A n \in Asked(at) : produced[Cardinality(Asked(n))] = dlq_file[n]
       /\ query.limit = NULL => remaining = NULL
       /\ query.limit # NULL => remaining \in Nat /\ remaining + Len(produced) = query.limit

LEMMA IsSequential ==
  ASSUME NEW S, NEW n \in Nat, NEW s \in [1..n -> S]
  PROVE  Sequential(s) /\ Len(s) = n
<1> DEFINE T == {s[m] : m \in 1..n}
<1>1. s \in [1..n -> T]
  OBVIOUS
<1>2. s \in Seq(T) /\ s \in Seq(S)
  <2> HIDE DEF T
  <2> QED BY <1>1, SeqDef
<1>3. Len(s) = n
  BY <1>2, LenProperties
<1> QED
  BY <1>2, <1>3 DEF Sequential

LEMMA SequentialIs ==
  ASSUME NEW s, Sequential(s)
  PROVE  Len(s) \in Nat /\ s \in [1..Len(s) -> {s[n] : n \in 1..Len(s)}]
BY LenProperties DEF Sequential

LEMMA SequentialAppend ==
  ASSUME NEW s, NEW x, Sequential(s)
  PROVE  /\ Len(s) \in Nat /\ Sequential(Append(s, x)) /\ Len(Append(s, x)) = Len(s) + 1
         /\ \A n \in 1..Len(s) : Append(s, x)[n] = s[n]
         /\ Append(s, x)[Len(s) + 1] = x
<1> DEFINE S == {s[n] : n \in 1..Len(s)} \cup {x}
<1>1. s \in Seq(S)
  BY DEF Sequential
<1> HIDE DEF S
<1>2. /\ Append(s, x) \in Seq(S) /\ Len(Append(s, x)) = Len(s) + 1 /\ Len(s) \in Nat
      /\ \A n \in 1..Len(s) : Append(s, x)[n] = s[n]
      /\ Append(s, x)[Len(s) + 1] = x
  BY <1>1, x \in S DEF S
<1>3. Append(s, x) \in [1..(Len(s) + 1) -> S]
  BY <1>2, LenProperties
<1>4. Sequential(Append(s, x))
  <2> DEFINE t == Append(s, x)
             n == Len(s) + 1
  <2>1. n \in Nat /\ t \in [1..n -> S]
    BY <1>2, <1>3
  <2> HIDE DEF t, n
  <2>2. Sequential(t)
    BY <2>1, IsSequential
  <2> QED BY <2>2 DEF t
<1> QED
  BY <1>2, <1>4

LEMMA AskedFinite ==
  ASSUME NEW n \in Nat PROVE IsFiniteSet(Asked(n)) /\ Cardinality(Asked(n)) \in Nat
<1>1. IsFiniteSet(1..n) /\ Asked(n) \in SUBSET (1..n)
  BY FS_Interval DEF Asked
<1> QED
  BY <1>1, FS_Subset, FS_CardinalityType

LEMMA AskedNext ==
  ASSUME NEW n \in Nat
  PROVE  IF Producible(dlq_file[n + 1]) /\ Wanted(dlq_file[n + 1], query)
         THEN /\ Asked(n + 1) = Asked(n) \cup {n + 1}
              /\ Cardinality(Asked(n + 1)) = Cardinality(Asked(n)) + 1
         ELSE Asked(n + 1) = Asked(n)
<1>1. 1..(n + 1) = 1..n \cup {n + 1} /\ n + 1 \notin 1..n
  OBVIOUS
<1>2. n + 1 \notin Asked(n)
  BY <1>1 DEF Asked
<1>3. IF Producible(dlq_file[n + 1]) /\ Wanted(dlq_file[n + 1], query)
      THEN Asked(n + 1) = Asked(n) \cup {n + 1}
      ELSE Asked(n + 1) = Asked(n)
  BY <1>1 DEF Asked
<1> QED
  BY <1>2, <1>3, AskedFinite, FS_AddElement

LEMMA AskedGrows ==
  ASSUME NEW m \in Nat, NEW n \in Nat, m <= n
  PROVE  Asked(m) \subseteq Asked(n) /\ Cardinality(Asked(m)) <= Cardinality(Asked(n))
<1>1. Asked(m) \in SUBSET Asked(n)
  BY DEF Asked
<1> QED
  BY <1>1, AskedFinite, FS_Subset

\* A line that was asked for is the first or a later one.
LEMMA AskedPlace ==
  ASSUME NEW n \in Nat, NEW i \in Asked(n)
  PROVE  Cardinality(Asked(i)) \in 1..Cardinality(Asked(n))
<1>1. i \in 1..n /\ i \in Nat /\ i \in Asked(i)
  BY DEF Asked
<1>2. Cardinality(Asked(i)) # 0
  BY <1>1, AskedFinite, FS_EmptySet
<1> QED
  BY <1>1, <1>2, AskedFinite, AskedGrows

LEMMA ReplayInit == Init => ReplayInv
BY RecoveryAssumption DEF Init, ReplayInv, Sequential

\* A step of the backfill leaves the lines that have been read as they are.
LEMMA ReplayBesideBackfill ==
  ASSUME ReplayInv, UNCHANGED replayVars, Sequential(dlq_file'),
         Len(dlq_file) \in Nat, Len(dlq_file') \in Nat, Len(dlq_file) <= Len(dlq_file'),
         \A n \in 1..Len(dlq_file) : dlq_file[n].form = "letter" => dlq_file'[n] = dlq_file[n]
  PROVE  ReplayInv'
<1> SUFFICES ASSUME replay = "reading" PROVE ReplayInv'
  BY DEF ReplayInv, replayVars
<1>1. \A n \in 1..at : dlq_file'[n] = dlq_file[n]
  BY DEF ReplayInv
<1>2. \A n \in 0..at : Asked(n)' = Asked(n)
  BY <1>1 DEF Asked, ReplayInv, replayVars
<1>3. at \in 0..at /\ \A n \in Asked(at) : n \in 0..at /\ n \in 1..at
  BY DEF Asked, ReplayInv
<1> QED
  BY <1>1, <1>2, <1>3 DEF ReplayInv, replayVars

LEMMA ReplayNext == ReplayInv /\ [Next]_vars => ReplayInv'
<1> SUFFICES ASSUME ReplayInv, [Next]_vars PROVE ReplayInv'
  OBVIOUS
<1>1. Sequential(dlq_file) /\ Len(dlq_file) \in Nat
  BY SequentialAppend DEF ReplayInv
<1>2. CASE WriteLetterFile
  <2>1. PICK x : \/ dlq_file' = dlq_file
                 \/ dlq_file' = Append(dlq_file, x)
                 \/ Unfinished(dlq_file) /\ dlq_file' = [dlq_file EXCEPT ![Len(dlq_file)].form = "torn"]
    BY <1>2 DEF WriteLetterFile, Appended
  <2>2. CASE dlq_file' = dlq_file
    BY <1>1, <1>2, <2>2, ReplayBesideBackfill DEF WriteLetterFile
  <2>3. CASE dlq_file' = Append(dlq_file, x)
    BY <1>1, <1>2, <2>3, SequentialAppend, ReplayBesideBackfill DEF WriteLetterFile
  <2>4. CASE Unfinished(dlq_file) /\ dlq_file' = [dlq_file EXCEPT ![Len(dlq_file)].form = "torn"]
    <3> DEFINE torn == [dlq_file[Len(dlq_file)] EXCEPT !.form = "torn"]
    <3>1. /\ dlq_file \in [1..Len(dlq_file) -> {dlq_file[n] : n \in 1..Len(dlq_file)}]
          /\ Len(dlq_file) \in 1..Len(dlq_file)
      BY <1>1, <2>4, SequentialIs DEF Unfinished
    <3>2. dlq_file' = [dlq_file EXCEPT ![Len(dlq_file)] = torn]
      BY <2>4
    <3> HIDE DEF torn
    <3>3. /\ dlq_file' \in [1..Len(dlq_file) -> {dlq_file[n] : n \in 1..Len(dlq_file)} \cup {torn}]
          /\ \A n \in 1..Len(dlq_file) : n # Len(dlq_file) => dlq_file'[n] = dlq_file[n]
      BY <3>1, <3>2
    <3>4. Sequential(dlq_file') /\ Len(dlq_file') = Len(dlq_file)
      BY <1>1, <3>3, IsSequential
    <3>5. \A n \in 1..Len(dlq_file) : dlq_file[n].form = "letter" => dlq_file'[n] = dlq_file[n]
      BY <2>4, <3>3 DEF Unfinished
    <3> QED
      BY <1>1, <1>2, <3>4, <3>5, ReplayBesideBackfill DEF WriteLetterFile
  <2> QED
    BY <2>1, <2>2, <2>3, <2>4
<1>3. CASE StartReplay
  <2>1. query' \in Queries /\ remaining' = query'.limit /\ at' = 0 /\ produced' = <<>>
    BY <1>3 DEF StartReplay
  <2>2. Asked(at)' = {}
    BY <2>1 DEF Asked
  <2>3. Sequential(produced') /\ Len(produced') = 0
    BY <2>1 DEF Sequential
  <2>4. /\ query'.limit = NULL => remaining' = NULL
        /\ query'.limit # NULL => remaining' \in Nat /\ remaining' + Len(produced') = query'.limit
    BY <2>1, <2>3, RecoveryAssumption
  <2>5. UNCHANGED dlq_file
    BY <1>3 DEF StartReplay, backfillVars
  <2>6. Cardinality(Asked(at)') = 0
    BY <2>2, FS_EmptySet
  <2> QED
    BY <1>1, <2>1, <2>2, <2>3, <2>4, <2>5, <2>6 DEF ReplayInv
<1>4. CASE SkipLine
  <2>1. Asked(at + 1) = Asked(at) /\ \A n : Asked(n)' = Asked(n)
    BY <1>4, AskedNext DEF SkipLine, backfillVars, ReplayInv, Asked
  <2> QED
    BY <1>1, <1>4, <2>1 DEF SkipLine, backfillVars, ReplayInv
<1>5. CASE ReplayLine
  <2> DEFINE l == dlq_file[at + 1]
  <2>1. /\ at \in Nat /\ at + 1 \in 0..Len(dlq_file)
        /\ \A n : Asked(n)' = Asked(n)
        /\ \A n \in 1..(at + 1) : dlq_file[n].form = "letter"
    BY <1>1, <1>5 DEF ReplayLine, backfillVars, ReplayInv, Asked, Producible
  <2>2. /\ Asked(at + 1) = Asked(at) \cup {at + 1}
        /\ Cardinality(Asked(at + 1)) = Len(produced) + 1
    BY <1>5, <2>1, AskedNext DEF ReplayLine, ReplayInv
  <2>3. /\ Sequential(produced') /\ Len(produced) \in Nat /\ Len(produced') = Len(produced) + 1
        /\ \A n \in 1..Len(produced) : produced'[n] = produced[n]
        /\ produced'[Len(produced) + 1] = l
    BY <1>5, SequentialAppend DEF ReplayLine, ReplayInv
  <2>4. \A n \in Asked(at + 1) : produced'[Cardinality(Asked(n))] = dlq_file[n]
    BY <1>5, <2>1, <2>2, <2>3, AskedPlace DEF ReplayLine, ReplayInv
  <2>5. /\ query.limit = NULL => remaining' = NULL
        /\ query.limit # NULL => remaining' \in Nat /\ remaining' + Len(produced') = query.limit
    BY <1>5, <2>3, RecoveryAssumption DEF ReplayLine, ReplayInv
  <2> QED
    BY <1>1, <1>5, <2>1, <2>2, <2>3, <2>4, <2>5 DEF ReplayLine, backfillVars, ReplayInv
<1>6. CASE ReplayTornLine \/ EndReplayFile \/ SelectLetters \/ ProduceRows
  BY <1>1, <1>6
  DEF ReplayTornLine, EndReplayFile, SelectLetters, ProduceRows, backfillVars, ReplayInv
<1>7. CASE UNCHANGED <<dlq_file, replayVars>>
  BY <1>1, <1>7, ReplayBesideBackfill
<1> QED
  BY <1>2, <1>3, <1>4, <1>5, <1>6, <1>7
  DEF Next, Backfill, Replay, StartBackfill, ReadLine, EndOfFile, SkipOutOfRange, StoreRecord,
      FailRecord, WriteLetterDb, Interrupt, vars, backfillVars

LEMMA EndAsAsked ==
  ASSUME ReplayInv, EndReplayFile
  PROVE  /\ Len(produced) = IF \/ query.limit = NULL
                               \/ query.limit >= Cardinality(Asked(Len(dlq_file)))
                            THEN Cardinality(Asked(Len(dlq_file))) ELSE query.limit
         /\ \A i \in Asked(Len(dlq_file)) : Cardinality(Asked(i)) <= Len(produced) =>
              produced[Cardinality(Asked(i))] = dlq_file[i]
<1> DEFINE all == Asked(Len(dlq_file))
<1>1. /\ Len(dlq_file) \in Nat /\ at \in Nat /\ at <= Len(dlq_file)
      /\ Len(produced) = Cardinality(Asked(at))
      /\ \A n \in Asked(at) : produced[Cardinality(Asked(n))] = dlq_file[n]
      /\ query.limit \in {NULL} \cup Nat
      /\ query.limit # NULL => remaining \in Nat /\ remaining + Len(produced) = query.limit
      /\ query.limit = NULL => remaining = NULL
  BY SequentialAppend, RecoveryAssumption DEF EndReplayFile, ReplayInv
<1>0. Cardinality(all) \in Nat /\ Len(produced) \in Nat /\ at + 1 \in Nat
  BY <1>1, AskedFinite
<1>2. CASE at = Len(dlq_file)
  <2>1. Len(produced) = Cardinality(all)
    BY <1>1, <1>2
  <2>2. query.limit # NULL => query.limit \in Nat /\ query.limit >= Len(produced)
    BY <1>0, <1>1
  <2> QED
    BY <1>0, <1>1, <1>2, <2>1, <2>2
<1>3. CASE at # Len(dlq_file)
  <2>1. /\ query.limit # NULL /\ Len(produced) = query.limit
        /\ at + 1 <= Len(dlq_file)
        /\ Producible(dlq_file[at + 1]) /\ Wanted(dlq_file[at + 1], query)
    BY <1>0, <1>1, <1>3, RecoveryAssumption DEF EndReplayFile
  <2>2. Cardinality(Asked(at + 1)) = Len(produced) + 1
    BY <1>1, <2>1, AskedNext
  <2>3. Cardinality(all) >= Len(produced) + 1
    BY <1>0, <1>1, <2>1, <2>2, AskedGrows
  <2>4. ASSUME NEW i \in all, Cardinality(Asked(i)) <= Len(produced) PROVE i \in Asked(at)
    <3>1. i \in 1..Len(dlq_file) /\ Producible(dlq_file[i]) /\ Wanted(dlq_file[i], query)
      BY <2>4 DEF Asked
    <3>2. ASSUME i > at PROVE FALSE
      BY <1>1, <2>2, <2>4, <3>1, <3>2, AskedGrows, AskedFinite
    <3> QED
      BY <1>1, <3>1, <3>2 DEF Asked
  <2>5. query.limit \in Nat /\ ~(query.limit >= Cardinality(all))
    BY <1>0, <1>1, <2>1, <2>3
  <2> QED
    BY <1>1, <2>1, <2>4, <2>5
<1> QED
  BY <1>2, <1>3

\* A replay of the file that ends has produced the letters it was asked for, each
\* once and in the order of the file, and no more than its limit, whatever letters
\* the backfill has added meanwhile (replay_file).
THEOREM FileReplayed == Spec => ReplayedAsAsked
<1>1. ASSUME ReplayInv, [Next]_vars, replay = "reading", replay' = "ended"
      PROVE  EndReplayFile
  BY <1>1
  DEF Next, Backfill, Replay, StartBackfill, ReadLine, EndOfFile, SkipOutOfRange, StoreRecord,
      FailRecord, WriteLetterDb, WriteLetterFile, Interrupt, vars, replayVars, StartReplay,
      SkipLine, ReplayLine, ReplayTornLine, SelectLetters, ProduceRows
<1>2. ReplayInv /\ [Next]_vars =>
        [replay = "reading" /\ replay' = "ended" =>
           LET all == Asked(Len(dlq_file))
           IN /\ Len(produced) = IF query.limit = NULL \/ query.limit >= Cardinality(all)
                                 THEN Cardinality(all) ELSE query.limit
              /\ \A i \in all : Cardinality(Asked(i)) <= Len(produced) =>
                   produced[Cardinality(Asked(i))] = dlq_file[i]]_vars
  BY <1>1, EndAsAsked
<1> QED
  BY <1>2, ReplayInit, ReplayNext, PTL DEF Spec, ReplayedAsAsked
===============================================================================
