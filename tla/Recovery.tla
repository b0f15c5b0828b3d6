-------------------------------- MODULE Recovery --------------------------------
(***************************************************************************)
(* The two commands an operator repairs the tables with.                   *)
(*                                                                         *)
(* run_backfill reads a file of ledger entries and then one of payment     *)
(* orders, a JSON object per line, and stores the events within a range of *)
(* time; a record that fails goes to the dead letter queue. A line that is *)
(* no JSON object ends it. It may be interrupted and run again.            *)
(*                                                                         *)
(* replay_dlq.py produces dead letters again: those of the DLQ file or     *)
(* those of the table, selected by topic and limit. It may run beside the  *)
(* backfill.                                                               *)
(*                                                                         *)
(* Abstracted: storing an event (module LedgerPairing) is one step; the    *)
(* client's queue of produced messages; selection by id and time.          *)
(***************************************************************************)
EXTENDS EventContract, FiniteSets

CONSTANTS
  NULL,
  Inputs,       \* the input files, by kind: lines that are blank, an object or other
  Window,       \* the times within --since and --until
  Clock,        \* the order of times
  DlqBackend,   \* DLQ_BACKEND
  OldLetters,   \* letters the consumer has left in the table and in the file
  Queries,      \* what a replay may be asked for
  MaxBackfills, \* bounds on the runs of either command
  MaxReplays

ASSUME RecoveryAssumption ==
  /\ \A files \in Inputs : \A k \in Kinds :
       /\ Len(files[k]) \in Nat
       /\ \A n \in 1..Len(files[k]) : files[k][n].form \in {"blank", "object", "other"}
  /\ Window \subseteq Times
  /\ Clock \in [Times -> Nat] /\ NULL \notin Times
  /\ DlqBackend \in {"db", "file"}
  /\ \A old \in OldLetters : old.file \in Seq({old.file[n] : n \in 1..Len(old.file)})
  /\ NULL \notin Nat /\ \A q \in Queries : q.limit \in {NULL} \cup Nat
  /\ MaxBackfills \in Nat /\ MaxReplays \in Nat

VARIABLES
  input,      \* the two files
  stage,      \* what the backfill does
  kind, line, \* the file it reads and the lines of it that it has read
  rows,       \* <<kind, line>> |-> the event stored
  dlq_db,     \* rows of bo.consumer_dlq_events, in the order of ingested_at
  dlq_file,   \* lines of the DLQ file
  dead,       \* history: <<kind, line>> written to a DLQ
  lost,       \* history: <<kind, line>> no DLQ could be written for
  metrics,    \* what the process of the backfill has counted, by topic
  runs        \* backfills and replays started

VARIABLES
  replay,     \* what the replay does
  query,      \* what it was asked for
  at,         \* the lines of the DLQ file it has read
  remaining,  \* what is left of its limit, or NULL
  fetched,    \* the rows of the table it has selected
  produced    \* the letters it has produced

backfillVars == <<stage, kind, line, rows, dlq_db, dlq_file, dead, lost, metrics>>
replayVars   == <<replay, query, at, remaining, fetched, produced>>
vars         == <<input, runs, backfillVars, replayVars>>

NoMetrics == [k \in Kinds |-> [success |-> 0, error |-> 0, newest |-> NULL]]

Init ==
  /\ input \in Inputs
  /\ stage = "idle" /\ kind = "ledger" /\ line = 0
  /\ rows = <<>>
  /\ \E old \in OldLetters : dlq_db = old.db /\ dlq_file = old.file
  /\ dead = {} /\ lost = {} /\ metrics = NoMetrics /\ runs = [backfill |-> 0, replay |-> 0]
  /\ replay = "idle" /\ query = NULL /\ at = 0 /\ remaining = NULL
  /\ fetched = <<>> /\ produced = <<>>

-------------------------------------------------------------------------------
(* run_backfill (src/consumer/main.py) *)

Payload == input[kind][line].payload

Here == <<kind, line>>

\* _maybe_prune_dlq deletes the oldest rows, unless the database fails.
StartBackfill ==
  /\ stage \in {"idle", "ended", "raised"}
  /\ runs.backfill < MaxBackfills
  /\ runs' = [runs EXCEPT !.backfill = @ + 1]
  /\ stage' = "reading" /\ kind' = "ledger" /\ line' = 0
  /\ \E old \in IF DlqBackend = "db" THEN 0..Len(dlq_db) ELSE {0} :
       dlq_db' = SubSeq(dlq_db, old + 1, Len(dlq_db))
  /\ metrics' = NoMetrics
  /\ UNCHANGED <<input, rows, dlq_file, dead, lost, replayVars>>

\* _iter_json_lines: the next line. One that is not an object raises outside of
\* the handler of records.
ReadLine ==
  /\ stage = "reading"
  /\ line < Len(input[kind])
  /\ line' = line + 1
  /\ stage' = CASE input[kind][line'].form = "blank"  -> "reading"
                [] input[kind][line'].form = "object" -> "handling"
                [] input[kind][line'].form = "other"  -> "raised"
  /\ UNCHANGED <<input, kind, rows, dlq_db, dlq_file, dead, lost, runs, metrics, replayVars>>

EndOfFile ==
  /\ stage = "reading"
  /\ line = Len(input[kind])
  /\ IF kind = "ledger" THEN kind' = "payment_order" /\ line' = 0 /\ UNCHANGED stage
                        ELSE stage' = "ended" /\ UNCHANGED <<kind, line>>
  /\ UNCHANGED <<input, rows, dlq_db, dlq_file, dead, lost, runs, metrics, replayVars>>

\* The time that --since and --until select by.
TimeOf(k, event) ==
  IF k = "ledger" THEN event.event_time
  ELSE IF event.updated_at # "none" THEN event.updated_at ELSE event.created_at

Event == EventFrom(kind, Payload)

IsEvent == Classify(kind, Payload) = "event"

\* A slip: the rows of a file are taken to be sorted by time.
SkipToEndOfFile ==
  /\ stage = "handling" /\ IsEvent /\ TimeOf(kind, Event) \notin Window
  /\ line' = Len(input[kind]) /\ stage' = "reading"
  /\ UNCHANGED <<input, kind, rows, dlq_db, dlq_file, dead, lost, runs, metrics, replayVars>>

SkipOutOfRange ==
  /\ stage = "handling" /\ IsEvent /\ TimeOf(kind, Event) \notin Window
  /\ stage' = "reading"
  /\ UNCHANGED <<input, kind, line, rows, dlq_db, dlq_file, dead, lost, runs, metrics, replayVars>>

WithRow == [key \in DOMAIN rows \cup {Here} |-> IF key = Here THEN Event ELSE rows[key]]

\* A slip: the time of the last event, not the newest.
RecordLastTime(last, time) == time

\* FreshnessTracker: the newest time of an event so far.
RecordTime(last, time) ==
  IF last = NULL THEN time ELSE IF Clock[time] > Clock[last] THEN time ELSE last

\* After the commit of session_scope the record is counted.
StoreRecord ==
  /\ stage = "handling" /\ IsEvent /\ TimeOf(kind, Event) \in Window
  /\ rows' = WithRow
  /\ metrics' = [metrics EXCEPT ![kind].success = @ + 1,
                               ![kind].newest = RecordTime(@, TimeOf(kind, Event))]
  /\ stage' = "reading"
  /\ UNCHANGED <<input, kind, line, dlq_db, dlq_file, dead, lost, runs, replayVars>>

\* The payload is refused, or the database fails, which may have committed the
\* event all the same.
FailRecord ==
  /\ stage = "handling"
  /\ \/ ~IsEvent /\ UNCHANGED rows
     \/ IsEvent /\ TimeOf(kind, Event) \in Window /\ rows' \in {rows, WithRow}
  /\ stage' = IF DlqBackend = "db" THEN "dlq_db" ELSE "dlq_file"
  /\ metrics' = [metrics EXCEPT ![kind].error = @ + 1]
  /\ UNCHANGED <<input, kind, line, dlq_db, dlq_file, dead, lost, runs, replayVars>>

\* The topic of a letter of the backfill is no topic of Kafka.
BackfillTopic == [ledger        |-> "backfill-ledger",
                  payment_order |-> "backfill-payment-order"]

Letter == [form |-> "letter", topic |-> BackfillTopic[kind], empty |-> FALSE, of |-> Here]

\* A write has failed in the middle of the last line.
Unfinished(file) == file # <<>> /\ file[Len(file)].form = "open"

\* An unfinished line swallows the next one.
Appended(file) ==
  IF Unfinished(file)
  THEN [file EXCEPT ![Len(file)].form = "torn"]
  ELSE Append(file, Letter)

Torn == [form |-> "open", topic |-> NULL, empty |-> TRUE, of |-> NULL]

WriteLetterDb ==
  /\ stage = "dlq_db"
  /\ \/ /\ dlq_db' = Append(dlq_db, Letter)
        /\ dead' = dead \cup {Here}
        /\ stage' = "reading"
     \/ /\ UNCHANGED <<dlq_db, dead>>
        /\ stage' = "dlq_file"
  /\ UNCHANGED <<input, kind, line, rows, dlq_file, lost, runs, metrics, replayVars>>

WriteLetterFile ==
  /\ stage = "dlq_file"
  /\ \/ /\ dlq_file' = Appended(dlq_file)
        /\ dead' = dead \cup {Here}
        /\ UNCHANGED lost
     \/ /\ \/ UNCHANGED dlq_file
           \/ /\ ~Unfinished(dlq_file)
              /\ dlq_file' = Append(dlq_file, Torn)
        /\ lost' = lost \cup {Here}
        /\ UNCHANGED dead
  /\ stage' = "reading"
  /\ UNCHANGED <<input, kind, line, rows, dlq_db, runs, metrics, replayVars>>

\* The process is stopped.
Interrupt ==
  /\ stage \in {"reading", "handling", "dlq_db", "dlq_file"}
  /\ stage' = "raised"
  /\ UNCHANGED <<input, kind, line, rows, dlq_db, dlq_file, dead, lost, runs, metrics, replayVars>>

Backfill ==
  \/ StartBackfill \/ ReadLine \/ EndOfFile \/ SkipOutOfRange \/ StoreRecord
  \/ FailRecord \/ WriteLetterDb \/ WriteLetterFile \/ Interrupt

-------------------------------------------------------------------------------
(* scripts/replay_dlq.py *)

Wanted(letter, q) == q.topics # NULL => letter.topic \in q.topics

StartReplay ==
  /\ replay \in {"idle", "ended", "raised"}
  /\ runs.replay < MaxReplays
  /\ runs' = [runs EXCEPT !.replay = @ + 1]
  /\ \E q \in Queries : query' = q /\ remaining' = q.limit
  /\ replay' = IF query'.backend = "db" THEN "select" ELSE "reading"
  /\ at' = 0 /\ fetched' = <<>> /\ produced' = <<>>
  /\ UNCHANGED <<input, backfillVars>>

\* The letters of a DLQ that may be produced: those with a payload.
Producible(letter) == letter.form = "letter" /\ ~letter.empty

\* A slip: letters that are skipped count towards the limit.
SkipLineCounting ==
  /\ replay = "reading" /\ at < Len(dlq_file)
  /\ dlq_file[at + 1].form = "letter"
  /\ ~(Producible(dlq_file[at + 1]) /\ Wanted(dlq_file[at + 1], query))
  /\ at' = at + 1
  /\ remaining' = IF remaining \in {NULL, 0} THEN remaining ELSE remaining - 1
  /\ UNCHANGED <<input, runs, backfillVars, replay, query, fetched, produced>>

\* A line of the file: skipped if its letter has no payload or another topic.
SkipLine ==
  /\ replay = "reading" /\ at < Len(dlq_file)
  /\ dlq_file[at + 1].form = "letter"
  /\ ~(Producible(dlq_file[at + 1]) /\ Wanted(dlq_file[at + 1], query))
  /\ at' = at + 1
  /\ UNCHANGED <<input, runs, backfillVars, replay, query, remaining, fetched, produced>>

ReplayLine ==
  /\ replay = "reading" /\ at < Len(dlq_file) /\ remaining # 0
  /\ Producible(dlq_file[at + 1]) /\ Wanted(dlq_file[at + 1], query)
  /\ at' = at + 1
  /\ produced' = Append(produced, dlq_file[at + 1])
  /\ remaining' = IF remaining = NULL THEN NULL ELSE remaining - 1
  /\ UNCHANGED <<input, runs, backfillVars, replay, query, fetched>>

\* json.loads raises.
ReplayTornLine ==
  /\ replay = "reading" /\ at < Len(dlq_file)
  /\ dlq_file[at + 1].form \in {"open", "torn"}
  /\ replay' = "raised"
  /\ UNCHANGED <<input, runs, backfillVars, query, at, remaining, fetched, produced>>

\* The end of the file, or a letter beyond the limit; then flush.
EndReplayFile ==
  /\ replay = "reading"
  /\ \/ at = Len(dlq_file)
     \/ /\ at < Len(dlq_file) /\ remaining = 0
        /\ Producible(dlq_file[at + 1]) /\ Wanted(dlq_file[at + 1], query)
  /\ replay' = "ended"
  /\ UNCHANGED <<input, runs, backfillVars, query, at, remaining, fetched, produced>>

\* The first n letters, or all of them.
UpTo(letters, n) == IF n = NULL \/ n >= Len(letters) THEN letters
                    ELSE SubSeq(letters, 1, n)

\* replay_db: the rows, oldest first, in a session that is closed before they
\* are used.
SelectLetters ==
  /\ replay = "select"
  /\ fetched' = UpTo(SelectSeq(dlq_db, LAMBDA r : Wanted(r, query)), query.limit)
  /\ replay' = "producing"
  /\ UNCHANGED <<input, runs, backfillVars, query, at, remaining, produced>>

\* The commit of session_scope has expired the rows, close() has detached them:
\* the first attribute read raises. Without a row there is nothing to read.
ProduceRows ==
  /\ replay = "producing"
  /\ replay' = IF fetched = <<>> THEN "ended" ELSE "raised"
  /\ UNCHANGED <<input, runs, backfillVars, query, at, remaining, fetched, produced>>

Replay ==
  \/ StartReplay \/ SkipLine \/ ReplayLine \/ ReplayTornLine \/ EndReplayFile
  \/ SelectLetters \/ ProduceRows

Next == Backfill \/ Replay

Spec == Init /\ [][Next]_vars

-------------------------------------------------------------------------------
(* Properties *)

\* Lines that the backfill that runs, or ran last, is done with.
Passed(k, n) ==
  /\ input[k][n].form = "object"
  /\ \/ k = "ledger" /\ kind = "payment_order"
     \/ k = kind /\ n <= line /\ stage \in {"reading", "ended"}

\* The event of a line is outside the range.
OutOfRange(k, n) ==
  /\ Classify(k, input[k][n].payload) = "event"
  /\ TimeOf(k, EventFrom(k, input[k][n].payload)) \notin Window

\* A backfill is done with a record only when its event is stored, or outside the
\* range, or a letter was written, or neither DLQ took one: a record that fails,
\* is skipped or is interrupted hides no other (run_backfill).
BackfillAccounts ==
  \A k \in Kinds : \A n \in 1..Len(input[k]) :
    Passed(k, n) => OutOfRange(k, n) \/ <<k, n>> \in DOMAIN rows \cup dead \cup lost

\* A stored event says what its payload says: no two aliases of a group differ,
\* and entry type, times and version are the values of their group, whichever of
\* its names gave them (normalize_payload_for_topic, then from_dict, which
\* chooses among the names a second time).
StoredAsGiven ==
  \A key \in DOMAIN rows :
    LET k == key[1]  payload == input[k][key[2]].payload  event == rows[key]
    IN /\ AliasesAgree(k, payload)
       /\ Faithful(event.source_version, ValuesOf(k, "version", payload))
       /\ k = "ledger" =>
            /\ event.entry_type \in ValuesOf(k, "entry_type", payload)
            /\ event.event_time \in ValuesOf(k, "event_time", payload)
            /\ event.created_at = event.event_time

\* The records of a topic that the backfill which runs is done with and was to store.
Due(k) == {n \in 1..Len(input[k]) : Passed(k, n) /\ ~OutOfRange(k, n)}

TimeAt(k, n) == TimeOf(k, EventFrom(k, input[k][n].payload))

\* The metrics of a backfill account for its records: each one it was to store is
\* counted once, as a success or as an error, also when its commit was answered
\* too late or its letter could not be written; and the freshness of a topic is
\* measured from the time of a stored record, no older than any record that
\* neither failed in this run nor in an earlier one (FreshnessTracker and
\* record_consumer_message as run_backfill calls them).
MetricsAccount ==
  stage \in {"reading", "ended"} =>
    \A k \in Kinds :
      LET m == metrics[k]  due == Due(k)
      IN /\ m.success + m.error = Cardinality(due)
         /\ m.newest # NULL =>
              \E n \in due : <<k, n>> \in DOMAIN rows /\ TimeAt(k, n) = m.newest
         /\ \A n \in due : <<k, n>> \notin dead \cup lost =>
              m.newest # NULL /\ Clock[TimeAt(k, n)] <= Clock[m.newest]

\* The first n lines of the file that the replay was asked for.
Asked(n) == {i \in 1..n : Producible(dlq_file[i]) /\ Wanted(dlq_file[i], query)}

\* A replay of the file ends only when it has produced, in the order of the file,
\* the first letters with a payload among those of the topics asked for, up to
\* the limit; also when the backfill goes on writing to the file (replay_file).
ReplayedAsAsked ==
  [][replay = "reading" /\ replay' = "ended" =>
       LET all == Asked(Len(dlq_file))
       IN /\ Len(produced) = IF query.limit = NULL \/ query.limit >= Cardinality(all)
                             THEN Cardinality(all) ELSE query.limit
          /\ \A i \in all : Cardinality(Asked(i)) <= Len(produced) =>
               produced[Cardinality(Asked(i))] = dlq_file[i]]_vars

-------------------------------------------------------------------------------
(* What the documents promise *)

\* .specs/architecture_guide.md line 224: dead letters, in operation those of the
\* table, are processed again by a selection with scripts/replay_dlq.py.
TableReplayed ==
  replay \in {"ended", "raised"} /\ query.backend = "db" =>
    \A i \in 1..Len(fetched) :
      ~fetched[i].empty => \E j \in 1..Len(produced) : produced[j] = fetched[i]
===============================================================================
