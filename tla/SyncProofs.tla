------------------------------ MODULE SyncProofs ------------------------------
(***************************************************************************)
(* From offsets to rows: what the group acknowledged is in the table, for  *)
(* every set of consumers, partitions, keys and events.                    *)
(***************************************************************************)
EXTENDS Sync, ConsumerLoopProofs, LatestWinsProofs

\* The events of key k whose transaction has committed.
StoredOf(k) == {Event(m) : m \in stored} \cap EventsOf(k)

\* Only events that parse are stored, a message carries an event exactly when it
\* parses, and each row is the latest of the events stored for its key.
TableInv ==
  /\ \A m \in Published : Body(m) = "valid" <=> Event(m) \in Events
  /\ \A m \in stored : Body(m) = "valid"
  /\ DOMAIN rows = Keys
  /\ \A k \in Keys : IsLatestOf(rows[k], StoredOf(k), EventsOf(k))

LEMMA TableInitial == SyncInit => TableInv
BY LoopAssumption
DEF SyncInit, Init, Table!TableInit, TableInv, IsLatestOf, StoredOf, Published, Ids

\* Every step of the whole is a step of the loop.
LEMMA SyncIsLoop == [SyncNext]_syncVars => [Next]_vars
BY DEF SyncNext, RunEvent, StoreEvent, FailEvent, Next, Run, syncVars

\* The content of a message never changes.
LEMMA LogGrows ==
  ASSUME LoopTyped, [Next]_vars, NEW m \in Published
  PROVE  m \in Published' /\ log'[m[1]][m[2]] = log[m[1]][m[2]]
<1>1. m[1] \in Partitions /\ m[2] \in 1..Len(log[m[1]]) /\ m \in Ids
  BY LoopAssumption DEF Published, Ids, LoopTyped, LoopTypeOK
<1>2. ASSUME NEW p \in Partitions, NEW x \in Message, Publish(p, x)
      PROVE  m \in Published' /\ log'[m[1]][m[2]] = log[m[1]][m[2]]
  BY <1>1, <1>2 DEF Publish, LoopTyped, LoopTypeOK, Published
<1>3. ASSUME NEW p \in Partitions, NEW x \in dlq_file, ReplayFile(x, p)
      PROVE  m \in Published' /\ log'[m[1]][m[2]] = log[m[1]][m[2]]
  <2>1. x \in Published
    BY DEF LoopTyped, LoopStage, Settled
  <2>2. [body |-> Body(x), event |-> Event(x), text_key |-> TRUE] \in Message
    BY <2>1, BodyTyped DEF Body, Event, Message
  <2> QED
    BY <1>2, <1>3, <2>2 DEF ReplayFile
<1>4. CASE UNCHANGED log
  BY <1>1, <1>4 DEF Published
<1> QED
  BY <1>2, <1>3, <1>4, LoopAssumption
  DEF Next, Around, Run, Loop, Assign, Revoke, Answer, Start, Poll, Store, Fail, Leave,
      WriteDlqDb, WriteDlqFile, CommitMsg, Stop, vars, kafka

\* A producer publishes events that parse or none, and a replay repeats one.
LEMMA WellFormedNext ==
  ASSUME LoopTyped, TableInv, [Next]_vars, NEW m \in Published'
  PROVE  Body(m)' = "valid" <=> Event(m)' \in Events
<1> DEFINE New(x) == /\ x \in Message
                     /\ x.body = "valid" <=> x.event \in Events
<1>1. CASE m \in Published
  BY <1>1, LogGrows DEF TableInv, Body, Event
<1>2. ASSUME m \notin Published, NEW p \in Partitions, NEW x, New(x), Publish(p, x)
      PROVE  Body(m)' = "valid" <=> Event(m)' \in Events
  <2>1. m[1] = p /\ m[2] = Len(log[p]) + 1
    BY <1>2, LoopAssumption DEF Publish, Published, Ids, LoopTyped, LoopTypeOK
  <2>2. log'[m[1]][m[2]] = x
    BY <1>2, <2>1 DEF Publish, LoopTyped, LoopTypeOK
  <2> QED BY <1>2, <2>2 DEF Body, Event
<1>3. ASSUME NEW p \in Partitions, NEW x \in dlq_file, ReplayFile(x, p)
      PROVE  New([body |-> Body(x), event |-> Event(x), text_key |-> TRUE])
  <2>1. x \in Published
    BY DEF LoopTyped, LoopStage, Settled
  <2> QED
    BY <2>1, BodyTyped DEF TableInv, Body, Event, Message
<1>4. CASE UNCHANGED log
  BY <1>1, <1>4 DEF Published
<1> HIDE DEF New
<1>5. \A x \in Publishable : New(x)
  BY LoopAssumption DEF New
<1> QED
  BY <1>1, <1>2, <1>3, <1>4, <1>5
  DEF Next, Around, Run, Loop, Assign, Revoke, Answer, Start, Poll, Store, Fail, Leave,
      ReplayFile, WriteDlqDb, WriteDlqFile, CommitMsg, Stop, vars, kafka

\* One transaction: the event of m joins the stored ones as its row is merged.
LEMMA MergeNext ==
  ASSUME LoopTyped, TableInv, [Next]_vars, NEW m \in Published, Body(m) = "valid",
         UNCHANGED log, stored' = stored \cup {m},
         Table!Merge(Event(m).key, RowOf(Event(m)))
  PROVE  /\ \A n \in stored' : Body(n)' = "valid"
         /\ DOMAIN rows' = Keys
         /\ \A k \in Keys : IsLatestOf(rows'[k], StoredOf(k)', EventsOf(k))
<1> DEFINE e == Event(m)
           r == RowOf(e)
           k == e.key
<1>1. e \in Events /\ k \in Keys /\ e \in EventsOf(k)
  BY SyncAssumption DEF TableInv, EventsOf
<1>2. /\ r # NULL /\ r.event = e /\ r.event \in EventsOf(k)
      /\ \A f \in EventsOf(k) : HasMetadata(f)
  BY <1>1, SyncAssumption DEF RowOf, EventsOf, HasMetadata
<1>3. rows' = [rows EXCEPT ![k] =
                 IF rows[k] = NULL \/ RowWins(r, rows[k]) THEN r ELSE rows[k]]
  BY DEF Table!Merge, Table!Merged, RowWins, AtLeast, Table!RowWins, Table!AtLeast
<1>4. \A n \in Published : Event(n)' = Event(n) /\ Body(n)' = Body(n)
  BY DEF Event, Body
<1>5. stored \subseteq Published
  BY DEF LoopTyped, LoopStage, Settled
<1>6. \A n \in stored' : Body(n)' = "valid"
  BY <1>4, <1>5 DEF TableInv
<1>7. ASSUME NEW j \in Keys
      PROVE  IsLatestOf(rows'[j], StoredOf(j)', EventsOf(j))
  <2>1. {Event(n) : n \in stored}' = {Event(n) : n \in stored} \cup {e}
    BY <1>4, <1>5
  <2>2. StoredOf(j)' = StoredOf(j) \cup ({e} \cap EventsOf(j))
    BY <2>1 DEF StoredOf, EventsOf
  <2>3. IsLatestOf(rows[j], StoredOf(j), EventsOf(j))
    BY DEF TableInv
  <2>4. CASE j = k
    <3>1. r # NULL /\ r.event \in EventsOf(j) /\ \A f \in EventsOf(j) : HasMetadata(f)
      BY <1>2, <2>4
    <3>2. StoredOf(j)' = StoredOf(j) \cup {r.event}
      <4> HIDE DEF r, e, k
      <4> QED BY <1>2, <2>2, <3>1
    <3>3. StoredOf(j) \in SUBSET EventsOf(j)
      BY DEF StoredOf
    <3>4. rows'[j] = IF rows[j] = NULL \/ RowWins(r, rows[j]) THEN r ELSE rows[j]
      BY <1>1, <1>3, <2>4 DEF TableInv
    <3> HIDE DEF r, e, k
    <3> QED BY <2>3, <3>1, <3>2, <3>3, <3>4, LatestStep
  <2>5. CASE j # k
    <3>1. StoredOf(j)' = StoredOf(j)
      BY <1>1, <2>2, <2>5 DEF EventsOf
    <3>2. rows'[j] = rows[j]
      BY <1>3, <2>5
    <3> QED BY <2>3, <3>1, <3>2
  <2> QED BY <2>4, <2>5
<1> QED
  BY <1>3, <1>6, <1>7 DEF TableInv

LEMMA TableNext ==
  ASSUME LoopTyped, TableInv, [SyncNext]_syncVars PROVE TableInv'
<1>0. [Next]_vars
  BY SyncIsLoop
<1>1. \A m \in Published' : Body(m)' = "valid" <=> Event(m)' \in Events
  BY <1>0, WellFormedNext
<1>2. ASSUME UNCHANGED <<stored, rows>> PROVE TableInv'
  <2>1. stored \subseteq Published
    BY DEF LoopTyped, LoopStage, Settled
  <2>2. \A m \in stored : Event(m)' = Event(m) /\ Body(m)' = Body(m)
    BY <1>0, <2>1, LogGrows DEF Event, Body
  <2>3. {Event(m) : m \in stored}' = {Event(m) : m \in stored}
    BY <1>2, <2>2
  <2>4. \A k \in Keys : StoredOf(k)' = StoredOf(k)
    BY <2>3 DEF StoredOf, EventsOf
  <2> QED
    BY <1>1, <1>2, <2>2, <2>4 DEF TableInv, EventsOf, IsLatestOf, UniformMetadata, Age
<1>3. ASSUME NEW c \in Consumers, Store(c) \/ Fail(c), stored' = stored \cup {msg[c]},
             Table!Merge(Event(msg[c]).key, RowOf(Event(msg[c]))),
             Body(msg[c]) = "valid"
      PROVE  TableInv'
  <2>1. msg[c] \in Published /\ UNCHANGED log
    BY <1>3 DEF Store, Fail, LoopTyped, LoopStage, LoopTypeOK, kafka
  <2>2. /\ \A n \in stored' : Body(n)' = "valid"
        /\ DOMAIN rows' = Keys
        /\ \A k \in Keys : IsLatestOf(rows'[k], StoredOf(k)', EventsOf(k))
    BY <1>0, <1>3, <2>1, MergeNext
  <2> QED
    BY <1>1, <2>2 DEF TableInv, EventsOf, IsLatestOf, UniformMetadata, Age
<1>4. ASSUME NEW c \in Consumers, StoreEvent(c) PROVE TableInv'
  BY <1>3, <1>4 DEF StoreEvent, Store
<1>5. ASSUME NEW c \in Consumers, FailEvent(c) PROVE TableInv'
  <2>1. CASE UNCHANGED <<stored, rows>>
    BY <1>2, <2>1
  <2>2. CASE /\ stored' = stored \cup {msg[c]}
             /\ Table!Merge(Event(msg[c]).key, RowOf(Event(msg[c])))
    <3>1. Body(msg[c]) = "valid"
      BY <1>5, <2>2 DEF FailEvent, Fail, TableInv
    <3> QED BY <1>3, <1>5, <2>2, <3>1 DEF FailEvent
  <2> QED BY <1>5, <2>1, <2>2 DEF FailEvent
<1>6. ASSUME NEW c \in Consumers, Loop(c), UNCHANGED rows PROVE UNCHANGED stored
  BY <1>6 DEF Loop, Start, Poll, WriteDlqDb, WriteDlqFile, CommitMsg
<1>7. ASSUME Around PROVE UNCHANGED stored
  BY <1>7 DEF Around, Publish, ReplayFile, Assign, Revoke, Answer, Stop
<1> QED
  BY <1>2, <1>4, <1>5, <1>6, <1>7 DEF SyncNext, RunEvent, syncVars, vars

LEMMA SyncRefinesLoop == SyncSpec => Spec
BY SyncIsLoop, PTL DEF SyncSpec, SyncInit, Spec

\* With the rows its transactions leave, the loop still delivers every message at
\* least once, and commits no offset past one that is neither stored nor put aside
\* (run_consumer; the property the run of MCSync checks is one of this composition).
THEOREM SyncDelivers ==
  ASSUME OffsetReset = "earliest"
  PROVE  SyncSpec => DeliversAtLeastOnce /\ []NothingSkipped
BY SyncRefinesLoop, Delivers, NothingIsSkipped, PTL

\* What the offsets passed is in the table, overtaken there, or went to a DLQ.
THEOREM AckedInTable == SyncSpec => []AckedIsInTable
<1>1. SyncSpec => Spec
  BY SyncRefinesLoop
<1>2. LoopTyped /\ TableInv /\ NothingSkipped => AckedIsInTable
  <2> SUFFICES ASSUME LoopTyped, TableInv, NothingSkipped, OffsetReset = "earliest",
                      NEW m \in Acked \ (kept \cup unwritten)
               PROVE  Body(m) = "valid" /\ InTable(Event(m))
    BY DEF AckedIsInTable
  <2>1. m \in stored /\ m \in Published /\ Body(m) = "valid"
    BY DEF NothingSkipped, Settled, TableInv, LoopTyped, LoopStage
  <2>2. Event(m) \in Events /\ Event(m).key \in Keys
    BY <2>1, SyncAssumption DEF TableInv
  <2>3. Event(m) \in StoredOf(Event(m).key)
    BY <2>1, <2>2 DEF StoredOf, EventsOf
  <2>4. IsLatestOf(rows[Event(m).key], StoredOf(Event(m).key), EventsOf(Event(m).key))
    BY <2>2 DEF TableInv
  <2> QED
    BY <2>1, <2>3, <2>4 DEF InTable, IsLatestOf
<1>3. LoopTyped /\ TableInv /\ [SyncNext]_syncVars => TableInv'
  BY TableNext
<1>4. SyncSpec => []LoopTyped
  BY <1>1, LoopTypedInit, LoopTypedNext, PTL DEF Spec
<1> QED
  BY <1>1, <1>2, <1>3, <1>4, TableInitial, NothingIsSkipped, PTL DEF SyncSpec
===============================================================================
