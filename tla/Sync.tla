--------------------------------- MODULE Sync ---------------------------------
(***************************************************************************)
(* The Sync Consumer as a whole: the Kafka loop (ConsumerLoop) and the     *)
(* rows its transactions leave in bo.ledger_entries and bo.payment_orders. *)
(*                                                                         *)
(* Each transaction of a valid event is one merge of module LatestRows,    *)
(* which LedgerPairing's transactions implement for the ledger             *)
(* (LedgerMerges).  ingested_at, compared only between events that carry   *)
(* no metadata of their own, is left out.                                  *)
(***************************************************************************)
EXTENDS ConsumerLoop

CONSTANT Keys       \* primary keys of the two tables

ASSUME SyncAssumption ==
  /\ Events \subseteq [key: Keys, updated_at: Nullable(Nat),
                       source_version: Nullable(Nat)]
  /\ NULL \notin [event: Events, ingested_at: {0}]

VARIABLE rows       \* the rows of the two tables

syncVars == <<vars, rows>>

EventsOf(k) == {e \in Events : e.key = k}
RowOf(e)    == [event |-> e, ingested_at |-> 0]

Table == INSTANCE LatestRows
         WITH merged <- {Event(m) : m \in stored},
              Incoming <- [k \in Keys |-> {RowOf(e) : e \in EventsOf(k)}]

SyncInit == Init /\ Table!TableInit

\* _handle_payload commits the event and its row together.
StoreEvent(c) ==
  /\ Store(c)
  /\ Table!Merge(Event(msg[c]).key, RowOf(Event(msg[c])))

\* _handle_payload raises: nothing is committed, or all of it is and the
\* connection is lost before the answer.
FailEvent(c) ==
  /\ Fail(c)
  /\ \/ UNCHANGED <<stored, rows>>
     \/ /\ stored' = stored \cup {msg[c]}
        /\ Table!Merge(Event(msg[c]).key, RowOf(Event(msg[c])))

RunEvent(c) == \/ Loop(c) /\ UNCHANGED rows
               \/ StoreEvent(c)
               \/ FailEvent(c)

SyncNext == \/ Around /\ UNCHANGED rows
            \/ \E c \in Consumers : RunEvent(c)

SyncSpec == SyncInit /\ [][SyncNext]_syncVars

\* Consumers run and are restarted, and Kafka assigns partitions; nothing forces
\* a database to work, a commit to take effect or a message to be published.
FairSyncSpec ==
  /\ SyncSpec
  /\ \A c \in Consumers : WF_syncVars(RunEvent(c))
  /\ \A p \in Partitions :
       WF_syncVars(\E c \in Consumers : Assign(p, c) /\ UNCHANGED rows)

-------------------------------------------------------------------------------
(* Properties *)

\* The row of the event's key holds it or one that is not older.
InTable(e) ==
  /\ rows[e.key] # NULL
  /\ UniformMetadata(EventsOf(e.key)) => Age(e) <= Age(rows[e.key].event)

\* What the group has acknowledged to Kafka and no DLQ was meant to take is in
\* the table or was overtaken there: not one event is lost or undone between the
\* offset, the rows and the DLQ, whoever consumes the partition after a rebalance
\* while its former owner still stores an older event, and however often dead
\* letters are replayed (run_consumer, _handle_payload, latest_wins_upsert).
AckedIsInTable ==
  OffsetReset = "earliest" =>
    \A m \in Acked \ (kept \cup unwritten) :
       Body(m) = "valid" /\ InTable(Event(m))

\* Every message published with a UTF-8 key, after others with UTF-8 keys, ends
\* in the table, in a DLQ or in the log as one no DLQ could take, whatever fails:
\* the loop never stops at one.
EventsArrive ==
  \A m \in Ids :
    (/\ m \in Published
     /\ \A n \in 1..m[2] : log[m[1]][n].text_key)
    ~> \/ m \in kept \cup unwritten
       \/ m \in stored /\ InTable(Event(m))
===============================================================================
