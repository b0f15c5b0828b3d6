----------------------------- MODULE LedgerPairing -----------------------------
(***************************************************************************)
(* The database transactions of the Sync Consumer.                         *)
(*                                                                         *)
(* Workers (consumer replicas, backfill processes) handle ledger events,   *)
(* each in one READ COMMITTED transaction (session_scope) that runs        *)
(* upsert_ledger_entry: a latest-wins upsert of the entry, then            *)
(* update_pairing_for_related_id, which reads the entries, the order and   *)
(* the pair of the event's related_id and upserts the pair it computed.    *)
(* One action is one SQL statement or one reading of the clock, so         *)
(* transactions of different workers interleave between any two.           *)
(* A payment order event is a transaction of one statement: one action.    *)
(*                                                                         *)
(* Delivery is at least once and in any order: a worker may begin any      *)
(* event at any time, again after a commit (redelivery, backfill, DLQ      *)
(* replay) or after an abort (error, lost connection, crash).              *)
(*                                                                         *)
(* Abstracted: wallets, amounts and event times, which a row copies from   *)
(* its event and a pair from its legs; the status and the amount a pair    *)
(* copies from its order, as the version of the order they are copied      *)
(* from; metrics.                                                          *)
(***************************************************************************)
EXTENDS LatestWins

CONSTANTS
  Workers,        \* processes that run upserts
  TxIds,          \* keys of ledger_entries
  Orders,         \* keys of payment_orders and payment_ledger_pairs
  Statuses,       \* values of payment_orders.status
  LedgerEvents,   \* ledger events that may be delivered
  OrderEvents,    \* payment order events that may be delivered
  MaxClock        \* bound on the clock

EntryTypes   == {"PAYMENT", "RECEIVE", "OTHER"}
RelatedTypes == {"PAYMENT_ORDER", "OTHER"}

LedgerRows == [event: LedgerEvents, ingested_at: 0..MaxClock]
OrderRows  == [event: OrderEvents, ingested_at: 0..MaxClock]
PairDrafts == [payment_tx_id: Nullable(TxIds), receive_tx_id: Nullable(TxIds),
               order: Nullable(OrderEvents), updated_at: Nullable(Nat)]
PairRows   == {p \in PairDrafts : p.updated_at # NULL}

ASSUME ClockAssumption == MaxClock \in Nat

ASSUME EventsAssumption ==
  /\ LedgerEvents \subseteq
       [tx_id: TxIds, entry_type: EntryTypes,
        related_id: Nullable(Orders), related_type: Nullable(RelatedTypes),
        updated_at: Nullable(Nat), source_version: Nullable(Nat)]
  /\ OrderEvents \subseteq
       [order_id: Orders, status: Statuses,
        updated_at: Nullable(Nat), source_version: Nullable(Nat)]
  /\ LedgerEvents \cap OrderEvents = {}

\* NULL is none of the values it stands in for.
ASSUME NoneAssumption ==
  /\ NULL \notin TxIds \cup Orders \cup RelatedTypes
  /\ NULL \notin LedgerEvents \cup OrderEvents
  /\ NULL \notin LedgerRows
  /\ NULL \notin OrderRows
  /\ NULL \notin PairDrafts

VARIABLES
  ledger,   \* committed bo.ledger_entries
  orders,   \* committed bo.payment_orders
  pairs,    \* committed bo.payment_ledger_pairs
  pc,       \* the statement each worker runs next
  row,      \* the ledger row each worker's transaction upserts
  draft,    \* the PairingSnapshot each worker has computed
  wrote,    \* which of its upserts took effect, uncommitted
  now,      \* the clock the workers read
  applied,  \* history: events whose transaction committed
  solo,     \* history: workers that have had their order to themselves
  raced     \* history: orders on which transactions have overlapped since one
            \* last ran alone to its commit

tables == <<ledger, orders, pairs>>
local  == <<pc, row, draft, wrote>>
ghosts == <<applied, solo, raced>>
vars   == <<tables, local, now, ghosts>>

Steps == {"idle", "upsert_ledger", "select_entries", "select_order",
          "select_pair", "stamp", "upsert_pair", "commit"}

Init ==
  /\ ledger  = [t \in TxIds |-> NULL]
  /\ orders  = [o \in Orders |-> NULL]
  /\ pairs   = [o \in Orders |-> NULL]
  /\ pc      = [w \in Workers |-> "idle"]
  /\ row     = [w \in Workers |-> NULL]
  /\ draft   = [w \in Workers |-> NULL]
  /\ wrote   = [w \in Workers |-> {}]
  /\ now     = 0
  /\ applied = {}
  /\ solo    = {}
  /\ raced   = {}

-------------------------------------------------------------------------------
(* Helpers *)

\* datetime.now(): the clock never goes back; two readings may be equal.
ReadClock(t) == t \in {now, now + 1} /\ t <= MaxClock /\ now' = t

\* upsert_ledger_entry pairs only entries that may belong to a payment order.
Pairable(e) == e.related_id # NULL /\ e.related_type \in {NULL, "PAYMENT_ORDER"}

Complete(pair) ==
  pair # NULL /\ pair.payment_tx_id # NULL /\ pair.receive_tx_id # NULL

\* A slip: no regression guard.
UpdateAlways(existing_complete, new_complete) == TRUE

should_update_pair(existing_complete, new_complete) ==
  ~(existing_complete /\ ~new_complete)

\* Once its upsert has run, a transaction locks the ledger row until it ends,
\* whether or not the row was replaced (ON CONFLICT locks the row first).
HoldsRow(v, t) == /\ pc[v] \notin {"idle", "upsert_ledger"}
                  /\ row[v].event.tx_id = t
HoldsPair(v, o) == /\ pc[v] = "commit"
                   /\ draft[v] # NULL /\ draft[v].updated_at # NULL
                   /\ row[v].event.related_id = o

\* READ COMMITTED: a statement sees what is committed when it starts and the
\* earlier writes of its own transaction.
SeenBy(w) == IF "ledger" \in wrote[w]
             THEN [ledger EXCEPT ![row[w].event.tx_id] = row[w]]
             ELSE ledger

EntriesOf(table, o) ==
  {t \in TxIds : table[t] # NULL /\ table[t].event.related_id = o}

OfType(table, txs, type) == {t \in txs : table[t].event.entry_type = type}

\* A slip: the whole list instead of its first element.
AllOf(txs) == {txs}

\* next((e for e in entries if ...), None) over rows in no particular order.
FirstOf(txs) == IF txs = {} THEN {NULL} ELSE txs

\* A transaction that works on the pair of order o is open.
WorksOn(v, o) == /\ pc[v] # "idle"
                 /\ Pairable(row[v].event)
                 /\ row[v].event.related_id = o

EndTransaction(w) ==
  /\ pc'    = [pc EXCEPT ![w] = "idle"]
  /\ row'   = [row EXCEPT ![w] = NULL]
  /\ draft' = [draft EXCEPT ![w] = NULL]
  /\ wrote' = [wrote EXCEPT ![w] = {}]
  /\ solo'  = solo \ {w}

-------------------------------------------------------------------------------
(* A ledger event: upsert_ledger_entry, statement by statement *)

\* session_scope opens and ingested_at is read.
Begin(w, e) ==
  /\ pc[w] = "idle"
  /\ \E t \in {now, now + 1} :
       /\ ReadClock(t)
       /\ row' = [row EXCEPT ![w] = [event |-> e, ingested_at |-> t]]
  /\ pc' = [pc EXCEPT ![w] = "upsert_ledger"]
  /\ LET others == {v \in Workers : Pairable(e) /\ WorksOn(v, e.related_id)}
     IN IF others = {} THEN solo' = solo \cup {w} /\ UNCHANGED raced
        ELSE /\ solo' = solo \ others
             /\ raced' = raced \cup {e.related_id}
  /\ UNCHANGED <<tables, draft, wrote, applied>>

\* A slip: an event the upsert ignored as stale does not refresh the pair.
UpsertLedgerThenPairIfNew(w) ==
  LET r == row[w]
      t == r.event.tx_id
      wins == ledger[t] = NULL \/ RowWins(r, ledger[t])
  IN /\ pc[w] = "upsert_ledger"
     /\ \A v \in Workers \ {w} : ~HoldsRow(v, t)
     /\ wrote' = [wrote EXCEPT ![w] = IF wins THEN {"ledger"} ELSE {}]
     /\ pc' = [pc EXCEPT ![w] = IF wins /\ Pairable(r.event)
                                THEN "select_entries" ELSE "commit"]
     /\ UNCHANGED <<tables, row, draft, now, ghosts>>

\* A slip: the row is compared as it was read, without waiting for its lock.
UpsertLedgerUnlocked(w) ==
  LET r == row[w]
      t == r.event.tx_id
  IN /\ pc[w] = "upsert_ledger"
     /\ wrote' = [wrote EXCEPT ![w] =
                    IF ledger[t] = NULL \/ RowWins(r, ledger[t])
                    THEN {"ledger"} ELSE {}]
     /\ pc' = [pc EXCEPT ![w] =
                 IF Pairable(r.event) THEN "select_entries" ELSE "commit"]
     /\ UNCHANGED <<tables, row, draft, now, ghosts>>

\* The upsert waits for the row lock, then compares with the row as committed.
UpsertLedger(w) ==
  LET r == row[w]
      t == r.event.tx_id
  IN /\ pc[w] = "upsert_ledger"
     /\ \A v \in Workers \ {w} : ~HoldsRow(v, t)
     /\ wrote' = [wrote EXCEPT ![w] =
                    IF ledger[t] = NULL \/ RowWins(r, ledger[t])
                    THEN {"ledger"} ELSE {}]
     /\ pc' = [pc EXCEPT ![w] =
                 IF Pairable(r.event) THEN "select_entries" ELSE "commit"]
     /\ UNCHANGED <<tables, row, draft, now, ghosts>>

\* What pairing makes of the rows a SELECT has seen.
DraftFrom(w, seen) ==
  LET found == EntriesOf(seen, row[w].event.related_id)
  IN /\ \/ /\ found = {}
           /\ pc' = [pc EXCEPT ![w] = "commit"]
           /\ UNCHANGED draft
        \/ /\ found # {}
           /\ \E p \in FirstOf(OfType(seen, found, "PAYMENT")),
                 r \in FirstOf(OfType(seen, found, "RECEIVE")) :
                draft' = [draft EXCEPT ![w] =
                            [payment_tx_id |-> p, receive_tx_id |-> r,
                             order |-> NULL, updated_at |-> NULL]]
           /\ pc' = [pc EXCEPT ![w] = "select_order"]
     /\ UNCHANGED <<tables, row, wrote, now, ghosts>>

\* A slip: SELECT ... FOR UPDATE, which waits for the rows others have locked.
SelectEntriesForUpdate(w) ==
  /\ pc[w] = "select_entries"
  /\ \A v \in Workers \ {w} :
       \A t \in EntriesOf(SeenBy(w), row[w].event.related_id) : ~HoldsRow(v, t)
  /\ DraftFrom(w, SeenBy(w))

\* SELECT the entries of related_id, of any related_type; none (the event lost
\* to a version with another related_id) ends the pairing.
SelectEntries(w) == pc[w] = "select_entries" /\ DraftFrom(w, SeenBy(w))

SelectOrder(w) ==
  LET o == row[w].event.related_id
  IN /\ pc[w] = "select_order"
     /\ draft' = [draft EXCEPT ![w].order =
                    IF orders[o] = NULL THEN NULL ELSE orders[o].event]
     /\ pc' = [pc EXCEPT ![w] = "select_pair"]
     /\ UNCHANGED <<tables, row, wrote, now, ghosts>>

\* The regression guard looks at the pair without locking it.
SelectPair(w) ==
  LET o == row[w].event.related_id
  IN /\ pc[w] = "select_pair"
     /\ pc' = [pc EXCEPT ![w] =
                 IF should_update_pair(Complete(pairs[o]), Complete(draft[w]))
                 THEN "stamp" ELSE "commit"]
     /\ UNCHANGED <<tables, row, draft, wrote, now, ghosts>>

\* The pair's updated_at and ingested_at: one later reading of the clock.
Stamp(w) ==
  /\ pc[w] = "stamp"
  /\ \E t \in {now, now + 1} :
       /\ ReadClock(t)
       /\ draft' = [draft EXCEPT ![w].updated_at = t]
  /\ pc' = [pc EXCEPT ![w] = "upsert_pair"]
  /\ UNCHANGED <<tables, row, wrote, ghosts>>

\* A slip: the pair is committed before the ledger entry is.
UpsertPairAtOnce(w) ==
  LET o == row[w].event.related_id
  IN /\ pc[w] = "upsert_pair"
     /\ pairs' = [pairs EXCEPT ![o] =
                    IF @ = NULL \/ PairWins(draft[w], @) THEN draft[w] ELSE @]
     /\ pc' = [pc EXCEPT ![w] = "commit"]
     /\ UNCHANGED <<ledger, orders, row, draft, wrote, now, ghosts>>

UpsertPair(w) ==
  LET o == row[w].event.related_id
  IN /\ pc[w] = "upsert_pair"
     /\ \A v \in Workers \ {w} : ~HoldsPair(v, o)
     /\ wrote' = [wrote EXCEPT ![w] =
                    IF pairs[o] = NULL \/ PairWins(draft[w], pairs[o])
                    THEN @ \cup {"pair"} ELSE @]
     /\ pc' = [pc EXCEPT ![w] = "commit"]
     /\ UNCHANGED <<tables, row, draft, now, ghosts>>

\* session.commit(): both upserts become visible together.
Commit(w) ==
  LET e == row[w].event
  IN /\ pc[w] = "commit"
     /\ ledger' = SeenBy(w)
     /\ pairs' = IF "pair" \in wrote[w]
                 THEN [pairs EXCEPT ![e.related_id] = draft[w]] ELSE pairs
     /\ applied' = applied \cup {e}
     /\ raced' = raced \ {o \in Orders : w \in solo /\ WorksOn(w, o)}
     /\ EndTransaction(w)
     /\ UNCHANGED <<orders, now>>

\* session.rollback(), or the connection or the process is lost.
Abort(w) ==
  /\ pc[w] # "idle"
  /\ EndTransaction(w)
  /\ UNCHANGED <<tables, now, applied, raced>>

-------------------------------------------------------------------------------
(* A payment order event: upsert_payment_order, a transaction of one statement
   whose ingested_at was read at some earlier time. Pairs are not refreshed. *)

\* A slip: the last event to arrive wins.
UpsertOrderUnordered(e) ==
  /\ \E t \in 0..now :
       orders' = [orders EXCEPT ![e.order_id] = [event |-> e, ingested_at |-> t]]
  /\ applied' = applied \cup {e}
  /\ UNCHANGED <<ledger, pairs, local, now, solo, raced>>

UpsertOrder(e) ==
  /\ \E t \in 0..now :
       LET r == [event |-> e, ingested_at |-> t]
           o == e.order_id
       IN orders' = [orders EXCEPT ![o] =
                       IF orders[o] = NULL \/ RowWins(r, orders[o]) THEN r ELSE @]
  /\ applied' = applied \cup {e}
  /\ UNCHANGED <<ledger, pairs, local, now, solo, raced>>

-------------------------------------------------------------------------------
Run(w) ==
  \/ UpsertLedger(w) \/ SelectEntries(w) \/ SelectOrder(w) \/ SelectPair(w)
  \/ Stamp(w) \/ UpsertPair(w) \/ Commit(w)

Next ==
  \/ \E w \in Workers : \/ \E e \in LedgerEvents : Begin(w, e)
                        \/ Run(w)
                        \/ Abort(w)
  \/ \E e \in OrderEvents : UpsertOrder(e)

Spec == Init /\ [][Next]_vars

\* A statement that can run does, and PostgreSQL grants row locks in the order
\* they were asked for; nothing forces an event to come or a transaction to fail.
Fairness == \A w \in Workers : SF_vars(UpsertLedger(w)) /\ SF_vars(UpsertPair(w))
                               /\ WF_vars(Run(w))

FairSpec == Spec /\ Fairness

-------------------------------------------------------------------------------
(* Properties *)

TypeOK ==
  /\ ledger \in [TxIds -> Nullable(LedgerRows)]
  /\ orders \in [Orders -> Nullable(OrderRows)]
  /\ pairs \in [Orders -> Nullable(PairRows)]
  /\ pc \in [Workers -> Steps]
  /\ row \in [Workers -> Nullable(LedgerRows)]
  /\ draft \in [Workers -> Nullable(PairDrafts)]
  /\ wrote \in [Workers -> SUBSET {"ledger", "pair"}]
  /\ now \in 0..MaxClock
  /\ applied \subseteq LedgerEvents \cup OrderEvents
  /\ solo \subseteq Workers
  /\ raced \subseteq Orders

LedgerEventsOf(t) == {e \in LedgerEvents : e.tx_id = t}
OrderEventsOf(o)  == {e \in OrderEvents : e.order_id = o}

\* A stored ledger entry is the latest of the events applied for its tx_id,
\* whatever the order and the number of their deliveries and however the
\* workers' upserts interleave; a rolled back event leaves nothing behind.
\* (latest_wins_upsert under the row lock, for uniform metadata.)
LedgerIsLatest ==
  \A t \in TxIds : IsLatestOf(ledger[t], applied \cap LedgerEventsOf(t),
                              LedgerEventsOf(t))

\* The ledger implements a latest-wins table: each transaction that commits is
\* one merge with the row as stored at that time, whichever statements of other
\* transactions ran since its upsert, and also where the events of an entry mix
\* updated_at and source_version, so that their order of arrival decides
\* (latest_wins_upsert, its comparison and its commit several statements apart).
LedgerTable ==
  INSTANCE LatestRows
  WITH Keys <- TxIds, rows <- ledger, merged <- applied \cap LedgerEvents,
       Incoming <- [t \in TxIds |-> [event: LedgerEventsOf(t), ingested_at: 0..MaxClock]]

LedgerMerges == LedgerTable!TableSpec

\* The same for payment orders: a late SETTLED does not undo a CANCELLED.
OrdersAreLatest ==
  \A o \in Orders : IsLatestOf(orders[o], applied \cap OrderEventsOf(o),
                               OrderEventsOf(o))

\* A pair names only transactions stored in the ledger: no leg was read from a
\* transaction that rolled back (update_pairing_for_related_id reads the row its
\* own transaction has not committed yet).
PairLegsStored ==
  \A o \in Orders : pairs[o] # NULL =>
    \A t \in {pairs[o].payment_tx_id, pairs[o].receive_tx_id} :
       t # NULL => ledger[t] # NULL

Sides == {"PAYMENT", "RECEIVE"}

\* An entry on this side of the order o is stored.
Stored(table, o, side) ==
  \E t \in TxIds : /\ table[t] # NULL
                   /\ table[t].event.related_id = o
                   /\ Pairable(table[t].event)
                   /\ table[t].event.entry_type = side

LegOf(pair, side) == IF pair = NULL THEN NULL
                     ELSE IF side = "PAYMENT" THEN pair.payment_tx_id
                     ELSE pair.receive_tx_id

\* A pair names a leg on every side on which an entry of its order is stored, so
\* it is complete when both are, unless transactions on the order have overlapped
\* and none has run alone since: one redelivery on its own repairs a pair that a
\* race left behind (update_pairing_for_related_id recomputes the pair from the
\* stored entries).
PairedUnlessRaced ==
  \A o \in Orders \ raced : \A side \in Sides :
    Stored(ledger, o, side) => LegOf(pairs[o], side) # NULL

\* A complete pair stays complete, unless transactions on the order have
\* overlapped and none has run alone since (should_update_pair).
NoRegressionUnlessRaced ==
  [][\A o \in Orders \ raced : Complete(pairs[o]) => Complete(pairs'[o])]_vars

\* The version of the order whose status and amount a pair shows is replaced only
\* by the same or a later one, and never by none, unless transactions on the
\* order overlapped: SelectOrder and UpsertPair are not one step, and the order
\* moves between them.
StatusAdvancesUnlessRaced ==
  [][\A o \in Orders \ raced :
       /\ pairs[o] # NULL /\ pairs[o].order # NULL
       /\ UniformMetadata(OrderEventsOf(o))
       => /\ pairs'[o].order # NULL
          /\ Age(pairs[o].order) <= Age(pairs'[o].order)]_vars

\* Every transaction ends: the ledger row and the pair row are locked in that
\* order by every transaction, so no two wait for each other.
TransactionsEnd == \A w \in Workers : pc[w] # "idle" ~> pc[w] = "idle"

-------------------------------------------------------------------------------
(* What the documents promise without the proviso *)

\* ".specs/architecture_guide.md" line 56: once COMPLETE, a pair never goes back
\* to INCOMPLETE when an old event is processed again (should_update_pair).
RegressionGuard ==
  [][\A o \in Orders : Complete(pairs[o]) => Complete(pairs'[o])]_vars

\* README.md line 40: COMPLETE when both the PAYMENT and the RECEIVE event have
\* been received; checked when no transaction works on the order.
PairedWhenQuiet ==
  \A o \in Orders :
    /\ \A side \in Sides : Stored(ledger, o, side)
    /\ \A w \in Workers : ~WorksOn(w, o)
    => Complete(pairs[o])

\* ".specs/decision_open_items.md" line 53 (DEC-005): only entries of
\* related_type PAYMENT_ORDER (or none) are paired.
OnlyPaymentOrdersPaired ==
  \A o \in Orders : pairs[o] # NULL =>
    \A t \in {pairs[o].payment_tx_id, pairs[o].receive_tx_id} :
       t # NULL => \E e \in LedgerEventsOf(t) : Pairable(e)
===============================================================================
