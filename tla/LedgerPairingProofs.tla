-------------------------- MODULE LedgerPairingProofs --------------------------
(***************************************************************************)
(* What the sync transactions guarantee for every set of workers, events,  *)
(* orders and every clock bound.                                           *)
(***************************************************************************)
EXTENDS LedgerPairing, LatestWinsProofs

Pairing == {"select_entries", "select_order", "select_pair", "stamp", "upsert_pair"}
Drafted == {"select_order", "select_pair", "stamp", "upsert_pair"}

\* Where a worker's program counter stands and what its transaction holds agree.
StageOK ==
  \A w \in Workers :
    /\ pc[w] = "idle" <=> row[w] = NULL
    /\ pc[w] \in {"idle", "upsert_ledger"} => wrote[w] = {}
    /\ pc[w] \in {"idle", "upsert_ledger", "select_entries"} => draft[w] = NULL
    /\ pc[w] \in Pairing => Pairable(row[w].event)
    /\ pc[w] \in Drafted => draft[w] # NULL
    /\ pc[w] = "upsert_pair" => draft[w].updated_at # NULL
    /\ "pair" \in wrote[w] => /\ pc[w] = "commit"
                              /\ draft[w] \in PairRows
                              /\ Pairable(row[w].event)

Typed == TypeOK /\ StageOK

\* An open transaction holds one of the ledger events and its clock reading.
LEMMA RowFields ==
  ASSUME Typed, NEW w \in Workers, pc[w] # "idle"
  PROVE  /\ row[w] \in LedgerRows
         /\ row[w].event \in LedgerEvents
         /\ row[w].event.tx_id \in TxIds
         /\ row[w].event.related_id \in Nullable(Orders)
         /\ Pairable(row[w].event) => row[w].event.related_id \in Orders
BY EventsAssumption DEF Typed, TypeOK, StageOK, LedgerRows, Nullable, Pairable

LEMMA TypedInit == Init => Typed
BY ClockAssumption
   DEF Init, Typed, TypeOK, StageOK, Nullable, Steps, Pairing, Drafted

\* Ending a transaction leaves the workers typed.
LEMMA TypedEnd ==
  ASSUME Typed, NEW w \in Workers, EndTransaction(w)
  PROVE  /\ pc' \in [Workers -> Steps]
         /\ row' \in [Workers -> Nullable(LedgerRows)]
         /\ draft' \in [Workers -> Nullable(PairDrafts)]
         /\ wrote' \in [Workers -> SUBSET {"ledger", "pair"}]
         /\ solo' \subseteq Workers
         /\ StageOK'
BY DEF Typed, TypeOK, StageOK, EndTransaction, Nullable, Steps, Pairing, Drafted

LEMMA SeenByTyped ==
  ASSUME Typed, NEW w \in Workers, pc[w] # "idle"
  PROVE  SeenBy(w) \in [TxIds -> Nullable(LedgerRows)]
BY RowFields DEF Typed, TypeOK, SeenBy, Nullable

LEMMA TypedNext == Typed /\ [Next]_vars => Typed'
<1> SUFFICES ASSUME Typed, [Next]_vars PROVE Typed'
  OBVIOUS
<1> USE DEF Typed, Nullable
<1>1. ASSUME NEW w \in Workers, NEW e \in LedgerEvents, Begin(w, e)
      PROVE  Typed'
  <2>1. TypeOK'
    BY <1>1, ClockAssumption, EventsAssumption
    DEF TypeOK, Begin, tables, ReadClock, LedgerRows, Steps, Pairable
  <2>2. StageOK'
    BY <1>1, NoneAssumption
    DEF TypeOK, StageOK, Begin, tables, LedgerRows, Pairing, Drafted, ReadClock
  <2> QED BY <2>1, <2>2
<1>2. ASSUME NEW w \in Workers, UpsertLedger(w) PROVE Typed'
  BY <1>2 DEF TypeOK, StageOK, UpsertLedger, tables, ghosts, Steps, Pairing, Drafted
<1>3. ASSUME NEW w \in Workers, SelectEntries(w) PROVE Typed'
  <2>1. ASSUME NEW p \in FirstOf(OfType(SeenBy(w), EntriesOf(SeenBy(w),
                                       row[w].event.related_id), "PAYMENT")),
               NEW r \in FirstOf(OfType(SeenBy(w), EntriesOf(SeenBy(w),
                                       row[w].event.related_id), "RECEIVE"))
        PROVE  [payment_tx_id |-> p, receive_tx_id |-> r,
                order |-> NULL, updated_at |-> NULL] \in PairDrafts
    BY DEF FirstOf, OfType, EntriesOf, PairDrafts
  <2> QED
    BY <1>3, <2>1, NoneAssumption
    DEF TypeOK, StageOK, SelectEntries, DraftFrom, tables, ghosts, Steps, Pairing, Drafted
<1>4. ASSUME NEW w \in Workers, SelectOrder(w) PROVE Typed'
  <2>1. row[w].event.related_id \in Orders
    BY <1>4, RowFields DEF SelectOrder, StageOK, Pairing
  <2>2. (IF orders[row[w].event.related_id] = NULL THEN NULL
         ELSE orders[row[w].event.related_id].event) \in Nullable(OrderEvents)
    BY <2>1 DEF TypeOK, OrderRows
  <2>3. draft'[w] \in PairDrafts
    BY <1>4, <2>2 DEF TypeOK, StageOK, SelectOrder, PairDrafts, Drafted
  <2> QED
    BY <1>4, <2>3, NoneAssumption
    DEF TypeOK, StageOK, SelectOrder, tables, ghosts, Steps, Pairing, Drafted
<1>5. ASSUME NEW w \in Workers, SelectPair(w) PROVE Typed'
  BY <1>5 DEF TypeOK, StageOK, SelectPair, tables, ghosts, Steps, Pairing, Drafted
<1>6. ASSUME NEW w \in Workers, Stamp(w) PROVE Typed'
  <2>1. now' \in 0..MaxClock /\ draft'[w] \in PairDrafts /\ draft'[w].updated_at # NULL
    BY <1>6, ClockAssumption, NullAssumption
    DEF TypeOK, StageOK, Stamp, ReadClock, PairDrafts, Drafted
  <2> QED
    BY <1>6, <2>1, NoneAssumption
    DEF TypeOK, StageOK, Stamp, tables, ghosts, Steps, Pairing, Drafted
<1>7. ASSUME NEW w \in Workers, UpsertPair(w) PROVE Typed'
  BY <1>7
  DEF TypeOK, StageOK, UpsertPair, tables, ghosts, Steps, Pairing, Drafted, PairRows
<1>8. ASSUME NEW w \in Workers, Commit(w) PROVE Typed'
  <2>1. ledger' \in [TxIds -> Nullable(LedgerRows)]
    BY <1>8, SeenByTyped DEF Commit
  <2>2. pairs' \in [Orders -> Nullable(PairRows)]
    BY <1>8, RowFields DEF TypeOK, StageOK, Commit
  <2>3. applied' \subseteq LedgerEvents \cup OrderEvents
    BY <1>8, RowFields DEF TypeOK, Commit
  <2> QED
    BY <1>8, <2>1, <2>2, <2>3, TypedEnd DEF TypeOK, Commit
<1>9. ASSUME NEW w \in Workers, Abort(w) PROVE Typed'
  BY <1>9, TypedEnd DEF TypeOK, Abort, tables
<1>10. ASSUME NEW e \in OrderEvents, UpsertOrder(e) PROVE Typed'
  <2>1. \A t \in 0..now : [event |-> e, ingested_at |-> t] \in OrderRows
    BY ClockAssumption DEF TypeOK, OrderRows
  <2> QED
    BY <1>10, <2>1, EventsAssumption DEF TypeOK, StageOK, UpsertOrder, local
<1>11. CASE UNCHANGED vars
  BY <1>11 DEF TypeOK, StageOK, vars, tables, local, ghosts
<1> QED
  BY <1>1, <1>2, <1>3, <1>4, <1>5, <1>6, <1>7, <1>8, <1>9, <1>10, <1>11
  DEF Next, Run

\* The tables, the workers and the clock keep their types, whatever the workers
\* do between two statements of one another.
THEOREM TypeCorrect == Spec => []TypeOK
<1>1. Typed => TypeOK
  BY DEF Typed
<1> QED
  BY <1>1, TypedInit, TypedNext, PTL DEF Spec

-------------------------------------------------------------------------------
(* Latest-wins under concurrency *)

Holding(v) == pc[v] \notin {"idle", "upsert_ledger"}

\* Two open transactions past their upsert hold different rows, and what the
\* upsert decided against the committed row stays right until the commit.
LockInv ==
  /\ \A v, w \in Workers :
       v # w /\ Holding(v) /\ Holding(w) => row[v].event.tx_id # row[w].event.tx_id
  /\ \A w \in Workers : Holding(w) =>
       LET held == ledger[row[w].event.tx_id]
       IN "ledger" \in wrote[w] <=> (held = NULL \/ RowWins(row[w], held))

LatestInv == LockInv /\ LedgerIsLatest /\ OrdersAreLatest

LEMMA LatestInit == Init => LatestInv
BY DEF Init, LatestInv, LockInv, Holding, LedgerIsLatest, OrdersAreLatest, IsLatestOf

LEMMA LockNext ==
  ASSUME Typed, LockInv, [Next]_vars PROVE LockInv'
<1> USE DEF LockInv, Holding, Typed
<1>1. ASSUME NEW w \in Workers, NEW e \in LedgerEvents, Begin(w, e)
      PROVE  LockInv'
  BY <1>1 DEF TypeOK, Begin, tables
<1>2. ASSUME NEW w \in Workers, UpsertLedger(w) PROVE LockInv'
  BY <1>2 DEF TypeOK, UpsertLedger, HoldsRow, tables
<1>3. ASSUME NEW w \in Workers, SelectEntries(w) PROVE LockInv'
  BY <1>3 DEF TypeOK, SelectEntries, DraftFrom, tables
<1>4. ASSUME NEW w \in Workers, SelectOrder(w) PROVE LockInv'
  BY <1>4 DEF TypeOK, SelectOrder, tables
<1>5. ASSUME NEW w \in Workers, SelectPair(w) PROVE LockInv'
  BY <1>5 DEF TypeOK, SelectPair, tables
<1>6. ASSUME NEW w \in Workers, Stamp(w) PROVE LockInv'
  BY <1>6 DEF TypeOK, Stamp, tables
<1>7. ASSUME NEW w \in Workers, UpsertPair(w) PROVE LockInv'
  BY <1>7 DEF TypeOK, UpsertPair, tables
<1>8. ASSUME NEW w \in Workers, Commit(w) PROVE LockInv'
  <2>1. \A v \in Workers : Holding(v)' => v # w /\ Holding(v)
    BY <1>8 DEF TypeOK, Commit, EndTransaction
  <2>2. \A v \in Workers : Holding(v)' =>
           /\ row'[v] = row[v] /\ wrote'[v] = wrote[v]
           /\ ledger'[row[v].event.tx_id] = ledger[row[v].event.tx_id]
    BY <1>8, <2>1 DEF TypeOK, Commit, EndTransaction, SeenBy
  <2> QED
    BY <2>1, <2>2
<1>9. ASSUME NEW w \in Workers, Abort(w) PROVE LockInv'
  BY <1>9 DEF TypeOK, Abort, EndTransaction, tables
<1>10. ASSUME NEW e \in OrderEvents, UpsertOrder(e) PROVE LockInv'
  BY <1>10 DEF UpsertOrder, local
<1>11. CASE UNCHANGED vars
  BY <1>11 DEF vars, tables, local
<1> QED
  BY <1>1, <1>2, <1>3, <1>4, <1>5, <1>6, <1>7, <1>8, <1>9, <1>10, <1>11
  DEF Next, Run

LEMMA LedgerLatestNext ==
  ASSUME Typed, LockInv, LedgerIsLatest, [Next]_vars PROVE LedgerIsLatest'
<1>1. ASSUME NEW w \in Workers, Commit(w) PROVE LedgerIsLatest'
  <2>0. PICK r \in LedgerRows, k \in TxIds : r = row[w] /\ k = r.event.tx_id
    BY <1>1, RowFields DEF Commit
  <2> DEFINE known == LedgerEventsOf(k)
  <2>1. /\ r # NULL
        /\ r.event \in known
        /\ \A e \in known : HasMetadata(e)
    BY <2>0, EventsAssumption, NoneAssumption
    DEF LedgerRows, LedgerEventsOf, HasMetadata
  <2>2. ledger'[k] = IF ledger[k] = NULL \/ RowWins(r, ledger[k]) THEN r ELSE ledger[k]
    BY <1>1, <2>0, <2>1 DEF Typed, TypeOK, LockInv, Holding, Commit, SeenBy
  <2>3. applied' \cap known = (applied \cap known) \cup {r.event}
    BY <1>1, <2>0, <2>1 DEF Commit
  <2>4. IsLatestOf(ledger[k], applied \cap known, known)
    BY <2>0, <2>1 DEF LedgerIsLatest
  <2>5. IsLatestOf(ledger'[k], applied' \cap known, known)
    <3> HIDE DEF known
    <3> QED BY <2>1, <2>2, <2>3, <2>4, LatestStep
  <2>6. ASSUME NEW t \in TxIds, t # k
        PROVE  /\ ledger'[t] = ledger[t]
               /\ applied' \cap LedgerEventsOf(t) = applied \cap LedgerEventsOf(t)
    BY <1>1, <2>0, <2>1, <2>6 DEF Typed, TypeOK, Commit, SeenBy, LedgerEventsOf
  <2> QED
    <3>1. ASSUME NEW t \in TxIds
          PROVE  IsLatestOf(ledger'[t], applied' \cap LedgerEventsOf(t), LedgerEventsOf(t))
      BY <2>5, <2>6 DEF LedgerIsLatest
    <3> QED BY <3>1 DEF LedgerIsLatest, LedgerEventsOf, IsLatestOf
<1>2. ASSUME NEW e \in OrderEvents, UpsertOrder(e) PROVE LedgerIsLatest'
  <2>1. \A t \in TxIds : applied' \cap LedgerEventsOf(t) = applied \cap LedgerEventsOf(t)
    BY <1>2, EventsAssumption DEF UpsertOrder, LedgerEventsOf
  <2> QED
    BY <1>2, <2>1 DEF UpsertOrder, LedgerIsLatest, LedgerEventsOf
<1>3. ledger' = ledger /\ applied' = applied => LedgerIsLatest'
  BY DEF LedgerIsLatest, LedgerEventsOf
<1>4. CASE UNCHANGED <<ledger, applied>>
  BY <1>3, <1>4
<1> QED
  BY <1>1, <1>2, <1>4
  DEF Next, Run, Begin, UpsertLedger, SelectEntries, DraftFrom, SelectOrder, SelectPair,
      Stamp, UpsertPair, Abort, vars, tables, ghosts

LEMMA OrdersLatestNext ==
  ASSUME Typed, OrdersAreLatest, [Next]_vars PROVE OrdersAreLatest'
<1>1. ASSUME NEW e \in OrderEvents, UpsertOrder(e) PROVE OrdersAreLatest'
  <2> DEFINE k == e.order_id
             known == OrderEventsOf(k)
  <2>1. PICK t \in 0..now :
          LET r == [event |-> e, ingested_at |-> t]
          IN orders' = [orders EXCEPT ![k] =
                          IF orders[k] = NULL \/ RowWins(r, orders[k]) THEN r ELSE @]
    BY <1>1 DEF UpsertOrder
  <2> DEFINE r == [event |-> e, ingested_at |-> t]
  <2>2. /\ r \in OrderRows /\ r # NULL /\ r.event = e
        /\ r.event \in known /\ k \in Orders
        /\ \A f \in known : HasMetadata(f)
    BY EventsAssumption, NoneAssumption, ClockAssumption
    DEF Typed, TypeOK, OrderRows, OrderEventsOf, HasMetadata
  <2>3. orders'[k] = IF orders[k] = NULL \/ RowWins(r, orders[k]) THEN r ELSE orders[k]
    BY <2>1, <2>2 DEF Typed, TypeOK
  <2>4. applied' \cap known = (applied \cap known) \cup {r.event}
    BY <1>1, <2>2 DEF UpsertOrder
  <2>5. IsLatestOf(orders[k], applied \cap known, known)
    BY <2>2 DEF OrdersAreLatest
  <2>6. IsLatestOf(orders'[k], applied' \cap known, known)
    <3> HIDE DEF r, k, known
    <3> QED BY <2>2, <2>3, <2>4, <2>5, LatestStep
  <2>7. ASSUME NEW o \in Orders, o # k
        PROVE  /\ orders'[o] = orders[o]
               /\ applied' \cap OrderEventsOf(o) = applied \cap OrderEventsOf(o)
    BY <1>1, <2>1, <2>7 DEF Typed, TypeOK, UpsertOrder, OrderEventsOf
  <2> QED
    BY <2>6, <2>7 DEF OrdersAreLatest, IsLatestOf, OrderEventsOf
<1>2. ASSUME NEW w \in Workers, Commit(w) PROVE OrdersAreLatest'
  <2>1. \A o \in Orders : applied' \cap OrderEventsOf(o) = applied \cap OrderEventsOf(o)
    BY <1>2, RowFields, EventsAssumption DEF Commit, OrderEventsOf
  <2> QED
    BY <1>2, <2>1 DEF Commit, OrdersAreLatest, OrderEventsOf
<1>3. CASE UNCHANGED <<orders, applied>>
  BY <1>3 DEF OrdersAreLatest, OrderEventsOf
<1> QED
  BY <1>1, <1>2, <1>3
  DEF Next, Run, Begin, UpsertLedger, SelectEntries, DraftFrom, SelectOrder, SelectPair,
      Stamp, UpsertPair, Abort, vars, tables, ghosts

LEMMA LatestInvariant == Spec => [](Typed /\ LatestInv)
<1>1. Typed /\ LatestInv /\ [Next]_vars => LatestInv'
  BY LockNext, LedgerLatestNext, OrdersLatestNext DEF LatestInv
<1> QED
  BY <1>1, TypedInit, TypedNext, LatestInit, PTL DEF Spec

\* Every stored ledger entry is the latest of the events committed for it, for
\* any number of workers and any order and number of deliveries.
THEOREM LedgerConverges == Spec => []LedgerIsLatest
<1>1. LatestInv => LedgerIsLatest
  BY DEF LatestInv
<1> QED
  BY <1>1, LatestInvariant, PTL

\* Every stored payment order is the latest of the events committed for it.
THEOREM OrdersConverge == Spec => []OrdersAreLatest
<1>1. LatestInv => OrdersAreLatest
  BY DEF LatestInv
<1> QED
  BY <1>1, LatestInvariant, PTL

\* The ledger is a latest-wins table to its writers: no transaction's commit
\* overwrites or ignores what another committed after it compared, for comparable
\* metadata and for mixed (latest_wins_upsert under the row lock).
THEOREM LedgerImplementsTable == Spec => LedgerMerges
<1>1. Init => LedgerTable!TableInit
  BY DEF Init, LedgerTable!TableInit
<1>2. Typed /\ LockInv /\ [Next]_vars
        => [LedgerTable!TableNext]_(LedgerTable!tableVars)
  <2> SUFFICES ASSUME Typed, LockInv, [Next]_vars
               PROVE  [LedgerTable!TableNext]_<<ledger, applied \cap LedgerEvents>>
    BY DEF LedgerTable!tableVars
  <2>1. ASSUME NEW w \in Workers, Commit(w)
        PROVE  LedgerTable!TableNext
    <3>1. PICK r \in LedgerRows, k \in TxIds : r = row[w] /\ k = r.event.tx_id
      BY <2>1, RowFields DEF Commit
    <3>2. r \in [event: LedgerEventsOf(k), ingested_at: 0..MaxClock]
      BY <3>1 DEF LedgerRows, LedgerEventsOf
    <3>3. "ledger" \in wrote[w] <=> ledger[k] = NULL \/ RowWins(r, ledger[k])
      BY <2>1, <3>1 DEF LockInv, Holding, Commit
    <3>4. LedgerTable!RowWins(r, ledger[k]) <=> RowWins(r, ledger[k])
      BY DEF RowWins, AtLeast, LedgerTable!RowWins, LedgerTable!AtLeast
    <3>5. ledger' = [ledger EXCEPT ![k] = LedgerTable!Merged(@, r)]
      BY <2>1, <3>1, <3>3, <3>4 DEF Typed, TypeOK, Commit, SeenBy, LedgerTable!Merged
    <3>6. applied' \cap LedgerEvents = (applied \cap LedgerEvents) \cup {r.event}
      BY <2>1, <3>1 DEF Commit, LedgerRows
    <3> QED
      BY <3>1, <3>2, <3>5, <3>6 DEF LedgerTable!Merge, LedgerTable!TableNext
  <2>2. ASSUME NEW e \in OrderEvents, UpsertOrder(e)
        PROVE  UNCHANGED <<ledger, applied \cap LedgerEvents>>
    BY <2>2, EventsAssumption DEF UpsertOrder
  <2>3. CASE UNCHANGED <<ledger, applied>>
    BY <2>3
  <2> QED
    BY <2>1, <2>2, <2>3
    DEF Next, Run, Begin, UpsertLedger, SelectEntries, DraftFrom, SelectOrder, SelectPair,
        Stamp, UpsertPair, Abort, vars, tables, ghosts
<1>3. LatestInv => LockInv
  BY DEF LatestInv
<1> QED
  BY <1>1, <1>2, <1>3, LatestInvariant, PTL
  DEF Spec, LedgerMerges, LedgerTable!TableSpec

-------------------------------------------------------------------------------
(* The legs of a pair *)

\* A leg a worker has found is committed, or is the row it is about to commit.
LegsInv ==
  /\ PairLegsStored
  /\ \A w \in Workers : draft[w] # NULL =>
       \A t \in {draft[w].payment_tx_id, draft[w].receive_tx_id} :
          t # NULL => \/ ledger[t] # NULL
                      \/ "ledger" \in wrote[w] /\ t = row[w].event.tx_id

\* No committed entry ever disappears.
LEMMA LedgerGrows ==
  ASSUME Typed, [Next]_vars, NEW t, ledger[t] # NULL
  PROVE  ledger'[t] # NULL
<1>1. ASSUME NEW w \in Workers, Commit(w) PROVE ledger'[t] # NULL
  BY <1>1, RowFields, NoneAssumption DEF Commit, SeenBy, Typed, TypeOK
<1>2. CASE UNCHANGED ledger
  BY <1>2
<1> QED
  BY <1>1, <1>2
  DEF Next, Run, Begin, UpsertLedger, SelectEntries, DraftFrom, SelectOrder, SelectPair,
      Stamp, UpsertPair, Abort, UpsertOrder, vars, tables

LEMMA LegsNext ==
  ASSUME Typed, LegsInv, [Next]_vars PROVE LegsInv'
<1> USE DEF LegsInv, PairLegsStored, Typed
<1>1. ASSUME NEW w \in Workers, SelectEntries(w) PROVE LegsInv'
  <2> DEFINE found == EntriesOf(SeenBy(w), row[w].event.related_id)
  <2>1. \A t \in found : t \in TxIds /\ SeenBy(w)[t] # NULL
    BY DEF EntriesOf
  <2>2. \A t \in found : \/ ledger[t] # NULL
                         \/ "ledger" \in wrote[w] /\ t = row[w].event.tx_id
    BY <2>1 DEF SeenBy, TypeOK
  <2>3. \/ UNCHANGED draft
        \/ \E p, r : /\ p \in found \cup {NULL}
                     /\ r \in found \cup {NULL}
                     /\ draft' = [draft EXCEPT ![w] =
                                    [payment_tx_id |-> p, receive_tx_id |-> r,
                                     order |-> NULL, updated_at |-> NULL]]
    BY <1>1 DEF SelectEntries, DraftFrom, FirstOf, OfType
  <2> QED
    BY <1>1, <2>2, <2>3 DEF SelectEntries, DraftFrom, tables, TypeOK
<1>2. ASSUME NEW w \in Workers, SelectOrder(w) PROVE LegsInv'
  <2>1. /\ draft'[w].payment_tx_id = draft[w].payment_tx_id
        /\ draft'[w].receive_tx_id = draft[w].receive_tx_id
        /\ draft[w] # NULL
    BY <1>2 DEF SelectOrder, TypeOK, StageOK, Drafted, PairDrafts, Nullable
  <2> QED
    BY <1>2, <2>1 DEF SelectOrder, tables, TypeOK
<1>3. ASSUME NEW w \in Workers, Stamp(w) PROVE LegsInv'
  <2>1. /\ draft'[w].payment_tx_id = draft[w].payment_tx_id
        /\ draft'[w].receive_tx_id = draft[w].receive_tx_id
        /\ draft[w] # NULL
    BY <1>3 DEF Stamp, TypeOK, StageOK, Drafted, PairDrafts, Nullable
  <2> QED
    BY <1>3, <2>1 DEF Stamp, tables, TypeOK
<1>4. ASSUME NEW w \in Workers, Commit(w) PROVE LegsInv'
  <2>1. \A t : ledger[t] # NULL => ledger'[t] # NULL
    BY <1>4, LedgerGrows DEF Next, Run
  <2>2. "ledger" \in wrote[w] => ledger'[row[w].event.tx_id] # NULL
    BY <1>4, RowFields, NoneAssumption DEF Commit, SeenBy, TypeOK
  <2>3. \A v \in Workers : draft'[v] # NULL =>
           draft'[v] = draft[v] /\ wrote'[v] = wrote[v] /\ row'[v] = row[v]
    BY <1>4 DEF Commit, EndTransaction, TypeOK
  <2>4. ASSUME NEW o \in Orders, pairs'[o] # NULL
        PROVE  \A t \in {pairs'[o].payment_tx_id, pairs'[o].receive_tx_id} :
                  t # NULL => ledger'[t] # NULL
    <3>1. CASE pairs'[o] = pairs[o]
      BY <2>1, <2>4, <3>1
    <3>2. CASE pairs'[o] = draft[w] /\ draft[w] # NULL
      BY <2>1, <2>2, <3>2
    <3> QED
      BY <1>4, <2>4, <3>1, <3>2 DEF Commit, TypeOK
  <2> QED
    BY <2>1, <2>3, <2>4
<1>5. ASSUME NEW w \in Workers, Abort(w) PROVE LegsInv'
  BY <1>5 DEF Abort, EndTransaction, tables, TypeOK
<1>6. ASSUME NEW w \in Workers, NEW e \in LedgerEvents, Begin(w, e) PROVE LegsInv'
  BY <1>6 DEF Begin, tables, TypeOK, StageOK
<1>7. ASSUME NEW w \in Workers, UpsertLedger(w) PROVE LegsInv'
  BY <1>7 DEF UpsertLedger, tables, TypeOK, StageOK
<1>8. ASSUME NEW w \in Workers, UpsertPair(w) PROVE LegsInv'
  BY <1>8 DEF UpsertPair, tables, TypeOK
<1>9. ASSUME NEW w \in Workers, SelectPair(w) PROVE LegsInv'
  BY <1>9 DEF SelectPair, tables
<1>10. CASE UNCHANGED <<ledger, pairs, local>>
  BY <1>10 DEF local
<1> QED
  BY <1>1, <1>2, <1>3, <1>4, <1>5, <1>6, <1>7, <1>8, <1>9, <1>10
  DEF Next, Run, UpsertOrder, vars, tables

\* A pair names only entries the ledger holds, whatever transactions roll back.
THEOREM LegsStored == Spec => []PairLegsStored
<1>1. Init => LegsInv
  BY DEF Init, LegsInv, PairLegsStored
<1>2. LegsInv => PairLegsStored
  BY DEF LegsInv
<1> QED
  BY <1>1, <1>2, LegsNext, TypedInit, TypedNext, PTL DEF Spec

-------------------------------------------------------------------------------
(* Pairing without a race *)

\* A worker in solo shares its order with no other; only such workers work on an
\* order that is not raced.
SoloInv ==
  /\ \A w \in solo : pc[w] # "idle"
  /\ \A w \in solo, v \in Workers, o \in Orders :
       WorksOn(w, o) /\ WorksOn(v, o) => v = w
  /\ \A w \in Workers, o \in Orders \ raced : WorksOn(w, o) => w \in solo

\* No stamp lies in the future.
ClockInv ==
  /\ \A o \in Orders : pairs[o] # NULL => pairs[o].updated_at <= now
  /\ \A w \in Workers : draft[w] # NULL
       => draft[w].updated_at = NULL \/ draft[w].updated_at <= now

\* The pair of w's order as w's commit will leave it.
PairAfter(w) ==
  IF "pair" \in wrote[w] THEN draft[w] ELSE pairs[row[w].event.related_id]

\* The pair names a leg on every side on which the table holds an entry.
Covers(pair, table, o) ==
  \A side \in Sides : Stored(table, o, side) => LegOf(pair, side) # NULL

\* What w, alone on its order o, knows of it at each step.
Knows(w, o) ==
  /\ pc[w] \in Drafted => Covers(draft[w], SeenBy(w), o)
  /\ pc[w] \in {"stamp", "upsert_pair"} => (Complete(pairs[o]) => Complete(draft[w]))
  /\ pc[w] = "upsert_pair" /\ pairs[o] # NULL
       => pairs[o].updated_at <= draft[w].updated_at
  /\ pc[w] = "commit" => /\ Covers(PairAfter(w), SeenBy(w), o)
                         /\ Complete(pairs[o]) => Complete(PairAfter(w))

KnowsInv == \A w \in solo, o \in Orders : WorksOn(w, o) => Knows(w, o)

PairInv == SoloInv /\ ClockInv /\ KnowsInv /\ PairedUnlessRaced

LEMMA PairInit == Init => PairInv
BY DEF Init, PairInv, SoloInv, ClockInv, KnowsInv, PairedUnlessRaced, WorksOn, Stored

LEMMA SoloNext ==
  ASSUME Typed, SoloInv, [Next]_vars PROVE SoloInv'
<1> USE DEF SoloInv, WorksOn, Typed
<1>1. ASSUME NEW w \in Workers, NEW e \in LedgerEvents, Begin(w, e) PROVE SoloInv'
  <2> DEFINE others == {v \in Workers : Pairable(e) /\ WorksOn(v, e.related_id)}
  <2>1. /\ pc[w] = "idle"
        /\ pc' = [pc EXCEPT ![w] = "upsert_ledger"]
        /\ row'[w].event = e
        /\ \A v \in Workers \ {w} : row'[v] = row[v]
    BY <1>1 DEF Begin, TypeOK
  <2>2. CASE others = {}
    <3>1. solo' = solo \cup {w} /\ raced' = raced
      BY <1>1, <2>2 DEF Begin
    <3>2. \A v \in Workers, o \in Orders : v # w => (WorksOn(v, o)' <=> WorksOn(v, o))
      BY <2>1 DEF TypeOK, Pairable
    <3>3. \A v \in Workers, o \in Orders : v # w /\ WorksOn(w, o)' => ~WorksOn(v, o)
      BY <2>1, <2>2
    <3> QED BY <2>1, <3>1, <3>2, <3>3 DEF TypeOK
  <2>3. CASE others # {}
    <3>1. solo' = solo \ others /\ raced' = raced \cup {e.related_id}
      BY <1>1, <2>3 DEF Begin
    <3>2. \A v \in Workers, o \in Orders : v # w => (WorksOn(v, o)' <=> WorksOn(v, o))
      BY <2>1 DEF TypeOK, Pairable
    <3>3. \A o \in Orders : WorksOn(w, o)' => o = e.related_id /\ Pairable(e)
      BY <2>1
    <3>4. w \notin solo'
      BY <2>1, <3>1
    <3> QED BY <2>1, <3>1, <3>2, <3>3, <3>4 DEF TypeOK
  <2> QED BY <2>2, <2>3
<1>2. ASSUME NEW w \in Workers, EndTransaction(w), raced' = raced \/
                raced' = raced \ {o \in Orders : w \in solo /\ WorksOn(w, o)}
      PROVE  SoloInv'
  <2>1. \A v \in Workers, o \in Orders : WorksOn(v, o)' => v # w /\ WorksOn(v, o)
    BY <1>2 DEF EndTransaction, TypeOK
  <2>2. \A v \in solo' : v \in solo /\ v # w /\ pc'[v] # "idle"
    BY <1>2 DEF EndTransaction, TypeOK
  <2>3. \A v \in Workers, o \in Orders \ raced' : WorksOn(v, o)' => v \in solo'
    BY <1>2, <2>1 DEF EndTransaction
  <2>4. \A v \in Workers, u \in solo', o \in Orders :
           WorksOn(u, o)' /\ WorksOn(v, o)' => v = u
    BY <2>1, <2>2 DEF TypeOK
  <2> QED BY <2>2, <2>3, <2>4
<1>3. ASSUME NEW w \in Workers, Run(w), ~Commit(w) PROVE SoloInv'
  <2>1. /\ UNCHANGED <<row, solo, raced>>
        /\ \A v \in Workers : pc'[v] = "idle" <=> pc[v] = "idle"
    BY <1>3 DEF Run, UpsertLedger, SelectEntries, DraftFrom, SelectOrder, SelectPair, Stamp,
                UpsertPair, ghosts, TypeOK
  <2>2. \A v \in Workers, o \in Orders : WorksOn(v, o)' <=> WorksOn(v, o)
    BY <2>1
  <2> QED BY <2>1, <2>2 DEF TypeOK
<1>4. ASSUME NEW w \in Workers, Commit(w) PROVE SoloInv'
  BY <1>2, <1>4 DEF Commit
<1>5. ASSUME NEW w \in Workers, Abort(w) PROVE SoloInv'
  BY <1>2, <1>5 DEF Abort
<1>6. CASE UNCHANGED <<pc, row, solo, raced>>
  BY <1>6
<1> QED
  BY <1>1, <1>3, <1>4, <1>5, <1>6 DEF Next, UpsertOrder, local, vars, ghosts

LEMMA ClockNext ==
  ASSUME Typed, ClockInv, [Next]_vars PROVE ClockInv'
<1> USE ClockAssumption, NullAssumption, NoneAssumption
    DEF ClockInv, Typed
<1>1. ASSUME NEW w \in Workers, NEW e \in LedgerEvents, Begin(w, e) PROVE ClockInv'
  BY <1>1 DEF Begin, ReadClock, tables, TypeOK, PairRows, PairDrafts, Nullable
<1>2. ASSUME NEW w \in Workers, Stamp(w) PROVE ClockInv'
  <2>1. /\ now' \in Nat /\ now \in Nat /\ now <= now'
        /\ draft[w] \in PairDrafts
        /\ draft'[w].updated_at = now'
        /\ \A v \in Workers \ {w} : draft'[v] = draft[v]
        /\ pairs' = pairs
    BY <1>2 DEF Stamp, ReadClock, tables, TypeOK, StageOK, Drafted, PairDrafts, Nullable
  <2> QED
    BY <1>2, <2>1 DEF Stamp, TypeOK, PairRows, PairDrafts, Nullable
<1>3. ASSUME NEW w \in Workers, SelectEntries(w) PROVE ClockInv'
  BY <1>3 DEF SelectEntries, DraftFrom, tables, TypeOK, StageOK
<1>4. ASSUME NEW w \in Workers, SelectOrder(w) PROVE ClockInv'
  <2>1. draft[w] # NULL /\ draft'[w].updated_at = draft[w].updated_at
    BY <1>4 DEF SelectOrder, TypeOK, StageOK, Drafted, PairDrafts, Nullable
  <2> QED
    BY <1>4, <2>1 DEF SelectOrder, tables, TypeOK
<1>5. ASSUME NEW w \in Workers, Commit(w) PROVE ClockInv'
  BY <1>5 DEF Commit, EndTransaction, TypeOK, StageOK, PairRows
<1>6. ASSUME NEW w \in Workers, Abort(w) PROVE ClockInv'
  BY <1>6 DEF Abort, EndTransaction, tables, TypeOK
<1>7. CASE UNCHANGED <<pairs, draft, now>>
  BY <1>7
<1> QED
  BY <1>1, <1>2, <1>3, <1>4, <1>5, <1>6, <1>7
  DEF Next, Run, UpsertLedger, SelectPair, UpsertPair, UpsertOrder,
      vars, tables, local

\* A commit by v, which works on no order o of w's, brings no entry to o.
LEMMA CommitElsewhere ==
  ASSUME Typed, NEW v \in Workers, Commit(v), NEW o \in Orders, ~WorksOn(v, o)
  PROVE  /\ \A side : Stored(ledger', o, side) => Stored(ledger, o, side)
         /\ pairs'[o] = pairs[o]
<1>1. \A t \in TxIds : ledger'[t] = ledger[t] \/ ledger'[t] = row[v]
  BY RowFields DEF Commit, SeenBy, Typed, TypeOK
<1>2. ~(Pairable(row[v].event) /\ row[v].event.related_id = o)
  BY DEF Commit, WorksOn
<1>3. \A side : Stored(ledger', o, side) => Stored(ledger, o, side)
  BY <1>1, <1>2 DEF Stored
<1>4. pairs'[o] = pairs[o]
  BY <1>2 DEF Commit, Typed, TypeOK, StageOK
<1> QED
  BY <1>3, <1>4

\* What a worker knows depends on the tables and on its own variables only.
LEMMA KnowsFrame ==
  ASSUME NEW v \in Workers, NEW o \in Orders, WorksOn(v, o)', Knows(v, o),
         pc'[v] = pc[v], row'[v] = row[v], draft'[v] = draft[v], wrote'[v] = wrote[v],
         ledger' = ledger, pairs' = pairs
  PROVE  Knows(v, o)'
BY DEF Knows, SeenBy, PairAfter, Covers, Stored, LegOf, Complete

\* A statement of w leaves the other workers what they know.
LEMMA KnowsOthers ==
  ASSUME Typed, KnowsInv, NEW w \in Workers, Run(w), ~Commit(w),
         NEW v \in solo, v # w, NEW o \in Orders, WorksOn(v, o)
  PROVE  Knows(v, o)'
<1>1. /\ ledger' = ledger /\ pairs' = pairs /\ v \in Workers
      /\ pc'[v] = pc[v] /\ row'[v] = row[v] /\ draft'[v] = draft[v] /\ wrote'[v] = wrote[v]
  BY DEF Typed, TypeOK, Run, UpsertLedger, SelectEntries, DraftFrom, SelectOrder, SelectPair,
         Stamp, UpsertPair, tables
<1>2. WorksOn(v, o)'
  BY <1>1 DEF WorksOn
<1> QED
  BY <1>1, <1>2, KnowsFrame DEF KnowsInv

LEMMA KnowsNext ==
  ASSUME Typed, SoloInv, ClockInv, KnowsInv, [Next]_vars PROVE KnowsInv'
<1> USE DEF KnowsInv, Typed
<1>1. ASSUME NEW w \in Workers, NEW e \in LedgerEvents, Begin(w, e) PROVE KnowsInv'
  <2>1. /\ UNCHANGED <<tables, draft, wrote>>
        /\ pc'[w] = "upsert_ledger"
        /\ solo' \subseteq solo \cup {w}
        /\ \A v \in Workers \ {w} : pc'[v] = pc[v] /\ row'[v] = row[v]
    BY <1>1 DEF Begin, TypeOK
  <2>2. \A o \in Orders : Knows(w, o)'
    BY <2>1 DEF Drafted, Knows
  <2>3. ASSUME NEW v \in Workers \ {w}, v \in solo', NEW o \in Orders, WorksOn(v, o)'
        PROVE  Knows(v, o)'
    <3>1. v \in solo /\ WorksOn(v, o)
      BY <2>1, <2>3 DEF WorksOn
    <3> QED
      BY <2>1, <2>3, <3>1, KnowsFrame DEF tables
  <2> QED BY <2>1, <2>2, <2>3 DEF TypeOK
<1>2. ASSUME NEW w \in Workers, Run(w), ~Commit(w),
             \A o \in Orders : w \in solo /\ WorksOn(w, o) => Knows(w, o)'
      PROVE  KnowsInv'
  <2>1. /\ solo' = solo /\ row' = row
        /\ \A v \in Workers : pc'[v] = "idle" <=> pc[v] = "idle"
    BY <1>2 DEF Run, UpsertLedger, SelectEntries, DraftFrom, SelectOrder, SelectPair, Stamp,
                UpsertPair, ghosts, TypeOK
  <2>2. \A v \in solo, o \in Orders : WorksOn(v, o)' => WorksOn(v, o)
    BY <2>1 DEF WorksOn, TypeOK
  <2> QED
    BY <1>2, <2>1, <2>2, KnowsOthers
<1>3. ASSUME NEW w \in Workers, UpsertLedger(w) PROVE KnowsInv'
  <2>1. ASSUME NEW o \in Orders, WorksOn(w, o) PROVE Knows(w, o)'
    BY <1>3, <2>1 DEF UpsertLedger, WorksOn, Knows, Drafted, TypeOK
  <2> QED
    BY <1>2, <1>3, <2>1 DEF Run, UpsertLedger, Commit
<1>4. ASSUME NEW w \in Workers, SelectEntries(w) PROVE KnowsInv'
  <2>1. ASSUME NEW o \in Orders, WorksOn(w, o) PROVE Knows(w, o)'
    <3> DEFINE seen  == SeenBy(w)
               found == EntriesOf(seen, o)
    <3>1. /\ row[w].event.related_id = o
          /\ SeenBy(w)' = SeenBy(w)
          /\ wrote' = wrote /\ pairs' = pairs /\ row' = row
          /\ "pair" \notin wrote[w]
      BY <1>4, <2>1 DEF SelectEntries, DraftFrom, WorksOn, SeenBy, tables, StageOK
    <3>2. CASE found = {} /\ pc' = [pc EXCEPT ![w] = "commit"]
      <4>1. \A side : ~Stored(seen, o, side)
        BY <3>2 DEF Stored, EntriesOf
      <4> QED
        BY <3>1, <3>2, <4>1 DEF Knows, PairAfter, Drafted, Covers, Stored, Complete, TypeOK
    <3>3. ASSUME NEW p \in FirstOf(OfType(seen, found, "PAYMENT")),
                 NEW r \in FirstOf(OfType(seen, found, "RECEIVE")),
                 draft' = [draft EXCEPT ![w] =
                             [payment_tx_id |-> p, receive_tx_id |-> r,
                              order |-> NULL, updated_at |-> NULL]],
                 pc' = [pc EXCEPT ![w] = "select_order"]
          PROVE  Knows(w, o)'
      <4>1. /\ Stored(seen, o, "PAYMENT") => p # NULL
            /\ Stored(seen, o, "RECEIVE") => r # NULL
        BY NoneAssumption DEF Stored, FirstOf, OfType, EntriesOf
      <4>2. draft'[w] = [payment_tx_id |-> p, receive_tx_id |-> r,
                         order |-> NULL, updated_at |-> NULL]
        BY <3>3 DEF TypeOK
      <4>3. draft'[w] \in PairDrafts
        BY <4>2 DEF FirstOf, OfType, EntriesOf, PairDrafts, Nullable
      <4>4. Covers(draft'[w], seen, o)
        BY <4>1, <4>2, <4>3, NoneAssumption DEF Covers, Sides, LegOf
      <4> QED
        BY <3>1, <3>3, <4>4 DEF Knows, Drafted, Covers, Stored, TypeOK
    <3> QED
      BY <1>4, <3>1, <3>2, <3>3 DEF SelectEntries, DraftFrom
  <2> QED
    BY <1>2, <1>4, <2>1 DEF Run, SelectEntries, DraftFrom, Commit
<1>5. ASSUME NEW w \in Workers, SelectOrder(w) PROVE KnowsInv'
  <2>1. ASSUME NEW o \in Orders, WorksOn(w, o), Knows(w, o) PROVE Knows(w, o)'
    <3>1. /\ draft'[w].payment_tx_id = draft[w].payment_tx_id
          /\ draft'[w].receive_tx_id = draft[w].receive_tx_id
          /\ draft[w] # NULL
      BY <1>5 DEF SelectOrder, TypeOK, StageOK, Drafted, PairDrafts, Nullable
    <3>2. draft'[w] # NULL /\ "pair" \notin wrote[w] /\ pairs' = pairs
      <4>1. Typed'
        BY TypedNext
      <4> QED
        BY <1>5, <4>1 DEF SelectOrder, StageOK, TypeOK, Drafted, tables
    <3>3. SeenBy(w)' = SeenBy(w) /\ pc[w] = "select_order" /\ pc'[w] = "select_pair"
      BY <1>5 DEF SelectOrder, SeenBy, tables, TypeOK
    <3> QED
      BY <2>1, <3>1, <3>2, <3>3 DEF Knows, Drafted, Covers, Stored, LegOf, Complete
  <2> QED
    BY <1>2, <1>5, <2>1 DEF Run, SelectOrder, Commit
<1>6. ASSUME NEW w \in Workers, SelectPair(w) PROVE KnowsInv'
  <2>1. ASSUME NEW o \in Orders, WorksOn(w, o), Knows(w, o) PROVE Knows(w, o)'
    <3>1. /\ row[w].event.related_id = o
          /\ SeenBy(w)' = SeenBy(w) /\ PairAfter(w)' = PairAfter(w)
          /\ PairAfter(w) = pairs[o]
          /\ pairs' = pairs /\ draft' = draft
          /\ pc[w] = "select_pair"
      BY <1>6, <2>1 DEF SelectPair, WorksOn, SeenBy, PairAfter, tables, StageOK
    <3>2. CASE pc'[w] = "stamp" /\ (Complete(pairs[o]) => Complete(draft[w]))
      BY <2>1, <3>1, <3>2 DEF Knows, Drafted, Covers, Stored, LegOf, Complete
    <3>3. CASE pc'[w] = "commit" /\ Complete(pairs[o])
      BY <2>1, <3>1, <3>3 DEF Knows, Drafted, Covers, Stored, LegOf, Complete
    <3> QED
      BY <1>6, <3>1, <3>2, <3>3 DEF SelectPair, should_update_pair, TypeOK
  <2> QED
    BY <1>2, <1>6, <2>1 DEF Run, SelectPair, Commit
<1>7. ASSUME NEW w \in Workers, Stamp(w) PROVE KnowsInv'
  <2>1. ASSUME NEW o \in Orders, WorksOn(w, o), Knows(w, o) PROVE Knows(w, o)'
    <3>1. /\ draft'[w].payment_tx_id = draft[w].payment_tx_id
          /\ draft'[w].receive_tx_id = draft[w].receive_tx_id
          /\ draft[w] # NULL /\ draft'[w] # NULL
          /\ draft'[w].updated_at = now'
      BY <1>7, NoneAssumption, ClockAssumption
      DEF Stamp, ReadClock, TypeOK, StageOK, Drafted, PairDrafts, Nullable
    <3>2. /\ SeenBy(w)' = SeenBy(w) /\ pairs' = pairs
          /\ pc[w] = "stamp" /\ pc'[w] = "upsert_pair"
      BY <1>7 DEF Stamp, SeenBy, tables, TypeOK
    <3>3. pairs[o] # NULL => pairs[o].updated_at <= draft'[w].updated_at
      BY <1>7, <3>1, ClockAssumption, NullAssumption
      DEF ClockInv, Stamp, ReadClock, TypeOK, PairRows, PairDrafts, Nullable
    <3> QED
      BY <2>1, <3>1, <3>2, <3>3 DEF Knows, Drafted, Covers, Stored, LegOf, Complete
  <2> QED
    BY <1>2, <1>7, <2>1 DEF Run, Stamp, Commit
<1>8. ASSUME NEW w \in Workers, UpsertPair(w) PROVE KnowsInv'
  <2>1. ASSUME NEW o \in Orders, WorksOn(w, o), Knows(w, o) PROVE Knows(w, o)'
    <3>1. /\ row[w].event.related_id = o
          /\ pairs' = pairs /\ draft' = draft
          /\ pc[w] = "upsert_pair" /\ pc'[w] = "commit"
          /\ ("ledger" \in wrote'[w]) = ("ledger" \in wrote[w])
      BY <1>8, <2>1 DEF UpsertPair, WorksOn, tables, TypeOK
    <3>2. SeenBy(w)' = SeenBy(w)
      BY <1>8, <3>1 DEF SeenBy, UpsertPair, tables
    <3>3. "pair" \in wrote'[w]
      BY <1>8, <2>1, <3>1, NullAssumption
      DEF UpsertPair, Knows, PairWins, TypeOK, StageOK, PairRows, PairDrafts,
          Drafted, Nullable
    <3>4. PairAfter(w)' = draft[w]
      BY <3>1, <3>3 DEF PairAfter
    <3> QED
      BY <2>1, <3>1, <3>2, <3>4 DEF Knows, Drafted, Covers, Stored, LegOf, Complete
  <2> QED
    BY <1>2, <1>8, <2>1 DEF Run, UpsertPair, Commit
<1>9. ASSUME NEW w \in Workers, Commit(w) PROVE KnowsInv'
  <2>1. ASSUME NEW v \in solo', NEW o \in Orders, WorksOn(v, o)'
        PROVE  Knows(v, o)'
    <3>1. /\ v \in solo /\ v \in Workers /\ v # w /\ WorksOn(v, o)
          /\ pc'[v] = pc[v] /\ row'[v] = row[v]
          /\ draft'[v] = draft[v] /\ wrote'[v] = wrote[v]
          /\ row'[v].event.related_id = o
      BY <1>9, <2>1 DEF Commit, EndTransaction, WorksOn, TypeOK
    <3>2. ~WorksOn(w, o)
      BY <3>1 DEF SoloInv
    <3>3. pairs'[o] = pairs[o]
      BY <1>9, <3>2, CommitElsewhere
    <3>4. PairAfter(v)' = PairAfter(v)
      BY <3>1, <3>3 DEF PairAfter
    <3>5. \A t \in TxIds : SeenBy(v)'[t] = SeenBy(v)[t] \/ SeenBy(v)'[t] = row[w]
      BY <1>9, <3>1, RowFields DEF SeenBy, Commit, TypeOK
    <3>6. \A side : Stored(SeenBy(v)', o, side) => Stored(SeenBy(v), o, side)
      BY <1>9, <3>2, <3>5 DEF Stored, WorksOn, Commit
    <3> HIDE DEF Typed
    <3> QED
      BY <3>1, <3>3, <3>4, <3>6 DEF Knows, Covers, Complete
  <2> QED BY <2>1
<1>10. ASSUME NEW w \in Workers, Abort(w) PROVE KnowsInv'
  <2>1. ASSUME NEW v \in solo', NEW o \in Orders, WorksOn(v, o)'
        PROVE  Knows(v, o)'
    <3>1. /\ v \in solo /\ v \in Workers /\ v # w /\ WorksOn(v, o)
          /\ pc'[v] = pc[v] /\ row'[v] = row[v]
          /\ draft'[v] = draft[v] /\ wrote'[v] = wrote[v]
          /\ ledger' = ledger /\ pairs' = pairs
      BY <1>10, <2>1 DEF Abort, EndTransaction, WorksOn, TypeOK, tables
    <3> QED
      BY <2>1, <3>1, KnowsFrame
  <2> QED BY <2>1
<1>11. CASE UNCHANGED <<ledger, pairs, local, solo>>
  <2>1. ASSUME NEW v \in solo', NEW o \in Orders, WorksOn(v, o)' PROVE Knows(v, o)'
    <3>1. v \in solo /\ v \in Workers /\ WorksOn(v, o)
      BY <1>11, <2>1 DEF local, WorksOn, TypeOK
    <3> QED
      BY <1>11, <2>1, <3>1, KnowsFrame DEF local
  <2> QED BY <2>1
<1> QED
  BY <1>1, <1>3, <1>4, <1>5, <1>6, <1>7, <1>8, <1>9, <1>10, <1>11
  DEF Next, Run, UpsertOrder, vars, tables, ghosts

LEMMA PairedNext ==
  ASSUME Typed, PairInv, [Next]_vars PROVE PairedUnlessRaced'
<1> USE DEF PairInv, PairedUnlessRaced
<1>1. ASSUME NEW w \in Workers, Commit(w) PROVE PairedUnlessRaced'
  <2>1. ASSUME NEW o \in Orders \ raced' PROVE Covers(pairs'[o], ledger', o)
    <3>1. CASE WorksOn(w, o)
      <4>1. w \in solo
        BY <1>1, <2>1, <3>1 DEF Commit, SoloInv
      <4>2. Knows(w, o) /\ pc[w] = "commit" /\ row[w].event.related_id = o
        BY <1>1, <3>1, <4>1 DEF KnowsInv, Commit, WorksOn
      <4>3. ledger' = SeenBy(w) /\ pairs'[o] = PairAfter(w)
        BY <1>1, <4>2 DEF Commit, PairAfter, Typed, TypeOK
      <4> QED BY <4>2, <4>3 DEF Knows
    <3>2. CASE ~WorksOn(w, o)
      BY <1>1, <2>1, <3>2, CommitElsewhere DEF Commit, Covers
    <3> QED BY <3>1, <3>2
  <2> QED BY <2>1 DEF Covers, Stored, LegOf, Complete
<1>2. CASE UNCHANGED <<ledger, pairs>> /\ raced \subseteq raced'
  BY <1>2 DEF Stored, LegOf, Complete
<1> QED
  BY <1>1, <1>2
  DEF Next, Run, Begin, UpsertLedger, SelectEntries, DraftFrom, SelectOrder, SelectPair,
      Stamp, UpsertPair, Abort, UpsertOrder, vars, tables, ghosts

LEMMA PairInvariant == Spec => [](Typed /\ PairInv)
<1>1. Typed /\ PairInv /\ [Next]_vars => PairInv'
  BY SoloNext, ClockNext, KnowsNext, PairedNext DEF PairInv
<1> QED
  BY <1>1, TypedInit, TypedNext, PairInit, PTL DEF Spec

\* A pair names a leg on every side that is stored, unless transactions on its
\* order have overlapped since one last ran alone.
THEOREM Paired == Spec => []PairedUnlessRaced
<1>1. PairInv => PairedUnlessRaced
  BY DEF PairInv
<1> QED
  BY <1>1, PairInvariant, PTL

\* A complete pair regresses only if transactions on its order overlapped.
THEOREM NoRegression == Spec => NoRegressionUnlessRaced
<1>1. ASSUME Typed, PairInv, [Next]_vars, NEW o \in Orders \ raced, Complete(pairs[o])
      PROVE  Complete(pairs'[o])
  <2>1. ASSUME NEW w \in Workers, Commit(w) PROVE Complete(pairs'[o])
    <3>1. CASE WorksOn(w, o)
      <4>1. Knows(w, o) /\ pc[w] = "commit" /\ row[w].event.related_id = o
        BY <1>1, <2>1, <3>1 DEF PairInv, SoloInv, KnowsInv, Commit, WorksOn
      <4>2. pairs'[o] = PairAfter(w)
        BY <1>1, <2>1, <4>1 DEF Commit, PairAfter, Typed, TypeOK
      <4> QED BY <1>1, <4>1, <4>2 DEF Knows
    <3>2. CASE ~WorksOn(w, o)
      BY <1>1, <2>1, <3>2, CommitElsewhere
    <3> QED BY <3>1, <3>2
  <2>2. CASE UNCHANGED pairs
    BY <1>1, <2>2
  <2> QED
    BY <1>1, <2>1, <2>2
    DEF Next, Run, Begin, UpsertLedger, SelectEntries, DraftFrom, SelectOrder, SelectPair,
        Stamp, UpsertPair, Abort, UpsertOrder, vars, tables
<1>2. Typed /\ PairInv /\ [Next]_vars =>
        [\A o \in Orders \ raced : Complete(pairs[o]) => Complete(pairs'[o])]_vars
  BY <1>1
<1> QED
  BY <1>2, PairInvariant, PTL DEF Spec, NoRegressionUnlessRaced

-------------------------------------------------------------------------------
(* The version of the order a pair shows *)

Versions(o) == Nullable(OrderEventsOf(o))

Current(o) == IF orders[o] = NULL THEN NULL ELSE orders[o].event

\* Of two versions of the order o, or none, a is no later than b.
NotAhead(a, b, o) ==
  a # NULL => /\ b # NULL
              /\ UniformMetadata(OrderEventsOf(o)) => Age(a) <= Age(b)

\* w has read its order and may still write its pair.
MayWrite(w) == \/ pc[w] \in {"select_pair", "stamp", "upsert_pair"}
               \/ "pair" \in wrote[w]

\* The draft of v, which works on the order o, is not ahead of the order, and not
\* behind the pair while v is alone on it.
Behind(v, o) ==
  /\ draft[v] # NULL =>
       draft[v].order \in Versions(o) /\ NotAhead(draft[v].order, Current(o), o)
  /\ v \in solo /\ MayWrite(v) /\ pairs[o] # NULL =>
       NotAhead(pairs[o].order, draft[v].order, o)

ShownInv ==
  /\ \A o \in Orders : Current(o) \in Versions(o)
  /\ \A o \in Orders : pairs[o] # NULL =>
       pairs[o].order \in Versions(o) /\ NotAhead(pairs[o].order, Current(o), o)
  /\ \A v \in Workers, o \in Orders : WorksOn(v, o) => Behind(v, o)

LEMMA NotAheadChain ==
  ASSUME NEW o \in Orders, NEW a \in Versions(o), NEW b \in Versions(o),
         NEW c \in Versions(o), NotAhead(a, b, o), NotAhead(b, c, o)
  PROVE  NotAhead(a, c, o)
<1>1. UniformMetadata(OrderEventsOf(o)) => \A e \in OrderEventsOf(o) : Age(e) \in Nat
  BY EventsAssumption, NullAssumption DEF UniformMetadata, OrderEventsOf, Age, Nullable
<1> QED
  BY <1>1 DEF NotAhead, Versions, Nullable

LEMMA NotAheadSelf ==
  ASSUME NEW o \in Orders, NEW a \in Versions(o)
  PROVE  NotAhead(a, a, o) /\ NotAhead(NULL, a, o)
<1>1. UniformMetadata(OrderEventsOf(o)) => \A e \in OrderEventsOf(o) : Age(e) \in Nat
  BY EventsAssumption, NullAssumption DEF UniformMetadata, OrderEventsOf, Age, Nullable
<1> QED
  BY <1>1 DEF NotAhead, Versions, Nullable

\* The stored order only advances (latest_wins_upsert).
LEMMA OrderAdvances ==
  ASSUME Typed, [Next]_vars, NEW o \in Orders, Current(o) \in Versions(o)
  PROVE  Current(o)' \in Versions(o) /\ NotAhead(Current(o), Current(o)', o)
<1>1. ASSUME NEW e \in OrderEvents, UpsertOrder(e)
      PROVE  Current(o)' \in Versions(o) /\ NotAhead(Current(o), Current(o)', o)
  <2>1. PICK t \in 0..now :
          LET r == [event |-> e, ingested_at |-> t]
          IN orders' = [orders EXCEPT ![e.order_id] =
               IF orders[e.order_id] = NULL \/ RowWins(r, orders[e.order_id]) THEN r ELSE @]
    BY <1>1 DEF UpsertOrder
  <2> DEFINE r == [event |-> e, ingested_at |-> t]
  <2>2. CASE orders'[o] = orders[o]
    BY <2>2, NotAheadSelf DEF Current
  <2>3. CASE /\ orders'[o] = r /\ o = e.order_id
             /\ orders[o] = NULL \/ RowWins(r, orders[o])
    <3>1. r # NULL /\ r.event = e /\ e \in OrderEventsOf(o) /\ e # NULL
      BY <2>3, NoneAssumption, ClockAssumption DEF Typed, TypeOK, OrderRows, OrderEventsOf
    <3>2. Current(o)' = e
      BY <2>3, <3>1 DEF Current
    <3>3. CASE orders[o] = NULL
      BY <3>1, <3>2, <3>3 DEF Current, NotAhead, Versions, Nullable
    <3>4. CASE orders[o] # NULL
      <4>1. orders[o].event \in OrderEventsOf(o)
        BY <3>4, NoneAssumption DEF Current, Versions, Nullable, Typed, TypeOK, OrderRows
      <4>2. \A f \in OrderEventsOf(o) : HasMetadata(f)
        BY EventsAssumption DEF OrderEventsOf, HasMetadata
      <4>3. UniformMetadata(OrderEventsOf(o)) => Age(orders[o].event) <= Age(e)
        <5> HIDE DEF r
        <5> QED BY <2>3, <3>1, <3>4, <4>1, <4>2, WinsIsAge
      <4> QED
        BY <3>1, <3>2, <3>4, <4>1, <4>3 DEF Current, NotAhead, Versions, Nullable
    <3> QED BY <3>3, <3>4
  <2> QED
    BY <2>1, <2>2, <2>3 DEF Typed, TypeOK
<1>2. CASE UNCHANGED orders
  BY <1>2, NotAheadSelf DEF Current
<1> QED
  BY <1>1, <1>2
  DEF Next, Run, Begin, UpsertLedger, SelectEntries, DraftFrom, SelectOrder, SelectPair,
      Stamp, UpsertPair, Commit, Abort, vars, tables

\* A worker is not ahead or behind for what others do to other orders.
LEMMA BehindFrame ==
  ASSUME Typed, ShownInv, [Next]_vars, NEW v \in Workers, NEW o \in Orders,
         WorksOn(v, o), v \in solo' => v \in solo /\ pairs'[o] = pairs[o],
         draft'[v] = NULL \/ (draft[v] # NULL /\ draft'[v].order = draft[v].order),
         MayWrite(v)' => MayWrite(v) /\ draft'[v] # NULL
  PROVE  Behind(v, o)'
<1>1. Current(o)' \in Versions(o) /\ NotAhead(Current(o), Current(o)', o)
  BY OrderAdvances DEF ShownInv
<1>2. Behind(v, o) /\ Current(o) \in Versions(o)
  BY DEF ShownInv
<1>3. draft'[v] # NULL =>
        draft'[v].order \in Versions(o) /\ NotAhead(draft'[v].order, Current(o)', o)
  BY <1>1, <1>2, NotAheadChain DEF Behind
<1>4. v \in solo' /\ MayWrite(v)' /\ pairs'[o] # NULL =>
        NotAhead(pairs'[o].order, draft'[v].order, o)
  BY <1>2 DEF Behind
<1> QED
  BY <1>3, <1>4 DEF Behind, Versions, NotAhead

LEMMA ShownNext ==
  ASSUME Typed, SoloInv, ShownInv, [Next]_vars PROVE ShownInv'
<1> DEFINE Works == \A v \in Workers, o \in Orders : WorksOn(v, o) => Behind(v, o)
<1>1. \A o \in Orders : /\ Current(o) \in Versions(o) /\ Current(o)' \in Versions(o)
                       /\ NotAhead(Current(o), Current(o)', o)
  BY OrderAdvances DEF ShownInv
<1>2. ASSUME NEW o \in Orders, pairs'[o] = pairs[o], pairs'[o] # NULL
      PROVE  pairs'[o].order \in Versions(o) /\ NotAhead(pairs'[o].order, Current(o)', o)
  BY <1>1, <1>2, NotAheadChain DEF ShownInv
<1>3. ASSUME pairs' = pairs, Works' PROVE ShownInv'
  BY <1>1, <1>2, <1>3 DEF ShownInv, Versions, NotAhead
<1>4. ASSUME NEW w \in Workers, pairs' = pairs, solo' \subseteq solo \cup {w},
             \A v \in Workers \ {w} : /\ pc'[v] = pc[v] /\ row'[v] = row[v]
                                     /\ draft'[v] = draft[v] /\ wrote'[v] = wrote[v],
             \A o \in Orders : WorksOn(w, o)' => Behind(w, o)'
      PROVE  ShownInv'
  <2>1. ASSUME NEW v \in Workers \ {w}, NEW o \in Orders, WorksOn(v, o)'
        PROVE  Behind(v, o)'
    <3>1. WorksOn(v, o) /\ (MayWrite(v)' <=> MayWrite(v))
      BY <1>4, <2>1 DEF WorksOn, MayWrite
    <3>2. MayWrite(v) => draft[v] # NULL
      BY NoneAssumption DEF MayWrite, Typed, StageOK, Drafted, PairRows
    <3> QED
      BY <1>4, <2>1, <3>1, <3>2, BehindFrame
  <2> QED BY <1>3, <1>4, <2>1
<1> USE DEF Typed
<1>5. ASSUME NEW w \in Workers, NEW e \in LedgerEvents, Begin(w, e) PROVE ShownInv'
  <2>1. draft'[w] = NULL /\ ~MayWrite(w)'
    BY <1>5 DEF Begin, TypeOK, StageOK, MayWrite
  <2> QED
    BY <1>4, <1>5, <2>1 DEF Begin, TypeOK, tables, Behind
<1>6. ASSUME NEW w \in Workers, UpsertLedger(w) PROVE ShownInv'
  <2>1. draft'[w] = NULL /\ ~MayWrite(w)'
    BY <1>6 DEF UpsertLedger, TypeOK, StageOK, MayWrite
  <2> QED
    BY <1>4, <1>6, <2>1 DEF UpsertLedger, TypeOK, tables, ghosts, Behind
<1>7. ASSUME NEW w \in Workers, SelectEntries(w) PROVE ShownInv'
  <2>1. draft'[w] = NULL \/ draft'[w].order = NULL
    BY <1>7 DEF SelectEntries, DraftFrom, TypeOK, StageOK
  <2>2. ~MayWrite(w)'
    BY <1>7 DEF SelectEntries, DraftFrom, TypeOK, StageOK, MayWrite
  <2>3. \A o \in Orders : Behind(w, o)'
    BY <2>1, <2>2 DEF Behind, Versions, NotAhead, Nullable
  <2> QED
    BY <1>4, <1>7, <2>3 DEF SelectEntries, DraftFrom, TypeOK, tables, ghosts
<1>8. ASSUME NEW w \in Workers, SelectOrder(w) PROVE ShownInv'
  <2>1. ASSUME NEW o \in Orders, WorksOn(w, o)' PROVE Behind(w, o)'
    <3>1. row[w].event.related_id = o
      BY <1>8, <2>1 DEF SelectOrder, WorksOn
    <3>2. draft'[w].order = Current(o) /\ Current(o)' = Current(o) /\ pairs' = pairs
      BY <1>8, <3>1
      DEF SelectOrder, TypeOK, StageOK, Drafted, PairDrafts, Nullable, Current, tables
    <3> QED
      BY <1>1, <3>2, NotAheadSelf DEF Behind, ShownInv, Versions, NotAhead
  <2> QED
    BY <1>4, <1>8, <2>1 DEF SelectOrder, TypeOK, tables, ghosts
<1>9. ASSUME NEW w \in Workers, pairs' = pairs, solo' = solo, row' = row, pc[w] # "idle",
             draft[w] # NULL /\ draft'[w] # NULL => draft'[w].order = draft[w].order,
             draft'[w] # NULL => draft[w] # NULL,
             MayWrite(w)' => MayWrite(w) /\ draft'[w] # NULL
      PROVE  \A o \in Orders : WorksOn(w, o)' => Behind(w, o)'
  BY <1>9, BehindFrame DEF WorksOn
<1>10. ASSUME NEW w \in Workers, SelectPair(w) PROVE ShownInv'
  <2>1. MayWrite(w) /\ draft' = draft /\ draft[w] # NULL
    BY <1>10 DEF SelectPair, MayWrite, StageOK, Drafted
  <2> QED
    BY <1>4, <1>9, <1>10, <2>1 DEF SelectPair, TypeOK, tables, ghosts
<1>11. ASSUME NEW w \in Workers, Stamp(w) PROVE ShownInv'
  <2>1. /\ MayWrite(w) /\ draft[w] # NULL /\ draft'[w] # NULL
        /\ draft'[w].order = draft[w].order
    BY <1>11, NoneAssumption, ClockAssumption
    DEF Stamp, ReadClock, MayWrite, TypeOK, StageOK, Drafted, PairDrafts, Nullable
  <2> QED
    BY <1>4, <1>9, <1>11, <2>1 DEF Stamp, TypeOK, tables, ghosts
<1>12. ASSUME NEW w \in Workers, UpsertPair(w) PROVE ShownInv'
  <2>1. MayWrite(w) /\ draft' = draft /\ draft[w] # NULL
    BY <1>12 DEF UpsertPair, MayWrite, StageOK, Drafted
  <2> QED
    BY <1>4, <1>9, <1>12, <2>1 DEF UpsertPair, TypeOK, tables, ghosts
<1>13. ASSUME NEW w \in Workers, Abort(w) PROVE ShownInv'
  BY <1>4, <1>13 DEF Abort, EndTransaction, TypeOK, tables, WorksOn
<1>14. ASSUME NEW w \in Workers, Commit(w) PROVE ShownInv'
  <2>1. ASSUME NEW o \in Orders, pairs'[o] # NULL
        PROVE  pairs'[o].order \in Versions(o) /\ NotAhead(pairs'[o].order, Current(o)', o)
    <3>1. CASE pairs'[o] = pairs[o]
      BY <1>2, <2>1, <3>1
    <3>2. CASE pairs'[o] # pairs[o]
      <4>1. "pair" \in wrote[w] /\ WorksOn(w, o) /\ pairs'[o] = draft[w] /\ draft[w] # NULL
        BY <1>14, <2>1, <3>2 DEF Commit, TypeOK, StageOK, WorksOn
      <4> QED
        BY <1>1, <4>1, NotAheadChain DEF ShownInv, Behind
    <3> QED BY <3>1, <3>2
  <2>2. ASSUME NEW v \in Workers, NEW o \in Orders, WorksOn(v, o)' PROVE Behind(v, o)'
    <3>1. /\ v # w /\ WorksOn(v, o) /\ pc'[v] = pc[v]
          /\ draft'[v] = draft[v] /\ wrote'[v] = wrote[v]
          /\ solo' \subseteq solo
      BY <1>14, <2>2 DEF Commit, EndTransaction, WorksOn, TypeOK
    <3>2. v \in solo' => pairs'[o] = pairs[o]
      <4>1. v \in solo' => ~WorksOn(w, o)
        BY <3>1 DEF SoloInv
      <4> QED BY <1>14, <4>1, CommitElsewhere
    <3>3. MayWrite(v) => draft[v] # NULL
      BY NoneAssumption DEF MayWrite, StageOK, Drafted, PairRows
    <3>4. MayWrite(v)' <=> MayWrite(v)
      BY <3>1 DEF MayWrite
    <3> QED
      BY <3>1, <3>2, <3>3, <3>4, BehindFrame
  <2> QED
    BY <1>1, <2>1, <2>2 DEF ShownInv, Versions, NotAhead
<1>15. CASE UNCHANGED <<pairs, local, solo>>
  <2>1. ASSUME NEW v \in Workers, NEW o \in Orders, WorksOn(v, o)' PROVE Behind(v, o)'
    <3>1. WorksOn(v, o) /\ (MayWrite(v)' <=> MayWrite(v)) /\ draft' = draft
      BY <1>15, <2>1 DEF WorksOn, MayWrite, local
    <3>2. MayWrite(v) => draft[v] # NULL
      BY NoneAssumption DEF MayWrite, StageOK, Drafted, PairRows
    <3> QED
      BY <1>15, <3>1, <3>2, BehindFrame
  <2> QED BY <1>3, <1>15, <2>1
<1> QED
  BY <1>5, <1>6, <1>7, <1>8, <1>10, <1>11, <1>12, <1>13, <1>14, <1>15
  DEF Next, Run, UpsertOrder, vars, tables, ghosts

\* The version of the order a pair shows goes back, or away, only if transactions
\* on the order overlapped.
THEOREM StatusAdvances == Spec => StatusAdvancesUnlessRaced
<1>1. Init => ShownInv
  BY DEF Init, ShownInv, Current, Versions, Nullable, WorksOn
<1>2. ASSUME Typed, PairInv, ShownInv, [Next]_vars,
             NEW o \in Orders \ raced, pairs[o] # NULL, pairs[o].order # NULL
      PROVE  NotAhead(pairs[o].order, pairs'[o].order, o)
  <2>1. ASSUME NEW w \in Workers, Commit(w), pairs'[o] # pairs[o]
        PROVE  NotAhead(pairs[o].order, pairs'[o].order, o)
    <3>1. "pair" \in wrote[w] /\ WorksOn(w, o) /\ pairs'[o] = draft[w]
      BY <1>2, <2>1 DEF Commit, Typed, TypeOK, StageOK, WorksOn
    <3>2. w \in solo /\ MayWrite(w)
      BY <1>2, <3>1 DEF PairInv, SoloInv, MayWrite
    <3> QED
      BY <1>2, <3>1, <3>2 DEF ShownInv, Behind
  <2>2. CASE pairs'[o] = pairs[o]
    BY <1>2, <2>2, NotAheadSelf DEF ShownInv
  <2> QED
    BY <1>2, <2>1, <2>2
    DEF Next, Run, Begin, UpsertLedger, SelectEntries, DraftFrom, SelectOrder, SelectPair,
        Stamp, UpsertPair, Abort, UpsertOrder, vars, tables
<1>3. Typed /\ PairInv /\ ShownInv /\ [Next]_vars =>
        [\A o \in Orders \ raced :
           /\ pairs[o] # NULL /\ pairs[o].order # NULL
           /\ UniformMetadata(OrderEventsOf(o))
           => /\ pairs'[o].order # NULL
              /\ Age(pairs[o].order) <= Age(pairs'[o].order)]_vars
  BY <1>2 DEF NotAhead
<1>4. Typed /\ PairInv /\ ShownInv /\ [Next]_vars => ShownInv'
  BY ShownNext DEF PairInv
<1> QED
  BY <1>1, <1>3, <1>4, PairInvariant, PTL DEF Spec, StatusAdvancesUnlessRaced
===============================================================================
