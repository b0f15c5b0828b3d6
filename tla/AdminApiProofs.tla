----------------------------- MODULE AdminApiProofs -----------------------------
(***************************************************************************)
(* What the lookups of the Admin API report beside any workers: for every  *)
(* set of readers, workers, events and wallets.                            *)
(***************************************************************************)
EXTENDS AdminApi, LedgerPairingProofs

\* To the workers a lookup is a stutter: what is proved of the tables without
\* readers holds beside them (fetch_admin_tx_context and the other queries).
THEOREM LookupsOnlyRead == ApiSpec => Spec
<1>1. ApiInit => Init
  BY DEF ApiInit
<1>2. [ApiNext]_allVars => [Next]_vars
  BY DEF ApiNext, allVars, SelectTx, SelectPaymentOrder, SelectWallet, Ask, SelectPeer,
         SelectOrderEntries, SelectOrderPair, Respond, FailLookup, Finish
<1> QED
  BY <1>1, <1>2, PTL DEF ApiSpec, Spec

-------------------------------------------------------------------------------
(* What the tables hold has been received *)

ReceivedSide(o, side) ==
  \E e \in applied : e \in LedgerEvents /\ e.related_id = o /\ e.entry_type = side

\* An entry is an event committed for its key; a leg is of an event committed for
\* the order, or of the one its transaction is about to commit.
ReceivedInv ==
  /\ \A t \in TxIds : ledger[t] # NULL =>
       ledger[t].event \in applied \cap LedgerEventsOf(t)
  /\ \A o \in Orders, side \in Sides :
       LegOf(pairs[o], side) # NULL => ReceivedSide(o, side)
  /\ \A w \in Workers, side \in Sides : LegOf(draft[w], side) # NULL =>
       \/ ReceivedSide(row[w].event.related_id, side)
       \/ row[w].event.entry_type = side

LEMMA ReceivedNext ==
  ASSUME Typed, LatestInv, LatestInv', ReceivedInv, [Next]_vars PROVE ReceivedInv'
<1> USE DEF Typed
<1>1. \A t \in TxIds : ledger'[t] # NULL =>
        ledger'[t].event \in applied' \cap LedgerEventsOf(t)
  BY DEF LatestInv, LedgerIsLatest, IsLatestOf, LedgerEventsOf
<1>2. applied \subseteq applied'
  BY DEF Next, Run, Begin, UpsertLedger, SelectEntries, DraftFrom, SelectOrder, SelectPair,
         Stamp, UpsertPair, Commit, Abort, UpsertOrder, vars, ghosts
<1>3. \A o, side : ReceivedSide(o, side) => ReceivedSide(o, side)'
  BY <1>2 DEF ReceivedSide
<1>4. ASSUME pairs' = pairs,
             \A w \in Workers, side \in Sides : LegOf(draft'[w], side) # NULL =>
               \/ ReceivedSide(row'[w].event.related_id, side)
               \/ row'[w].event.entry_type = side
      PROVE  ReceivedInv'
  BY <1>1, <1>3, <1>4 DEF ReceivedInv, LegOf
<1>5. ASSUME NEW w \in Workers, NEW e \in LedgerEvents, Begin(w, e) PROVE ReceivedInv'
  BY <1>4, <1>5 DEF Begin, TypeOK, StageOK, tables, LegOf, ReceivedInv
<1>6. ASSUME NEW w \in Workers, SelectEntries(w) PROVE ReceivedInv'
  <2> DEFINE o == row[w].event.related_id
             found == EntriesOf(SeenBy(w), o)
  <2>1. ASSUME NEW side \in Sides, NEW t \in OfType(SeenBy(w), found, side)
        PROVE  ReceivedSide(o, side) \/ row[w].event.entry_type = side
    <3>1. /\ t \in TxIds /\ SeenBy(w)[t] # NULL
          /\ SeenBy(w)[t].event.related_id = o /\ SeenBy(w)[t].event.entry_type = side
      BY DEF OfType, EntriesOf
    <3>2. SeenBy(w)[t] = ledger[t] \/ SeenBy(w)[t] = row[w]
      BY <3>1 DEF SeenBy, TypeOK
    <3>3. CASE SeenBy(w)[t] = ledger[t]
      BY <3>1, <3>3 DEF ReceivedInv, ReceivedSide, LedgerEventsOf
    <3>4. CASE SeenBy(w)[t] = row[w]
      BY <3>1, <3>4
    <3> QED BY <3>2, <3>3, <3>4
  <2>2. CASE UNCHANGED draft
    BY <1>4, <1>6, <2>2 DEF SelectEntries, DraftFrom, tables, ReceivedInv
  <2>3. ASSUME NEW p \in FirstOf(OfType(SeenBy(w), found, "PAYMENT")),
               NEW r \in FirstOf(OfType(SeenBy(w), found, "RECEIVE")),
               draft' = [draft EXCEPT ![w] = [payment_tx_id |-> p, receive_tx_id |-> r,
                                              order |-> NULL, updated_at |-> NULL]]
        PROVE  ReceivedInv'
    <3>1. ASSUME NEW side \in Sides, LegOf(draft'[w], side) # NULL
          PROVE  ReceivedSide(o, side) \/ row[w].event.entry_type = side
      BY <2>1, <2>3, <3>1 DEF LegOf, FirstOf, Sides, TypeOK
    <3> QED
      BY <1>4, <1>6, <2>3, <3>1 DEF SelectEntries, DraftFrom, tables, ReceivedInv, TypeOK
  <2> QED
    BY <1>6, <2>2, <2>3 DEF SelectEntries, DraftFrom
<1>7. ASSUME NEW w \in Workers, SelectOrder(w) PROVE ReceivedInv'
  <2>1. \A side \in Sides : LegOf(draft'[w], side) # NULL => LegOf(draft[w], side) # NULL
    BY <1>7 DEF SelectOrder, TypeOK, StageOK, Drafted, PairDrafts, Nullable, LegOf
  <2> QED
    BY <1>4, <1>7, <2>1 DEF SelectOrder, tables, TypeOK, ReceivedInv
<1>8. ASSUME NEW w \in Workers, Stamp(w) PROVE ReceivedInv'
  <2>1. \A side \in Sides : LegOf(draft'[w], side) # NULL => LegOf(draft[w], side) # NULL
    BY <1>8 DEF Stamp, TypeOK, StageOK, Drafted, PairDrafts, Nullable, LegOf
  <2> QED
    BY <1>4, <1>8, <2>1 DEF Stamp, tables, TypeOK, ReceivedInv
<1>9. ASSUME NEW w \in Workers, Abort(w) PROVE ReceivedInv'
  BY <1>4, <1>9 DEF Abort, EndTransaction, tables, TypeOK, LegOf, ReceivedInv
<1>10. ASSUME NEW w \in Workers, Commit(w) PROVE ReceivedInv'
  <2>1. ASSUME NEW o \in Orders, o = row[w].event.related_id,
               NEW side, row[w].event.entry_type = side
        PROVE  ReceivedSide(o, side)'
    BY <1>10, <2>1, RowFields DEF Commit, ReceivedSide
  <2>2. ASSUME NEW o \in Orders, NEW side \in Sides, LegOf(pairs'[o], side) # NULL
        PROVE  ReceivedSide(o, side)'
    <3>1. CASE pairs'[o] = pairs[o]
      BY <1>3, <2>2, <3>1 DEF ReceivedInv
    <3>2. CASE pairs'[o] = draft[w] /\ o = row[w].event.related_id
      BY <1>3, <2>1, <2>2, <3>2 DEF ReceivedInv
    <3> QED
      BY <1>10, <3>1, <3>2 DEF Commit, TypeOK
  <2>3. \A v \in Workers, side \in Sides : LegOf(draft'[v], side) # NULL =>
          draft'[v] = draft[v] /\ row'[v] = row[v]
    BY <1>10 DEF Commit, EndTransaction, TypeOK, LegOf
  <2> QED
    BY <1>1, <1>3, <2>2, <2>3 DEF ReceivedInv
<1>11. CASE UNCHANGED <<pairs, draft, row>>
  BY <1>4, <1>11 DEF ReceivedInv
<1> QED
  BY <1>5, <1>6, <1>7, <1>8, <1>9, <1>10, <1>11
  DEF Next, Run, UpsertLedger, SelectPair, UpsertPair, UpsertOrder, vars, tables, local

Tables == Typed /\ LatestInv /\ PairInv /\ ReceivedInv

LEMMA TablesInvariant == ApiSpec => []Tables
<1>1. Init => ReceivedInv
  BY DEF Init, ReceivedInv, LegOf
<1>2. Typed /\ LatestInv /\ LatestInv' /\ ReceivedInv /\ [Next]_vars => ReceivedInv'
  BY ReceivedNext
<1> QED
  BY <1>1, <1>2, LookupsOnlyRead, LatestInvariant, PairInvariant, PTL DEF Spec, Tables

-------------------------------------------------------------------------------
(* The lookups *)

Kinds == {"tx", "order", "wallet"}

Lookups ==
  [lookup: Nat, kind: Kinds, key: TxIds \cup Orders \cup Wallets,
   entry: Nullable(LedgerEvents), order: Nullable(OrderEvents),
   pair: Nullable(PairRows), peer: Nullable(LedgerEvents),
   entries: SUBSET LedgerEvents, due: SUBSET TxIds]

\* A lookup is at a SELECT of its kind.
AtStage(c, s) ==
  /\ s = "peer" => c.kind = "tx" /\ c.entry # NULL /\ c.entry.related_id # NULL
  /\ s \in {"entries", "pair"} => c.kind = "order" /\ c.key \in Orders

ApiTyped ==
  /\ stage \in [Readers -> {"idle", "peer", "entries", "pair", "respond"}]
  /\ context \in [Readers -> Nullable(Lookups)]
  /\ reply \in [Readers -> Nullable({Reply(c) : c \in Lookups})]
  /\ asked \in Nat
  /\ \A r \in Readers : stage[r] # "idle" =>
       context[r] \in Lookups /\ AtStage(context[r], stage[r])

\* A lookup as its first SELECT leaves it.
Fresh(r, kind, key, c) ==
  [lookup |-> asked + 1, kind |-> kind, key |-> key,
   entry |-> c.entry, order |-> c.order, pair |-> c.pair, peer |-> NULL,
   entries |-> c.entries,
   due |-> {t \in TxIds : /\ ledger[t] # NULL
                          /\ ledger[t].event.related_id # NULL
                          /\ PeersOf(ledger[t].event) # {}}]

LEMMA EventTyped ==
  ASSUME Typed
  PROVE  /\ \A t \in TxIds : /\ EventOf(ledger[t]) \in Nullable(LedgerEvents)
                             /\ ledger[t] # NULL => ledger[t].event \in LedgerEvents
         /\ \A o \in Orders : /\ EventOf(orders[o]) \in Nullable(OrderEvents)
                              /\ pairs[o] \in Nullable(PairRows)
         /\ \A e \in LedgerEvents : e.related_id # NULL => e.related_id \in Orders
         /\ NULL \notin LedgerEvents
BY EventsAssumption, NoneAssumption DEF Typed, TypeOK, EventOf, LedgerRows, OrderRows, Nullable

LEMMA ApiTypedNext ==
  ASSUME Typed, ApiTyped, [ApiNext]_allVars PROVE ApiTyped'
<1> USE DEF ApiTyped
<1>1. ASSUME NEW r \in Readers, NEW kind \in Kinds, NEW key \in TxIds \cup Orders \cup Wallets,
             NEW c, NEW s \in {"peer", "entries", "respond"}, Ask(r, kind, key, c, s),
             c.entry \in Nullable(LedgerEvents), c.order \in Nullable(OrderEvents),
             c.pair \in Nullable(PairRows), c.entries \in SUBSET LedgerEvents,
             s = "peer" => kind = "tx" /\ c.entry # NULL /\ c.entry.related_id # NULL,
             s = "entries" => kind = "order" /\ key \in Orders
      PROVE  ApiTyped'
  <2> DEFINE new == Fresh(r, kind, key, c)
  <2>1. new \in Lookups /\ AtStage(new, s)
    BY <1>1 DEF Fresh, Lookups, AtStage, Nullable
  <2>2. /\ context' = [context EXCEPT ![r] = new] /\ stage' = [stage EXCEPT ![r] = s]
        /\ asked' = asked + 1 /\ reply' = [reply EXCEPT ![r] = NULL]
    BY <1>1 DEF Ask, Fresh
  <2> HIDE DEF new
  <2> QED
    BY <2>1, <2>2 DEF Nullable, AtStage
<1>2. ASSUME NEW r \in Readers, NEW t \in TxIds, SelectTx(r, t) PROVE ApiTyped'
  <2> DEFINE entry == EventOf(ledger[t])
             o     == IF entry = NULL THEN NULL ELSE entry.related_id
             order == IF o = NULL THEN NULL ELSE EventOf(orders[o])
             pair  == IF o = NULL THEN NULL ELSE pairs[o]
             c     == [entry |-> entry, order |-> order, pair |-> pair, entries |-> {}]
             s     == IF entry # NULL /\ NeedsPeer(entry, pair) THEN "peer" ELSE "respond"
  <2>1. Ask(r, "tx", t, c, s)
    BY <1>2 DEF SelectTx
  <2>2. /\ entry \in Nullable(LedgerEvents) /\ order \in Nullable(OrderEvents)
        /\ pair \in Nullable(PairRows)
    BY EventTyped DEF Nullable
  <2>3. s = "peer" => entry # NULL /\ entry.related_id # NULL
    BY DEF NeedsPeer
  <2> HIDE DEF entry, order, pair, s
  <2> QED
    BY <1>1, <2>1, <2>2, <2>3 DEF Kinds, s
<1>3. ASSUME NEW r \in Readers, NEW o \in Orders, SelectPaymentOrder(r, o) PROVE ApiTyped'
  BY <1>1, <1>3, EventTyped DEF SelectPaymentOrder, Kinds, Nullable
<1>4. ASSUME NEW r \in Readers, NEW w \in Wallets, SelectWallet(r, w) PROVE ApiTyped'
  <2>1. PICK txs \in SUBSET {t \in TxIds : ledger[t] # NULL /\ WalletOf[t] = w} :
          Ask(r, "wallet", w,
              [entry |-> NULL, order |-> NULL, pair |-> NULL, entries |-> EventsAt(txs)],
              "respond")
    BY <1>4 DEF SelectWallet
  <2>2. EventsAt(txs) \subseteq LedgerEvents
    BY EventTyped DEF EventsAt
  <2> QED
    BY <1>1, <2>1, <2>2 DEF Kinds, Nullable
<1>5. ASSUME NEW r \in Readers, NEW c \in Lookups, NEW s \in {"pair", "respond"},
             stage[r] # "idle", context' = [context EXCEPT ![r] = c],
             stage' = [stage EXCEPT ![r] = s], UNCHANGED <<reply, asked>>, AtStage(c, s)
      PROVE  ApiTyped'
  BY <1>5 DEF Nullable
<1>6. ASSUME NEW r \in Readers, SelectPeer(r) PROVE ApiTyped'
  <2>1. PICK t \in FirstOf(PeersOf(context[r].entry)) :
          context' = [context EXCEPT ![r].peer = IF t = NULL THEN NULL ELSE ledger[t].event]
    BY <1>6 DEF SelectPeer
  <2>2. (IF t = NULL THEN NULL ELSE ledger[t].event) \in Nullable(LedgerEvents)
    BY <2>1, EventTyped DEF FirstOf, PeersOf, EntriesOf, Nullable
  <2> DEFINE e == IF t = NULL THEN NULL ELSE ledger[t].event
             c == [context[r] EXCEPT !.peer = e]
  <2>3. c \in Lookups
    <3>1. context[r] \in Lookups
      BY <1>6 DEF SelectPeer
    <3>2. e \in Nullable(LedgerEvents)
      BY <2>2
    <3> HIDE DEF e, ApiTyped
    <3> QED BY <3>1, <3>2 DEF Lookups
  <2>4. AtStage(c, "respond") /\ context' = [context EXCEPT ![r] = c]
    BY <2>1 DEF AtStage
  <2> HIDE DEF c
  <2> QED
    BY <1>5, <1>6, <2>3, <2>4 DEF SelectPeer
<1>7. ASSUME NEW r \in Readers, SelectOrderEntries(r) PROVE ApiTyped'
  <2>1. EventsAt(EntriesOf(ledger, context[r].key)) \subseteq LedgerEvents
    BY EventTyped DEF EventsAt, EntriesOf
  <2> QED
    BY <1>5, <1>7, <2>1 DEF SelectOrderEntries, Lookups, AtStage
<1>8. ASSUME NEW r \in Readers, SelectOrderPair(r) PROVE ApiTyped'
  <2>1. pairs[context[r].key] \in Nullable(PairRows)
    BY <1>8, EventTyped DEF SelectOrderPair, AtStage
  <2> QED
    BY <1>5, <1>8, <2>1 DEF SelectOrderPair, Lookups, AtStage
<1>9. ASSUME NEW r \in Readers, Finish(r),
             reply' \in {reply, [reply EXCEPT ![r] = Reply(context[r])]}, stage[r] # "idle"
      PROVE  ApiTyped'
  BY <1>9 DEF Finish, Nullable
<1>10. ASSUME NEW r \in Readers, Respond(r) PROVE ApiTyped'
  BY <1>9, <1>10 DEF Respond
<1>11. ASSUME NEW r \in Readers, FailLookup(r) PROVE ApiTyped'
  BY <1>9, <1>11 DEF FailLookup
<1>12. CASE UNCHANGED apiVars
  BY <1>12 DEF apiVars
<1> QED
  BY <1>2, <1>3, <1>4, <1>6, <1>7, <1>8, <1>10, <1>11, <1>12 DEF ApiNext, allVars

\* A response on its way is an earlier one or was assembled by a lookup at its
\* end, in whose transaction the audit row was written.
LEMMA NewReplies ==
  ASSUME ApiTyped, [ApiNext]_allVars, NEW kind, NEW p \in Replied(kind)'
  PROVE  \/ p \in Replied(kind)
         \/ \E r \in Readers : /\ stage[r] = "respond"
                              /\ p = Reply(context[r]) /\ context[r].kind = kind
                              /\ AuditRow(context[r]) \in audits'
<1>1. ASSUME NEW r \in Readers, Respond(r) PROVE
        \/ p \in Replied(kind)
        \/ \E q \in Readers : /\ stage[q] = "respond"
                             /\ p = Reply(context[q]) /\ context[q].kind = kind
                             /\ AuditRow(context[q]) \in audits'
  BY <1>1 DEF Respond, Replied, Reply, ApiTyped
<1>2. ASSUME NEW r \in Readers, reply' = [reply EXCEPT ![r] = NULL]
      PROVE  p \in Replied(kind)
  BY <1>2 DEF Replied, ApiTyped
<1>3. CASE UNCHANGED reply
  BY <1>3 DEF Replied
<1> QED
  BY <1>1, <1>2, <1>3
  DEF ApiNext, SelectTx, SelectPaymentOrder, SelectWallet, Ask, SelectPeer,
      SelectOrderEntries, SelectOrderPair, FailLookup, Finish, apiVars, allVars

LEMMA ApiTypedInvariant == ApiSpec => [](Tables /\ ApiTyped)
<1>1. ApiInit => ApiTyped
  <2> SUFFICES ASSUME ApiInit PROVE ApiTyped
    OBVIOUS
  <2>1. \A S : NULL \in Nullable(S)
    BY DEF Nullable
  <2> QED
    BY <2>1 DEF ApiInit, ApiTyped
<1>2. Tables /\ ApiTyped /\ [ApiNext]_allVars => ApiTyped'
  BY ApiTypedNext DEF Tables
<1> QED
  BY <1>1, <1>2, TablesInvariant, PTL DEF ApiSpec

\* Every response has its audit row, whichever commits or clients fail.
THEOREM LookupsAudited == ApiSpec => []RepliesAudited
<1>1. ApiInit => RepliesAudited
  BY DEF ApiInit, RepliesAudited, Replied
<1>2. ASSUME ApiTyped, RepliesAudited, [ApiNext]_allVars PROVE RepliesAudited'
  <2>1. audits \subseteq audits'
    BY <1>2 DEF ApiNext, SelectTx, SelectPaymentOrder, SelectWallet, Ask, SelectPeer,
       SelectOrderEntries, SelectOrderPair, Respond, FailLookup, Finish, apiVars, allVars
  <2>2. ASSUME NEW kind \in Kinds, NEW p \in Replied(kind)'
        PROVE  [lookup |-> p.lookup, kind |-> kind, key |-> p.key,
                result |-> p.response.result, count |-> p.response.count] \in audits'
    <3>1. CASE p \in Replied(kind)
      BY <1>2, <2>1, <3>1 DEF RepliesAudited, Kinds
    <3>2. ASSUME NEW r \in Readers, p = Reply(context[r]), context[r].kind = kind,
                 AuditRow(context[r]) \in audits'
          PROVE  [lookup |-> p.lookup, kind |-> kind, key |-> p.key,
                  result |-> p.response.result, count |-> p.response.count] \in audits'
      BY <3>2 DEF Reply, AuditRow
    <3> QED BY <1>2, <2>2, <3>1, <3>2, NewReplies
  <2> QED BY <2>2 DEF RepliesAudited, Kinds
<1> QED
  BY <1>1, <1>2, ApiTypedInvariant, PTL DEF ApiSpec

-------------------------------------------------------------------------------
(* A lookup says COMPLETE *)

\* What a lookup has read of an order has been received, whatever the workers
\* have committed between its SELECTs.
Honest(c) ==
  /\ c.kind = "tx" /\ c.entry # NULL =>
       /\ c.entry \in applied
       /\ \A side \in Sides : LegOf(c.pair, side) # NULL =>
            ReceivedSide(c.entry.related_id, side)
       /\ c.peer # NULL =>
            c.peer \in applied /\ c.peer.related_id = c.entry.related_id
  /\ c.kind = "order" =>
       \A side \in Sides : LegOf(c.pair, side) # NULL => ReceivedSide(c.key, side)

HonestInv == \A r \in Readers : stage[r] # "idle" => Honest(context[r])

LEMMA AppliedGrows ==
  ASSUME [Next]_vars
  PROVE  /\ applied \subseteq applied'
         /\ \A o, side : ReceivedSide(o, side) => ReceivedSide(o, side)'
<1>1. applied \subseteq applied'
  BY DEF Next, Run, Begin, UpsertLedger, SelectEntries, DraftFrom, SelectOrder, SelectPair,
         Stamp, UpsertPair, Commit, Abort, UpsertOrder, vars, ghosts
<1> QED
  BY <1>1 DEF ReceivedSide

\* Readers change neither the tables nor what has been applied.
LEMMA ReaderFrame ==
  ASSUME [ApiNext]_allVars
  PROVE  [Next]_vars /\ (UNCHANGED vars \/ UNCHANGED apiVars)
BY DEF ApiNext, allVars, SelectTx, SelectPaymentOrder, SelectWallet, Ask, SelectPeer,
       SelectOrderEntries, SelectOrderPair, Respond, FailLookup, Finish

LEMMA HonestNext ==
  ASSUME Tables, ApiTyped, HonestInv, [ApiNext]_allVars PROVE HonestInv'
<1>1. ASSUME NEW c, Honest(c) PROVE Honest(c)'
  BY <1>1, AppliedGrows, ReaderFrame DEF Honest
<1>2. ASSUME NEW r \in Readers, NEW c,
             context' = [context EXCEPT ![r] = c], Honest(c),
             \A q \in Readers \ {r} : stage'[q] = stage[q]
      PROVE  HonestInv'
  <2>1. \A q \in Readers : stage'[q] # "idle" => Honest(context'[q])
    BY <1>2 DEF HonestInv, ApiTyped
  <2> QED
    BY <1>1, <2>1 DEF HonestInv
<1>3. ASSUME NEW r \in Readers, NEW t \in TxIds, SelectTx(r, t) PROVE HonestInv'
  <2> DEFINE entry == EventOf(ledger[t])
             o     == IF entry = NULL THEN NULL ELSE entry.related_id
             order == IF o = NULL THEN NULL ELSE EventOf(orders[o])
             pair  == IF o = NULL THEN NULL ELSE pairs[o]
             c     == [entry |-> entry, order |-> order, pair |-> pair, entries |-> {}]
             new   == Fresh(r, "tx", t, c)
  <2>1. /\ context' = [context EXCEPT ![r] = new]
        /\ \A q \in Readers \ {r} : stage'[q] = stage[q]
    BY <1>3 DEF SelectTx, Ask, Fresh, ApiTyped
  <2>2. entry # NULL => entry \in applied
    BY DEF EventOf, Tables, ReceivedInv
  <2>3. entry # NULL => \A side \in Sides : LegOf(pair, side) # NULL =>
                          ReceivedSide(entry.related_id, side)
    <3>1. entry # NULL => entry \in LedgerEvents
      BY EventTyped DEF EventOf, Tables
    <3> HIDE DEF entry
    <3> QED BY <3>1, EventTyped DEF LegOf, Tables, ReceivedInv
  <2>4. /\ new.kind = "tx" /\ new.entry = entry /\ new.pair = pair /\ new.peer = NULL
    BY DEF Fresh
  <2>5. Honest(new)
    <3> HIDE DEF new, entry, pair
    <3> QED BY <2>2, <2>3, <2>4 DEF Honest
  <2> HIDE DEF new
  <2> QED BY <1>2, <2>1, <2>5
<1>4. ASSUME NEW r \in Readers, NEW kind \in {"order", "wallet"}, NEW key, NEW c, NEW s,
             Ask(r, kind, key, c, s), c.pair = NULL
      PROVE  HonestInv'
  <2> DEFINE new == Fresh(r, kind, key, c)
  <2>1. /\ context' = [context EXCEPT ![r] = new]
        /\ \A q \in Readers \ {r} : stage'[q] = stage[q]
    BY <1>4 DEF Ask, Fresh, ApiTyped
  <2>2. Honest(new)
    BY <1>4 DEF Fresh, Honest, LegOf
  <2> HIDE DEF new
  <2> QED BY <1>2, <2>1, <2>2
<1>5. ASSUME NEW r \in Readers, NEW o \in Orders, SelectPaymentOrder(r, o) PROVE HonestInv'
  BY <1>4, <1>5 DEF SelectPaymentOrder
<1>6. ASSUME NEW r \in Readers, NEW w \in Wallets, SelectWallet(r, w) PROVE HonestInv'
  BY <1>4, <1>6 DEF SelectWallet
<1>7. ASSUME NEW r \in Readers, SelectPeer(r) PROVE HonestInv'
  <2>1. context[r] \in Lookups /\ Honest(context[r]) /\ AtStage(context[r], "peer")
    BY <1>7 DEF SelectPeer, HonestInv, ApiTyped
  <2>2. PICK t \in FirstOf(PeersOf(context[r].entry)) :
          context' = [context EXCEPT ![r].peer = IF t = NULL THEN NULL ELSE ledger[t].event]
    BY <1>7 DEF SelectPeer
  <2> DEFINE e == IF t = NULL THEN NULL ELSE ledger[t].event
             c == [context[r] EXCEPT !.peer = e]
  <2>3. e # NULL => e \in applied /\ e.related_id = context[r].entry.related_id
    BY <2>2 DEF FirstOf, PeersOf, EntriesOf, Tables, ReceivedInv
  <2>4. Honest(c)
    <3> HIDE DEF e
    <3> QED BY <2>1, <2>3 DEF Honest, Lookups
  <2>5. context' = [context EXCEPT ![r] = c]
    BY <2>2
  <2>6. \A q \in Readers \ {r} : stage'[q] = stage[q]
    BY <1>7 DEF SelectPeer, ApiTyped
  <2> HIDE DEF c
  <2> QED BY <1>2, <2>4, <2>5, <2>6
<1>8. ASSUME NEW r \in Readers, SelectOrderEntries(r) PROVE HonestInv'
  <2> DEFINE c == [context[r] EXCEPT !.entries = EventsAt(EntriesOf(ledger, context[r].key))]
  <2>1. context[r] \in Lookups /\ Honest(context[r])
    BY <1>8 DEF SelectOrderEntries, HonestInv, ApiTyped
  <2>2. /\ context' = [context EXCEPT ![r] = c]
        /\ \A q \in Readers \ {r} : stage'[q] = stage[q]
    BY <1>8 DEF SelectOrderEntries, ApiTyped
  <2>3. Honest(c)
    BY <2>1 DEF Honest, Lookups
  <2> HIDE DEF c
  <2> QED BY <1>2, <2>2, <2>3
<1>9. ASSUME NEW r \in Readers, SelectOrderPair(r) PROVE HonestInv'
  <2> DEFINE c == [context[r] EXCEPT !.pair = pairs[context[r].key]]
  <2>1. context[r] \in Lookups /\ context[r].kind = "order" /\ context[r].key \in Orders
    BY <1>9 DEF SelectOrderPair, ApiTyped, AtStage
  <2>2. /\ context' = [context EXCEPT ![r] = c]
        /\ \A q \in Readers \ {r} : stage'[q] = stage[q]
    BY <1>9 DEF SelectOrderPair, ApiTyped
  <2>3. Honest(c)
    BY <2>1 DEF Honest, Lookups, Tables, ReceivedInv
  <2> HIDE DEF c
  <2> QED BY <1>2, <2>2, <2>3
<1>10. ASSUME NEW r \in Readers, Finish(r) PROVE HonestInv'
  <2>1. \A q \in Readers : stage'[q] # "idle" =>
          stage[q] # "idle" /\ context'[q] = context[q]
    BY <1>10 DEF Finish, ApiTyped
  <2> QED BY <1>1, <2>1 DEF HonestInv
<1>11. CASE UNCHANGED apiVars
  BY <1>1, <1>11 DEF HonestInv, apiVars
<1> QED
  BY <1>3, <1>5, <1>6, <1>7, <1>8, <1>9, <1>10, <1>11
  DEF ApiNext, Respond, FailLookup, allVars

\* COMPLETE needs both legs: of the pair, the peer or the entry itself.
LEMMA CompleteLegs ==
  ASSUME NEW c \in Lookups, c.kind = "tx", Response(c).status = "COMPLETE"
  PROVE  /\ c.entry # NULL /\ c.entry.related_id # NULL
         /\ \A side \in Sides : \/ LegOf(c.pair, side) # NULL
                                \/ c.peer # NULL /\ c.peer.entry_type = side
                                \/ c.entry.entry_type = side
<1>1. c.entry # NULL /\ ResolvePairing(c).status = "COMPLETE"
  <2>1. TxResponse(c).status = "COMPLETE"
    BY DEF Response
  <2> QED
    BY <2>1, ApiAssumption DEF TxResponse, NotFound
<1>2. c.entry.related_id # NULL /\ NULL \notin {Legs(c).payment, Legs(c).receive}
  BY <1>1 DEF ResolvePairing
<1> QED
  BY <1>1, <1>2 DEF Legs, Leg, OrElse, LegOf, Sides

LEMMA HonestReply ==
  ASSUME NEW c \in Lookups, Honest(c), applied \subseteq LedgerEvents \cup OrderEvents,
         Response(c).status = "COMPLETE", c.kind \in {"tx", "order"}
  PROVE  Received(Reply(c).order)
<1>1. CASE c.kind = "tx"
  <2>1. /\ c.entry # NULL
        /\ \A side \in Sides : ReceivedSide(c.entry.related_id, side)
    BY <1>1, CompleteLegs DEF Honest, ReceivedSide, Lookups, Nullable
  <2> QED
    BY <1>1, <2>1 DEF Reply, Received, ReceivedSide, Sides
<1>2. CASE c.kind = "order"
  <2>1. Complete(c.pair)
    <3>1. OrderResponse(c).status = "COMPLETE"
      BY <1>2 DEF Response
    <3> QED
      BY <3>1, ApiAssumption DEF OrderResponse, NotFound, OrderStatus
  <2>2. \A side \in Sides : ReceivedSide(c.key, side)
    BY <1>2, <2>1 DEF Complete, LegOf, Honest, Sides
  <2> QED
    BY <1>2, <2>2 DEF Reply, Received, ReceivedSide, Sides
<1> QED BY <1>1, <1>2

\* A response says COMPLETE only about orders of which both sides have been
\* received, although its rows come from several states of the tables.
THEOREM CompleteReceived == ApiSpec => []CompleteMeansReceived
<1>1. ApiInit => HonestInv /\ CompleteMeansReceived
  BY DEF ApiInit, HonestInv, CompleteMeansReceived, Replied
<1>2. ASSUME Tables, ApiTyped, HonestInv, CompleteMeansReceived, [ApiNext]_allVars
      PROVE  CompleteMeansReceived'
  <2>0. applied \subseteq applied'
    BY <1>2, AppliedGrows, ReaderFrame
  <2>1. \A o : Received(o) => Received(o)'
    BY <2>0 DEF Received
  <2>2. ASSUME NEW kind \in {"tx", "order"}, NEW p \in Replied(kind)',
               p.response.status = "COMPLETE"
        PROVE  Received(p.order)'
    <3>1. CASE p \in Replied(kind)
      BY <1>2, <2>1, <2>2, <3>1 DEF CompleteMeansReceived
    <3>2. ASSUME NEW r \in Readers, stage[r] = "respond", p = Reply(context[r]),
                 context[r].kind = kind
          PROVE  Received(p.order)'
      <4>1. context[r] \in Lookups /\ Honest(context[r])
        BY <1>2, <3>2 DEF ApiTyped, HonestInv
      <4>2. Response(context[r]).status = "COMPLETE"
        BY <2>2, <3>2 DEF Reply
      <4> QED
        BY <1>2, <2>1, <3>2, <4>1, <4>2, HonestReply DEF Tables, Typed, TypeOK
    <3> QED BY <1>2, <2>2, <3>1, <3>2, NewReplies
  <2> QED BY <2>2 DEF CompleteMeansReceived
<1>3. Tables /\ ApiTyped /\ HonestInv /\ [ApiNext]_allVars => HonestInv'
  BY HonestNext
<1> QED
  BY <1>1, <1>2, <1>3, ApiTypedInvariant, PTL DEF ApiSpec

-------------------------------------------------------------------------------
(* A lookup by transaction sees the peer *)

\* A lookup at stage s of an entry whose peer was stored when it began finds one,
\* or had the pair complete.
Sees(c, s) ==
  c.kind = "tx" /\ c.key \in c.due =>
    /\ c.entry # NULL /\ c.entry \in LedgerEventsOf(c.key)
    /\ s = "peer" => PeersOf(c.entry) # {}
    /\ s = "respond" => \/ Complete(c.pair)
                        \/ c.peer # NULL /\ c.peer.entry_type = Opposite(c.entry)

SeesInv == EntriesStay =>
             \A r \in Readers : stage[r] # "idle" => Sees(context[r], stage[r])

\* Entries are not deleted, and where they keep their order and side a peer stays one.
LEMMA PeersStay ==
  ASSUME Tables, Tables', EntriesStay, [Next]_vars, NEW e, PeersOf(e) # {}
  PROVE  PeersOf(e)' # {}
<1>1. PICK t \in TxIds : /\ ledger[t] # NULL /\ ledger[t].event.related_id = e.related_id
                        /\ t # e.tx_id /\ ledger[t].event.entry_type = Opposite(e)
  BY DEF PeersOf, EntriesOf
<1>2. ledger'[t] # NULL
  BY <1>1, LedgerGrows DEF Tables
<1>3. /\ ledger[t].event \in LedgerEvents /\ ledger'[t].event \in LedgerEvents
      /\ ledger[t].event.tx_id = t /\ ledger'[t].event.tx_id = t
  BY <1>1, <1>2 DEF Tables, ReceivedInv, LedgerEventsOf
<1>4. /\ ledger'[t].event.related_id = e.related_id
      /\ ledger'[t].event.entry_type = Opposite(e)
  BY <1>1, <1>3 DEF EntriesStay
<1> QED
  BY <1>1, <1>2, <1>4 DEF PeersOf, EntriesOf

LEMMA SeesNext ==
  ASSUME Tables, Tables', ApiTyped, SeesInv, [ApiNext]_allVars PROVE SeesInv'
<1> SUFFICES ASSUME EntriesStay
             PROVE  \A r \in Readers : stage'[r] # "idle" => Sees(context[r], stage[r])'
  BY DEF SeesInv, EntriesStay
<1>1. ASSUME NEW c, NEW s, Sees(c, s) PROVE Sees(c, s)'
  BY <1>1, PeersStay, ReaderFrame DEF Sees, LedgerEventsOf
<1>2. ASSUME NEW r \in Readers, NEW c, NEW s, Sees(c, s),
             context' = [context EXCEPT ![r] = c], stage' = [stage EXCEPT ![r] = s]
      PROVE  \A q \in Readers : stage'[q] # "idle" => Sees(context[q], stage[q])'
  <2>1. \A q \in Readers : stage'[q] # "idle" => Sees(context'[q], stage'[q])
    BY <1>2 DEF SeesInv, ApiTyped
  <2> QED
    BY <1>1, <2>1
<1>3. ASSUME NEW r \in Readers, NEW t \in TxIds, SelectTx(r, t)
      PROVE  \A q \in Readers : stage'[q] # "idle" => Sees(context[q], stage[q])'
  <2> DEFINE entry == EventOf(ledger[t])
             o     == IF entry = NULL THEN NULL ELSE entry.related_id
             order == IF o = NULL THEN NULL ELSE EventOf(orders[o])
             pair  == IF o = NULL THEN NULL ELSE pairs[o]
             c     == [entry |-> entry, order |-> order, pair |-> pair, entries |-> {}]
             s     == IF entry # NULL /\ NeedsPeer(entry, pair) THEN "peer" ELSE "respond"
             new   == Fresh(r, "tx", t, c)
  <2>1. context' = [context EXCEPT ![r] = new] /\ stage' = [stage EXCEPT ![r] = s]
    BY <1>3 DEF SelectTx, Ask, Fresh
  <2>2. new.kind = "tx" /\ new.key = t /\ new.entry = entry /\ new.pair = pair
    BY DEF Fresh
  <2>3. ASSUME t \in new.due PROVE
          /\ entry # NULL /\ entry \in LedgerEventsOf(t)
          /\ entry.related_id # NULL /\ PeersOf(entry) # {}
    <3>1. /\ ledger[t] # NULL /\ ledger[t].event.related_id # NULL
          /\ PeersOf(ledger[t].event) # {}
      BY <2>3 DEF Fresh
    <3> QED
      BY <3>1, EventTyped DEF EventOf, Tables, ReceivedInv
  <2>4. Sees(new, s)
    <3>1. entry # NULL /\ entry.related_id # NULL /\ s = "respond" => Complete(pair)
      BY DEF NeedsPeer
    <3>2. t \in new.due => /\ entry # NULL /\ entry \in LedgerEventsOf(t)
                          /\ entry.related_id # NULL /\ PeersOf(entry) # {}
      BY <2>3
    <3> HIDE DEF new, entry, pair, order, o, c, s
    <3>3. ASSUME t \in new.due
          PROVE  /\ new.entry # NULL /\ new.entry \in LedgerEventsOf(new.key)
                 /\ PeersOf(new.entry) # {} /\ (s = "respond" => Complete(new.pair))
      BY <2>2, <3>1, <3>2, <3>3
    <3> QED BY <2>2, <3>3 DEF Sees
  <2> HIDE DEF new, s
  <2> QED BY <1>2, <2>1, <2>4
<1>4. ASSUME NEW r \in Readers, NEW kind \in {"order", "wallet"}, NEW key, NEW c, NEW s,
             Ask(r, kind, key, c, s)
      PROVE  \A q \in Readers : stage'[q] # "idle" => Sees(context[q], stage[q])'
  <2> DEFINE new == Fresh(r, kind, key, c)
  <2>1. context' = [context EXCEPT ![r] = new] /\ stage' = [stage EXCEPT ![r] = s]
    BY <1>4 DEF Ask, Fresh
  <2>2. Sees(new, s)
    BY DEF Fresh, Sees
  <2> HIDE DEF new
  <2> QED BY <1>2, <2>1, <2>2
<1>5. ASSUME NEW r \in Readers, SelectPeer(r)
      PROVE  \A q \in Readers : stage'[q] # "idle" => Sees(context[q], stage[q])'
  <2>1. context[r] \in Lookups /\ Sees(context[r], "peer")
    BY <1>5 DEF SelectPeer, SeesInv, ApiTyped
  <2>2. PICK t \in FirstOf(PeersOf(context[r].entry)) :
          context' = [context EXCEPT ![r].peer = IF t = NULL THEN NULL ELSE ledger[t].event]
    BY <1>5 DEF SelectPeer
  <2> DEFINE e == IF t = NULL THEN NULL ELSE ledger[t].event
             c == [context[r] EXCEPT !.peer = e]
  <2>3. PeersOf(context[r].entry) # {} =>
          e # NULL /\ e.entry_type = Opposite(context[r].entry)
    BY <2>2, NoneAssumption, EventTyped DEF FirstOf, PeersOf, EntriesOf, Tables
  <2>4. Sees(c, "respond")
    <3> HIDE DEF e
    <3> QED BY <2>1, <2>3 DEF Sees, Lookups
  <2>5. context' = [context EXCEPT ![r] = c] /\ stage' = [stage EXCEPT ![r] = "respond"]
    BY <1>5, <2>2 DEF SelectPeer
  <2> HIDE DEF c
  <2> QED BY <1>2, <2>4, <2>5
<1>6. ASSUME NEW r \in Readers, SelectOrderEntries(r) \/ SelectOrderPair(r)
      PROVE  \A q \in Readers : stage'[q] # "idle" => Sees(context[q], stage[q])'
  <2>1. context[r] \in Lookups /\ context[r].kind = "order"
    BY <1>6 DEF SelectOrderEntries, SelectOrderPair, ApiTyped, AtStage
  <2>2. PICK c, s : /\ c.kind = context[r].kind
                    /\ context' = [context EXCEPT ![r] = c] /\ stage' = [stage EXCEPT ![r] = s]
    <3>1. CASE SelectOrderEntries(r)
      BY <2>1, <3>1 DEF SelectOrderEntries, Lookups
    <3>2. CASE SelectOrderPair(r)
      BY <2>1, <3>2 DEF SelectOrderPair, Lookups
    <3> QED BY <1>6, <3>1, <3>2
  <2> QED BY <1>2, <2>1, <2>2 DEF Sees
<1>7. ASSUME NEW r \in Readers, Finish(r)
      PROVE  \A q \in Readers : stage'[q] # "idle" => Sees(context[q], stage[q])'
  <2>1. \A q \in Readers : stage'[q] # "idle" =>
          stage[q] # "idle" /\ context'[q] = context[q] /\ stage'[q] = stage[q]
    BY <1>7 DEF Finish, ApiTyped
  <2> QED BY <1>1, <2>1 DEF SeesInv
<1>8. CASE UNCHANGED apiVars
  BY <1>1, <1>8 DEF SeesInv, apiVars
<1> QED
  BY <1>3, <1>4, <1>5, <1>6, <1>7, <1>8
  DEF ApiNext, SelectPaymentOrder, SelectWallet, Respond, FailLookup, allVars

LEMMA SeesReply ==
  ASSUME NEW c \in Lookups, c.kind = "tx", Sees(c, "respond"), c.key \in c.due,
         \A e \in LedgerEventsOf(c.key) : e.entry_type \in {"PAYMENT", "RECEIVE"}
  PROVE  Response(c).status # "INCOMPLETE"
<1>1. /\ c.entry # NULL /\ c.entry.entry_type \in {"PAYMENT", "RECEIVE"}
      /\ c.entry.tx_id \in TxIds
  BY EventsAssumption DEF Sees, LedgerEventsOf
<1>2. Response(c).status = ResolvePairing(c).status
  BY <1>1 DEF Response, TxResponse
<1>3. \/ Complete(c.pair)
      \/ c.peer # NULL /\ c.peer.entry_type = Opposite(c.entry) /\ c.peer.tx_id \in TxIds
  BY EventsAssumption DEF Sees, Lookups, Nullable
<1>4. NULL \notin {Legs(c).payment, Legs(c).receive}
  BY <1>1, <1>3, NoneAssumption DEF Legs, Leg, OrElse, Complete, Opposite
<1> QED
  BY <1>2, <1>4, ApiAssumption DEF ResolvePairing

\* The fallback query finds the peer that was stored when the lookup began, in
\* whatever state a race has left the pair.
THEOREM PeerSeen == ApiSpec => []TxLookupSeesPeer
<1>1. ApiInit => SeesInv /\ TxLookupSeesPeer
  BY DEF ApiInit, SeesInv, TxLookupSeesPeer, Replied
<1>2. ASSUME ApiTyped, SeesInv, TxLookupSeesPeer, [ApiNext]_allVars
      PROVE  TxLookupSeesPeer'
  <2>1. ASSUME NEW p \in Replied("tx")', EntriesStay, p.key \in p.due,
               \A e \in LedgerEventsOf(p.key) : e.entry_type \in {"PAYMENT", "RECEIVE"}
        PROVE  p.response.status # "INCOMPLETE"
    <3>1. CASE p \in Replied("tx")
      BY <1>2, <2>1, <3>1 DEF TxLookupSeesPeer
    <3>2. ASSUME NEW r \in Readers, stage[r] = "respond", p = Reply(context[r]),
                 context[r].kind = "tx"
          PROVE  p.response.status # "INCOMPLETE"
      <4>1. context[r] \in Lookups /\ Sees(context[r], "respond")
        BY <1>2, <2>1, <3>2 DEF ApiTyped, SeesInv
      <4>2. /\ p.key = context[r].key /\ p.due = context[r].due
            /\ p.response = Response(context[r])
        BY <3>2 DEF Reply
      <4> QED
        BY <2>1, <3>2, <4>1, <4>2, SeesReply
    <3> QED BY <1>2, <2>1, <3>1, <3>2, NewReplies
  <2> QED BY <2>1 DEF TxLookupSeesPeer, EntriesStay, LedgerEventsOf
<1>3. Tables /\ Tables' /\ ApiTyped /\ SeesInv /\ [ApiNext]_allVars => SeesInv'
  BY SeesNext
<1> QED
  BY <1>1, <1>2, <1>3, ApiTypedInvariant, PTL DEF ApiSpec

-------------------------------------------------------------------------------
(* The two views agree *)

\* Without a race the view by transaction, which falls back on the peer, says no
\* more than the view by order, which has the pair only.
THEOREM ViewsAgree == ApiSpec => []ViewsAgreeUnlessRaced
<1>1. ASSUME Tables, NEW o \in Orders \ raced, orders[o] # NULL,
             \A u \in EntriesOf(ledger, o) : Pairable(ledger[u].event),
             NEW t \in EntriesOf(ledger, o), NEW c \in TxContexts(t)
      PROVE  ResolvePairing(c).status =
               OrderStatus([pair |-> pairs[o], entries |-> EventsAt(EntriesOf(ledger, o))])
  <2> DEFINE view == [pair |-> pairs[o], entries |-> EventsAt(EntriesOf(ledger, o))]
  <2>1. /\ t \in TxIds /\ ledger[t] # NULL /\ ledger[t].event.related_id = o
        /\ Pairable(ledger[t].event)
    BY <1>1 DEF EntriesOf
  <2>2. PICK p \in IF NeedsPeer(ledger[t].event, pairs[o])
                   THEN FirstOf(PeersOf(ledger[t].event)) ELSE {NULL} :
          c = [entry |-> ledger[t].event, order |-> EventOf(orders[o]), pair |-> pairs[o],
               peer |-> IF p = NULL THEN NULL ELSE ledger[p].event]
    BY <2>1 DEF TxContexts
  <2>3. OrderStatus(view) = IF Complete(pairs[o]) THEN "COMPLETE" ELSE "INCOMPLETE"
    BY <2>1 DEF OrderStatus, EventsAt
  <2>4. c.order # NULL
    BY <1>1, <2>2, NoneAssumption DEF EventOf, Tables, Typed, TypeOK, OrderRows, Nullable
  <2>5. ResolvePairing(c).status = IF NULL \in {Legs(c).payment, Legs(c).receive}
                                   THEN "INCOMPLETE" ELSE "COMPLETE"
    BY <2>1, <2>2, <2>4 DEF ResolvePairing, ResolveRelatedType, OrElse, Pairable
  <2>6. CASE Complete(pairs[o])
    BY <2>2, <2>3, <2>5, <2>6 DEF Complete, Legs, Leg, OrElse
  <2>7. CASE ~Complete(pairs[o])
    <3>1. PICK side \in Sides : LegOf(pairs[o], side) = NULL
      BY <2>7 DEF Complete, Sides, LegOf
    <3>2. \A u \in EntriesOf(ledger, o) : ledger[u].event.entry_type # side
      BY <1>1, <3>1 DEF Tables, PairInv, PairedUnlessRaced, Stored, EntriesOf
    <3>3. p # NULL => p \in EntriesOf(ledger, o)
      BY <2>1, <2>2 DEF FirstOf, PeersOf
    <3>4. c.entry.entry_type # side /\ (c.peer # NULL => c.peer.entry_type # side)
      BY <2>2, <3>2, <3>3
    <3>5. NULL \in {Legs(c).payment, Legs(c).receive}
      BY <2>2, <3>1, <3>4 DEF Legs, Leg, OrElse, LegOf, Sides
    <3> QED
      BY <2>3, <2>5, <2>7, <3>5
  <2> QED BY <2>6, <2>7
<1>2. Tables => ViewsAgreeUnlessRaced
  BY <1>1 DEF ViewsAgreeUnlessRaced
<1> QED
  BY <1>2, TablesInvariant, PTL
===============================================================================
