-------------------------------- MODULE AdminApi --------------------------------
(***************************************************************************)
(* The lookups of the Admin API, beside the workers of LedgerPairing that  *)
(* write the tables they read.                                             *)
(*                                                                         *)
(* A reader is a thread of the API. It serves one request at a time in one *)
(* READ COMMITTED transaction: one action is one SELECT, so the workers'   *)
(* commits fall between any two. The response is assembled from the rows   *)
(* read, the audit row is inserted in the same transaction, and only after *)
(* its commit is the response sent.                                        *)
(*                                                                         *)
(* Abstracted: amounts, times and wallets of a response, which it copies;  *)
(* the time window of a wallet lookup, which may cut any entries.          *)
(* Authentication and the check of the parameters come before.             *)
(***************************************************************************)
EXTENDS LedgerPairing, FiniteSets

CONSTANTS
  Readers,      \* threads that serve lookups
  Wallets,      \* wallets that are looked up
  WalletOf,     \* the wallet of each entry
  MaxItems,     \* the greatest limit of a wallet lookup
  MaxLookups    \* bound on the lookups

ASSUME ApiAssumption ==
  /\ WalletOf \in [TxIds -> Wallets]
  /\ MaxItems \in Nat /\ MaxLookups \in Nat
  /\ NULL \notin {"COMPLETE", "INCOMPLETE", "UNKNOWN"}

VARIABLES
  stage,    \* the SELECT each reader runs next
  context,  \* the rows it has read
  reply,    \* the last response it sent
  audits,   \* committed bo.admin_audit_logs
  asked     \* lookups so far

apiVars == <<stage, context, reply, audits, asked>>
allVars == <<vars, apiVars>>

ApiInit ==
  /\ Init
  /\ stage   = [r \in Readers |-> "idle"]
  /\ context = [r \in Readers |-> NULL]
  /\ reply   = [r \in Readers |-> NULL]
  /\ audits  = {}
  /\ asked   = 0

-------------------------------------------------------------------------------
(* The responses (src/api/service.py) *)

\* Python's "a or b".
OrElse(a, b) == IF a # NULL THEN a ELSE b

ResolveRelatedType(c) ==
  OrElse(c.entry.related_type, IF c.order # NULL THEN "PAYMENT_ORDER" ELSE "UNKNOWN")

\* The transaction of a leg: what the pair says, else the peer, else the entry.
Leg(c, type, of_pair) ==
  OrElse(of_pair,
    OrElse(IF c.peer # NULL /\ c.peer.entry_type = type THEN c.peer.tx_id ELSE NULL,
           IF c.entry.entry_type = type THEN c.entry.tx_id ELSE NULL))

Legs(c) ==
  [payment |-> Leg(c, "PAYMENT", IF c.pair = NULL THEN NULL ELSE c.pair.payment_tx_id),
   receive |-> Leg(c, "RECEIVE", IF c.pair = NULL THEN NULL ELSE c.pair.receive_tx_id)]

\* The leg on the other side of an entry.
OtherLeg(entry, legs) ==
  IF entry.entry_type = "PAYMENT" THEN legs.receive
  ELSE IF entry.entry_type = "RECEIVE" THEN legs.payment ELSE NULL

ResolvePairing(c) ==
  IF c.entry.related_id = NULL \/ ResolveRelatedType(c) # "PAYMENT_ORDER"
  THEN [tx_id |-> c.entry.tx_id, status |-> "UNKNOWN", paired |-> NULL]
  ELSE [tx_id  |-> c.entry.tx_id,
        status |-> IF NULL \in {Legs(c).payment, Legs(c).receive}
                   THEN "INCOMPLETE" ELSE "COMPLETE",
        paired |-> OtherLeg(c.entry, Legs(c))]

\* An entry in a list, with the pair of its order if the caller has read one.
LedgerEntryItem(entry, pair) ==
  [tx_id  |-> entry.tx_id,
   status |-> IF entry.related_id = NULL THEN "UNKNOWN"
              ELSE IF Complete(pair) THEN "COMPLETE"
              ELSE IF pair # NULL \/ entry.related_type \in {NULL, "PAYMENT_ORDER"}
              THEN "INCOMPLETE" ELSE "UNKNOWN",
   paired |-> IF entry.related_id # NULL /\ Complete(pair)
              THEN OtherLeg(entry, [payment |-> pair.payment_tx_id,
                                    receive |-> pair.receive_tx_id])
              ELSE NULL]

\* A slip: an order with a pair is complete.
OrderStatusOfAnyPair(c) ==
  IF c.pair # NULL THEN "COMPLETE"
  ELSE IF c.entries # {} THEN "INCOMPLETE" ELSE "UNKNOWN"

OrderStatus(c) ==
  IF Complete(c.pair) THEN "COMPLETE"
  ELSE IF c.entries # {} THEN "INCOMPLETE" ELSE "UNKNOWN"

NotFound == [result |-> "NOT_FOUND", status |-> NULL, count |-> 0, items |-> {}]

TxResponse(c) ==
  IF c.entry = NULL THEN NotFound
  ELSE [result |-> "FOUND", status |-> ResolvePairing(c).status, count |-> 1,
        items |-> {ResolvePairing(c)}]

OrderResponse(c) ==
  IF c.order = NULL THEN NotFound
  ELSE [result |-> "FOUND", status |-> OrderStatus(c),
        count |-> Cardinality(c.entries),
        items |-> {LedgerEntryItem(e, c.pair) : e \in c.entries}]

WalletResponse(c) ==
  [result |-> IF c.entries = {} THEN "EMPTY" ELSE "FOUND", status |-> NULL,
   count |-> Cardinality(c.entries),
   items |-> {LedgerEntryItem(e, NULL) : e \in c.entries}]

Response(c) == CASE c.kind = "tx"     -> TxResponse(c)
                 [] c.kind = "order"  -> OrderResponse(c)
                 [] c.kind = "wallet" -> WalletResponse(c)

-------------------------------------------------------------------------------
(* The SELECTs (src/db/admin_tx.py) *)

EventOf(r) == IF r = NULL THEN NULL ELSE r.event

EventsAt(txs) == {ledger[t].event : t \in txs}

Opposite(entry) == IF entry.entry_type = "PAYMENT" THEN "RECEIVE" ELSE "PAYMENT"

\* Entries of the order of `entry` on its other side.
PeersOf(entry) ==
  {t \in EntriesOf(ledger, entry.related_id) \ {entry.tx_id} :
     ledger[t].event.entry_type = Opposite(entry)}

\* A lookup begins; `due` is history: the entries whose peer was stored then.
Ask(r, kind, key, c, next) ==
  /\ stage[r] = "idle"
  /\ asked < MaxLookups
  /\ asked' = asked + 1
  /\ stage' = [stage EXCEPT ![r] = next]
  /\ context' = [context EXCEPT ![r] =
       [lookup |-> asked', kind |-> kind, key |-> key,
        entry |-> c.entry, order |-> c.order, pair |-> c.pair, peer |-> NULL,
        entries |-> c.entries,
        due |-> {t \in TxIds : /\ ledger[t] # NULL
                               /\ ledger[t].event.related_id # NULL
                               /\ PeersOf(ledger[t].event) # {}}]]
  /\ reply' = [reply EXCEPT ![r] = NULL]
  /\ UNCHANGED <<vars, audits>>

\* A slip: no fallback for a pair with one leg.
NeedsPeerWithoutPair(entry, pair) == entry.related_id # NULL /\ pair = NULL

NeedsPeer(entry, pair) == entry.related_id # NULL /\ ~Complete(pair)

\* The entry with its order and its pair: one statement.
SelectTx(r, t) ==
  LET entry == EventOf(ledger[t])
      o     == IF entry = NULL THEN NULL ELSE entry.related_id
      order == IF o = NULL THEN NULL ELSE EventOf(orders[o])
      pair  == IF o = NULL THEN NULL ELSE pairs[o]
  IN Ask(r, "tx", t, [entry |-> entry, order |-> order, pair |-> pair, entries |-> {}],
         IF entry # NULL /\ NeedsPeer(entry, pair) THEN "peer" ELSE "respond")

\* The latest entry on the other side; which one depends on the event times.
SelectPeer(r) ==
  /\ stage[r] = "peer"
  /\ \E t \in FirstOf(PeersOf(context[r].entry)) :
       context' = [context EXCEPT ![r].peer = IF t = NULL THEN NULL ELSE ledger[t].event]
  /\ stage' = [stage EXCEPT ![r] = "respond"]
  /\ UNCHANGED <<vars, reply, audits, asked>>

SelectPaymentOrder(r, o) ==
  Ask(r, "order", o,
      [entry |-> NULL, order |-> EventOf(orders[o]), pair |-> NULL, entries |-> {}],
      IF orders[o] = NULL THEN "respond" ELSE "entries")

SelectOrderEntries(r) ==
  /\ stage[r] = "entries"
  /\ context' = [context EXCEPT ![r].entries = EventsAt(EntriesOf(ledger, context[r].key))]
  /\ stage' = [stage EXCEPT ![r] = "pair"]
  /\ UNCHANGED <<vars, reply, audits, asked>>

SelectOrderPair(r) ==
  /\ stage[r] = "pair"
  /\ context' = [context EXCEPT ![r].pair = pairs[context[r].key]]
  /\ stage' = [stage EXCEPT ![r] = "respond"]
  /\ UNCHANGED <<vars, reply, audits, asked>>

\* The entries of a wallet within a window of time, at most `limit` of them.
SelectWallet(r, w) ==
  \E txs \in SUBSET {t \in TxIds : ledger[t] # NULL /\ WalletOf[t] = w} :
    /\ Cardinality(txs) <= MaxItems
    /\ Ask(r, "wallet", w,
           [entry |-> NULL, order |-> NULL, pair |-> NULL, entries |-> EventsAt(txs)],
           "respond")

-------------------------------------------------------------------------------
(* The handlers (src/api/main.py) *)

AuditRow(c) == [lookup |-> c.lookup, kind |-> c.kind, key |-> c.key,
                result |-> Response(c).result, count |-> Response(c).count]

Reply(c) == [lookup |-> c.lookup, kind |-> c.kind, key |-> c.key, due |-> c.due,
             order |-> IF c.kind = "tx" /\ c.entry # NULL THEN c.entry.related_id
                       ELSE IF c.kind = "order" THEN c.key ELSE NULL,
             response |-> Response(c)]

Finish(r) ==
  /\ stage' = [stage EXCEPT ![r] = "idle"]
  /\ context' = [context EXCEPT ![r] = NULL]
  /\ UNCHANGED <<vars, asked>>

\* A slip: the audit row is written after the response has been sent.
RespondThenAudit(r) ==
  /\ stage[r] = "respond"
  /\ reply' = [reply EXCEPT ![r] = Reply(context[r])]
  /\ audits' \in {audits, audits \cup {AuditRow(context[r])}}
  /\ Finish(r)

\* The transaction commits with its audit row; then the response is sent, if the
\* client is still there. A response of 404 is audited too.
Respond(r) ==
  /\ stage[r] = "respond"
  /\ audits' = audits \cup {AuditRow(context[r])}
  /\ reply' \in {reply, [reply EXCEPT ![r] = Reply(context[r])]}
  /\ Finish(r)

\* A SELECT or the commit fails: rollback, and a response of 500.
FailLookup(r) ==
  /\ stage[r] # "idle"
  /\ Finish(r)
  /\ UNCHANGED <<reply, audits>>

ApiNext ==
  \/ Next /\ UNCHANGED apiVars
  \/ \E r \in Readers :
       \/ \E t \in TxIds : SelectTx(r, t)
       \/ \E o \in Orders : SelectPaymentOrder(r, o)
       \/ \E w \in Wallets : SelectWallet(r, w)
       \/ SelectPeer(r) \/ SelectOrderEntries(r) \/ SelectOrderPair(r)
       \/ Respond(r) \/ FailLookup(r)

ApiSpec == ApiInit /\ [][ApiNext]_allVars

-------------------------------------------------------------------------------
(* Properties *)

Replied(kind) == {reply[r] : r \in {r \in Readers : reply[r] # NULL /\ reply[r].kind = kind}}

\* Events of both sides of the order have been received.
Received(o) == \A type \in {"PAYMENT", "RECEIVE"} :
                 \E e \in applied : /\ e \in LedgerEvents
                                    /\ e.related_id = o /\ e.entry_type = type

\* A response says COMPLETE only when events of both sides of the order have been
\* committed: no rolled back leg and no mixture of two states of the tables gets
\* into a response (_resolve_pairing and build_admin_order_response combine rows
\* of several SELECTs).
CompleteMeansReceived ==
  \A p \in Replied("tx") \cup Replied("order") :
    p.response.status = "COMPLETE" => Received(p.order)

\* No event moves an entry to another order, side or related type.
EntriesStay ==
  \A e \in LedgerEvents, f \in LedgerEvents :
    e.tx_id = f.tx_id => /\ e.related_id = f.related_id
                         /\ e.entry_type = f.entry_type
                         /\ e.related_type = f.related_type

\* A transaction of a payment order whose peer was stored when its lookup began
\* is never reported INCOMPLETE, even if a race has left the pair incomplete for
\* good (the fallback query of fetch_admin_tx_context).
TxLookupSeesPeer ==
  \A p \in Replied("tx") :
    /\ EntriesStay
    /\ p.key \in p.due
    /\ \A e \in LedgerEventsOf(p.key) : e.entry_type \in {"PAYMENT", "RECEIVE"}
    => p.response.status # "INCOMPLETE"

\* The lookup of a transaction as the tables are, with any of its peers.
TxContexts(t) ==
  LET e == ledger[t].event
  IN {[entry |-> e, order |-> EventOf(orders[e.related_id]), pair |-> pairs[e.related_id],
       peer |-> IF p = NULL THEN NULL ELSE ledger[p].event] :
        p \in IF NeedsPeer(e, pairs[e.related_id]) THEN FirstOf(PeersOf(e)) ELSE {NULL}}

\* The two views of a payment agree: looked up by transaction and by order, it
\* has the same pairing status, unless transactions on the order have overlapped
\* and none has run alone since, or an entry has another related type
\* (_resolve_pairing has the fallback, build_admin_order_response has not).
ViewsAgreeUnlessRaced ==
  \A o \in Orders \ raced :
    LET found == EntriesOf(ledger, o)
        status == OrderStatus([pair |-> pairs[o], entries |-> EventsAt(found)])
    IN /\ orders[o] # NULL
       /\ \A t \in found : Pairable(ledger[t].event)
       => \A t \in found : \A c \in TxContexts(t) : ResolvePairing(c).status = status

\* Every response sent, found or not, has its row in the audit log, with the
\* same result and count (record_admin_audit in the transaction of the lookup).
RepliesAudited ==
  \A kind \in {"tx", "order", "wallet"} : \A p \in Replied(kind) :
    [lookup |-> p.lookup, kind |-> kind, key |-> p.key,
     result |-> p.response.result, count |-> p.response.count] \in audits

-------------------------------------------------------------------------------
(* What the documents promise without the proviso *)

\* README.md line 41: INCOMPLETE means that one of the two events has not been
\* received; of the entries of a wallet.
IncompleteMeansMissing ==
  \A p \in Replied("wallet") : \A item \in p.response.items :
    item.status = "INCOMPLETE" => item.tx_id \notin p.due
===============================================================================
