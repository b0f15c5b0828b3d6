---------------------------- MODULE MCLedgerPairing ----------------------------
(* LedgerPairing on small sets of events. *)
EXTENDS LedgerPairing, TLC

CONSTANTS w1, w2, p1, r1, o1, o2

WorkerSymmetry == Permutations(Workers)

Entry(tx, type, order, rel, updated, version) ==
  [tx_id |-> tx, entry_type |-> type, related_id |-> order,
   related_type |-> rel, updated_at |-> updated, source_version |-> version]

Order(order, status, updated, version) ==
  [order_id |-> order, status |-> status,
   updated_at |-> updated, source_version |-> version]

\* Entries that change their order or their related type.  The third version of
\* the PAYMENT entry moves it to o2 and carries a source_version where the others
\* carry updated_at: which of them stays depends on their order of arrival.  The
\* RECEIVE entry is first reported under another related type.
MovingEvents ==
  {Entry(p1, "PAYMENT", o1, "PAYMENT_ORDER", 1, NULL),
   Entry(p1, "PAYMENT", o1, NULL, 2, NULL),
   Entry(p1, "PAYMENT", o2, "PAYMENT_ORDER", NULL, 1),
   Entry(r1, "RECEIVE", o1, "OTHER", 1, NULL),
   Entry(r1, "RECEIVE", o1, "PAYMENT_ORDER", 2, NULL)}

\* One entry of each type, none of them repeated in another version.
OnePairEvents ==
  {Entry(p1, "PAYMENT", o1, "PAYMENT_ORDER", 1, NULL),
   Entry(r1, "RECEIVE", o1, "PAYMENT_ORDER", 1, NULL)}

\* A RECEIVE entry of another related type beside a payment of the order.
OtherTypeEvents ==
  {Entry(p1, "PAYMENT", o1, "PAYMENT_ORDER", 1, NULL),
   Entry(r1, "RECEIVE", o1, "OTHER", 1, NULL)}

\* The order is created, then settled.
SettledOrder ==
  {Order(o1, "CREATED", NULL, 1), Order(o1, "SETTLED", NULL, 2)}
===============================================================================
