------------------------------- MODULE MCAdminApi -------------------------------
(* AdminApi beside small sets of events. *)
EXTENDS AdminApi, TLC

CONSTANTS w1, w2, p1, r1, o1, a1, W1

WorkerSymmetry == Permutations(Workers)

OneWallet == [t \in TxIds |-> W1]

Entry(tx, type, rel) ==
  [tx_id |-> tx, entry_type |-> type, related_id |-> o1, related_type |-> rel,
   updated_at |-> 1, source_version |-> NULL]

\* Both entries of a payment, one of them without a related type.
Payment == {Entry(p1, "PAYMENT", "PAYMENT_ORDER"), Entry(r1, "RECEIVE", NULL)}

PlacedOrder == {[order_id |-> o1, status |-> "CREATED",
                 updated_at |-> 1, source_version |-> NULL]}
===============================================================================
