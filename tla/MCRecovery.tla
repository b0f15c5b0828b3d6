------------------------------- MODULE MCRecovery -------------------------------
(* Recovery for the profiles of configs/event_profiles.yaml and small files. *)
EXTENDS Recovery

VersionAliases == [version |-> <<"version", "source_version">>]

ProfileAliases ==
  [ledger |-> [entry_type |-> <<"entry_type", "type">>,
               event_time |-> <<"event_time", "source_created_at", "created_at">>,
               version    |-> <<"version", "source_version">>],
   payment_order |-> VersionAliases]

ProfileRequired ==
  [ledger |-> {"tx_id", "wallet_id", "entry_type", "amount", "event_time_or_alias"},
   payment_order |-> {"order_id", "amount", "status", "created_at"}]

Merge(p, q) == [f \in DOMAIN p \cup DOMAIN q |-> IF f \in DOMAIN q THEN q[f] ELSE p[f]]

Object(p) == [form |-> "object", payload |-> p]
Blank == [form |-> "blank", payload |-> <<>>]
Other == [form |-> "other", payload |-> <<>>]

Entry == [tx_id |-> "x", wallet_id |-> "w", amount |-> "ten", type |-> "PAYMENT",
          created_at |-> "t1"]
Order == [order_id |-> "o", amount |-> "ten", status |-> "PAID", created_at |-> "t1"]

\* An entry with any values in the fields of one group.
Ledgers ==
  {Merge(Entry, p) :
     p \in [{"entry_type", "type"} -> {"none", "blank", "PAYMENT", "RECEIVE"}]
      \cup [{"event_time", "source_created_at", "created_at"} ->
              {"none", "blank", "t1", "t2"}]
      \cup [{"version", "source_version"} -> {"none", "empty", "blank", "zero", "one", "x"}]
      \cup [{"tx_id", "amount"} -> {"none", "zero", "ten"}]
      \cup [{"updated_at", "amount_signed"} -> {"none", "empty", "t1"}]
      \cup [{"related_id"} -> {"none", "blank", "o"}]}

PaymentOrders ==
  {Merge(Order, p) :
     p \in [{"version", "source_version"} -> {"none", "empty", "zero", "one"}]
      \cup [{"created_at", "updated_at"} -> {"none", "t1", "t2"}]
      \cup [{"order_id", "status"} -> {"zero", "x"}]}

\* An entry that is stored, one out of range, an older one, one that is refused.
Good == Object(Entry)
Late == Object(Merge(Entry, [created_at |-> "t2"]))
Old  == Object(Merge(Entry, [created_at |-> "t0"]))
Bad  == Object([tx_id |-> "x"])

Files(ledger, orders) == [ledger |-> ledger, payment_order |-> orders]

FewInputs ==
  {Files(<<Object(p)>>, <<>>) : p \in Ledgers}
  \cup {Files(<<>>, <<Object(p)>>) : p \in PaymentOrders}
  \cup {Files(<<Late, Good>>, <<>>), Files(<<Bad, Blank>>, <<Object(Order)>>),
        Files(<<Good, Other>>, <<Object(Order)>>), Files(<<Good, Old>>, <<>>)}

TimeClock == [t \in {"t0", "t1", "t2"} |-> CASE t = "t0" -> 0 [] t = "t1" -> 1 [] t = "t2" -> 2]

OldLetter(topic, empty) == [form |-> "letter", topic |-> topic, empty |-> empty, of |-> topic]

FewLetters == {[db   |-> <<OldLetter("order", FALSE)>>,
                file |-> <<OldLetter("ledger", FALSE), OldLetter("order", TRUE)>>]}

Query(backend, topics, limit) == [backend |-> backend, topics |-> topics, limit |-> limit]

FewQueries == {Query("file", {"order", "backfill-ledger"}, 1), Query("db", NULL, NULL)}
===============================================================================
