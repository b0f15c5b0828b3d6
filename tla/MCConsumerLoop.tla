---------------------------- MODULE MCConsumerLoop ----------------------------
(* ConsumerLoop on small sets of messages. *)
EXTENDS ConsumerLoop

CONSTANTS c1, k1

OneTopic == [p \in Partitions |-> "ledger"]

\* Neither the value nor the key can be decoded.
PoisonOnly == {[body |-> "invalid", event |-> NULL, text_key |-> FALSE]}
===============================================================================
