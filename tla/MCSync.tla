-------------------------------- MODULE MCSync --------------------------------
(* Sync on small sets of messages. *)
EXTENDS Sync

CONSTANTS c1, c2, k1, t1

OneTopic == [p \in Partitions |-> "ledger"]

Version(n) == [key |-> t1, updated_at |-> n, source_version |-> NULL]

TwoVersions == {Version(1), Version(2)}

Valid(e) == [body |-> "valid", event |-> e, text_key |-> TRUE]
Invalid  == [body |-> "invalid", event |-> NULL, text_key |-> TRUE]
Empty    == [body |-> "empty", event |-> NULL, text_key |-> TRUE]
Binary   == [body |-> "valid", event |-> Version(1), text_key |-> FALSE]

AnyMessage == {Valid(e) : e \in TwoVersions} \cup {Invalid, Empty, Binary}
===============================================================================
