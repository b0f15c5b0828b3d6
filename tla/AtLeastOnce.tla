------------------------------ MODULE AtLeastOnce ------------------------------
(***************************************************************************)
(* What consuming promises of a set of messages: one that was published    *)
(* may be acknowledged to Kafka only once its fate is settled (its event   *)
(* is stored, or it was put aside as failed), and an acknowledgement is    *)
(* never taken back.  A message may be settled any number of times.        *)
(***************************************************************************)
CONSTANT Messages

VARIABLES published, settled, acked

absVars == <<published, settled, acked>>

AbsInit ==
  /\ published = {}
  /\ settled = {}
  /\ acked = {}

Publish == \E m \in Messages \ published :
  /\ published' = published \cup {m}
  /\ UNCHANGED <<settled, acked>>

Settle == \E m \in published :
  /\ settled' = settled \cup {m}
  /\ UNCHANGED <<published, acked>>

\* Kafka acknowledges a prefix of a partition at a time.
Acknowledge ==
  /\ acked \subseteq acked'
  /\ acked' \subseteq settled
  /\ UNCHANGED <<published, settled>>

AbsNext == Publish \/ Settle \/ Acknowledge

AbsSpec == AbsInit /\ [][AbsNext]_absVars
===============================================================================
