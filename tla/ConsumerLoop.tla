------------------------------ MODULE ConsumerLoop ------------------------------
(***************************************************************************)
(* The Kafka loop of the Sync Consumer (run_consumer) and its dead letters.*)
(*                                                                         *)
(* Consumers of one group poll messages of the partitions assigned to      *)
(* them, process each in a database transaction, write the failed ones to  *)
(* the dead letter queue and commit the offset of every message, stored or *)
(* dead.  consumer.commit(msg) is asynchronous: the loop goes on, and a    *)
(* commit that fails is not reported.                                      *)
(*                                                                         *)
(* Consumers crash and restart, the group rebalances at any time, and      *)
(* every access to the database or to the DLQ file may fail.               *)
(*                                                                         *)
(* Abstracted: the transaction of a valid event is one step (module Sync   *)
(* adds the rows it leaves, module LedgerPairing its statements); a run    *)
(* that ends by itself (max_messages, max_idle_seconds, a Kafka error, an  *)
(* interrupt) stops like one that crashes; metrics.                        *)
(***************************************************************************)
EXTENDS LatestWins, Sequences

CONSTANTS
  Consumers,      \* processes of the consumer group
  Partitions,     \* partitions of the two topics
  Topic,          \* the topic of each partition
  Events,         \* the events messages carry
  Publishable,    \* messages a producer may publish
  OffsetReset,    \* CONSUMER_OFFSET_RESET
  DlqBackend,     \* DLQ_BACKEND
  DlqPrunes,      \* DLQ_RETENTION_DAYS > 0
  MaxLog,         \* bound on the messages of a partition
  MaxFaults       \* bound on crashes and rebalances

\* What the loop tells apart in a message: whether its value holds an event that
\* parses (an empty value does not), which one, and whether its key is absent or
\* UTF-8.
Message == [body: {"valid", "invalid", "empty"}, event: Events \cup {NULL},
            text_key: BOOLEAN]

ASSUME LoopAssumption ==
  /\ NULL \notin Consumers
  /\ NULL \notin Nat
  /\ NULL \notin Partitions \X Nat
  /\ Publishable \subseteq Message
  /\ \A m \in Publishable : m.body = "valid" <=> m.event \in Events
  /\ OffsetReset \in {"earliest", "latest"}
  /\ DlqBackend \in {"db", "file"}
  /\ DlqPrunes \in BOOLEAN
  /\ MaxLog \in Nat
  /\ MaxFaults \in Nat

VARIABLES
  log,        \* the messages of each partition
  committed,  \* the group's committed offset, or NULL: how many were consumed
  owner,      \* the consumer each partition is assigned to, or NULL
  position,   \* how many messages of the partition its owner has been given
  pending,    \* the last commit the owner sent and Kafka has not answered
  pc,         \* what each consumer does
  msg,        \* the message it works on: <<partition, number>>
  stored,     \* messages whose event the database has committed
  dlq_db,     \* messages in bo.consumer_dlq_events
  dlq_file,   \* messages in the DLQ file
  kept,       \* history: messages that were ever written to a DLQ
  unwritten,  \* history: failed messages no DLQ could be written for
  faults      \* crashes and rebalances so far

kafka == <<log, committed, owner, position, pending>>
dlq   == <<dlq_db, dlq_file, kept, unwritten>>
vars  == <<kafka, pc, msg, stored, dlq, faults>>

Ids == Partitions \X (1..MaxLog)

Settled == stored \cup kept \cup unwritten

Init ==
  /\ log       = [p \in Partitions |-> <<>>]
  /\ committed = [p \in Partitions |-> NULL]
  /\ owner     = [p \in Partitions |-> NULL]
  /\ position  = [p \in Partitions |-> 0]
  /\ pending   = [p \in Partitions |-> NULL]
  /\ pc        = [c \in Consumers |-> "down"]
  /\ msg       = [c \in Consumers |-> NULL]
  /\ stored    = {}
  /\ dlq_db    = {}
  /\ dlq_file  = {}
  /\ kept      = {}
  /\ unwritten = {}
  /\ faults    = 0

-------------------------------------------------------------------------------
(* Kafka *)

Body(m)  == log[m[1]][m[2]].body
Event(m) == log[m[1]][m[2]].event

Publish(p, m) ==
  /\ Len(log[p]) < MaxLog
  /\ log' = [log EXCEPT ![p] = Append(@, m)]
  /\ UNCHANGED <<committed, owner, position, pending, pc, msg, stored, dlq, faults>>

\* A partition goes to a member that polls, from the committed offset or, when
\* the group has none, from where auto.offset.reset says.
Assign(p, c) ==
  /\ owner[p] = NULL
  /\ pc[c] = "polling"
  /\ owner' = [owner EXCEPT ![p] = c]
  /\ position' = [position EXCEPT ![p] =
                    IF committed[p] # NULL THEN committed[p]
                    ELSE IF OffsetReset = "earliest" THEN 0 ELSE Len(log[p])]
  /\ UNCHANGED <<log, committed, pending, pc, msg, stored, dlq, faults>>

\* A rebalance, also of a consumer that works on a message of the partition (it
\* exceeded max.poll.interval.ms or its session): its commits are refused.
Revoke(p) ==
  /\ owner[p] # NULL
  /\ faults < MaxFaults
  /\ faults' = faults + 1
  /\ owner' = [owner EXCEPT ![p] = NULL]
  /\ pending' = [pending EXCEPT ![p] = NULL]
  /\ UNCHANGED <<log, committed, position, pc, msg, stored, dlq>>

\* The commit takes effect, or is lost and nobody is told.
Answer(p) ==
  /\ pending[p] # NULL
  /\ committed' \in {committed, [committed EXCEPT ![p] = pending[p]]}
  /\ pending' = [pending EXCEPT ![p] = NULL]
  /\ UNCHANGED <<log, owner, position, pc, msg, stored, dlq, faults>>

-------------------------------------------------------------------------------
(* run_consumer *)

\* _maybe_prune_dlq deletes rows past their retention, unless the database
\* fails; then the consumer subscribes.
Start(c) ==
  /\ pc[c] = "down"
  /\ \E old \in SUBSET dlq_db :
       /\ old # {} => DlqBackend = "db" /\ DlqPrunes
       /\ dlq_db' = dlq_db \ old
  /\ pc' = [pc EXCEPT ![c] = "polling"]
  /\ UNCHANGED <<kafka, msg, stored, dlq_file, kept, unwritten, faults>>

\* A slip: enable.auto.commit left on, which commits what was polled.
PollAutoCommit(c, p) ==
  /\ pc[c] = "polling"
  /\ owner[p] = c
  /\ position[p] < Len(log[p])
  /\ position' = [position EXCEPT ![p] = @ + 1]
  /\ pending' = [pending EXCEPT ![p] = position[p] + 1]
  /\ msg' = [msg EXCEPT ![c] = <<p, position[p] + 1>>]
  /\ pc' = [pc EXCEPT ![c] = "handling"]
  /\ UNCHANGED <<log, committed, owner, stored, dlq, faults>>

Poll(c, p) ==
  /\ pc[c] = "polling"
  /\ owner[p] = c
  /\ position[p] < Len(log[p])
  /\ position' = [position EXCEPT ![p] = @ + 1]
  /\ msg' = [msg EXCEPT ![c] = <<p, position[p] + 1>>]
  /\ pc' = [pc EXCEPT ![c] = "handling"]
  /\ UNCHANGED <<log, committed, owner, pending, stored, dlq, faults>>

\* _handle_payload: session_scope commits the event.
Store(c) ==
  /\ pc[c] = "handling"
  /\ Body(msg[c]) = "valid"
  /\ stored' = stored \cup {msg[c]}
  /\ pc' = [pc EXCEPT ![c] = "done"]
  /\ UNCHANGED <<kafka, msg, dlq, faults>>

\* The process ends, by itself or not; Kafka takes its partitions back.
Leave(c) ==
  /\ pc' = [pc EXCEPT ![c] = "down"]
  /\ msg' = [msg EXCEPT ![c] = NULL]
  /\ owner' = [p \in Partitions |-> IF owner[p] = c THEN NULL ELSE owner[p]]
  /\ pending' = [p \in Partitions |-> IF owner[p] = c THEN NULL ELSE pending[p]]

\* _handle_payload raises: the event does not parse or the database fails, which
\* may have committed all the same. The key is decoded for the DLQ: one that is
\* not UTF-8 raises again, out of the loop.
Fail(c) ==
  /\ pc[c] = "handling"
  /\ \/ UNCHANGED stored
     \/ Body(msg[c]) = "valid" /\ stored' = stored \cup {msg[c]}
  /\ IF log[msg[c][1]][msg[c][2]].text_key
     THEN /\ pc' = [pc EXCEPT ![c] = IF DlqBackend = "db" THEN "dlq_db" ELSE "dlq_file"]
          /\ UNCHANGED <<kafka, msg>>
     ELSE Leave(c) /\ UNCHANGED <<log, committed, position>>
  /\ UNCHANGED <<dlq, faults>>

\* A slip: a failure to write the table ends in the log.
WriteDlqDbOnly(c) ==
  /\ pc[c] = "dlq_db"
  /\ \/ /\ dlq_db' = dlq_db \cup {msg[c]}
        /\ kept' = kept \cup {msg[c]}
     \/ UNCHANGED <<dlq_db, kept>>
  /\ pc' = [pc EXCEPT ![c] = "dead"]
  /\ UNCHANGED <<kafka, msg, stored, dlq_file, unwritten, faults>>

\* _write_dlq_payload, the table: on an exception, the file.
WriteDlqDb(c) ==
  /\ pc[c] = "dlq_db"
  /\ \/ /\ dlq_db' = dlq_db \cup {msg[c]}
        /\ kept' = kept \cup {msg[c]}
        /\ pc' = [pc EXCEPT ![c] = "dead"]
     \/ /\ UNCHANGED <<dlq_db, kept>>
        /\ pc' = [pc EXCEPT ![c] = "dlq_file"]
  /\ UNCHANGED <<kafka, msg, stored, dlq_file, unwritten, faults>>

\* A slip: a failure to write the file ends the process.
WriteDlqFileOrExit(c) ==
  /\ pc[c] = "dlq_file"
  /\ \/ /\ dlq_file' = dlq_file \cup {msg[c]}
        /\ kept' = kept \cup {msg[c]}
        /\ pc' = [pc EXCEPT ![c] = "dead"]
        /\ UNCHANGED <<msg, owner, pending>>
     \/ Leave(c) /\ UNCHANGED <<dlq_file, kept>>
  /\ UNCHANGED <<log, committed, position, stored, dlq_db, unwritten, faults>>

\* _write_dlq_payload, the file: an exception is only logged.
WriteDlqFile(c) ==
  /\ pc[c] = "dlq_file"
  /\ \/ /\ dlq_file' = dlq_file \cup {msg[c]}
        /\ kept' = kept \cup {msg[c]}
        /\ UNCHANGED unwritten
     \/ /\ unwritten' = unwritten \cup {msg[c]}
        /\ UNCHANGED <<dlq_file, kept>>
  /\ pc' = [pc EXCEPT ![c] = "dead"]
  /\ UNCHANGED <<kafka, msg, stored, dlq_db, faults>>

\* A slip: commit(msg) of the next offset; Kafka adds one itself.
CommitNext(c) ==
  LET p == msg[c][1]
  IN /\ pc[c] \in {"done", "dead"}
     /\ pending' = IF owner[p] = c THEN [pending EXCEPT ![p] = msg[c][2] + 1] ELSE pending
     /\ pc' = [pc EXCEPT ![c] = "polling"]
     /\ msg' = [msg EXCEPT ![c] = NULL]
     /\ UNCHANGED <<log, committed, owner, position, stored, dlq, faults>>

\* consumer.commit(msg), after the event is stored or the message is dead; the
\* coordinator ignores a consumer that has lost the partition.
CommitMsg(c) ==
  LET p == msg[c][1]
  IN /\ pc[c] \in {"done", "dead"}
     /\ pending' = IF owner[p] = c THEN [pending EXCEPT ![p] = msg[c][2]] ELSE pending
     /\ pc' = [pc EXCEPT ![c] = "polling"]
     /\ msg' = [msg EXCEPT ![c] = NULL]
     /\ UNCHANGED <<log, committed, owner, position, stored, dlq, faults>>

Stop(c) ==
  /\ pc[c] # "down"
  /\ faults < MaxFaults
  /\ faults' = faults + 1
  /\ Leave(c)
  /\ UNCHANGED <<log, committed, position, stored, dlq>>

-------------------------------------------------------------------------------
(* scripts/replay_dlq.py, backend file: a record that has a payload is produced
   again to its topic, without its key, to any partition. *)
ReplayFile(m, p) ==
  /\ Body(m) # "empty"
  /\ Topic[p] = Topic[m[1]]
  /\ Publish(p, [body |-> Body(m), event |-> Event(m), text_key |-> TRUE])

-------------------------------------------------------------------------------
\* The steps of a consumer that leave the tables alone.
Loop(c) ==
  \/ Start(c)
  \/ \E p \in Partitions : Poll(c, p)
  \/ WriteDlqDb(c) \/ WriteDlqFile(c) \/ CommitMsg(c)

Run(c) == Loop(c) \/ Store(c) \/ Fail(c)

\* What happens to the consumers: Kafka, producers and faults.
Around ==
  \/ \E p \in Partitions :
       \/ \E m \in Publishable : Publish(p, m)
       \/ \E m \in dlq_file : ReplayFile(m, p)
       \/ \E c \in Consumers : Assign(p, c)
       \/ Revoke(p)
       \/ Answer(p)
  \/ \E c \in Consumers : Stop(c)

Next == Around \/ \E c \in Consumers : Run(c)

Spec == Init /\ [][Next]_vars

\* Consumers run and are restarted, and Kafka assigns partitions; nothing forces
\* a database to work, a commit to take effect or a message to be published.
Fairness ==
  /\ \A c \in Consumers : WF_vars(Run(c))
  /\ \A p \in Partitions : WF_vars(\E c \in Consumers : Assign(p, c))

FairSpec == Spec /\ Fairness

-------------------------------------------------------------------------------
(* Properties *)

Published == {m \in Ids : m[2] <= Len(log[m[1]])}
Acked     == {m \in Ids : committed[m[1]] # NULL /\ m[2] <= committed[m[1]]}

LoopTypeOK ==
  /\ log \in [Partitions -> Seq(Message)]
  /\ \A p \in Partitions : Len(log[p]) <= MaxLog
  /\ committed \in [Partitions -> 0..MaxLog \cup {NULL}]
  /\ owner \in [Partitions -> Consumers \cup {NULL}]
  /\ position \in [Partitions -> 0..MaxLog]
  /\ pending \in [Partitions -> 0..MaxLog \cup {NULL}]
  /\ pc \in [Consumers -> {"down", "polling", "handling", "done", "dlq_db",
                           "dlq_file", "dead"}]
  /\ msg \in [Consumers -> Ids \cup {NULL}]
  /\ stored \subseteq Ids /\ dlq_db \subseteq Ids /\ dlq_file \subseteq Ids
  /\ kept \subseteq Ids /\ unwritten \subseteq Ids
  /\ faults \in 0..MaxFaults

\* The group's offset passes no message whose event was not stored, that was
\* never written to a DLQ and for which writing one was not tried in vain: not
\* through a crash, a rebalance in the middle of a message or a lost commit
\* (run_consumer commits msg after the transaction or the DLQ write).
NothingSkipped == OffsetReset = "earliest" => Acked \subseteq Settled

\* The loop implements AtLeastOnce.
Delivery == INSTANCE AtLeastOnce
            WITH Messages <- Ids, published <- Published, settled <- Settled,
                 acked <- Acked

DeliversAtLeastOnce == Delivery!AbsSpec

-------------------------------------------------------------------------------
(* What the documents promise without the proviso *)

\* ".specs/architecture_guide.md" line 404: an event that does not parse goes to
\* the DLQ, its offset is committed, and the loop goes on with the next one.
ParseFailuresSettled ==
  \A m \in Ids : (m \in Published /\ Body(m) = "invalid") ~> m \in Settled
===============================================================================
