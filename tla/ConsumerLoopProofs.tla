--------------------------- MODULE ConsumerLoopProofs ---------------------------
(***************************************************************************)
(* At-least-once delivery of the Kafka loop, for every set of consumers,   *)
(* partitions and messages and any number of faults.                       *)
(***************************************************************************)
EXTENDS ConsumerLoop, TLAPS

\* A consumer has a message exactly while it works on one; what was polled or
\* settled was published; positions stay within their partition.
LoopStage ==
  /\ \A c \in Consumers : pc[c] \in {"down", "polling"} <=> msg[c] = NULL
  /\ \A c \in Consumers : msg[c] # NULL => msg[c] \in Published
  /\ Settled \subseteq Published
  /\ dlq_file \subseteq kept
  /\ \A p \in Partitions :
       /\ committed[p] # NULL => committed[p] <= Len(log[p])
       /\ owner[p] # NULL => position[p] <= Len(log[p])
       /\ pending[p] # NULL => pending[p] <= Len(log[p])

LoopTyped == LoopTypeOK /\ LoopStage

LEMMA LoopTypedInit == Init => LoopTyped
BY LoopAssumption DEF Init, LoopTyped, LoopTypeOK, LoopStage, Settled, Published, Ids

LEMMA LeaveTyped ==
  ASSUME LoopTyped, NEW c \in Consumers, Leave(c), UNCHANGED <<log, committed, position>>,
         stored' \subseteq Published, UNCHANGED dlq, faults' \in 0..MaxFaults
  PROVE  LoopTyped'
BY LoopAssumption DEF LoopTyped, LoopTypeOK, LoopStage, Leave, Settled, Published, Ids, dlq

LEMMA PublishTyped ==
  ASSUME LoopTyped, NEW p \in Partitions, NEW m \in Message, Publish(p, m)
  PROVE  LoopTyped'
<1>1. /\ log' \in [Partitions -> Seq(Message)]
      /\ \A q \in Partitions : Len(log[q]) <= Len(log'[q]) /\ Len(log'[q]) <= MaxLog
  BY LoopAssumption DEF LoopTyped, LoopTypeOK, Publish
<1>2. Published \subseteq Published'
  BY <1>1, LoopAssumption DEF Published, Ids, LoopTyped, LoopTypeOK
<1> QED
  BY <1>1, <1>2, LoopAssumption
  DEF LoopTyped, LoopTypeOK, LoopStage, Publish, Settled, dlq

\* The content of a published message.
LEMMA BodyTyped ==
  ASSUME LoopTyped, NEW m \in Published
  PROVE  log[m[1]][m[2]] \in Message
BY LoopAssumption DEF LoopTyped, LoopTypeOK, Published, Ids

LEMMA LoopTypedNext == LoopTyped /\ [Next]_vars => LoopTyped'
<1> SUFFICES ASSUME LoopTyped, [Next]_vars PROVE LoopTyped'
  OBVIOUS
<1> USE LoopAssumption DEF LoopTyped
<1>1. ASSUME NEW p \in Partitions, NEW m \in Publishable, Publish(p, m) PROVE LoopTyped'
  BY <1>1, PublishTyped
<1>2. ASSUME NEW p \in Partitions, NEW m \in dlq_file, ReplayFile(m, p) PROVE LoopTyped'
  <2>1. m \in Published
    BY DEF LoopStage, Settled
  <2>2. [body |-> Body(m), event |-> Event(m), text_key |-> TRUE] \in Message
    BY <2>1, BodyTyped DEF Body, Event, Message
  <2> QED
    BY <1>2, <2>2, PublishTyped DEF ReplayFile
<1>3. ASSUME NEW p \in Partitions, NEW c \in Consumers, Assign(p, c) PROVE LoopTyped'
  BY <1>3 DEF Assign, LoopTypeOK, LoopStage, Settled, Published, dlq
<1>4. ASSUME NEW p \in Partitions, Revoke(p) PROVE LoopTyped'
  BY <1>4 DEF Revoke, LoopTypeOK, LoopStage, Settled, Published, dlq
<1>5. ASSUME NEW p \in Partitions, Answer(p) PROVE LoopTyped'
  BY <1>5 DEF Answer, LoopTypeOK, LoopStage, Settled, Published, dlq
<1>6. ASSUME NEW c \in Consumers, Start(c) PROVE LoopTyped'
  BY <1>6 DEF Start, LoopTypeOK, LoopStage, Settled, Published, kafka
<1>7. ASSUME NEW c \in Consumers, NEW p \in Partitions, Poll(c, p) PROVE LoopTyped'
  <2>1. position[p] + 1 \in 1..MaxLog
    BY <1>7 DEF Poll, LoopTypeOK
  <2>2. <<p, position[p] + 1>> \in Published
    BY <1>7, <2>1 DEF Poll, LoopTypeOK, Published, Ids
  <2> QED
    BY <1>7, <2>1, <2>2 DEF Poll, LoopTypeOK, LoopStage, Settled, Published, Ids, dlq
<1>8. ASSUME NEW c \in Consumers, Store(c) PROVE LoopTyped'
  BY <1>8 DEF Store, LoopTypeOK, LoopStage, Settled, Published, kafka, dlq
<1>9. ASSUME NEW c \in Consumers, Fail(c) PROVE LoopTyped'
  <2>1. msg[c] \in Published /\ stored' \subseteq Published
    BY <1>9 DEF Fail, LoopTypeOK, LoopStage, Settled
  <2>2. CASE Leave(c) /\ UNCHANGED <<log, committed, position>>
    BY <1>9, <2>1, <2>2, LeaveTyped DEF Fail, LoopTypeOK
  <2>3. CASE /\ pc' = [pc EXCEPT ![c] = IF DlqBackend = "db" THEN "dlq_db" ELSE "dlq_file"]
             /\ UNCHANGED <<kafka, msg>>
    BY <1>9, <2>1, <2>3 DEF Fail, LoopTypeOK, LoopStage, Settled, Published, kafka, dlq
  <2> QED
    BY <1>9, <2>2, <2>3 DEF Fail
<1>10. ASSUME NEW c \in Consumers, WriteDlqDb(c) PROVE LoopTyped'
  BY <1>10 DEF WriteDlqDb, LoopTypeOK, LoopStage, Settled, Published, kafka
<1>11. ASSUME NEW c \in Consumers, WriteDlqFile(c) PROVE LoopTyped'
  BY <1>11 DEF WriteDlqFile, LoopTypeOK, LoopStage, Settled, Published, kafka
<1>12. ASSUME NEW c \in Consumers, CommitMsg(c) PROVE LoopTyped'
  <2>1. msg[c] \in Published /\ msg[c] \in Ids
    BY <1>12 DEF CommitMsg, LoopTypeOK, LoopStage, Published
  <2>2. msg[c][1] \in Partitions /\ msg[c][2] \in 0..MaxLog /\ msg[c][2] <= Len(log[msg[c][1]])
    BY <2>1 DEF Published, Ids
  <2> QED
    BY <1>12, <2>2 DEF CommitMsg, LoopTypeOK, LoopStage, Settled, Published, dlq
<1>13. ASSUME NEW c \in Consumers, Stop(c) PROVE LoopTyped'
  BY <1>13, LeaveTyped DEF Stop, LoopTypeOK, LoopStage, Settled
<1>14. CASE UNCHANGED vars
  BY <1>14 DEF LoopTypeOK, LoopStage, Settled, Published, vars, kafka, dlq
<1> QED
  BY <1>1, <1>2, <1>3, <1>4, <1>5, <1>6, <1>7, <1>8, <1>9, <1>10, <1>11, <1>12,
     <1>13, <1>14
  DEF Next, Around, Run, Loop

\* Every variable of the loop keeps its type.
THEOREM LoopTypeCorrect == Spec => []LoopTypeOK
<1> QED
  BY LoopTypedInit, LoopTypedNext, PTL DEF Spec, LoopTyped

-------------------------------------------------------------------------------
(* Nothing is skipped *)

\* The first n messages of partition p are settled.
SettledUpTo(p, n) == \A j \in 1..n : <<p, j>> \in Settled

\* The number of the message of p that c works on, or 0.
Current(c, p) == IF msg[c] # NULL /\ msg[c][1] = p THEN msg[c][2] ELSE 0

\* A consumer settles the messages of a partition in their order.
ConsumerOK(c) ==
  /\ pc[c] \in {"done", "dead"} => msg[c] \in Settled
  /\ msg[c] # NULL => SettledUpTo(msg[c][1], msg[c][2] - 1)

\* What the owner of a partition was given is settled, but what it works on.
OwnerOK(p) ==
  owner[p] # NULL =>
    /\ pc[owner[p]] # "down"
    /\ committed[p] # NULL => committed[p] <= position[p]
    /\ Current(owner[p], p) \in {0, position[p]}
    /\ \A j \in 1..position[p] : <<p, j>> \in Settled \/ j = Current(owner[p], p)

\* An owner sends a commit only for what is settled, and never an older one.
PendingOK(p) ==
  pending[p] # NULL =>
    /\ owner[p] # NULL
    /\ pending[p] <= position[p]
    /\ committed[p] # NULL => committed[p] <= pending[p]
    /\ SettledUpTo(p, pending[p])

CommittedOK(p) == committed[p] # NULL => SettledUpTo(p, committed[p])

DeliveryInv ==
  /\ \A c \in Consumers : ConsumerOK(c)
  /\ \A p \in Partitions : OwnerOK(p) /\ PendingOK(p) /\ CommittedOK(p)

LEMMA DeliveryInit == Init => DeliveryInv
BY LoopAssumption
DEF Init, DeliveryInv, ConsumerOK, OwnerOK, PendingOK, CommittedOK

\* What settles stays settled.
LEMMA SettledGrows ==
  ASSUME LoopTyped, [Next]_vars PROVE Settled \subseteq Settled'
BY DEF Next, Around, Run, Loop, Publish, ReplayFile, Assign, Revoke, Answer, Start, Poll, Store,
       Fail, Leave, WriteDlqDb, WriteDlqFile, CommitMsg, Stop, Settled, vars, kafka, dlq

LEMMA ConsumerFrame ==
  ASSUME NEW c \in Consumers, ConsumerOK(c), Settled \subseteq Settled',
         pc'[c] = pc[c], msg'[c] = msg[c]
  PROVE  ConsumerOK(c)'
BY DEF ConsumerOK, SettledUpTo

LEMMA OwnerFrame ==
  ASSUME NEW p \in Partitions, OwnerOK(p), Settled \subseteq Settled',
         owner'[p] = owner[p], position'[p] = position[p], committed'[p] = committed[p],
         owner[p] # NULL => /\ pc'[owner[p]] # "down"
                            /\ msg'[owner[p]] = msg[owner[p]]
  PROVE  OwnerOK(p)'
BY DEF OwnerOK, Current

LEMMA PendingFrame ==
  ASSUME NEW p \in Partitions, PendingOK(p), Settled \subseteq Settled',
         owner'[p] = owner[p], position'[p] = position[p],
         pending'[p] = pending[p], committed'[p] = committed[p]
  PROVE  PendingOK(p)'
BY DEF PendingOK, SettledUpTo

LEMMA CommittedFrame ==
  ASSUME NEW p \in Partitions, CommittedOK(p), Settled \subseteq Settled',
         committed'[p] = committed[p]
  PROVE  CommittedOK(p)'
BY DEF CommittedOK, SettledUpTo

\* A process that ends leaves the invariant to the others.
LEMMA LeaveDelivery ==
  ASSUME LoopTyped, DeliveryInv, NEW c \in Consumers, Leave(c),
         UNCHANGED <<log, committed, position>>, Settled \subseteq Settled'
  PROVE  DeliveryInv'
<1>1. ASSUME NEW d \in Consumers PROVE ConsumerOK(d)'
  <2>1. CASE d = c
    BY <2>1 DEF Leave, ConsumerOK, LoopTyped, LoopTypeOK
  <2>2. CASE d # c
    BY <2>2, ConsumerFrame DEF Leave, DeliveryInv, LoopTyped, LoopTypeOK
  <2> QED BY <2>1, <2>2
<1>2. ASSUME NEW p \in Partitions PROVE OwnerOK(p)' /\ PendingOK(p)' /\ CommittedOK(p)'
  <2>1. CASE owner[p] = c
    BY <2>1, CommittedFrame DEF Leave, DeliveryInv, OwnerOK, PendingOK
  <2>2. CASE owner[p] # c
    <3>1. owner'[p] = owner[p] /\ pending'[p] = pending[p]
      BY <2>2 DEF Leave
    <3>2. owner[p] # NULL => pc'[owner[p]] = pc[owner[p]] /\ msg'[owner[p]] = msg[owner[p]]
      BY <2>2 DEF Leave, LoopTyped, LoopTypeOK
    <3> QED
      BY <3>1, <3>2, OwnerFrame, PendingFrame, CommittedFrame DEF DeliveryInv, OwnerOK
  <2> QED BY <2>1, <2>2
<1> QED BY <1>1, <1>2 DEF DeliveryInv

LEMMA DeliveryNext ==
  ASSUME OffsetReset = "earliest", LoopTyped, DeliveryInv, [Next]_vars
  PROVE  DeliveryInv'
<1> USE LoopAssumption
<1>0. Settled \subseteq Settled'
  BY SettledGrows
<1>1. ASSUME NEW p \in Partitions, NEW c \in Consumers, Assign(p, c) PROVE DeliveryInv'
  <2>1. \A d \in Consumers : ConsumerOK(d)'
    BY <1>0, <1>1, ConsumerFrame DEF Assign, DeliveryInv
  <2>2. OwnerOK(p)'
    <3>1. /\ owner'[p] = c /\ pc'[c] = "polling" /\ msg'[c] = NULL
          /\ committed'[p] = committed[p]
          /\ position'[p] = IF committed[p] # NULL THEN committed[p] ELSE 0
      BY <1>1 DEF Assign, LoopTyped, LoopTypeOK, LoopStage
    <3>2. \A j \in 1..position'[p] : <<p, j>> \in Settled'
      BY <1>0, <3>1 DEF DeliveryInv, CommittedOK, SettledUpTo
    <3>3. Current(c, p)' = 0
      BY <3>1 DEF Current
    <3> QED
      BY <3>1, <3>2, <3>3 DEF OwnerOK, Current, LoopTyped, LoopTypeOK
  <2>3. PendingOK(p)' /\ CommittedOK(p)'
    BY <1>0, <1>1, CommittedFrame DEF Assign, DeliveryInv, PendingOK
  <2>4. ASSUME NEW q \in Partitions \ {p}
        PROVE  OwnerOK(q)' /\ PendingOK(q)' /\ CommittedOK(q)'
    <3>1. /\ owner'[q] = owner[q] /\ position'[q] = position[q]
          /\ UNCHANGED <<committed, pending, pc, msg>>
      BY <1>1 DEF Assign, LoopTyped, LoopTypeOK
    <3> QED
      BY <1>0, <3>1, OwnerFrame, PendingFrame, CommittedFrame DEF DeliveryInv, OwnerOK
  <2> QED BY <2>1, <2>2, <2>3, <2>4 DEF DeliveryInv
<1>2. ASSUME NEW p \in Partitions, Revoke(p) \/ Answer(p) PROVE DeliveryInv'
  <2>1. \A d \in Consumers : ConsumerOK(d)'
    BY <1>0, <1>2, ConsumerFrame DEF Revoke, Answer, DeliveryInv
  <2>2. OwnerOK(p)' /\ PendingOK(p)' /\ CommittedOK(p)'
    <3>1. CASE Revoke(p)
      BY <1>0, <3>1, CommittedFrame
      DEF Revoke, DeliveryInv, OwnerOK, PendingOK, LoopTyped, LoopTypeOK
    <3>2. CASE Answer(p) /\ committed'[p] = pending[p]
      <4>1. /\ owner' = owner /\ position' = position /\ pending'[p] = NULL
            /\ pending[p] # NULL /\ UNCHANGED <<pc, msg>>
        BY <3>2 DEF Answer, LoopTyped, LoopTypeOK
      <4>2. CommittedOK(p)' /\ PendingOK(p)'
        BY <1>0, <3>2, <4>1 DEF DeliveryInv, CommittedOK, PendingOK, SettledUpTo
      <4>3. OwnerOK(p)'
        BY <1>0, <3>2, <4>1 DEF DeliveryInv, OwnerOK, PendingOK, Current
      <4> QED BY <4>2, <4>3
    <3>3. CASE Answer(p) /\ committed'[p] = committed[p]
      BY <1>0, <3>3, OwnerFrame, CommittedFrame
      DEF Answer, DeliveryInv, OwnerOK, PendingOK, LoopTyped, LoopTypeOK
    <3> QED
      BY <1>2, <3>1, <3>2, <3>3 DEF Answer, LoopTyped, LoopTypeOK
  <2>3. ASSUME NEW q \in Partitions \ {p}
        PROVE  OwnerOK(q)' /\ PendingOK(q)' /\ CommittedOK(q)'
    <3>1. /\ owner'[q] = owner[q] /\ pending'[q] = pending[q]
          /\ committed'[q] = committed[q] /\ UNCHANGED <<position, pc, msg>>
      BY <1>2 DEF Revoke, Answer, LoopTyped, LoopTypeOK
    <3> QED
      BY <1>0, <3>1, OwnerFrame, PendingFrame, CommittedFrame DEF DeliveryInv, OwnerOK
  <2> QED BY <2>1, <2>2, <2>3 DEF DeliveryInv
<1>3. ASSUME NEW c \in Consumers, NEW p \in Partitions, Poll(c, p) PROVE DeliveryInv'
  <2>1. /\ owner[p] = c /\ pc[c] = "polling" /\ msg[c] = NULL
        /\ msg'[c] = <<p, position[p] + 1>> /\ pc'[c] = "handling"
        /\ position[p] \in Nat /\ position'[p] = position[p] + 1
        /\ UNCHANGED <<owner, committed, pending>>
    BY <1>3 DEF Poll, LoopTyped, LoopTypeOK, LoopStage
  <2>2. SettledUpTo(p, position[p])
    BY <2>1 DEF DeliveryInv, OwnerOK, Current, SettledUpTo
  <2>3. ConsumerOK(c)'
    BY <1>0, <2>1, <2>2 DEF ConsumerOK, SettledUpTo
  <2>4. \A d \in Consumers \ {c} : ConsumerOK(d)'
    BY <1>0, <1>3, ConsumerFrame DEF Poll, DeliveryInv, LoopTyped, LoopTypeOK
  <2>5. OwnerOK(p)'
    <3>1. Current(c, p)' = position'[p]
      BY <2>1 DEF Current
    <3>2. committed[p] # NULL => committed[p] \in Nat /\ committed[p] <= position[p]
      BY <2>1 DEF DeliveryInv, OwnerOK, LoopTyped, LoopTypeOK
    <3> QED
      BY <1>0, <2>1, <2>2, <3>1, <3>2 DEF OwnerOK, SettledUpTo
  <2>6. PendingOK(p)' /\ CommittedOK(p)'
    BY <1>0, <2>1, CommittedFrame
    DEF DeliveryInv, PendingOK, SettledUpTo, LoopTyped, LoopTypeOK
  <2>7. ASSUME NEW q \in Partitions \ {p}
        PROVE  OwnerOK(q)' /\ PendingOK(q)' /\ CommittedOK(q)'
    <3>1. position'[q] = position[q]
      BY <1>3 DEF Poll, LoopTyped, LoopTypeOK
    <3>2. CASE owner[q] = c
      <4>1. Current(c, q) = 0 /\ Current(c, q)' = 0
        BY <2>1 DEF Current
      <4> QED
        BY <1>0, <2>1, <3>1, <3>2, <4>1, PendingFrame, CommittedFrame
        DEF DeliveryInv, OwnerOK
    <3>3. CASE owner[q] # c
      <4>1. owner[q] # NULL => pc'[owner[q]] = pc[owner[q]] /\ msg'[owner[q]] = msg[owner[q]]
        BY <1>3, <3>3 DEF Poll, LoopTyped, LoopTypeOK
      <4> QED
        BY <1>0, <2>1, <3>1, <4>1, OwnerFrame, PendingFrame, CommittedFrame
        DEF DeliveryInv, OwnerOK
    <3> QED BY <3>2, <3>3
  <2> QED BY <2>3, <2>4, <2>5, <2>6, <2>7 DEF DeliveryInv
\* A step of c that neither takes nor drops a message.
<1>4. ASSUME NEW c \in Consumers, NEW s, UNCHANGED <<kafka, msg>>,
             pc' = [pc EXCEPT ![c] = s], s # "down",
             s \in {"done", "dead"} => msg[c] \in Settled'
      PROVE  DeliveryInv'
  <2>1. ConsumerOK(c)'
    BY <1>0, <1>4 DEF DeliveryInv, ConsumerOK, SettledUpTo, LoopTyped, LoopTypeOK
  <2>2. \A d \in Consumers \ {c} : ConsumerOK(d)'
    BY <1>0, <1>4, ConsumerFrame DEF DeliveryInv, LoopTyped, LoopTypeOK
  <2>3. ASSUME NEW p \in Partitions PROVE OwnerOK(p)' /\ PendingOK(p)' /\ CommittedOK(p)'
    <3>1. owner[p] # NULL => pc'[owner[p]] # "down"
      BY <1>4 DEF DeliveryInv, OwnerOK, LoopTyped, LoopTypeOK
    <3> QED
      BY <1>0, <1>4, <3>1, OwnerFrame, PendingFrame, CommittedFrame DEF DeliveryInv, kafka
  <2> QED BY <2>1, <2>2, <2>3 DEF DeliveryInv
<1>5. ASSUME NEW c \in Consumers, Start(c) PROVE DeliveryInv'
  BY <1>4, <1>5 DEF Start
<1>6. ASSUME NEW c \in Consumers, Store(c) PROVE DeliveryInv'
  BY <1>4, <1>6 DEF Store, Settled
<1>7. ASSUME NEW c \in Consumers, Fail(c) PROVE DeliveryInv'
  <2>1. CASE Leave(c) /\ UNCHANGED <<log, committed, position>>
    BY <1>0, <2>1, LeaveDelivery
  <2>2. CASE /\ pc' = [pc EXCEPT ![c] = IF DlqBackend = "db" THEN "dlq_db" ELSE "dlq_file"]
             /\ UNCHANGED <<kafka, msg>>
    BY <1>4, <2>2
  <2> QED
    BY <1>7, <2>1, <2>2 DEF Fail
<1>8. ASSUME NEW c \in Consumers, WriteDlqDb(c) PROVE DeliveryInv'
  <2>1. CASE pc' = [pc EXCEPT ![c] = "dead"] /\ kept' = kept \cup {msg[c]}
    BY <1>4, <1>8, <2>1 DEF WriteDlqDb, Settled
  <2>2. CASE pc' = [pc EXCEPT ![c] = "dlq_file"]
    BY <1>4, <1>8, <2>2 DEF WriteDlqDb
  <2> QED
    BY <1>8, <2>1, <2>2 DEF WriteDlqDb
<1>9. ASSUME NEW c \in Consumers, WriteDlqFile(c) PROVE DeliveryInv'
  <2>1. msg[c] \in Settled'
    BY <1>9 DEF WriteDlqFile, Settled
  <2> QED
    BY <1>4, <1>9, <2>1 DEF WriteDlqFile
<1>10. ASSUME NEW c \in Consumers, CommitMsg(c) PROVE DeliveryInv'
  <2>1. PICK p \in Partitions, n \in 1..MaxLog : msg[c] = <<p, n>>
    <3>1. msg[c] \in Partitions \X (1..MaxLog)
      BY <1>10 DEF CommitMsg, LoopTyped, LoopStage, Published, Ids
    <3> QED BY <3>1
  <2>2. /\ pending' = IF owner[p] = c THEN [pending EXCEPT ![p] = n] ELSE pending
        /\ pc'[c] = "polling" /\ msg'[c] = NULL
        /\ \A d \in Consumers \ {c} : pc'[d] = pc[d] /\ msg'[d] = msg[d]
        /\ UNCHANGED <<committed, owner, position>>
        /\ pc[c] \in {"done", "dead"} /\ msg[c] # NULL
    BY <1>10, <2>1 DEF CommitMsg, LoopTyped, LoopTypeOK, LoopStage
  <2>3. SettledUpTo(p, n)
    BY <2>1, <2>2 DEF DeliveryInv, ConsumerOK, SettledUpTo
  <2>4. \A d \in Consumers : ConsumerOK(d)'
    BY <1>0, <2>2, ConsumerFrame DEF DeliveryInv, ConsumerOK
  <2>5. ASSUME NEW q \in Partitions
        PROVE  OwnerOK(q)' /\ PendingOK(q)' /\ CommittedOK(q)'
    <3>1. CASE owner[q] = c
      <4>1. Current(c, q)' = 0
        BY <2>2 DEF Current
      <4>2. Current(c, q) = IF q = p THEN n ELSE 0
        BY <2>1, <2>2 DEF Current
      <4>3. OwnerOK(q)'
        BY <1>0, <2>2, <2>3, <3>1, <4>1, <4>2 DEF DeliveryInv, OwnerOK, SettledUpTo
      <4>4. PendingOK(q)'
        <5>1. CASE q = p
          <6>1. n = position[p] /\ (committed[p] # NULL => committed[p] <= n)
            BY <2>1, <3>1, <4>2, <5>1 DEF DeliveryInv, OwnerOK
          <6>2. pending'[p] = n
            BY <2>2, <3>1, <5>1 DEF LoopTyped, LoopTypeOK
          <6> QED
            BY <1>0, <2>2, <2>3, <3>1, <5>1, <6>1, <6>2 DEF PendingOK, SettledUpTo
        <5>2. CASE q # p
          BY <1>0, <2>2, <5>2, PendingFrame DEF DeliveryInv, LoopTyped, LoopTypeOK
        <5> QED BY <5>1, <5>2
      <4> QED
        BY <1>0, <2>2, <4>3, <4>4, CommittedFrame DEF DeliveryInv
    <3>2. CASE owner[q] # c
      <4>1. pending'[q] = pending[q]
        BY <2>2, <3>2 DEF LoopTyped, LoopTypeOK
      <4>2. owner[q] # NULL => owner[q] \in Consumers \ {c}
        BY <3>2 DEF LoopTyped, LoopTypeOK
      <4> QED
        BY <1>0, <2>2, <4>1, <4>2, OwnerFrame, PendingFrame, CommittedFrame
        DEF DeliveryInv, OwnerOK
    <3> QED BY <3>1, <3>2
  <2> QED BY <2>4, <2>5 DEF DeliveryInv
<1>11. ASSUME NEW c \in Consumers, Stop(c) PROVE DeliveryInv'
  BY <1>0, <1>11, LeaveDelivery DEF Stop
<1>12. CASE UNCHANGED <<committed, owner, position, pending, pc, msg>>
  <2>1. \A d \in Consumers : ConsumerOK(d)'
    BY <1>0, <1>12, ConsumerFrame DEF DeliveryInv
  <2>2. ASSUME NEW q \in Partitions
        PROVE  OwnerOK(q)' /\ PendingOK(q)' /\ CommittedOK(q)'
    BY <1>0, <1>12, OwnerFrame, PendingFrame, CommittedFrame DEF DeliveryInv, OwnerOK
  <2> QED BY <2>1, <2>2 DEF DeliveryInv
<1> QED
  BY <1>1, <1>2, <1>3, <1>5, <1>6, <1>7, <1>8, <1>9, <1>10, <1>11, <1>12
  DEF Next, Around, Run, Loop, Publish, ReplayFile, vars, kafka

\* From the earliest offset, the group's offset passes nothing that is unsettled.
THEOREM NothingIsSkipped == Spec => []NothingSkipped
<1>1. CASE OffsetReset = "earliest"
  <2>1. LoopTyped /\ DeliveryInv => NothingSkipped
    BY LoopAssumption
    DEF LoopTyped, LoopTypeOK, DeliveryInv, CommittedOK, SettledUpTo, NothingSkipped,
        Acked, Ids
  <2>2. LoopTyped /\ DeliveryInv /\ [Next]_vars => DeliveryInv'
    BY <1>1, DeliveryNext
  <2> QED
    BY <2>1, <2>2, LoopTypedInit, LoopTypedNext, DeliveryInit, PTL DEF Spec
<1>2. CASE OffsetReset # "earliest"
  <2>1. NothingSkipped
    BY <1>2 DEF NothingSkipped
  <2> QED BY <2>1, PTL
<1> QED
  BY <1>1, <1>2

-------------------------------------------------------------------------------
(* The loop implements AtLeastOnce *)

\* Acknowledged offsets are never taken back.
LEMMA AckedGrows ==
  ASSUME LoopTyped, DeliveryInv, [Next]_vars PROVE Acked \subseteq Acked'
<1>1. ASSUME NEW p \in Partitions, Answer(p) PROVE Acked \subseteq Acked'
  <2>1. \A q \in Partitions : committed'[q] = committed[q] \/
           /\ q = p /\ pending[p] # NULL /\ committed'[p] = pending[p]
    BY <1>1 DEF Answer, LoopTyped, LoopTypeOK
  <2>2. ASSUME NEW m \in Acked PROVE m \in Acked'
    <3>1. m \in Ids /\ m[1] \in Partitions /\ m[2] \in Nat
          /\ committed[m[1]] # NULL /\ m[2] <= committed[m[1]]
      BY DEF Acked, Ids
    <3>2. committed'[m[1]] # NULL /\ m[2] <= committed'[m[1]]
      <4>1. CASE committed'[m[1]] = committed[m[1]]
        BY <3>1, <4>1
      <4>2. CASE /\ m[1] = p /\ pending[p] # NULL
                 /\ committed'[p] = pending[p]
        <5>1. committed[p] <= pending[p]
          BY <3>1, <4>2 DEF DeliveryInv, PendingOK
        <5>2. committed[p] \in Nat /\ pending[p] \in Nat
          BY <3>1, <4>2, LoopAssumption DEF LoopTyped, LoopTypeOK
        <5> QED BY <3>1, <4>2, <5>1, <5>2
      <4> QED BY <2>1, <3>1, <4>1, <4>2
    <3> QED BY <3>1, <3>2 DEF Acked
  <2> QED BY <2>2
<1>2. CASE UNCHANGED committed
  BY <1>2 DEF Acked
<1> QED
  BY <1>1, <1>2
  DEF Next, Around, Run, Loop, Publish, ReplayFile, Assign, Revoke, Start, Poll, Store, Fail, Leave,
      WriteDlqDb, WriteDlqFile, CommitMsg, Stop, vars, kafka

\* Every step of the loop publishes, settles or acknowledges, or is a stutter.
LEMMA LoopStep ==
  ASSUME LoopTyped, LoopTyped', DeliveryInv, DeliveryInv', [Next]_vars
  PROVE  [Delivery!AbsNext]_(Delivery!absVars)
<1>1. CASE UNCHANGED <<log, stored, kept, unwritten>>
  <2>1. Published' = Published /\ Settled' = Settled
    BY <1>1 DEF Published, Settled
  <2>2. Acked \subseteq Acked'
    BY AckedGrows
  <2>3. Acked' \subseteq Settled'
    BY LoopAssumption
    DEF LoopTyped, LoopTypeOK, DeliveryInv, CommittedOK, SettledUpTo, Acked, Ids
  <2> QED
    BY <2>1, <2>2, <2>3 DEF Delivery!AbsNext, Delivery!Acknowledge
<1>2. ASSUME NEW p \in Partitions, NEW x \in Message, Publish(p, x)
      PROVE  Delivery!Publish
  <2> DEFINE m == <<p, Len(log[p]) + 1>>
  <2>1. /\ Len(log[p]) \in Nat /\ Len(log[p]) < MaxLog
        /\ Len(log'[p]) = Len(log[p]) + 1
        /\ \A q \in Partitions \ {p} : log'[q] = log[q]
    BY <1>2 DEF Publish, LoopTyped, LoopTypeOK
  <2>2. m \in Ids \ Published
    BY <2>1, LoopAssumption DEF Ids, Published
  <2>3. Published' = Published \cup {m}
    <3>1. ASSUME NEW k \in Ids PROVE k \in Published' <=> k \in Published \/ k = m
      <4>1. PICK q \in Partitions, n \in 1..MaxLog : k = <<q, n>>
        BY DEF Ids
      <4>2. CASE q = p
        BY <2>1, <4>1, <4>2, LoopAssumption DEF Published
      <4>3. CASE q # p
        BY <2>1, <4>1, <4>3 DEF Published
      <4> QED BY <4>2, <4>3
    <3> QED
      BY <2>2, <3>1 DEF Published
  <2>4. Settled' = Settled /\ Acked' = Acked
    BY <1>2 DEF Publish, dlq, Settled, Acked
  <2> QED
    BY <2>2, <2>3, <2>4 DEF Delivery!Publish
<1>3. ASSUME NEW m \in Published, UNCHANGED <<log, committed>>, Settled' = Settled \cup {m}
      PROVE  Delivery!Settle
  BY <1>3 DEF Delivery!Settle, Published, Acked
<1>4. ASSUME NEW c \in Consumers, Store(c) \/ Fail(c) \/ WriteDlqDb(c) \/ WriteDlqFile(c)
      PROVE  UNCHANGED <<log, stored, kept, unwritten>> \/ Delivery!Settle
  <2>1. msg[c] \in Published
    BY <1>4 DEF Store, Fail, WriteDlqDb, WriteDlqFile, LoopTyped, LoopStage, LoopTypeOK
  <2>2. UNCHANGED <<log, committed>>
    BY <1>4 DEF Store, Fail, WriteDlqDb, WriteDlqFile, kafka
  <2>3. \/ UNCHANGED <<stored, kept, unwritten>>
        \/ Settled' = Settled \cup {msg[c]}
    BY <1>4 DEF Store, Fail, WriteDlqDb, WriteDlqFile, Settled, dlq
  <2> QED BY <1>3, <2>1, <2>2, <2>3
<1>5. ASSUME NEW p \in Partitions, NEW m \in dlq_file, ReplayFile(m, p)
      PROVE  Delivery!Publish
  <2>1. m \in Published
    BY DEF LoopTyped, LoopStage, Settled
  <2>2. [body |-> Body(m), event |-> Event(m), text_key |-> TRUE] \in Message
    BY <2>1, BodyTyped DEF Body, Event, Message
  <2> QED
    BY <1>2, <1>5, <2>2 DEF ReplayFile
<1> QED
  BY <1>1, <1>2, <1>4, <1>5, LoopAssumption
  DEF Next, Around, Run, Loop, Assign, Revoke, Answer, Start, Poll, CommitMsg, Stop, Leave,
      Delivery!AbsNext, vars, kafka, dlq

\* Consuming from the earliest offset delivers every message at least once.
THEOREM Delivers ==
  ASSUME OffsetReset = "earliest"
  PROVE  Spec => DeliversAtLeastOnce
<1>1. Init => Delivery!AbsInit
  BY LoopAssumption DEF Init, Delivery!AbsInit, Published, Settled, Acked, Ids
<1>2. LoopTyped /\ LoopTyped' /\ DeliveryInv /\ DeliveryInv' /\ [Next]_vars
        => [Delivery!AbsNext]_(Delivery!absVars)
  BY LoopStep
<1>3. LoopTyped /\ DeliveryInv /\ [Next]_vars => DeliveryInv'
  BY DeliveryNext
<1> QED
  BY <1>1, <1>2, <1>3, LoopTypedInit, LoopTypedNext, DeliveryInit, PTL
  DEF Spec, DeliversAtLeastOnce, Delivery!AbsSpec
===============================================================================
