---------------------------- MODULE RequestsProofs ----------------------------
(***************************************************************************)
(* The Admin API around its lookups: what its pool, its gauge, its audit   *)
(* rows and its engine keep, for every set of threads, every pool size and *)
(* every request.                                                          *)
(***************************************************************************)
EXTENDS Requests, FiniteSetTheorems, SequenceTheorems, TLAPS

\* Steps at which a thread has read an engine into arg, and at which there is one.
ReadsArg  == {"installed?", "listen", "clear", "append", "factory!", "waiting", "connected"}
HasEngine == InitSteps \ {"engine?", "create"}

\* Who holds what: a connection at "connected" only, an engine wherever one is
\* used, a request and a session together.
Consistent ==
  /\ \A u \in Users : conn[u] # NULL <=> at[u] = "connected"
  /\ \A u \in Users : at[u] \in ReadsArg => arg[u] \in Engines
  /\ at[Exporter] \in {"away", "waiting", "connected"}
  /\ \A t \in Threads :
       /\ at[t] \in HasEngine => engine \in Engines
       /\ at[t] = "open" => factory \in Engines
       /\ at[t] = "away" <=> stage[t] \in {"idle", "reply"}
       /\ stage[t] = "commit" => at[t] = "connected"
       /\ stage[t] \in {"lookup", "commit"} => request[t] \in Incoming

\* No audit row before the commit, the right one once 200 is the answer.
AuditsKept ==
  \A t \in Threads :
    /\ stage[t] # "reply" => audits[t] = {}
    /\ stage[t] \in {"lookup", "commit"} => actor[t] = ActorOf(request[t])
    /\ stage[t] = "reply" =>
         /\ reply[t] = 200 => /\ actor[t] = ActorOf(request[t])
                              /\ audits[t] = {extract_actor(t)}
         /\ reply[t] \in {401, 403, 422} => audits[t] = {}

\* Nothing has been created or registered.
Fresh == /\ engine = NULL
         /\ installed = {}
         /\ listeners = [e \in Engines |-> 0]

\* What the only thread that initialises has done so far.
Done(t) ==
  /\ at[t] \in {"engine?", "create"} => Fresh
  /\ at[t] \in HasEngine => engine = t
  /\ at[t] \in {"install", "installed?", "listen"} =>
       installed = {} /\ listeners = [e \in Engines |-> 0]
  /\ at[t] \in {"register", "clear", "append", "bind", "factory!"} =>
       provider = t /\ listeners[t] = 1
  /\ at[t] = "append" => watched = <<>>
  /\ at[t] \in {"bind", "factory!"} => watched = <<t>>
  /\ at[t] \in {"installed?", "listen", "clear", "append", "factory!"} => arg[t] = t

\* Before the factory is set, one thread at most initialises; after, none does.
Alone ==
  /\ \A t \in Threads : at[t] \notin {"open", "waiting", "connected"}
  /\ \A t, u \in Threads : at[t] \in InitSteps /\ at[u] \in InitSteps => t = u
  /\ (\A t \in Threads : at[t] \notin InitSteps) => Fresh
  /\ \A t \in Threads : at[t] \in InitSteps => Done(t)

Settled ==
  /\ engine = factory /\ provider = factory
  /\ watched = <<factory>> /\ listeners[factory] = 1
  /\ \A t \in Threads :
       /\ at[t] \notin InitSteps
       /\ at[t] \in {"waiting", "connected"} => arg[t] = factory

Unraced == ~raced => IF factory = NULL THEN Alone ELSE Settled

RequestsInv ==
  /\ RequestsTypeOK
  /\ Consistent
  /\ PoolAccounts
  /\ InflightExact
  /\ RestartForgotten
  /\ AuditsKept
  /\ Unraced

-------------------------------------------------------------------------------
USE DEF Users, Engines

LEMMA Initially == RequestsInit => RequestsInv
<1> SUFFICES ASSUME RequestsInit PROVE RequestsInv
  OBVIOUS
<1> USE PoolAssumption, RequestAssumption DEF RequestsInit, SessInit
<1>1. RequestsTypeOK
  <2>1. watched \in Seq(Engines) /\ idle \in [Engines -> Seq({"live", "dead"})]
    OBVIOUS
  <2>2. NULL \in Actors /\ "away" \in Steps /\ 0 \in Nat
    BY DEF Actors, Steps
  <2> HIDE DEF Users, Engines
  <2>3. /\ {engine, factory, provider} \subseteq Engines \cup {NULL}
        /\ listeners \in [Engines -> Nat] /\ installed \subseteq Engines
        /\ at \in [Users -> Steps] /\ arg \in [Users -> Engines \cup {NULL}]
        /\ conn \in [Users -> {"live", "dead", NULL}] /\ out \in [Engines -> Nat]
    BY <2>2
  <2>4. /\ sampling \in {"primary", "standby"} /\ raced \in BOOLEAN /\ outlived \subseteq Users
        /\ stage \in [Threads -> {"idle", "lookup", "commit", "reply"}]
        /\ request \in [Threads -> Incoming \cup {NULL}]
        /\ actor \in [Threads -> Actors] /\ audits \in [Threads -> SUBSET Actors]
        /\ reply \in [Threads -> Codes \cup {NULL}] /\ inflight \in Nat
    BY <2>2
  <2> QED
    BY <2>1, <2>3, <2>4 DEF RequestsTypeOK
<1>2. Consistent
  BY DEF Consistent, ReadsArg, HasEngine, InitSteps
<1>3. PoolAccounts
  <2>1. \A e \in Engines : {u \in Users : conn[u] # NULL /\ arg[u] = e} = {}
    OBVIOUS
  <2>2. \A e \in Engines : out[e] = 0 /\ Len(idle[e]) = 0
    OBVIOUS
  <2>3. Cardinality({}) = 0 /\ 0 + 0 <= PoolSize + MaxOverflow
    BY FS_EmptySet
  <2> QED
    BY <2>1, <2>2, <2>3 DEF PoolAccounts
<1>4. InflightExact
  <2>1. {t \in Threads : stage[t] # "idle"} = {}
    OBVIOUS
  <2> QED
    BY <2>1, FS_EmptySet DEF InflightExact
<1>5. RestartForgotten /\ AuditsKept
  <2>1. \A t \in Threads : stage[t] = "idle" /\ audits[t] = {}
    OBVIOUS
  <2>2. \A u \in Users : conn[u] = NULL
    OBVIOUS
  <2> QED
    BY <2>1, <2>2 DEF RestartForgotten, AuditsKept
<1>6. Unraced
  <2>1. \A t \in Threads : at[t] = "away" /\ at[t] \notin InitSteps
    BY DEF InitSteps
  <2>2. Fresh
    BY DEF Fresh
  <2> QED
    BY <2>1, <2>2 DEF Unraced, Alone
<1> QED
  BY <1>1, <1>2, <1>3, <1>4, <1>5, <1>6 DEF RequestsInv

-------------------------------------------------------------------------------
(* The pool *)

\* The users on a connection of e.
On(e) == {u \in Users : conn[u] # NULL /\ arg[u] = e}

\* What a step does to the pools: a connection is taken, given back, tried in vain
\* or left alone, or all of them die.
PoolStep ==
  \/ \E u \in Users : /\ at[u] = "waiting" /\ CanTake(arg[u]) /\ Take(u)
                      /\ UNCHANGED <<arg, outlived>>
  \/ \E u \in Users : GiveBack(u) /\ \A v \in Users \ {u} : arg'[v] = arg[v]
  \/ /\ UNCHANGED <<conn, out, outlived>>
     /\ idle' \in [Engines -> Seq({"live", "dead"})]
     /\ \A e \in Engines : Len(idle'[e]) = Len(idle[e])
     /\ \A v \in Users : conn[v] # NULL => arg'[v] = arg[v]
  \/ Restart

LEMMA TriedInVain ==
  ASSUME RequestsInv, NEW u \in Users, TakeNothing(u)
  PROVE  /\ idle' \in [Engines -> Seq({"live", "dead"})]
         /\ \A e \in Engines : Len(idle'[e]) = Len(idle[e])
<1>1. arg[u] \in Engines /\ idle \in [Engines -> Seq({"live", "dead"})]
  BY DEF RequestsInv, Consistent, ReadsArg, TakeNothing, RequestsTypeOK
<1>2. ASSUME NEW q \in Seq({"live", "dead"}), q # <<>>
      PROVE  /\ Append(Tail(q), "dead") \in Seq({"live", "dead"})
             /\ Len(Append(Tail(q), "dead")) = Len(q)
  <2>1. Tail(q) \in Seq({"live", "dead"}) /\ Len(Tail(q)) = Len(q) - 1 /\ Len(q) \in Nat
    BY <1>2, HeadTailProperties, EmptySeq
  <2> DEFINE T == Tail(q)
  <2> HIDE DEF T
  <2>2. T \in Seq({"live", "dead"}) => /\ Append(T, "dead") \in Seq({"live", "dead"})
                                     /\ Len(Append(T, "dead")) = Len(T) + 1
    BY AppendProperties
  <2> QED
    BY <2>1, <2>2 DEF T
<1>3. CASE UNCHANGED idle
  BY <1>1, <1>3
<1>4. CASE /\ idle[arg[u]] # <<>>
           /\ idle' = [idle EXCEPT ![arg[u]] = Append(Tail(@), "dead")]
  <2> DEFINE q == idle[arg[u]]
             r == Append(Tail(q), "dead")
  <2>1. q \in Seq({"live", "dead"})
    BY <1>1
  <2>2. r \in Seq({"live", "dead"}) /\ Len(r) = Len(q)
    BY <1>2, <1>4, <2>1
  <2>3. idle' = [idle EXCEPT ![arg[u]] = r]
    BY <1>1, <1>4
  <2> HIDE DEF r
  <2> QED
    BY <1>1, <2>2, <2>3
<1> QED
  BY <1>3, <1>4 DEF TakeNothing

LEMMA PoolSteps == RequestsInv /\ [RequestsNext]_allVars => PoolStep
<1> SUFFICES ASSUME RequestsInv, [RequestsNext]_allVars PROVE PoolStep
  OBVIOUS
<1>a. RequestsTypeOK /\ Consistent
  BY DEF RequestsInv
<1>b. \A u \in Users : at[u] # "connected" => conn[u] = NULL
  BY <1>a DEF Consistent
<1>c. DOMAIN arg = Users
  BY <1>a DEF RequestsTypeOK
<1>1. ASSUME NEW t \in Threads, NEW r \in Incoming, Refuse(t, r) \/ Admit(t, r)
      PROVE  PoolStep
  BY <1>1, <1>a DEF PoolStep, Refuse, Admit, Answer, sessVars, steady, pool,
            RequestsTypeOK
<1>2. ASSUME NEW t \in Threads, Open(t) PROVE PoolStep
  <2>1. UNCHANGED pool /\ at[t] # "connected" /\ \A v \in Users \ {t} : arg'[v] = arg[v]
    BY <1>2, <1>c
    DEF Open, Initialise, ReadFactory, ReadEngine, CreateEngine, Install, CheckInstalled,
        Listen, Register, ClearWatched, AppendWatched, Bind, SetFactory, OpenSession, steady
  <2> QED
    BY <2>1, <1>a, <1>b DEF PoolStep, pool, RequestsTypeOK
<1>3. ASSUME NEW u \in Users, Checkout(u) PROVE PoolStep
  BY <1>3 DEF PoolStep, Checkout
<1>4. ASSUME NEW t \in Threads, Lookup(t) \/ Reply(t) PROVE PoolStep
  BY <1>4, <1>a DEF PoolStep, Lookup, Reply, sessVars, pool, RequestsTypeOK
<1>5. ASSUME NEW t \in Threads, Commit(t) \/ FailRequest(t) PROVE PoolStep
  BY <1>5, <1>c DEF PoolStep, Commit, FailRequest, Leave
<1>6. ASSUME NEW t \in Threads, ConnectFails(t) PROVE PoolStep
  <2>1. TakeNothing(t)
    BY <1>6 DEF ConnectFails
  <2>2. at[t] # "connected" /\ \A v \in Users \ {t} : arg'[v] = arg[v]
    BY <1>6, <1>c DEF ConnectFails, Leave, TakeNothing
  <2> QED
    BY <2>1, <2>2, <1>b, TriedInVain DEF PoolStep, TakeNothing
<1>7. CASE Collect
  BY <1>7, <1>a, <1>b, <1>c DEF PoolStep, Collect, steady, pool, RequestsTypeOK
<1>8. CASE Sample
  BY <1>8, <1>c DEF PoolStep, Sample, NextSample, SamplingEnds, Leave
<1>9. CASE SampleNothing
  <2>1. TakeNothing(Exporter)
    BY <1>9 DEF SampleNothing
  <2>2. at[Exporter] # "connected" /\ \A v \in Users \ {Exporter} : arg'[v] = arg[v]
    BY <1>9, <1>c DEF SampleNothing, TakeNothing, NextSample, SamplingEnds, Leave
  <2> QED
    BY <2>1, <2>2, <1>b, TriedInVain DEF PoolStep, TakeNothing
<1>10. CASE Restart
  BY <1>10 DEF PoolStep
<1>11. CASE UNCHANGED allVars
  BY <1>11, <1>a DEF PoolStep, allVars, sessVars, pool, RequestsTypeOK
<1> QED
  BY <1>1, <1>2, <1>3, <1>4, <1>5, <1>6, <1>7, <1>8, <1>9, <1>10, <1>11
  DEF RequestsNext, Serve, Connect, Export

\* The variables of the pools keep their types, each pool its accounts, and no
\* session a dead connection it was not holding when the database restarted.
PoolTyped ==
  /\ conn \in [Users -> {"live", "dead", NULL}]
  /\ idle \in [Engines -> Seq({"live", "dead"})]
  /\ out \in [Engines -> Nat]
  /\ outlived \subseteq Users

PoolKept == PoolTyped /\ PoolAccounts /\ RestartForgotten

LEMMA OnIsFinite == ASSUME NEW e \in Engines PROVE IsFiniteSet(On(e))
<1>1. IsFiniteSet(Users)
  BY PoolAssumption, FS_AddElement
<1> QED
  BY <1>1, FS_Subset DEF On

LEMMA TakenKept ==
  ASSUME RequestsInv, NEW u \in Users, at[u] = "waiting", CanTake(arg[u]), Take(u),
         UNCHANGED <<arg, outlived>>
  PROVE  PoolKept'
<1>0. PICK e \in Engines : e = arg[u]
  BY DEF RequestsInv, Consistent, ReadsArg
<1>1. conn[u] = NULL /\ PoolTyped /\ PoolAccounts /\ RestartForgotten
  BY DEF RequestsInv, RequestsTypeOK, PoolTyped, Consistent, ReadsArg
<1>2. /\ conn' = [conn EXCEPT ![u] = "live"]
      /\ out' = [out EXCEPT ![e] = out[e] + 1]
      /\ idle' = [idle EXCEPT ![e] = IF idle[e] = <<>> THEN idle[e] ELSE Tail(idle[e])]
  BY <1>0 DEF Take
<1>3. /\ idle[e] = <<>> => Len(idle[e]) = 0
      /\ idle[e] # <<>> => /\ Tail(idle[e]) \in Seq({"live", "dead"})
                           /\ Len(Tail(idle[e])) = Len(idle[e]) - 1
      /\ Len(idle[e]) \in Nat
  BY <1>1, HeadTailProperties, EmptySeq, LenProperties DEF PoolTyped
<1>4. PoolTyped'
  BY <1>1, <1>2, <1>3 DEF PoolTyped
<1>5. On(e)' = On(e) \cup {u} /\ u \notin On(e)
  BY <1>0, <1>1, <1>2, PoolAssumption DEF On, PoolTyped
<1>6. Cardinality(On(e)') = Cardinality(On(e)) + 1
  BY <1>1, <1>5, OnIsFinite, FS_AddElement
<1>7. \A f \in Engines \ {e} : On(f)' = On(f)
  BY <1>0, <1>1, <1>2 DEF On, PoolTyped
<1>8. \A f \in Engines : out[f] = Cardinality(On(f))
  BY <1>1 DEF PoolAccounts, On
<1>9. ASSUME NEW f \in Engines
      PROVE  /\ out'[f] = Cardinality(On(f)')
             /\ out'[f] + Len(idle'[f]) <= PoolSize + MaxOverflow
  <2>1. out[f] + Len(idle[f]) <= PoolSize + MaxOverflow
    BY <1>1 DEF PoolAccounts, On
  <2>2. CASE f # e
    BY <1>1, <1>2, <1>7, <1>8, <2>1, <2>2 DEF PoolTyped
  <2>3. CASE f = e
    <3>1. out'[e] = out[e] + 1 /\ out[e] \in Nat /\ (idle[e] # <<>> => Len(idle'[e]) = Len(idle[e]) - 1)
      BY <1>1, <1>2, <1>3 DEF PoolTyped
    <3>2. idle[e] = <<>> => Len(idle'[e]) = 0 /\ out[e] < PoolSize + MaxOverflow
      BY <1>0, <1>1, <1>2, <1>3 DEF PoolTyped, CanTake
    <3> QED
      BY <1>3, <1>6, <1>8, <2>1, <2>3, <3>1, <3>2, PoolAssumption
  <2> QED
    BY <2>2, <2>3
<1>10. PoolAccounts'
  BY <1>9 DEF PoolAccounts, On
<1>11. RestartForgotten'
  BY <1>1, <1>2 DEF RestartForgotten, PoolTyped
<1> QED
  BY <1>4, <1>10, <1>11 DEF PoolKept

LEMMA GivenBackKept ==
  ASSUME RequestsInv, NEW u \in Users, GiveBack(u),
         \A v \in Users \ {u} : arg'[v] = arg[v]
  PROVE  PoolKept'
<1>0. PICK e \in Engines : e = arg[u]
  BY DEF RequestsInv, Consistent, ReadsArg, GiveBack
<1>1. conn[u] # NULL /\ PoolTyped /\ PoolAccounts /\ RestartForgotten
  BY DEF RequestsInv, RequestsTypeOK, PoolTyped, Consistent, ReadsArg, GiveBack
<1>2. /\ conn' = [conn EXCEPT ![u] = NULL]
      /\ out' = [out EXCEPT ![e] = out[e] - 1]
      /\ idle' = [idle EXCEPT ![e] = IF Len(idle[e]) < PoolSize
                                     THEN Append(idle[e], conn[u]) ELSE idle[e]]
      /\ outlived' = outlived \ {u}
  BY <1>0 DEF GiveBack
<1>3. /\ Append(idle[e], conn[u]) \in Seq({"live", "dead"})
      /\ Len(Append(idle[e], conn[u])) = Len(idle[e]) + 1
      /\ Len(idle[e]) \in Nat
  <2>1. conn[u] \in {"live", "dead"} /\ idle[e] \in Seq({"live", "dead"})
    BY <1>1 DEF PoolTyped
  <2> DEFINE c == conn[u]
             q == idle[e]
  <2> HIDE DEF c, q
  <2>2. c \in {"live", "dead"} /\ q \in Seq({"live", "dead"}) =>
          /\ Append(q, c) \in Seq({"live", "dead"})
          /\ Len(Append(q, c)) = Len(q) + 1 /\ Len(q) \in Nat
    BY AppendProperties, LenProperties
  <2> QED
    BY <2>1, <2>2 DEF c, q
<1>5. On(e)' = On(e) \ {u} /\ u \in On(e)
  BY <1>0, <1>1, <1>2, PoolAssumption DEF On, PoolTyped
<1>6. Cardinality(On(e)') = Cardinality(On(e)) - 1 /\ Cardinality(On(e)) \in Nat \ {0}
  BY <1>1, <1>5, OnIsFinite, FS_RemoveElement, FS_EmptySet, FS_CardinalityType
<1>7. \A f \in Engines \ {e} : On(f)' = On(f)
  BY <1>0, <1>1, <1>2 DEF On, PoolTyped
<1>8. \A f \in Engines : out[f] = Cardinality(On(f))
  BY <1>1 DEF PoolAccounts, On
<1>4. PoolTyped'
  BY <1>1, <1>2, <1>3, <1>6, <1>8 DEF PoolTyped
<1>9. ASSUME NEW f \in Engines
      PROVE  /\ out'[f] = Cardinality(On(f)')
             /\ out'[f] + Len(idle'[f]) <= PoolSize + MaxOverflow
  <2>1. out[f] + Len(idle[f]) <= PoolSize + MaxOverflow
    BY <1>1 DEF PoolAccounts, On
  <2>2. CASE f # e
    BY <1>1, <1>2, <1>7, <1>8, <2>1, <2>2 DEF PoolTyped
  <2>3. CASE f = e
    <3>1. out'[e] = out[e] - 1 /\ out[e] \in Nat /\ Len(idle'[e]) \in {Len(idle[e]), Len(idle[e]) + 1}
      BY <1>1, <1>2, <1>3 DEF PoolTyped
    <3> QED
      BY <1>3, <1>6, <1>8, <2>1, <2>3, <3>1, PoolAssumption
  <2> QED
    BY <2>2, <2>3
<1>10. PoolAccounts'
  BY <1>9 DEF PoolAccounts, On
<1>11. RestartForgotten'
  BY <1>1, <1>2, PoolAssumption DEF RestartForgotten, PoolTyped
<1> QED
  BY <1>4, <1>10, <1>11 DEF PoolKept

LEMMA RestartKept == RequestsInv /\ Restart => PoolKept'
<1> SUFFICES ASSUME RequestsInv, Restart PROVE PoolKept'
  OBVIOUS
<1>1. PoolTyped /\ PoolAccounts
  BY DEF RequestsInv, RequestsTypeOK, PoolTyped
<1>2. \A e \in Engines : /\ idle'[e] \in Seq({"live", "dead"})
                         /\ Len(idle'[e]) = Len(idle[e])
  <2> TAKE e \in Engines
  <2>1. idle'[e] = [i \in 1..Len(idle[e]) |-> "dead"] /\ Len(idle[e]) \in Nat
    BY <1>1, LenProperties DEF Restart, PoolTyped
  <2> QED
    BY <2>1
<1>3. PoolTyped'
  BY <1>1, <1>2 DEF PoolTyped, Restart
<1>4. \A e \in Engines : On(e)' = On(e)
  BY <1>1, PoolAssumption DEF On, Restart
<1>5. PoolAccounts'
  BY <1>1, <1>2, <1>4 DEF PoolAccounts, Restart, On
<1>6. RestartForgotten'
  BY PoolAssumption DEF RestartForgotten, Restart
<1> QED
  BY <1>3, <1>5, <1>6 DEF PoolKept

LEMMA PoolNext == RequestsInv /\ PoolStep => PoolKept'
<1> SUFFICES ASSUME RequestsInv, PoolStep PROVE PoolKept'
  OBVIOUS
<1>1. ASSUME UNCHANGED <<conn, out, outlived>>,
             idle' \in [Engines -> Seq({"live", "dead"})],
             \A e \in Engines : Len(idle'[e]) = Len(idle[e]),
             \A v \in Users : conn[v] # NULL => arg'[v] = arg[v]
      PROVE  PoolKept'
  <2>1. PoolTyped /\ PoolAccounts /\ RestartForgotten
    BY DEF RequestsInv, RequestsTypeOK, PoolTyped
  <2>2. \A e \in Engines : On(e)' = On(e)
    BY <1>1 DEF On
  <2> QED
    BY <1>1, <2>1, <2>2 DEF PoolKept, PoolTyped, PoolAccounts, RestartForgotten, On
<1> QED
  BY <1>1, TakenKept, GivenBackKept, RestartKept DEF PoolStep

-------------------------------------------------------------------------------
(* The gauge of requests in flight *)

Serving == {t \in Threads : stage[t] # "idle"}

LEMMA InflightNext ==
  RequestsInv /\ [RequestsNext]_allVars => InflightExact' /\ inflight' \in Nat
<1> SUFFICES ASSUME RequestsInv, [RequestsNext]_allVars
             PROVE  InflightExact' /\ inflight' \in Nat
  OBVIOUS
<1>1. /\ stage \in [Threads -> {"idle", "lookup", "commit", "reply"}]
      /\ inflight \in Nat /\ inflight = Cardinality(Serving)
      /\ \A u \in Users : at[u] # "away" /\ u \in Threads => stage[u] # "idle"
  BY DEF RequestsInv, RequestsTypeOK, Consistent, InflightExact, Serving
<1>2. IsFiniteSet(Serving)
  BY PoolAssumption, FS_Subset DEF Serving
<1>3. ASSUME NEW t \in Threads, NEW r \in Incoming, Refuse(t, r) \/ Admit(t, r)
      PROVE  InflightExact' /\ inflight' \in Nat
  <2>1. Serving' = Serving \cup {t} /\ t \notin Serving /\ inflight' = inflight + 1
    BY <1>1, <1>3 DEF Refuse, Admit, Answer, Serving
  <2> QED
    BY <1>1, <1>2, <2>1, FS_AddElement DEF InflightExact, Serving
<1>4. ASSUME NEW t \in Threads, Reply(t)
      PROVE  InflightExact' /\ inflight' \in Nat
  <2>1. Serving' = Serving \ {t} /\ t \in Serving /\ inflight' = inflight - 1
    BY <1>1, <1>4 DEF Reply, Serving
  <2>2. Cardinality(Serving') = Cardinality(Serving) - 1 /\ Cardinality(Serving') \in Nat
    BY <1>2, <2>1, FS_RemoveElement, FS_CardinalityType
  <2> QED
    BY <1>1, <2>1, <2>2 DEF InflightExact, Serving
<1>5. ASSUME inflight' = inflight, Serving' = Serving
      PROVE  InflightExact' /\ inflight' \in Nat
  BY <1>1, <1>5 DEF InflightExact, Serving
<1>6. ASSUME NEW t \in Threads,
             Lookup(t) \/ Commit(t) \/ FailRequest(t) \/ ConnectFails(t)
      PROVE  inflight' = inflight /\ Serving' = Serving
  <2>1. stage[t] # "idle"
    BY <1>1, <1>6 DEF Lookup, Commit, FailRequest, ConnectFails, GiveBack, TakeNothing
  <2> QED
    BY <1>1, <1>6, <2>1
    DEF Lookup, Commit, FailRequest, ConnectFails, Answer, Serving
<1>7. ASSUME NEW t \in Threads, Open(t) \/ Connect(t)
      PROVE  inflight' = inflight /\ Serving' = Serving
  BY <1>7 DEF Open, Connect, reqVars, Serving
<1>8. CASE Export \/ (Restart /\ UNCHANGED reqVars) \/ UNCHANGED allVars
  <2>1. UNCHANGED <<stage, inflight>>
    BY <1>8 DEF Export, reqVars, allVars
  <2> QED
    BY <1>5, <2>1 DEF Serving
<1> QED
  BY <1>3, <1>4, <1>5, <1>6, <1>7, <1>8 DEF RequestsNext, Serve

-------------------------------------------------------------------------------
(* The audit rows *)

RequestTyped ==
  /\ stage \in [Threads -> {"idle", "lookup", "commit", "reply"}]
  /\ request \in [Threads -> Incoming \cup {NULL}]
  /\ actor \in [Threads -> Actors]
  /\ audits \in [Threads -> SUBSET Actors]
  /\ reply \in [Threads -> Codes \cup {NULL}]

LEMMA ActorsTyped ==
  /\ NULL \in Actors
  /\ \A r \in Incoming : ActorOf(r) \in Actors
  /\ \A t \in Threads : RequestTyped /\ request[t] \in Incoming => extract_actor(t) \in Actors
BY DEF Actors, extract_actor, RequestTyped

LEMMA Refusals ==
  \A r \in Incoming : require_admin_read(r) \subseteq {200, 401, 403}
BY DEF require_admin_read

LEMMA AuditsNext ==
  RequestsInv /\ [RequestsNext]_allVars => RequestTyped' /\ AuditsKept'
<1> SUFFICES ASSUME RequestsInv, [RequestsNext]_allVars
             PROVE  RequestTyped' /\ AuditsKept'
  OBVIOUS
<1>1. /\ RequestTyped /\ AuditsKept
      /\ \A t \in Threads : /\ at[t] # "away" => stage[t] \in {"lookup", "commit"}
                            /\ stage[t] \in {"lookup", "commit"} => request[t] \in Incoming
  BY DEF RequestsInv, RequestsTypeOK, RequestTyped, Consistent
<1>2. \A t \in Threads : UNCHANGED <<actor, request>> => extract_actor(t)' = extract_actor(t)
  BY DEF extract_actor
<1>3. ASSUME NEW t \in Threads, NEW r \in Incoming, Refuse(t, r)
      PROVE  RequestTyped' /\ AuditsKept'
  <2>1. PICK code \in {401, 403, 422} : Answer(t, code)
    BY <1>3, Refusals DEF Refuse
  <2>2. stage[t] = "idle" /\ UNCHANGED <<request, actor, audits>>
    BY <1>3 DEF Refuse
  <2> QED
    BY <1>1, <1>2, <2>1, <2>2 DEF Answer, RequestTyped, AuditsKept, Codes
<1>4. ASSUME NEW t \in Threads, NEW r \in Incoming, Admit(t, r)
      PROVE  RequestTyped' /\ AuditsKept'
  <2>1. RequestTyped'
    BY <1>1, <1>4, ActorsTyped DEF Admit, RequestTyped
  <2>2. \A u \in Threads \ {t} : stage'[u] = stage[u] /\ request'[u] = request[u]
                               /\ actor'[u] = actor[u] /\ extract_actor(u)' = extract_actor(u)
    BY <1>1, <1>4 DEF Admit, RequestTyped, extract_actor
  <2>3. stage[t] = "idle" /\ stage'[t] = "lookup" /\ request'[t] = r /\ actor'[t] = ActorOf(r)
    BY <1>1, <1>4 DEF Admit, RequestTyped
  <2>4. UNCHANGED <<audits, reply>>
    BY <1>4 DEF Admit
  <2> QED
    BY <1>1, <2>1, <2>2, <2>3, <2>4 DEF AuditsKept
<1>5. ASSUME NEW t \in Threads, Lookup(t) PROVE RequestTyped' /\ AuditsKept'
  BY <1>1, <1>2, <1>5 DEF Lookup, RequestTyped, AuditsKept
<1>6. ASSUME NEW t \in Threads, Commit(t) PROVE RequestTyped' /\ AuditsKept'
  <2>1. /\ stage[t] = "commit" /\ Answer(t, 200) /\ WriteAudit(t)
        /\ UNCHANGED <<request, actor>>
    BY <1>6 DEF Commit
  <2>2. audits[t] = {} /\ extract_actor(t) \in Actors
    BY <1>1, <2>1, ActorsTyped DEF AuditsKept
  <2> QED
    BY <1>1, <1>2, <2>1, <2>2 DEF Answer, WriteAudit, RequestTyped, AuditsKept, Codes
<1>7. ASSUME NEW t \in Threads, FailRequest(t) \/ ConnectFails(t)
      PROVE  RequestTyped' /\ AuditsKept'
  <2>1. stage[t] \in {"lookup", "commit"}
    BY <1>1, <1>7 DEF FailRequest, ConnectFails, GiveBack, TakeNothing
  <2>2. Answer(t, 500) /\ UNCHANGED <<request, actor>> /\ (UNCHANGED audits \/ WriteAudit(t))
    BY <1>7 DEF FailRequest, ConnectFails
  <2>3. extract_actor(t) \in Actors
    BY <1>1, <2>1, ActorsTyped
  <2> QED
    BY <1>1, <1>2, <2>1, <2>2, <2>3
    DEF Answer, WriteAudit, RequestTyped, AuditsKept, Codes
<1>8. ASSUME NEW t \in Threads, Reply(t) PROVE RequestTyped' /\ AuditsKept'
  <2>1. RequestTyped'
    BY <1>1, <1>8, ActorsTyped DEF Reply, RequestTyped
  <2>2. \A u \in Threads \ {t} : stage'[u] = stage[u] /\ request'[u] = request[u]
                               /\ actor'[u] = actor[u] /\ extract_actor(u)' = extract_actor(u)
                               /\ audits'[u] = audits[u] /\ reply'[u] = reply[u]
    BY <1>1, <1>8 DEF Reply, RequestTyped, extract_actor
  <2>3. stage'[t] = "idle" /\ audits'[t] = {}
    BY <1>1, <1>8 DEF Reply, RequestTyped
  <2> QED
    BY <1>1, <2>1, <2>2, <2>3 DEF AuditsKept
<1>9. ASSUME UNCHANGED <<stage, request, actor, audits, reply>>
      PROVE  RequestTyped' /\ AuditsKept'
  BY <1>1, <1>2, <1>9 DEF RequestTyped, AuditsKept
<1> QED
  BY <1>3, <1>4, <1>5, <1>6, <1>7, <1>8, <1>9
  DEF RequestsNext, Serve, Open, Connect, Export, reqVars, allVars

-------------------------------------------------------------------------------
(* The globals and where each user stands *)

SessTyped ==
  /\ {engine, factory, provider} \subseteq Engines \cup {NULL}
  /\ watched \in Seq(Engines)
  /\ listeners \in [Engines -> Nat]
  /\ installed \subseteq Engines
  /\ at \in [Users -> Steps]
  /\ arg \in [Users -> Engines \cup {NULL}]
  /\ sampling \in {"primary", "standby"}
  /\ raced \in BOOLEAN

\* What Consistent says of a thread that has not begun its SELECTs.
Before(t) ==
  /\ at[t] \in ReadsArg => arg[t] \in Engines
  /\ at[t] \in HasEngine => engine \in Engines
  /\ at[t] = "open" => factory \in Engines
  /\ at[t] \notin {"away", "connected"}

LEMMA InitialiseNext ==
  ASSUME RequestsInv, NEW t \in Threads, Initialise(t)
  PROVE  /\ SessTyped'
         /\ UNCHANGED <<sampling, pool>>
         /\ engine \in Engines => engine' \in Engines
         /\ factory \in Engines => factory' \in Engines
         /\ at[t] \notin {"away", "connected"} /\ Before(t)'
         /\ \A u \in Users \ {t} : at'[u] = at[u] /\ arg'[u] = arg[u]
<1>1. /\ SessTyped /\ t \in Users
      /\ at[t] \in ReadsArg => arg[t] \in Engines
      /\ at[t] \in HasEngine => engine \in Engines
      /\ at[t] = "open" => factory \in Engines
  BY DEF RequestsInv, RequestsTypeOK, SessTyped, Consistent
<1> USE DEF ReadsArg, HasEngine, InitSteps, Steps, GoTo, globals, steady
<1>2. CASE ReadFactory(t)
  <2>1. raced' \in BOOLEAN
    <3>1. raced \in BOOLEAN
      BY <1>1 DEF SessTyped
    <3> QED
      BY <1>2, <3>1 DEF ReadFactory
  <2>2. UNCHANGED <<globals, arg, sampling, pool>> /\ at[t] = "factory?"
    BY <1>2 DEF ReadFactory
  <2>3. at' = [at EXCEPT ![t] = IF factory = NULL THEN "engine?" ELSE "open"]
    BY <1>2 DEF ReadFactory
  <2>4. at' \in [Users -> Steps] /\ at'[t] \in {"engine?", "open"}
        /\ (at'[t] = "open" => factory # NULL) /\ \A u \in Users \ {t} : at'[u] = at[u]
    BY <1>1, <2>3 DEF SessTyped
  <2>5. factory # NULL => factory \in Engines
    BY <1>1 DEF SessTyped
  <2> QED
    BY <1>1, <2>1, <2>2, <2>4, <2>5 DEF SessTyped, Before
<1>3. CASE ReadEngine(t)
  BY <1>1, <1>3 DEF ReadEngine, SessTyped, Before
<1>4. CASE CreateEngine(t)
  BY <1>1, <1>4 DEF CreateEngine, SessTyped, Before
<1>5. CASE Install(t)
  BY <1>1, <1>5 DEF Install, SessTyped, Before
<1>6. CASE CheckInstalled(t)
  BY <1>1, <1>6 DEF CheckInstalled, SessTyped, Before
<1>7. CASE Listen(t)
  BY <1>1, <1>7 DEF Listen, SessTyped, Before
<1>8. CASE Register(t)
  BY <1>1, <1>8 DEF Register, SessTyped, Before
<1>9. CASE ClearWatched(t)
  BY <1>1, <1>9 DEF ClearWatched, SessTyped, Before
<1>10. CASE AppendWatched(t)
  <2>1. Append(watched, arg[t]) \in Seq(Engines)
    BY <1>1, <1>10, AppendProperties DEF AppendWatched, SessTyped
  <2> QED
    BY <1>1, <1>10, <2>1 DEF AppendWatched, SessTyped, Before
<1>11. CASE Bind(t)
  BY <1>1, <1>11 DEF Bind, SessTyped, Before
<1>12. CASE SetFactory(t)
  BY <1>1, <1>12 DEF SetFactory, SessTyped, Before
<1>13. CASE OpenSession(t)
  BY <1>1, <1>13 DEF OpenSession, SessTyped, Before
<1> QED
  BY <1>2, <1>3, <1>4, <1>5, <1>6, <1>7, <1>8, <1>9, <1>10, <1>11, <1>12, <1>13
  DEF Initialise

LEMMA ConsistentNext ==
  RequestsInv /\ [RequestsNext]_allVars => SessTyped' /\ Consistent'
<1> SUFFICES ASSUME RequestsInv, [RequestsNext]_allVars
             PROVE  SessTyped' /\ Consistent'
  OBVIOUS
<1> USE PoolAssumption DEF ReadsArg, HasEngine, InitSteps, Steps, GoTo
<1>1. SessTyped /\ Consistent /\ PoolTyped /\ RequestTyped
  BY DEF RequestsInv, RequestsTypeOK, SessTyped, PoolTyped, RequestTyped
<1>2. ASSUME NEW t \in Threads, NEW r \in Incoming, Refuse(t, r)
      PROVE  SessTyped' /\ Consistent'
  BY <1>1, <1>2 DEF Refuse, Answer, sessVars, globals, pool, SessTyped, RequestTyped, Consistent
<1>3. ASSUME NEW t \in Threads, NEW r \in Incoming, Admit(t, r)
      PROVE  SessTyped' /\ Consistent'
  <2>1. /\ at' = [at EXCEPT ![t] = "factory?"] /\ stage' = [stage EXCEPT ![t] = "lookup"]
        /\ request' = [request EXCEPT ![t] = r] /\ UNCHANGED <<globals, arg, steady>>
        /\ stage[t] = "idle"
    BY <1>3 DEF Admit
  <2>2. SessTyped'
    BY <1>1, <2>1 DEF globals, steady, SessTyped
  <2>3. \A u \in Users : conn'[u] # NULL <=> at'[u] = "connected"
    BY <1>1, <2>1 DEF steady, pool, SessTyped, Consistent
  <2>4. \A u \in Threads \ {t} : at'[u] = at[u] /\ stage'[u] = stage[u] /\ request'[u] = request[u]
    BY <1>1, <2>1 DEF SessTyped, RequestTyped
  <2>5. at'[t] = "factory?" /\ stage'[t] = "lookup" /\ request'[t] = r /\ at'[Exporter] = at[Exporter]
    BY <1>1, <2>1 DEF SessTyped, RequestTyped
  <2>6. \A u \in Users : at'[u] \in ReadsArg => arg'[u] \in Engines
    BY <1>1, <2>1 DEF SessTyped, Consistent
  <2> QED
    BY <1>1, <2>1, <2>2, <2>3, <2>4, <2>5, <2>6 DEF Consistent, globals
<1>4. ASSUME NEW t \in Threads, Open(t) PROVE SessTyped' /\ Consistent'
  <2>1. Initialise(t) /\ UNCHANGED <<stage, request>>
    BY <1>4 DEF Open, reqVars
  <2>2. /\ UNCHANGED conn /\ Before(t)' /\ SessTyped'
        /\ engine \in Engines => engine' \in Engines
        /\ factory \in Engines => factory' \in Engines
        /\ at[t] \notin {"away", "connected"}
        /\ \A u \in Users \ {t} : at'[u] = at[u] /\ arg'[u] = arg[u]
    BY <2>1, InitialiseNext DEF pool
  <2> QED
    BY <1>1, <2>1, <2>2 DEF Consistent, Before
<1>5. ASSUME NEW u \in Users, Checkout(u), UNCHANGED reqVars
      PROVE  SessTyped' /\ Consistent'
  <2>1. /\ at[u] = "waiting" /\ conn' = [conn EXCEPT ![u] = "live"]
        /\ at' = [at EXCEPT ![u] = "connected"]
        /\ UNCHANGED <<globals, arg, sampling, raced, stage, request>>
    BY <1>5 DEF Checkout, Take, reqVars
  <2> QED
    BY <1>1, <2>1 DEF SessTyped, PoolTyped, Consistent, globals
<1>6. ASSUME NEW t \in Threads, Lookup(t) PROVE SessTyped' /\ Consistent'
  BY <1>1, <1>6 DEF Lookup, sessVars, globals, pool, SessTyped, RequestTyped, Consistent
<1>7. ASSUME NEW t \in Threads,
             Commit(t) \/ FailRequest(t) \/ ConnectFails(t)
      PROVE  SessTyped' /\ Consistent'
  <2>1. /\ at' = [at EXCEPT ![t] = "away"] /\ arg' = [arg EXCEPT ![t] = NULL]
        /\ stage' = [stage EXCEPT ![t] = "reply"]
        /\ conn' = [conn EXCEPT ![t] = NULL]
        /\ UNCHANGED <<globals, sampling, raced, request>>
    <3>1. at[t] # "connected" => conn' = conn /\ conn = [conn EXCEPT ![t] = NULL]
      BY <1>1, <1>7
      DEF Commit, FailRequest, ConnectFails, TakeNothing, GiveBack, Consistent, PoolTyped
    <3> QED
      BY <1>7, <3>1
      DEF Commit, FailRequest, ConnectFails, TakeNothing, GiveBack, Leave, Answer
  <2> QED
    BY <1>1, <2>1 DEF SessTyped, PoolTyped, RequestTyped, Consistent, globals
<1>8. ASSUME NEW t \in Threads, Reply(t) PROVE SessTyped' /\ Consistent'
  <2>1. /\ stage' = [stage EXCEPT ![t] = "idle"] /\ request' = [request EXCEPT ![t] = NULL]
        /\ stage[t] = "reply" /\ UNCHANGED sessVars
    BY <1>8 DEF Reply
  <2> QED
    BY <1>1, <2>1 DEF sessVars, globals, pool, SessTyped, RequestTyped, Consistent
<1>9. CASE Collect /\ UNCHANGED reqVars
  <2>1. provider \in Engines
    BY <1>1, <1>9 DEF Collect, SessTyped
  <2> QED
    BY <1>1, <1>9, <2>1 DEF Collect, steady, pool, globals, reqVars, SessTyped, Consistent
<1>10. CASE (Sample \/ SampleNothing) /\ UNCHANGED reqVars
  <2>1. /\ at[Exporter] \in {"waiting", "connected"}
        /\ conn' = [conn EXCEPT ![Exporter] = NULL]
        /\ UNCHANGED <<globals, raced, stage, request>>
    BY <1>1, <1>10
    DEF Sample, SampleNothing, GiveBack, TakeNothing, Consistent, PoolTyped, reqVars
  <2>2. \/ /\ at' = [at EXCEPT ![Exporter] = "away"]
           /\ arg' = [arg EXCEPT ![Exporter] = NULL] /\ sampling' = "primary"
        \/ at' = [at EXCEPT ![Exporter] = "waiting"] /\ arg' = arg /\ sampling' = "standby"
    BY <1>10 DEF Sample, SampleNothing, NextSample, SamplingEnds, Leave
  <2> QED
    BY <1>1, <2>1, <2>2 DEF SessTyped, PoolTyped, Consistent, globals
<1>11. CASE Restart /\ UNCHANGED reqVars
  <2>1. \A u \in Users : conn'[u] # NULL <=> conn[u] # NULL
    BY <1>11 DEF Restart
  <2> QED
    BY <1>1, <1>11, <2>1 DEF Restart, reqVars, globals, SessTyped, Consistent
<1>12. CASE UNCHANGED allVars
  BY <1>1, <1>12 DEF allVars, sessVars, globals, pool, reqVars, SessTyped, Consistent
<1> QED
  BY <1>2, <1>3, <1>4, <1>5, <1>6, <1>7, <1>8, <1>9, <1>10, <1>11, <1>12
  DEF RequestsNext, Serve, Connect, Export

-------------------------------------------------------------------------------
(* One engine, unless two threads initialise at once *)

\* Unraced depends on the globals, on the threads and on the flag, and a thread that
\* is not initialising may leave, or start, as it likes.
LEMMA UnracedElsewhere ==
  ASSUME RequestsInv, UNCHANGED <<globals, raced>>,
         \A t \in Threads :
           \/ at'[t] = at[t] /\ arg'[t] = arg[t]
           \/ at[t] \notin InitSteps /\ at'[t] \in {"away", "factory?"}
           \/ at[t] = "waiting" /\ at'[t] = "connected" /\ arg'[t] = arg[t]
  PROVE  Unraced'
<1>1. Unraced
  BY DEF RequestsInv
<1>2. \A t \in Threads : /\ at'[t] \in InitSteps <=> at[t] \in InitSteps
                         /\ at'[t] \in InitSteps => at'[t] = at[t] /\ arg'[t] = arg[t]
                         /\ at'[t] \in {"open", "waiting", "connected"} =>
                              /\ at[t] \in {"open", "waiting", "connected"}
                              /\ arg'[t] = arg[t]
                         /\ at'[t] \in {"waiting", "connected"} =>
                              at[t] \in {"waiting", "connected"}
  BY DEF InitSteps
<1>3. CASE factory = NULL /\ Alone
  <2>1. \A t \in Threads : Done(t) /\ at[t] \in InitSteps => Done(t)' \/ at'[t] \notin InitSteps
    BY <1>2 DEF Done, Fresh, globals
  <2> QED
    BY <1>2, <1>3, <2>1 DEF Unraced, Alone, Fresh, globals
<1>4. CASE factory # NULL /\ Settled
  BY <1>2, <1>4 DEF Unraced, Settled, globals
<1> QED
  BY <1>1, <1>3, <1>4 DEF Unraced, globals

LEMMA UnracedInitialise ==
  ASSUME RequestsInv, NEW t \in Threads, Initialise(t)
  PROVE  Unraced'
<1> SUFFICES ASSUME ~raced' PROVE (IF factory = NULL THEN Alone ELSE Settled)'
  BY DEF Unraced
<1> USE PoolAssumption DEF GoTo, globals, steady
<1>1. SessTyped /\ Unraced /\ t \in Users
  BY DEF RequestsInv, RequestsTypeOK, SessTyped
<1>2. ~raced
  BY <1>1 DEF Initialise, ReadFactory, ReadEngine, CreateEngine, Install, CheckInstalled,
              Listen, Register, ClearWatched, AppendWatched, Bind, SetFactory, OpenSession
<1>3. \A u \in Users \ {t} : at'[u] = at[u] /\ arg'[u] = arg[u]
  BY InitialiseNext
<1>4. CASE factory # NULL
  <2>1. Settled /\ at[t] \notin InitSteps
    BY <1>1, <1>2, <1>4 DEF Unraced, Settled
  <2>2. CASE ReadFactory(t)
    <3>1. at'[t] = "open" /\ UNCHANGED globals
      BY <1>1, <1>4, <2>2 DEF ReadFactory, SessTyped
    <3> QED
      BY <1>3, <1>4, <2>1, <3>1 DEF Settled, InitSteps
  <2>3. CASE OpenSession(t)
    <3>1. at'[t] = "waiting" /\ arg'[t] = factory /\ UNCHANGED globals
      BY <1>1, <2>3 DEF OpenSession, SessTyped
    <3> QED
      BY <1>3, <1>4, <2>1, <3>1 DEF Settled, InitSteps
  <2> QED
    BY <2>1, <2>2, <2>3
    DEF Initialise, ReadEngine, CreateEngine, Install, CheckInstalled, Listen, Register,
        ClearWatched, AppendWatched, Bind, SetFactory, InitSteps
<1>5. CASE factory = NULL
  <2>1. Alone /\ ~OpenSession(t)
    BY <1>1, <1>2, <1>5 DEF Unraced, Alone, OpenSession
  <2>2. CASE ReadFactory(t)
    <3>1. /\ \A u \in Threads : at[u] \notin InitSteps
          /\ at'[t] = "engine?" /\ UNCHANGED globals
      BY <1>1, <1>5, <2>2 DEF ReadFactory, SessTyped
    <3>2. Fresh' /\ Done(t)'
      BY <2>1, <3>1 DEF Alone, Fresh, Done, HasEngine, InitSteps
    <3>3. /\ \A u \in Threads \ {t} : at'[u] \notin InitSteps \cup {"open", "waiting", "connected"}
          /\ at'[t] \in InitSteps /\ at'[t] \notin {"open", "waiting", "connected"}
      BY <1>3, <2>1, <3>1 DEF Alone, InitSteps
    <3>4. Alone'
      BY <3>2, <3>3 DEF Alone
    <3> QED
      BY <1>5, <3>1, <3>4
  <2>3. ASSUME at[t] \in InitSteps, Done(t)', at'[t] \in InitSteps, factory' = factory
        PROVE  Alone'
    <3>1. \A u \in Threads \ {t} : at'[u] \notin InitSteps \cup {"open", "waiting", "connected"}
      BY <1>3, <2>1, <2>3 DEF Alone
    <3>2. at'[t] \notin {"open", "waiting", "connected"}
      BY <2>3 DEF InitSteps
    <3> QED
      BY <2>3, <3>1, <3>2 DEF Alone
  <2>4. CASE SetFactory(t)
    <3>1. /\ at[t] = "factory!" /\ Done(t) /\ at'[t] = "open" /\ factory' = arg[t]
          /\ UNCHANGED <<engine, provider, watched, listeners>>
      BY <1>1, <2>1, <2>4 DEF SetFactory, Alone, SessTyped, InitSteps
    <3>2. /\ engine' = t /\ factory' = t /\ provider' = t /\ watched' = <<t>> /\ listeners'[t] = 1
      BY <3>1 DEF Done, HasEngine, InitSteps
    <3>3. \A u \in Threads : at'[u] \notin InitSteps \cup {"waiting", "connected"}
      BY <1>3, <2>1, <3>1 DEF Alone, InitSteps
    <3> QED
      BY <3>2, <3>3 DEF Settled
  <2>5. ASSUME Initialise(t), ~ReadFactory(t), ~SetFactory(t)
        PROVE  at[t] \in InitSteps /\ Done(t)' /\ at'[t] \in InitSteps /\ factory' = factory
    <3>1. at[t] \in InitSteps /\ Done(t)
      BY <2>1, <2>5
      DEF Initialise, ReadEngine, CreateEngine, Install, CheckInstalled, Listen, Register,
          ClearWatched, AppendWatched, Bind, InitSteps, Alone
    <3> USE <1>1, <3>1 DEF Done, Fresh, HasEngine, InitSteps, SessTyped
    <3>2. CASE ReadEngine(t)
      BY <3>2 DEF ReadEngine
    <3>3. CASE CreateEngine(t)
      BY <3>3 DEF CreateEngine
    <3>4. CASE Install(t)
      BY <3>4 DEF Install
    <3>5. CASE CheckInstalled(t)
      BY <3>5 DEF CheckInstalled
    <3>6. CASE Listen(t)
      BY <3>6 DEF Listen
    <3>7. CASE Register(t)
      BY <3>7 DEF Register
    <3>8. CASE ClearWatched(t)
      BY <3>8 DEF ClearWatched
    <3>9. CASE AppendWatched(t)
      BY <3>9 DEF AppendWatched
    <3>10. CASE Bind(t)
      BY <3>10 DEF Bind
    <3> QED
      BY <2>1, <2>5, <3>2, <3>3, <3>4, <3>5, <3>6, <3>7, <3>8, <3>9, <3>10 DEF Initialise
  <2> QED
    BY <1>5, <2>2, <2>3, <2>4, <2>5
<1> QED
  BY <1>4, <1>5

LEMMA UnracedNext == RequestsInv /\ [RequestsNext]_allVars => Unraced'
<1> SUFFICES ASSUME RequestsInv, [RequestsNext]_allVars PROVE Unraced'
  OBVIOUS
<1>1. SessTyped /\ Consistent /\ PoolAssumption
  BY PoolAssumption DEF RequestsInv, RequestsTypeOK, SessTyped
<1>2. ASSUME NEW t \in Threads, Open(t) PROVE Unraced'
  BY <1>2, UnracedInitialise DEF Open
<1>3. ASSUME NEW t \in Threads,
             \/ \E r \in Incoming : Refuse(t, r) \/ Admit(t, r)
             \/ Connect(t) \/ Lookup(t) \/ Commit(t) \/ FailRequest(t) \/ Reply(t)
             \/ ConnectFails(t)
      PROVE  Unraced'
  <2>1. UNCHANGED <<globals, raced>> /\ \A u \in Threads \ {t} : at'[u] = at[u] /\ arg'[u] = arg[u]
    BY <1>1, <1>3
    DEF Refuse, Admit, Connect, Checkout, Lookup, Commit, FailRequest, Reply, ConnectFails,
        Leave, GoTo, sessVars, steady, globals, SessTyped
  <2>2. \/ at'[t] = at[t] /\ arg'[t] = arg[t]
        \/ at[t] \notin InitSteps /\ at'[t] \in {"away", "factory?"}
        \/ at[t] = "waiting" /\ at'[t] = "connected" /\ arg'[t] = arg[t]
    BY <1>1, <1>3
    DEF Refuse, Admit, Connect, Checkout, Lookup, Commit, FailRequest, Reply, ConnectFails,
        GiveBack, TakeNothing, Leave, GoTo, sessVars, steady, SessTyped, Consistent, InitSteps
  <2> QED
    BY <2>1, <2>2, UnracedElsewhere
<1>4. CASE Export \/ Restart \/ UNCHANGED allVars
  <2>1. UNCHANGED <<globals, raced>> /\ \A u \in Threads : at'[u] = at[u] /\ arg'[u] = arg[u]
    BY <1>1, <1>4
    DEF Export, Collect, Checkout, Sample, SampleNothing, NextSample, SamplingEnds, Restart,
        Leave, GoTo, allVars, sessVars, steady, SessTyped
  <2> QED
    BY <2>1, UnracedElsewhere
<1> QED
  BY <1>2, <1>3, <1>4 DEF RequestsNext, Serve

-------------------------------------------------------------------------------
(* The theorems *)

LEMMA Inductive == RequestsInv /\ [RequestsNext]_allVars => RequestsInv'
<1> SUFFICES ASSUME RequestsInv, [RequestsNext]_allVars PROVE RequestsInv'
  OBVIOUS
<1>1. PoolKept'
  BY PoolSteps, PoolNext
<1>2. InflightExact' /\ inflight' \in Nat
  BY InflightNext
<1>3. RequestTyped' /\ AuditsKept'
  BY AuditsNext
<1>4. SessTyped' /\ Consistent'
  BY ConsistentNext
<1>5. Unraced'
  BY UnracedNext
<1>6. RequestsTypeOK'
  BY <1>1, <1>2, <1>3, <1>4 DEF PoolKept, PoolTyped, RequestTyped, SessTyped, RequestsTypeOK
<1> QED
  BY <1>1, <1>2, <1>3, <1>4, <1>5, <1>6 DEF PoolKept, RequestsInv

LEMMA Invariance == RequestsSpec => []RequestsInv
BY Initially, Inductive, PTL DEF RequestsSpec

\* Every component of the API's state keeps its type.
THEOREM RequestsTypeCorrect == RequestsSpec => []RequestsTypeOK
BY Invariance, PTL DEF RequestsInv

\* Sessions and samples leave no connection behind, however they end
\* (session_scope, _ReplicationLagSampler).
THEOREM PoolBalanced == RequestsSpec => []PoolAccounts
BY Invariance, PTL DEF RequestsInv

\* The gauge is what is in flight (metrics_middleware).
THEOREM GaugeExact == RequestsSpec => []InflightExact
BY Invariance, PTL DEF RequestsInv

\* Pre-ping keeps a restart of the database from whoever connects after it.
THEOREM RestartsForgotten == RequestsSpec => []RestartForgotten
BY Invariance, PTL DEF RequestsInv

\* No answer about a transaction without its committed audit row (get_admin_tx).
THEOREM Audited == RequestsSpec => []AnswersAudited
<1>1. RequestsInv => AnswersAudited
  <2> SUFFICES ASSUME RequestsInv, NEW t \in Threads, stage[t] = "reply"
               PROVE  /\ reply[t] = 200 =>
                           /\ Cardinality(audits[t]) = 1
                           /\ ActorOf(request[t]) # NULL => audits[t] = {ActorOf(request[t])}
                      /\ reply[t] \in {401, 403, 422} => audits[t] = {}
    BY DEF AnswersAudited
  <2>1. reply[t] \in {401, 403, 422} => audits[t] = {}
    BY DEF RequestsInv, AuditsKept
  <2>2. ASSUME reply[t] = 200
        PROVE  actor[t] = ActorOf(request[t]) /\ audits[t] = {extract_actor(t)}
    BY <2>2 DEF RequestsInv, AuditsKept
  <2>3. Cardinality({extract_actor(t)}) = 1
    BY FS_Singleton
  <2>4. actor[t] # NULL => extract_actor(t) = actor[t]
    BY DEF extract_actor
  <2> QED
    BY <2>1, <2>2, <2>3, <2>4
<1> QED
  BY <1>1, Invariance, PTL

\* Unless two threads initialise at once, there is one engine, watched and sampled,
\* and every session runs on it (get_engine, get_session_factory).
THEOREM OneEngine == RequestsSpec => []OneEngineUnlessRaced
<1>1. RequestsInv => OneEngineUnlessRaced
  <2> SUFFICES ASSUME RequestsInv, ~raced, NEW t \in Threads,
                      at[t] \in {"waiting", "connected"}
               PROVE  /\ engine = arg[t] /\ factory = arg[t] /\ provider = arg[t]
                      /\ watched = <<arg[t]>>
                      /\ listeners[arg[t]] = 1
    BY DEF OneEngineUnlessRaced
  <2>1. factory # NULL /\ Settled
    BY DEF RequestsInv, Unraced, Alone
  <2> QED
    BY <2>1 DEF Settled
<1> QED
  BY <1>1, Invariance, PTL

===============================================================================
