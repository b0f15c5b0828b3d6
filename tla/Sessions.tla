------------------------------- MODULE Sessions -------------------------------
(***************************************************************************)
(* Database sessions of one process (src/db/session.py): the engine and    *)
(* the session factory the first users create without a lock, what the     *)
(* engine registers for monitoring, and the connection pool the sessions   *)
(* draw from.                                                              *)
(*                                                                         *)
(* Users are the threads that open sessions and the metrics exporter's     *)
(* thread, whose replication lag callback takes connections of its own.    *)
(* One action is one read or write of a global, or one call to the pool.   *)
(*                                                                         *)
(* The pool is SQLAlchemy's QueuePool with pre-ping, as create_engine asks *)
(* for it: FIFO, PoolSize connections kept and MaxOverflow more.  The      *)
(* database may restart at any time, which kills every connection.         *)
(* Abstracted: pool_recycle (a reconnection like that of a dead one),      *)
(* latencies, log lines.                                                   *)
(***************************************************************************)
EXTENDS Integers, Sequences, FiniteSets

CONSTANTS
  NULL,
  Threads,        \* threads that open sessions
  Exporter,       \* the thread that collects metrics
  PoolSize,       \* DB_POOL_SIZE
  MaxOverflow     \* DB_MAX_OVERFLOW

Users == Threads \cup {Exporter}

\* Engines are named after the thread that created them: it creates one at most.
Engines == Threads

ASSUME PoolAssumption ==
  /\ IsFiniteSet(Threads)
  /\ PoolSize \in Nat \ {0}
  /\ MaxOverflow \in Nat
  /\ Exporter \notin Threads
  /\ NULL \notin Users \cup {"live", "dead"}

VARIABLES
  engine,     \* _ENGINE
  factory,    \* _SESSION_FACTORY, by the engine it is bound to
  provider,   \* _replication_lag_provider, by the engine it samples
  watched,    \* _pool_engine: the engines of the pool gauges, the first counts
  listeners,  \* query listeners of each engine
  installed,  \* engines marked _observability_installed
  at,         \* what each user does next
  arg,        \* the engine each user has read from a global
  conn,       \* the connection each user holds: live, dead or NULL
  idle,       \* the connections each engine's pool keeps, oldest first
  out,        \* the connections each engine's pool counts as checked out
  sampling,   \* which of its two queries the exporter runs
  raced,      \* history: two threads have initialised at once
  outlived    \* history: users whose connection saw the database restart

globals  == <<engine, factory, provider, watched, listeners, installed>>
pool     == <<conn, idle, out, outlived>>
sessVars == <<globals, at, arg, sampling, pool, raced>>
steady   == <<sampling, pool, raced>>

InitSteps == {"engine?", "create", "install", "installed?", "listen", "register",
              "clear", "append", "bind", "factory!"}
Steps == InitSteps \cup {"away", "factory?", "open", "waiting", "connected"}

SessInit ==
  /\ engine    = NULL
  /\ factory   = NULL
  /\ provider  = NULL
  /\ watched   = <<>>
  /\ listeners = [e \in Engines |-> 0]
  /\ installed = {}
  /\ at        = [u \in Users |-> "away"]
  /\ arg       = [u \in Users |-> NULL]
  /\ conn      = [u \in Users |-> NULL]
  /\ idle      = [e \in Engines |-> <<>>]
  /\ out       = [e \in Engines |-> 0]
  /\ sampling  = "primary"
  /\ raced     = FALSE
  /\ outlived  = {}

GoTo(u, step) == at' = [at EXCEPT ![u] = step]

-------------------------------------------------------------------------------
(* get_session_factory and get_engine *)

\* if _SESSION_FACTORY is None
ReadFactory(t) ==
  /\ at[t] = "factory?"
  /\ GoTo(t, IF factory = NULL THEN "engine?" ELSE "open")
  /\ raced' = (raced \/ (factory = NULL /\ \E u \in Threads : at[u] \in InitSteps))
  /\ UNCHANGED <<globals, arg, sampling, pool>>

\* if _ENGINE is None
ReadEngine(t) ==
  /\ at[t] = "engine?"
  /\ GoTo(t, IF engine = NULL THEN "create" ELSE "bind")
  /\ UNCHANGED <<globals, arg, steady>>

CreateEngine(t) ==
  /\ at[t] = "create"
  /\ engine' = t
  /\ GoTo(t, "install")
  /\ UNCHANGED <<factory, provider, watched, listeners, installed, arg, steady>>

\* The argument of install_sqlalchemy_observability: the global, read again.
Install(t) ==
  /\ at[t] = "install"
  /\ arg' = [arg EXCEPT ![t] = engine]
  /\ GoTo(t, "installed?")
  /\ UNCHANGED <<globals, steady>>

CheckInstalled(t) ==
  /\ at[t] = "installed?"
  /\ GoTo(t, IF arg[t] \in installed THEN "register" ELSE "listen")
  /\ UNCHANGED <<globals, arg, steady>>

\* The listeners, the replication lag provider, then the mark.
Listen(t) ==
  /\ at[t] = "listen"
  /\ listeners' = [listeners EXCEPT ![arg[t]] = @ + 1]
  /\ provider' = arg[t]
  /\ installed' = installed \cup {arg[t]}
  /\ GoTo(t, "register")
  /\ UNCHANGED <<engine, factory, watched, arg, steady>>

\* The argument of register_pool_engine.
Register(t) ==
  /\ at[t] = "register"
  /\ arg' = [arg EXCEPT ![t] = engine]
  /\ GoTo(t, "clear")
  /\ UNCHANGED <<globals, steady>>

ClearWatched(t) ==
  /\ at[t] = "clear"
  /\ watched' = <<>>
  /\ GoTo(t, "append")
  /\ UNCHANGED <<engine, factory, provider, listeners, installed, arg, steady>>

\* A slip: the engine is created and never handed to the gauges.
AppendNothing(t) ==
  /\ at[t] = "append"
  /\ GoTo(t, "bind")
  /\ UNCHANGED <<globals, arg, steady>>

AppendWatched(t) ==
  /\ at[t] = "append"
  /\ watched' = Append(watched, arg[t])
  /\ GoTo(t, "bind")
  /\ UNCHANGED <<engine, factory, provider, listeners, installed, arg, steady>>

\* return _ENGINE, into the new sessionmaker.
Bind(t) ==
  /\ at[t] = "bind"
  /\ arg' = [arg EXCEPT ![t] = engine]
  /\ GoTo(t, "factory!")
  /\ UNCHANGED <<globals, steady>>

SetFactory(t) ==
  /\ at[t] = "factory!"
  /\ factory' = arg[t]
  /\ GoTo(t, "open")
  /\ UNCHANGED <<engine, provider, watched, listeners, installed, arg, steady>>

\* return _SESSION_FACTORY; the session takes a connection at its first SELECT.
OpenSession(t) ==
  /\ at[t] = "open"
  /\ arg' = [arg EXCEPT ![t] = factory]
  /\ GoTo(t, "waiting")
  /\ UNCHANGED <<globals, steady>>

Initialise(t) ==
  \/ ReadFactory(t) \/ ReadEngine(t) \/ CreateEngine(t)
  \/ Install(t) \/ CheckInstalled(t) \/ Listen(t)
  \/ Register(t) \/ ClearWatched(t) \/ AppendWatched(t)
  \/ Bind(t) \/ SetFactory(t) \/ OpenSession(t)

-------------------------------------------------------------------------------
(* The pool of the engine arg[u] *)

\* A connection is kept, or the pool may open one more.
CanTake(e) == idle[e] # <<>> \/ out[e] < PoolSize + MaxOverflow

\* A slip: pool_pre_ping left out, a kept connection is handed out as it is.
TakeUnchecked(u) ==
  LET e == arg[u]
  IN /\ conn' = [conn EXCEPT ![u] = IF idle[e] = <<>> THEN "live" ELSE Head(idle[e])]
     /\ idle' = [idle EXCEPT ![e] = IF @ = <<>> THEN @ ELSE Tail(@)]
     /\ out' = [out EXCEPT ![e] = @ + 1]

\* Pre-ping replaces a connection found dead; without a kept one, a new one.
Take(u) ==
  LET e == arg[u]
  IN /\ conn' = [conn EXCEPT ![u] = "live"]
     /\ idle' = [idle EXCEPT ![e] = IF @ = <<>> THEN @ ELSE Tail(@)]
     /\ out' = [out EXCEPT ![e] = @ + 1]

Checkout(u) ==
  /\ at[u] = "waiting"
  /\ CanTake(arg[u])
  /\ Take(u)
  /\ GoTo(u, "connected")
  /\ UNCHANGED <<globals, arg, sampling, outlived, raced>>

\* pool_timeout expires, or the database refuses a connection: the dead one that
\* was to be replaced goes back, to be tried again later.
TakeNothing(u) ==
  LET e == arg[u]
  IN /\ at[u] = "waiting"
     /\ \/ idle[e] = <<>> /\ UNCHANGED idle
        \/ /\ idle[e] # <<>> /\ Head(idle[e]) = "dead"
           /\ idle' = [idle EXCEPT ![e] = Append(Tail(@), "dead")]
     /\ UNCHANGED <<conn, out, outlived>>

\* A slip: the rollback gives the connection back, and the close again.
GiveBackTwice(u) ==
  LET e == arg[u]
  IN /\ at[u] = "connected"
     /\ conn' = [conn EXCEPT ![u] = NULL]
     /\ idle' = [idle EXCEPT ![e] = IF Len(@) < PoolSize THEN Append(@, conn[u]) ELSE @]
     /\ out' = [out EXCEPT ![e] = @ - 2]
     /\ outlived' = outlived \ {u}

\* A connection goes back to its pool, or is closed when that keeps enough.
GiveBack(u) ==
  LET e == arg[u]
  IN /\ at[u] = "connected"
     /\ conn' = [conn EXCEPT ![u] = NULL]
     /\ idle' = [idle EXCEPT ![e] = IF Len(@) < PoolSize THEN Append(@, conn[u]) ELSE @]
     /\ out' = [out EXCEPT ![e] = @ - 1]
     /\ outlived' = outlived \ {u}

\* The database restarts: no connection survives.
Restart ==
  /\ conn' = [u \in Users |-> IF conn[u] = NULL THEN NULL ELSE "dead"]
  /\ idle' = [e \in Engines |-> [i \in 1..Len(idle[e]) |-> "dead"]]
  /\ outlived' = {u \in Users : conn[u] # NULL}
  /\ UNCHANGED <<globals, at, arg, sampling, out, raced>>

\* The user is done with the session or the engine.
Leave(u) ==
  /\ GoTo(u, "away")
  /\ arg' = [arg EXCEPT ![u] = NULL]

-------------------------------------------------------------------------------
(* The exporter: _db_replication_lag_cb calls _ReplicationLagSampler.sample, which
   asks the primary's view and, when that gives nothing, the standby's, over a
   connection each. *)

Collect ==
  /\ at[Exporter] = "away"
  /\ provider # NULL
  /\ arg' = [arg EXCEPT ![Exporter] = provider]
  /\ GoTo(Exporter, "waiting")
  /\ UNCHANGED <<globals, steady>>

SamplingEnds == Leave(Exporter) /\ sampling' = "primary"

\* The query gave nothing: the standby is asked next, or nobody.
NextSample ==
  \/ /\ sampling = "primary"
     /\ sampling' = "standby"
     /\ GoTo(Exporter, "waiting")
     /\ UNCHANGED arg
  \/ sampling = "standby" /\ SamplingEnds

\* A slip: the connection of a query that fails is not given back.
SampleUnclosed ==
  /\ at[Exporter] = "connected"
  /\ \/ GiveBack(Exporter) /\ conn[Exporter] = "live" /\ SamplingEnds
     \/ /\ conn' = [conn EXCEPT ![Exporter] = NULL]
        /\ UNCHANGED <<idle, out, outlived>>
        /\ NextSample
  /\ UNCHANGED <<globals, raced>>

\* The query answers or fails; `with engine.connect()` gives the connection back.
Sample ==
  /\ GiveBack(Exporter)
  /\ \/ conn[Exporter] = "live" /\ SamplingEnds
     \/ NextSample
  /\ UNCHANGED <<globals, raced>>

\* No connection is as good as a failed query.
SampleNothing ==
  /\ TakeNothing(Exporter)
  /\ NextSample
  /\ UNCHANGED <<globals, raced>>

===============================================================================
