------------------------------- MODULE Requests -------------------------------
(***************************************************************************)
(* The Admin API around its lookups: a request passes the metrics          *)
(* middleware and require_admin_read, opens a session (module Sessions),   *)
(* runs its SELECTs, commits its audit row and is answered.                *)
(*                                                                         *)
(* Threads serve one request at a time, concurrently with each other and   *)
(* with the metrics exporter, which takes connections from the same pool.  *)
(* Any statement may fail, the commit after it took effect as well, and    *)
(* the database restarts at will.                                          *)
(*                                                                         *)
(* Abstracted: what a lookup reads and answers (module AdminApi; 200 is an *)
(* answer that found nothing too); the signature, issuer and lifetime of a *)
(* token, by whether it verifies; correlation ids, which a context keeps   *)
(* to its request.                                                         *)
(***************************************************************************)
EXTENDS Sessions

CONSTANTS
  AuthMode,       \* AUTH_MODE
  RoleClaims,     \* AUTH_ROLES_CLAIM: claims that hold roles
  ActorClaims,    \* AUTH_ACTOR_ID_CLAIMS: claims that name the actor, in order
  Incoming        \* the requests that may come

\* token: the Authorization header holds none, one that does not verify, or one
\* that does, with its claims; header: X-Actor-Id; valid: the query parameters are.
ASSUME RequestAssumption ==
  /\ AuthMode \in {"disabled", "oidc"}
  /\ \A r \in Incoming :
       /\ r.token \in {"none", "broken", "good"}
       /\ r.valid \in BOOLEAN
       /\ r # NULL

VARIABLES
  stage,      \* what each thread does
  request,    \* the request it serves, once let in
  actor,      \* request.state.actor_id
  audits,     \* the actors of the audit rows its request has committed
  reply,      \* the status code it will answer
  inflight    \* api_requests_inflight

reqVars == <<stage, request, actor, audits, reply, inflight>>
allVars == <<sessVars, reqVars>>

RequestsInit ==
  /\ SessInit
  /\ stage    = [t \in Threads |-> "idle"]
  /\ request  = [t \in Threads |-> NULL]
  /\ actor    = [t \in Threads |-> NULL]
  /\ audits   = [t \in Threads |-> {}]
  /\ reply    = [t \in Threads |-> NULL]
  /\ inflight = 0

-------------------------------------------------------------------------------
(* src/api/auth.py and extract_actor *)

auth_required_roles == {"ADMIN_READ", "ADMIN_AUDIT"}

extract_roles(r) ==
  UNION {r.roles[c] : c \in IF RoleClaims = {} THEN {"roles"} ELSE RoleClaims}

\* The first claim that names somebody.
extract_actor_id(r) ==
  LET named == SelectSeq(IF ActorClaims = <<>> THEN <<"sub">> ELSE ActorClaims,
                         LAMBDA c : r.actors[c] # NULL)
  IN IF named = <<>> THEN NULL ELSE r.actors[Head(named)]

\* What require_admin_read may answer; 200 admits.  The keys of the identity
\* provider may be out of reach, which refuses a good token too.
require_admin_read(r) ==
  IF AuthMode = "disabled" THEN {200}
  ELSE IF r.token # "good" THEN {401}
  ELSE {401, IF extract_roles(r) \cap auth_required_roles = {} THEN 403 ELSE 200}

ActorOf(r) == IF AuthMode = "disabled" THEN r.header ELSE extract_actor_id(r)

\* The actor the audit row names.
extract_actor(t) == IF actor[t] # NULL THEN actor[t] ELSE request[t].header

-------------------------------------------------------------------------------
(* A request *)

Answer(t, code) ==
  /\ stage' = [stage EXCEPT ![t] = "reply"]
  /\ reply' = [reply EXCEPT ![t] = code]

\* The middleware counts a request, which ends at require_admin_read or, let in,
\* at parameters that do not validate.  Nothing shared is read in between.
Refuse(t, r) ==
  /\ stage[t] = "idle"
  /\ \E code \in require_admin_read(r) :
       /\ code = 200 => ~r.valid
       /\ Answer(t, IF code = 200 THEN 422 ELSE code)
  /\ inflight' = inflight + 1
  /\ UNCHANGED <<sessVars, request, actor, audits>>

\* The middleware counts a request that is let in; request.state is set and the
\* handler opens its session.
Admit(t, r) ==
  /\ stage[t] = "idle"
  /\ 200 \in require_admin_read(r) /\ r.valid
  /\ stage' = [stage EXCEPT ![t] = "lookup"]
  /\ request' = [request EXCEPT ![t] = r]
  /\ actor' = [actor EXCEPT ![t] = ActorOf(r)]
  /\ inflight' = inflight + 1
  /\ GoTo(t, "factory?")
  /\ UNCHANGED <<globals, arg, steady, audits, reply>>

Open(t) == Initialise(t) /\ UNCHANGED reqVars

Connect(t) == Checkout(t) /\ UNCHANGED reqVars

\* The first SELECT gets no connection: the exception ends the request.
ConnectFails(t) ==
  /\ TakeNothing(t)
  /\ Leave(t)
  /\ Answer(t, 500)
  /\ UNCHANGED <<globals, sampling, raced, request, actor, audits, inflight>>

\* The SELECTs, and session.add of the audit row.
Lookup(t) ==
  /\ stage[t] = "lookup"
  /\ at[t] = "connected" /\ conn[t] = "live"
  /\ stage' = [stage EXCEPT ![t] = "commit"]
  /\ UNCHANGED <<sessVars, request, actor, audits, reply, inflight>>

WriteAudit(t) == audits' = [audits EXCEPT ![t] = @ \cup {extract_actor(t)}]

\* A slip: an audit row that cannot be written does not stop the answer.
CommitIfPossible(t) ==
  /\ stage[t] = "commit"
  /\ GiveBack(t)
  /\ Leave(t)
  /\ WriteAudit(t) \/ UNCHANGED audits
  /\ Answer(t, 200)
  /\ UNCHANGED <<globals, sampling, raced, request, actor, inflight>>

\* session.commit() inserts the audit row; the session is closed.
Commit(t) ==
  /\ stage[t] = "commit"
  /\ conn[t] = "live"
  /\ GiveBack(t)
  /\ Leave(t)
  /\ WriteAudit(t)
  /\ Answer(t, 200)
  /\ UNCHANGED <<globals, sampling, raced, request, actor, inflight>>

\* A slip: a failed session is rolled back and never closed.
FailUnclosed(t) ==
  /\ at[t] = "connected"
  /\ conn' = [conn EXCEPT ![t] = NULL]
  /\ Leave(t)
  /\ Answer(t, 500)
  /\ UNCHANGED <<globals, sampling, idle, out, outlived, raced,
                 request, actor, audits, inflight>>

\* A statement raises, or the commit does, which may have taken effect all the
\* same: the session is rolled back and closed, the exception ends the request.
FailRequest(t) ==
  /\ GiveBack(t)
  /\ Leave(t)
  /\ \/ UNCHANGED audits
     \/ stage[t] = "commit" /\ conn[t] = "live" /\ WriteAudit(t)
  /\ Answer(t, 500)
  /\ UNCHANGED <<globals, sampling, raced, request, actor, inflight>>

\* A slip: a request that ends in an exception is not counted out.
ReplyIfNoError(t) ==
  /\ stage[t] = "reply"
  /\ inflight' = IF reply[t] = 500 THEN inflight ELSE inflight - 1
  /\ stage' = [stage EXCEPT ![t] = "idle"]
  /\ request' = [request EXCEPT ![t] = NULL]
  /\ actor' = [actor EXCEPT ![t] = NULL]
  /\ audits' = [audits EXCEPT ![t] = {}]
  /\ reply' = [reply EXCEPT ![t] = NULL]
  /\ UNCHANGED sessVars

\* The middleware's finally counts it out, whatever it ended in.
Reply(t) ==
  /\ stage[t] = "reply"
  /\ inflight' = inflight - 1
  /\ stage' = [stage EXCEPT ![t] = "idle"]
  /\ request' = [request EXCEPT ![t] = NULL]
  /\ actor' = [actor EXCEPT ![t] = NULL]
  /\ audits' = [audits EXCEPT ![t] = {}]
  /\ reply' = [reply EXCEPT ![t] = NULL]
  /\ UNCHANGED sessVars

-------------------------------------------------------------------------------
Serve(t) ==
  \/ Open(t) \/ Connect(t) \/ Lookup(t) \/ Commit(t) \/ FailRequest(t) \/ Reply(t)

Export ==
  /\ \/ Collect
     \/ Checkout(Exporter)
     \/ Sample
     \/ SampleNothing
  /\ UNCHANGED reqVars

RequestsNext ==
  \/ \E t \in Threads : \/ \E r \in Incoming : Refuse(t, r) \/ Admit(t, r)
                        \/ Serve(t)
                        \/ ConnectFails(t)
  \/ Export
  \/ Restart /\ UNCHANGED reqVars

RequestsSpec == RequestsInit /\ [][RequestsNext]_allVars

\* Threads run, queries end, and a thread that waits for a connection is not
\* passed over for ever when some come free (elsewhere Serve(t) stays enabled until
\* t moves); nothing forces a request to come, a wait to time out or the database
\* to restart.
FairRequestsSpec ==
  /\ RequestsSpec
  /\ \A t \in Threads : SF_allVars(Serve(t))
  /\ WF_allVars(Sample /\ UNCHANGED reqVars)

-------------------------------------------------------------------------------
(* Properties *)

Actors == {ActorOf(r) : r \in Incoming} \cup {r.header : r \in Incoming} \cup {NULL}

Codes == {200, 401, 403, 422, 500}

RequestsTypeOK ==
  /\ {engine, factory, provider} \subseteq Engines \cup {NULL}
  /\ watched \in Seq(Engines)
  /\ listeners \in [Engines -> Nat]
  /\ installed \subseteq Engines
  /\ at \in [Users -> Steps]
  /\ arg \in [Users -> Engines \cup {NULL}]
  /\ conn \in [Users -> {"live", "dead", NULL}]
  /\ idle \in [Engines -> Seq({"live", "dead"})]
  /\ out \in [Engines -> Nat]
  /\ sampling \in {"primary", "standby"}
  /\ raced \in BOOLEAN
  /\ outlived \subseteq Users
  /\ stage \in [Threads -> {"idle", "lookup", "commit", "reply"}]
  /\ request \in [Threads -> Incoming \cup {NULL}]
  /\ actor \in [Threads -> Actors]
  /\ audits \in [Threads -> SUBSET Actors]
  /\ reply \in [Threads -> Codes \cup {NULL}]
  /\ inflight \in Nat

\* A pool counts out the connections in use and keeps no more than it may: none
\* is lost when a statement, a commit, a ping or the wait for one fails, between
\* requests and the exporter (session_scope closes every session).
PoolAccounts ==
  \A e \in Engines :
    /\ out[e] = Cardinality({u \in Users : conn[u] # NULL /\ arg[u] = e})
    /\ out[e] + Len(idle[e]) <= PoolSize + MaxOverflow

\* The gauge is the number of requests not yet answered (metrics_middleware).
InflightExact == inflight = Cardinality({t \in Threads : stage[t] # "idle"})

\* An answer about a transaction is given only once its audit row, and one only,
\* has been committed and names the actor of the request's own token; a refused
\* request left no row (get_admin_tx answers after session_scope has committed).
AnswersAudited ==
  \A t \in Threads : stage[t] = "reply" =>
    /\ reply[t] = 200 =>
         /\ Cardinality(audits[t]) = 1
         /\ ActorOf(request[t]) # NULL => audits[t] = {ActorOf(request[t])}
    /\ reply[t] \in {401, 403, 422} => audits[t] = {}

\* A session works on a dead connection only if the database restarted after it
\* took it: a restart costs the statements under way and nothing later
\* (pool_pre_ping).
RestartForgotten == \A u \in Users : conn[u] = "dead" => u \in outlived

\* Unless two threads initialised at once, every session runs on the one engine
\* that the gauges watch and the lag provider samples, and each of its queries is
\* counted once (get_engine and get_session_factory have no lock).
OneEngineUnlessRaced ==
  ~raced => \A t \in Threads : at[t] \in {"waiting", "connected"} =>
    /\ engine = arg[t] /\ factory = arg[t] /\ provider = arg[t]
    /\ watched = <<arg[t]>>
    /\ listeners[arg[t]] = 1

\* Every request is answered without a wait for a connection having to time out:
\* sessions and samples give back what they took and need one connection at a
\* time (session_scope, _ReplicationLagSampler).
RequestsAnswered == \A t \in Threads : stage[t] # "idle" ~> stage[t] = "idle"
===============================================================================
