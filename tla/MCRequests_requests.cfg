\* Two threads and the exporter on a pool of one connection and one of overflow.
SPECIFICATION FairRequestsSpec
CONSTANTS
  NULL = NULL
  t1 = t1
  t2 = t2
  exporter = exporter
  alice = alice
  bob = bob
  Threads = {t1, t2}
  Exporter = exporter
  PoolSize = 1
  MaxOverflow = 1
  AuthMode = "oidc"
  RoleClaims = {"roles", "scp"}
  ActorClaims <- ActorOrder
  Incoming <- EachFate
INVARIANTS
  RequestsTypeOK
  PoolAccounts
  InflightExact
  AnswersAudited
  RestartForgotten
  OneEngineUnlessRaced
PROPERTIES
  RequestsAnswered
