------------------------------- MODULE Health -------------------------------
(***************************************************************************)
(* HealthService.snapshot() as /ready, /health and the trading gate run it, *)
(* concurrently, over the one breaker around the database query and the one *)
(* Redis client (lib/redis.ts), which stops reconnecting for good after its *)
(* tenth retry.  A user of the breaker is one such request.                 *)
(***************************************************************************)
EXTENDS CircuitBreaker

CONSTANTS
  DefaultEnvironment,  \* DEFAULT_ENVIRONMENT
  MaxRetries           \* retryStrategy gives up after so many (10)

VARIABLES
  awaits,       \* per request: what its snapshot awaits, or "idle"
  database,     \* per request: the status it found for the database
  redis,        \* the Redis server: "up", "down"; "unset" without REDIS_URL
  client,       \* "none", "connected", "retrying", "ended"
  retries,
  lastSnapshot, \* per service: status
  sinceFailed   \* history: ticks since a query to the database failed

request    == <<awaits, database, lastSnapshot>>
redisVars  == <<redis, client, retries>>
healthVars == <<vars, request, redisVars, sinceFailed>>
-----------------------------------------------------------------------------
(* What one snapshot reports.  The demo venue is in the process and answers *)
(* with the current time; the gateway runs as long as the server listens.   *)
Services(db, cache) ==
  LET venue == IF DefaultEnvironment = "DEMO" THEN "HEALTHY" ELSE "DISABLED"
  IN  [DATABASE |-> db, REDIS |-> cache, BROKER |-> venue, MARKET_DATA |-> venue,
       WEBSOCKET |-> "HEALTHY", CLAUDE |-> "DISABLED", SCHEDULER |-> "DISABLED",
       RECONCILIATION |-> "DISABLED", NOTIFICATIONS |-> "DISABLED"]

Overall(services) ==
  LET enabled == {services[s] : s \in DOMAIN services} \ {"DISABLED"}
  IN  IF "DOWN" \in enabled THEN "DOWN"
      ELSE IF "DEGRADED" \in enabled THEN "DEGRADED" ELSE "HEALTHY"

(* GET /ready *)
Readiness(services) ==
  IF Overall(services) = "DOWN" THEN "unavailable"
  ELSE IF Overall(services) = "HEALTHY" THEN "ready" ELSE "degraded"

(* The services for whose sake TradingGate.evaluate() refuses.              *)
Blocking(services) == {s \in {"DATABASE", "BROKER", "MARKET_DATA"} : services[s] = "DOWN"}

Found(c, status) ==
  /\ database' = [database EXCEPT ![c] = status]
  /\ awaits' = [awaits EXCEPT ![c] = "redis"]
  /\ UNCHANGED <<lastSnapshot, redisVars>>

CheckDatabase(c) ==
  /\ awaits[c] = "idle"
  /\ Start(c)
  /\ awaits' = [awaits EXCEPT ![c] = "database"]
  /\ UNCHANGED <<database, lastSnapshot, redisVars, sinceFailed>>

(* Mutant of Refused: the refusal is caught as a failure of the query.      *)
RefusedAsFailure(c) ==
  /\ awaits[c] = "idle" /\ CurrentState = "OPEN"
  /\ elapsed' = 0
  /\ Found(c, "DOWN")
  /\ UNCHANGED <<state, failures, successes, calls, history, healthy, sinceFailed>>

(* execute() throws CircuitOpenError without a query.                       *)
Refused(c) ==
  /\ awaits[c] = "idle" /\ CurrentState = "OPEN"
  /\ Found(c, "DOWN")
  /\ UNCHANGED <<vars, sinceFailed>>

DatabaseUp(c)   == Succeed(c) /\ Found(c, "HEALTHY") /\ UNCHANGED sinceFailed
DatabaseDown(c) == Fail(c) /\ Found(c, "DOWN") /\ sinceFailed' = 0

(* checkRedis() creates the client on its first use, awaits the ping, and   *)
(* the snapshot is complete.                                                *)
OpenClient(c) ==
  /\ awaits[c] = "redis" /\ redis # "unset" /\ client = "none"
  /\ client' = "retrying"
  /\ UNCHANGED <<vars, request, redis, retries, sinceFailed>>

PingResult ==
  CASE redis = "unset"      -> "DISABLED"
    [] client = "connected" -> "HEALTHY"
    [] OTHER                -> "DOWN"

CheckRedis(c) ==
  /\ awaits[c] = "redis" /\ (redis = "unset" \/ client # "none")
  /\ lastSnapshot' = Services(database[c], PingResult)
  /\ awaits' = [awaits EXCEPT ![c] = "idle"]
  /\ database' = [database EXCEPT ![c] = "unknown"]
  /\ UNCHANGED <<vars, redisVars, sinceFailed>>
-----------------------------------------------------------------------------
(* The Redis client, which counts its retries since it was last connected.  *)
ClientConnects ==
  /\ redis = "up" /\ client = "retrying"
  /\ client' = "connected" /\ retries' = 0
  /\ UNCHANGED <<vars, request, redis, sinceFailed>>

ClientRetries ==
  /\ redis = "down" /\ client = "retrying"
  /\ IF retries < MaxRetries THEN retries' = retries + 1 /\ UNCHANGED client
     ELSE client' = "ended" /\ UNCHANGED retries
  /\ UNCHANGED <<vars, request, redis, sinceFailed>>

RedisOutage ==
  /\ redis = "up" /\ redis' = "down"
  /\ client' = IF client = "connected" THEN "retrying" ELSE client
  /\ UNCHANGED <<vars, request, retries, sinceFailed>>

RedisRepair ==
  /\ redis = "down" /\ redis' = "up"
  /\ UNCHANGED <<vars, request, client, retries, sinceFailed>>

Clock ==
  /\ Tick
  /\ sinceFailed' = Saturate(sinceFailed + 1, ResetTimeout)
  /\ UNCHANGED <<request, redisVars>>

(* The breaker's other operations, and the database's outages.              *)
Elsewhere ==
  /\ ReadStatus \/ Reset \/ Outage \/ Repair
  /\ UNCHANGED <<request, redisVars, sinceFailed>>

HealthInit ==
  /\ Init
  /\ awaits = [c \in Calls |-> "idle"] /\ database = [c \in Calls |-> "unknown"]
  /\ redis \in {"unset", "up", "down"} /\ client = "none" /\ retries = 0
  /\ lastSnapshot = Services("DISABLED", "DISABLED")
  /\ sinceFailed = ResetTimeout

HealthNext ==
  \/ \E c \in Calls : \/ CheckDatabase(c) \/ Refused(c) \/ DatabaseUp(c) \/ DatabaseDown(c)
                      \/ OpenClient(c) \/ CheckRedis(c)
  \/ ClientConnects \/ ClientRetries \/ RedisOutage \/ RedisRepair
  \/ Clock \/ Elsewhere

HealthSpec == HealthInit /\ [][HealthNext]_healthVars

(* Requests keep coming - the load balancer and the dashboard poll - and    *)
(* every query and ping is answered; nothing is fair about outages.         *)
HealthFairness ==
  /\ WF_healthVars(Clock)
  /\ \A c \in Calls : /\ WF_healthVars(CheckDatabase(c) \/ Refused(c))
                      /\ WF_healthVars(DatabaseUp(c) \/ DatabaseDown(c))
                      /\ WF_healthVars(OpenClient(c) \/ CheckRedis(c))
-----------------------------------------------------------------------------
(* A snapshot calls the database DOWN only when a query of its own or of    *)
(* another request really failed within the last ResetTimeout: refusing     *)
(* requests while OPEN must not feed the outage it reports.                 *)
DownIsFresh ==
  [][\A c \in Calls : database[c] # "DOWN" /\ database'[c] = "DOWN"
                        => sinceFailed' < ResetTimeout]_healthVars

(* When the database works and the Redis client is connected for good, the  *)
(* API reports ready for good and the gate names no service, however many   *)
(* requests share the breaker and whatever results of the outage come late. *)
ReadyRecovers ==
  <>[](healthy /\ (redis = "unset" \/ client = "connected"))
    => <>[](Readiness(lastSnapshot) = "ready" /\ Blocking(lastSnapshot) = {})
=============================================================================
