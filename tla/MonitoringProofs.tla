-------------------------- MODULE MonitoringProofs --------------------------
(* Theorems about Health and LiveEvents, for any number of concurrent       *)
(* requests, any thresholds and any number of sockets.                      *)
EXTENDS Health, LiveEvents, CircuitBreakerProofs

-----------------------------------------------------------------------------
(* Health.  The requests use the breaker as CircuitBreaker allows, so what  *)
(* is proved of it there holds of it here.                                  *)

(* While OPEN, no more time has passed since a failure than since the last  *)
(* failure that restarted the cool-down.                                    *)
OpenSinceFailure == state = "OPEN" => sinceFailed <= elapsed

HealthInv ==
  /\ IInv
  /\ database \in [Calls -> {"unknown", "HEALTHY", "DOWN"}]
  /\ sinceFailed \in 0 .. ResetTimeout
  /\ OpenSinceFailure

(* Every step of Health is one of the breaker, or none of its variables     *)
(* change.                                                                  *)
LEMMA BreakerStep == [HealthNext]_healthVars => [Next]_vars
<1> SUFFICES ASSUME [HealthNext]_healthVars PROVE [Next]_vars
  OBVIOUS
<1>1. ASSUME NEW c \in Calls, CheckDatabase(c) PROVE Next
  BY <1>1 DEF CheckDatabase, Next
<1>2. ASSUME NEW c \in Calls, Refused(c) PROVE UNCHANGED vars
  BY <1>2 DEF Refused
<1>3. ASSUME NEW c \in Calls, DatabaseUp(c) \/ DatabaseDown(c) PROVE Next
  BY <1>3 DEF DatabaseUp, DatabaseDown, Next
<1>4. ASSUME NEW c \in Calls, OpenClient(c) \/ CheckRedis(c) PROVE UNCHANGED vars
  BY <1>4 DEF OpenClient, CheckRedis
<1>5. CASE ClientConnects \/ ClientRetries \/ RedisOutage \/ RedisRepair
  BY <1>5 DEF ClientConnects, ClientRetries, RedisOutage, RedisRepair
<1>6. CASE Clock
  BY <1>6 DEF Clock, Next
<1>7. CASE Elsewhere
  BY <1>7 DEF Elsewhere, Next
<1>8. CASE UNCHANGED healthVars
  BY <1>8 DEF healthVars
<1> QED
  BY <1>1, <1>2, <1>3, <1>4, <1>5, <1>6, <1>7, <1>8 DEF HealthNext

(* However many requests share the breaker, and whatever becomes of Redis,  *)
(* the breaker behaves as specified on its own.                             *)
THEOREM SnapshotsKeepBreaker == HealthSpec => Spec
<1>1. HealthInit => Init
  BY DEF HealthInit
<1> QED
  BY <1>1, BreakerStep, PTL DEF HealthSpec, Spec

LEMMA HealthInitEstablishes == HealthInit => HealthInv
<1> SUFFICES ASSUME HealthInit PROVE HealthInv
  OBVIOUS
<1>1. IInv
  BY InitEstablishes DEF HealthInit
<1>2. database \in [Calls -> {"unknown", "HEALTHY", "DOWN"}]
  BY DEF HealthInit
<1>3. sinceFailed \in 0 .. ResetTimeout /\ OpenSinceFailure
  BY BreakerAssumption, SMT DEF HealthInit, Init, OpenSinceFailure
<1> QED
  BY <1>1, <1>2, <1>3 DEF HealthInv

LEMMA HealthStepKeeps == HealthInv /\ [HealthNext]_healthVars => HealthInv'
<1> SUFFICES ASSUME HealthInv, [HealthNext]_healthVars PROVE HealthInv'
  OBVIOUS
<1> USE BreakerAssumption
<1>0. IInv'
  BY BreakerStep, StepKeeps DEF HealthInv
<1>1. ASSUME NEW c \in Calls, CheckDatabase(c) PROVE HealthInv'
  <2>1. UNCHANGED <<database, sinceFailed, elapsed>>
    BY <1>1 DEF CheckDatabase, Start, Observe
  <2>2. state' # "OPEN"
    BY <1>1 DEF CheckDatabase, Start, Observe
  <2> QED
    BY <1>0, <2>1, <2>2 DEF HealthInv, OpenSinceFailure
<1>2. ASSUME NEW c \in Calls, Refused(c) PROVE HealthInv'
  <2>1. UNCHANGED <<state, elapsed, sinceFailed>>
    BY <1>2 DEF Refused, vars, counters
  <2>2. database' \in [Calls -> {"unknown", "HEALTHY", "DOWN"}]
    BY <1>2 DEF Refused, Found, HealthInv
  <2> QED
    BY <1>0, <2>1, <2>2 DEF HealthInv, OpenSinceFailure
<1>3. ASSUME NEW c \in Calls, DatabaseUp(c) PROVE HealthInv'
  <2>1. UNCHANGED <<elapsed, sinceFailed>> /\ (state' = "OPEN" => state = "OPEN")
    BY <1>3 DEF DatabaseUp, Succeed
  <2>2. database' \in [Calls -> {"unknown", "HEALTHY", "DOWN"}]
    BY <1>3 DEF DatabaseUp, Found, HealthInv
  <2> QED
    BY <1>0, <2>1, <2>2 DEF HealthInv, OpenSinceFailure
<1>4. ASSUME NEW c \in Calls, DatabaseDown(c) PROVE HealthInv'
  <2>1. sinceFailed' = 0
    BY <1>4 DEF DatabaseDown
  <2>2. database' \in [Calls -> {"unknown", "HEALTHY", "DOWN"}]
    BY <1>4 DEF DatabaseDown, Found, HealthInv
  <2>3. elapsed' \in 0 .. ResetTimeout
    BY <1>0 DEF IInv, TypeOK
  <2> QED
    BY <1>0, <2>1, <2>2, <2>3, SMT DEF HealthInv, OpenSinceFailure
<1>5. ASSUME NEW c \in Calls, OpenClient(c) \/ CheckRedis(c) PROVE HealthInv'
  <2>1. UNCHANGED <<state, elapsed, sinceFailed>>
    BY <1>5 DEF OpenClient, CheckRedis, vars, counters
  <2>2. database' \in [Calls -> {"unknown", "HEALTHY", "DOWN"}]
    BY <1>5 DEF OpenClient, CheckRedis, request, HealthInv
  <2> QED
    BY <1>0, <2>1, <2>2 DEF HealthInv, OpenSinceFailure
<1>6. CASE ClientConnects \/ ClientRetries \/ RedisOutage \/ RedisRepair
  <2>1. UNCHANGED <<state, elapsed, sinceFailed, database>>
    BY <1>6 DEF ClientConnects, ClientRetries, RedisOutage, RedisRepair, vars, counters, request
  <2> QED
    BY <1>0, <2>1 DEF HealthInv, OpenSinceFailure
<1>7. CASE Clock
  <2>1. UNCHANGED <<state, database>>
    BY <1>7 DEF Clock, Tick, request
  <2>2. sinceFailed' \in 0 .. ResetTimeout /\ OpenSinceFailure'
    BY <1>7, <2>1, SMT DEF Clock, Tick, Saturate, HealthInv, IInv, TypeOK, OpenSinceFailure
  <2> QED
    BY <1>0, <2>1, <2>2 DEF HealthInv
<1>8. CASE Elsewhere
  <2>1. UNCHANGED <<elapsed, sinceFailed, database>> /\ (state' = "OPEN" => state = "OPEN")
    BY <1>8 DEF Elsewhere, ReadStatus, Observe, CurrentState, Reset, Outage, Repair, counters, request
  <2> QED
    BY <1>0, <2>1 DEF HealthInv, OpenSinceFailure
<1>9. CASE UNCHANGED healthVars
  BY <1>0, <1>9 DEF healthVars, vars, counters, request, HealthInv, OpenSinceFailure
<1> QED
  BY <1>1, <1>2, <1>3, <1>4, <1>5, <1>6, <1>7, <1>8, <1>9 DEF HealthNext

(* A snapshot that calls the database DOWN has a failed query behind it that*)
(* is not older than the reset timeout.                                     *)
THEOREM OutagesAreFresh == HealthSpec => DownIsFresh
<1>1. ASSUME HealthInv, HealthNext, NEW c \in Calls, database[c] # "DOWN", database'[c] = "DOWN"
      PROVE  sinceFailed' < ResetTimeout
  <2>1. ASSUME NEW d \in Calls, CheckDatabase(d) PROVE FALSE
    BY <1>1, <2>1 DEF CheckDatabase
  <2>2. ASSUME NEW d \in Calls, Refused(d) PROVE sinceFailed' < ResetTimeout
    <3>1. state = "OPEN" /\ ~Cooled /\ sinceFailed' = sinceFailed
      BY <2>2 DEF Refused, CurrentState
    <3> QED
      BY <1>1, <3>1, BreakerAssumption, SMT
        DEF Cooled, HealthInv, OpenSinceFailure, IInv, TypeOK
  <2>3. ASSUME NEW d \in Calls, DatabaseUp(d) PROVE FALSE
    BY <1>1, <2>3 DEF DatabaseUp, Found, HealthInv
  <2>4. ASSUME NEW d \in Calls, DatabaseDown(d) PROVE sinceFailed' < ResetTimeout
    BY <2>4, BreakerAssumption, SMT DEF DatabaseDown
  <2>5. ASSUME NEW d \in Calls, OpenClient(d) \/ CheckRedis(d) PROVE FALSE
    BY <1>1, <2>5 DEF OpenClient, CheckRedis, request, HealthInv
  <2>6. ~(ClientConnects \/ ClientRetries \/ RedisOutage \/ RedisRepair)
    BY <1>1 DEF ClientConnects, ClientRetries, RedisOutage, RedisRepair, request
  <2>7. ~(Clock \/ Elsewhere)
    BY <1>1 DEF Clock, Elsewhere, request
  <2> QED
    BY <1>1, <2>1, <2>2, <2>3, <2>4, <2>5, <2>6, <2>7 DEF HealthNext
<1>2. HealthInv /\ [HealthNext]_healthVars
        => [\A c \in Calls : database[c] # "DOWN" /\ database'[c] = "DOWN"
                               => sinceFailed' < ResetTimeout]_healthVars
  BY <1>1
<1> QED
  BY <1>2, HealthInitEstablishes, HealthStepKeeps, PTL DEF HealthSpec, DownIsFresh
-----------------------------------------------------------------------------
(* LiveEvents: sockets.  A subscriber whose peer is gone was pinged at most *)
(* once since, and then did not answer.                                     *)

SocketTyped ==
  /\ link \in [Sockets -> {"up", "closing", "cut", "closed"}]
  /\ server \in [Sockets -> {"none", "accepted", "reading", "registered"}]
  /\ sub \in [Sockets -> [scope : BOOLEAN, alive : BOOLEAN, beats : {0, 1}]]

Pending(s) ==
  server[s] = "registered" /\ sub[s].beats = 1
    => ~sub[s].alive /\ link[s] \in {"cut", "closed"}

GatewayInv ==
  /\ SocketTyped /\ granted \in BOOLEAN
  /\ \A s \in Sockets : Pending(s)

LEMMA GatewayInitEstablishes == LiveInit => GatewayInv
BY DEF LiveInit, GatewayInv, SocketTyped, Pending, NoSub

(* Subscribers that leave, with the others' state unchanged or as given.    *)
LEMMA DeleteKeeps ==
  ASSUME GatewayInv, NEW gone \in SUBSET Sockets, NEW subs, Delete(gone, subs),
         link' \in [Sockets -> {"up", "closing", "cut", "closed"}], granted' \in BOOLEAN,
         \A s \in Sockets \ gone :
           /\ subs[s] \in [scope : BOOLEAN, alive : BOOLEAN, beats : {0, 1}]
           /\ server[s] = "registered" /\ subs[s].beats = 1
                => ~subs[s].alive /\ link'[s] \in {"cut", "closed"}
  PROVE  GatewayInv'
<1>1. server' \in [Sockets -> {"none", "accepted", "reading", "registered"}]
  BY DEF Delete, GatewayInv, SocketTyped
<1>2. sub' \in [Sockets -> [scope : BOOLEAN, alive : BOOLEAN, beats : {0, 1}]]
  BY DEF Delete, NoSub
<1>3. ASSUME NEW s \in Sockets
      PROVE  server'[s] = "registered" /\ sub'[s].beats = 1
               => ~sub'[s].alive /\ link'[s] \in {"cut", "closed"}
  <2>1. CASE s \in gone
    BY <2>1 DEF Delete
  <2>2. CASE s \notin gone
    BY <2>2 DEF Delete
  <2> QED
    BY <2>1, <2>2
<1> QED
  BY <1>1, <1>2, <1>3 DEF GatewayInv, SocketTyped, Pending

LEMMA GatewayStepKeeps == GatewayInv /\ [LiveNext]_liveVars => GatewayInv'
<1> SUFFICES ASSUME GatewayInv, [LiveNext]_liveVars PROVE GatewayInv'
  OBVIOUS
<1> USE DEF SocketTyped
<1>1. CASE Release \/ Engage \/ Announce \/ SessionEnds \/ NoticeCut
  <2>1. UNCHANGED <<link, server, sub, granted>>
    BY <1>1 DEF Release, Engage, Announce, SessionEnds, NoticeCut, socketVars, worldVars
  <2> QED
    BY <2>1 DEF GatewayInv, Pending
<1>2. CASE GrantChanges
  BY <1>2 DEF GrantChanges, GatewayInv, Pending
<1>3. ASSUME NEW s \in Sockets, Connect(s) PROVE GatewayInv'
  BY <1>3 DEF Connect, worldVars, GatewayInv, Pending
<1>4. ASSUME NEW s \in Sockets, ReadUser(s) PROVE GatewayInv'
  BY <1>4 DEF ReadUser, worldVars, GatewayInv, Pending
<1>5. ASSUME NEW s \in Sockets, Register(s) PROVE GatewayInv'
  BY <1>5 DEF Register, worldVars, GatewayInv, Pending
<1>6. ASSUME NEW s \in Sockets, Cut(s) PROVE GatewayInv'
  BY <1>6 DEF Cut, worldVars, GatewayInv, Pending
<1>7. ASSUME NEW s \in Sockets, Close(s) PROVE GatewayInv'
  <2>1. link' = [link EXCEPT ![s] = "closed"] /\ UNCHANGED granted
    BY <1>7 DEF Close, worldVars
  <2>2. CASE server[s] = "registered"
    <3>1. Delete({s}, sub)
      BY <1>7, <2>2 DEF Close
    <3> QED
      BY <2>1, <3>1, DeleteKeeps DEF GatewayInv, Pending
  <2>3. CASE server[s] # "registered"
    <3>1. UNCHANGED <<server, sub>>
      BY <1>7, <2>3 DEF Close
    <3> QED
      BY <2>1, <2>3, <3>1 DEF GatewayInv, Pending
  <2> QED
    BY <2>2, <2>3
<1>8. ASSUME NEW s \in Sockets, Pong(s) PROVE GatewayInv'
  BY <1>8 DEF Pong, worldVars, Subscribers, GatewayInv, Pending
<1>9. CASE PingAll
  <2> DEFINE subs == [s \in Sockets |-> IF s \in Subscribers THEN Pinged(s) ELSE sub[s]]
  <2>1. Delete(Silent, subs) /\ UNCHANGED granted
    BY <1>9 DEF PingAll, worldVars
  <2>2. link' \in [Sockets -> {"up", "closing", "cut", "closed"}]
    BY <1>9 DEF PingAll, GatewayInv
  <2>3. ASSUME NEW s \in Sockets \ Silent
        PROVE  /\ subs[s] \in [scope : BOOLEAN, alive : BOOLEAN, beats : {0, 1}]
               /\ server[s] = "registered" /\ subs[s].beats = 1
                    => ~subs[s].alive /\ link'[s] \in {"cut", "closed"}
    <3>1. CASE s \in Subscribers
      <4>1. link'[s] = link[s] /\ link[s] \in {"up", "closing", "cut", "closed"}
        BY <1>9 DEF PingAll, GatewayInv
      <4>2. /\ sub[s] \in [scope : BOOLEAN, alive : BOOLEAN, beats : {0, 1}]
            /\ sub[s].alive /\ sub[s].beats = 0
        BY <3>1 DEF Silent, Subscribers, GatewayInv, Pending
      <4>3. Beat(s) = IF link[s] \notin {"up", "closing"} THEN 1 ELSE 0
        BY <4>2, SMT DEF Beat
      <4>4. /\ Pinged(s) \in [scope : BOOLEAN, alive : BOOLEAN, beats : {0, 1}]
            /\ ~Pinged(s).alive /\ Pinged(s).beats = Beat(s)
        BY <4>2, <4>3 DEF Pinged
      <4> HIDE DEF subs
      <4>5. subs[s] = Pinged(s)
        BY <3>1 DEF subs
      <4> QED
        BY <4>1, <4>3, <4>4, <4>5
    <3>2. CASE s \notin Subscribers
      BY <3>2 DEF Subscribers, GatewayInv
    <3> QED
      BY <3>1, <3>2
  <2>4. Silent \in SUBSET Sockets
    BY DEF Silent, Subscribers
  <2> QED
    BY <2>1, <2>2, <2>3, <2>4, DeleteKeeps DEF GatewayInv
<1>10. CASE Restart
  <2>1. Delete(Sockets, sub) /\ UNCHANGED granted
    BY <1>10 DEF Restart
  <2>2. link' \in [Sockets -> {"up", "closing", "cut", "closed"}]
    BY <1>10 DEF Restart, GatewayInv
  <2> QED
    BY <2>1, <2>2, DeleteKeeps DEF GatewayInv
<1>11. CASE \E v \in 1 .. MaxChanges : HandleEvent(v)
  BY <1>11 DEF HandleEvent, worldVars, GatewayInv, Pending
<1>12. CASE DashboardOpens \/ Poll \/ List \/ Show \/ FetchFails
  <2>1. UNCHANGED <<link, server, sub, granted>>
    BY <1>12 DEF DashboardOpens, Poll, List, Show, FetchFails, socketVars, worldVars
  <2> QED
    BY <2>1 DEF GatewayInv, Pending
<1>13. CASE UNCHANGED liveVars
  BY <1>13 DEF liveVars, worldVars, socketVars, GatewayInv, Pending
<1> QED
  BY <1>1, <1>2, <1>3, <1>4, <1>5, <1>6, <1>7, <1>8, <1>9, <1>10, <1>11, <1>12, <1>13 DEF LiveNext

(* The gateway never keeps a subscriber whose peer is gone beyond the second*)
(* heartbeat, however its connection and its handshake interleaved.         *)
THEOREM HeartbeatDropsDead == LiveSpec => []DeadSocketsGo
<1>1. GatewayInv => DeadSocketsGo
  BY SMT DEF GatewayInv, SocketTyped, DeadSocketsGo, Subscribers
<1> QED
  BY <1>1, GatewayInitEstablishes, GatewayStepKeeps, PTL DEF LiveSpec
-----------------------------------------------------------------------------
(* LiveEvents: the page.  No event is ahead of the row, and an answer on its*)
(* way is as new as every event handled before it was asked for.            *)

Versions == 0 .. row

PageTyped ==
  /\ row \in Nat
  /\ announcing \subseteq Versions
  /\ inbox \in [Sockets -> SUBSET Versions]
  /\ heard \in Versions
  /\ current \in Sockets \cup {NoSocket}
  /\ query \in [pc : {"idle", "asked", "answered"}, val : Int]
  /\ shown \in Int
  /\ failed \in BOOLEAN

AnswerIsNew == query.pc = "answered" => query.val = Absent \/ query.val >= heard

PageInv == PageTyped /\ AnswerIsNew /\ HeardIsShown

LEMMA PageInitEstablishes == LiveInit => PageInv
<1> SUFFICES ASSUME LiveInit PROVE PageInv
  OBVIOUS
<1>1. /\ row \in Nat /\ heard \in 0 .. row
      /\ shown \in Int /\ ~(shown >= 0)
  <2>1. row = 0 /\ heard = 0 /\ shown = -2
    BY DEF LiveInit, Nothing
  <2> QED
    BY <2>1, SMT
<1>2. inbox \in [Sockets -> SUBSET (0 .. row)] /\ current \in Sockets \cup {NoSocket}
  BY DEF LiveInit
<1>3. query \in [pc : {"idle", "asked", "answered"}, val : Int] /\ query.pc = "idle"
  BY SMT DEF LiveInit, NoFetch, Absent
<1>4. announcing \subseteq 0 .. row /\ failed \in BOOLEAN
  BY DEF LiveInit
<1> QED
  BY <1>1, <1>2, <1>3, <1>4 DEF PageInv, PageTyped, Versions, AnswerIsNew, HeardIsShown

LEMMA PublishKeeps ==
  ASSUME NEW n \in Nat, NEW v \in 0 .. n, inbox \in [Sockets -> SUBSET (0 .. n)], Publish(v)
  PROVE  inbox' \in [Sockets -> SUBSET (0 .. n)]
BY DEF Publish

LEMMA PageStepKeeps == PageInv /\ [LiveNext]_liveVars => PageInv'
<1> SUFFICES ASSUME PageInv, [LiveNext]_liveVars PROVE PageInv'
  OBVIOUS
<1>0. row \in Nat /\ 0 .. row \subseteq 0 .. (row + 1)
  BY SMT DEF PageInv, PageTyped
<1>1. CASE Release
  <2>1. row' = row + 1 /\ UNCHANGED <<announcing, current, inbox, queryVars>>
    BY <1>1 DEF Release, socketVars
  <2>2. inbox' \in [Sockets -> SUBSET (0 .. row')] /\ announcing' \subseteq 0 .. row'
    BY <1>0, <2>1 DEF PageInv, PageTyped, Versions
  <2> QED
    BY <1>0, <2>1, <2>2 DEF queryVars, PageInv, PageTyped, Versions, AnswerIsNew, HeardIsShown
<1>2. CASE Engage
  <2>1. /\ row' = row + 1 /\ announcing' = announcing \cup {row + 1}
        /\ UNCHANGED <<current, inbox, queryVars>>
    BY <1>2 DEF Engage, socketVars
  <2>2. inbox' \in [Sockets -> SUBSET (0 .. row')]
    BY <1>0, <2>1 DEF PageInv, PageTyped, Versions
  <2>3. announcing' \subseteq 0 .. row' /\ row' \in Nat
    <3>1. row + 1 \in 0 .. (row + 1)
      BY <1>0, SMT
    <3> QED
      BY <1>0, <2>1, <3>1 DEF PageInv, PageTyped, Versions
  <2> QED
    BY <1>0, <2>1, <2>2, <2>3 DEF queryVars, PageInv, PageTyped, Versions, AnswerIsNew, HeardIsShown
<1>3. CASE Announce
  <2>1. PICK v \in announcing :
          /\ Publish(v) /\ announcing' = announcing \ {v}
          /\ UNCHANGED <<row, current, queryVars>>
    BY <1>3 DEF Announce
  <2>2. inbox' \in [Sockets -> SUBSET (0 .. row)]
    BY <1>0, <2>1, PublishKeeps DEF PageInv, PageTyped, Versions
  <2> QED
    BY <2>1, <2>2 DEF queryVars, PageInv, PageTyped, Versions, AnswerIsNew, HeardIsShown
<1>4. CASE GrantChanges \/ SessionEnds
  BY <1>4 DEF GrantChanges, SessionEnds, socketVars, queryVars, PageInv, PageTyped, Versions,
              AnswerIsNew, HeardIsShown
<1>5. ASSUME NEW s \in Sockets, Connect(s) \/ Close(s) PROVE PageInv'
  <2>1. /\ inbox' = [inbox EXCEPT ![s] = {}] /\ current' \in {s, current}
        /\ UNCHANGED <<row, announcing, queryVars>>
    BY <1>5 DEF Connect, Close, worldVars
  <2>2. inbox' \in [Sockets -> SUBSET (0 .. row)]
    BY <2>1 DEF PageInv, PageTyped, Versions
  <2> QED
    BY <2>1, <2>2 DEF queryVars, PageInv, PageTyped, Versions, AnswerIsNew, HeardIsShown
<1>6. ASSUME NEW s \in Sockets, ReadUser(s) \/ Register(s) \/ Cut(s) \/ Pong(s) PROVE PageInv'
  <2>1. UNCHANGED <<row, announcing, inbox, current, queryVars>>
    BY <1>6 DEF ReadUser, Register, Cut, Pong, worldVars
  <2> QED
    BY <2>1 DEF queryVars, PageInv, PageTyped, Versions, AnswerIsNew, HeardIsShown
<1>7. CASE NoticeCut
  <2>1. /\ inbox' = [inbox EXCEPT ![current] = {}]
        /\ UNCHANGED <<row, announcing, current, queryVars>>
    BY <1>7 DEF NoticeCut, worldVars
  <2>2. inbox' \in [Sockets -> SUBSET (0 .. row)]
    BY <2>1 DEF PageInv, PageTyped, Versions
  <2> QED
    BY <2>1, <2>2 DEF queryVars, PageInv, PageTyped, Versions, AnswerIsNew, HeardIsShown
<1>8. CASE PingAll
  BY <1>8 DEF PingAll, worldVars, queryVars, PageInv, PageTyped, Versions, AnswerIsNew, HeardIsShown
<1>9. CASE Restart
  BY <1>9 DEF Restart, queryVars, PageInv, PageTyped, Versions, AnswerIsNew, HeardIsShown
<1>10. ASSUME NEW v \in 1 .. MaxChanges, HandleEvent(v) PROVE PageInv'
  <2>1. /\ inbox' = [inbox EXCEPT ![current] = @ \ {v}]
        /\ UNCHANGED <<row, announcing, current, shown, failed>>
        /\ current \in Sockets /\ v \in inbox[current]
    BY <1>10 DEF HandleEvent, worldVars, PageInv, PageTyped
  <2>2. inbox' \in [Sockets -> SUBSET (0 .. row)] /\ v \in 0 .. row
    BY <2>1 DEF PageInv, PageTyped, Versions
  <2>3. CASE UNCHANGED <<query, heard>>
    BY <2>1, <2>2, <2>3 DEF PageInv, PageTyped, Versions, AnswerIsNew, HeardIsShown
  <2>4. CASE query' = Asked /\ heard' \in {v, heard}
    <3>1. query' \in [pc : {"idle", "asked", "answered"}, val : Int] /\ query'.pc = "asked"
      BY <2>4, SMT DEF Asked, Absent
    <3>2. heard' \in 0 .. row
      BY <2>2, <2>4 DEF PageInv, PageTyped, Versions
    <3> QED
      BY <2>1, <2>2, <3>1, <3>2 DEF PageInv, PageTyped, Versions, AnswerIsNew, HeardIsShown
  <2> QED
    BY <1>10, <2>3, <2>4 DEF HandleEvent
<1>11. CASE DashboardOpens \/ Poll
  <2>1. query' = Asked /\ UNCHANGED <<row, announcing, current, inbox, shown, failed, heard>>
    BY <1>11 DEF DashboardOpens, Poll, worldVars, socketVars
  <2>2. query' \in [pc : {"idle", "asked", "answered"}, val : Int] /\ query'.pc = "asked"
    BY <2>1, SMT DEF Asked, Absent
  <2> QED
    BY <2>1, <2>2 DEF PageInv, PageTyped, Versions, AnswerIsNew, HeardIsShown
<1>12. CASE List
  <2>1. /\ query' = [pc |-> "answered", val |-> IF Visible THEN row ELSE Absent]
        /\ UNCHANGED <<row, announcing, current, inbox, shown, failed, heard>>
    BY <1>12 DEF List, worldVars, socketVars
  <2>2. query' \in [pc : {"idle", "asked", "answered"}, val : Int] /\ AnswerIsNew'
    BY <2>1, SMT DEF Absent, AnswerIsNew, PageInv, PageTyped, Versions
  <2>3. query'.pc # "idle"
    BY <2>1
  <2> QED
    BY <2>1, <2>2, <2>3 DEF PageInv, PageTyped, Versions, HeardIsShown
<1>13. CASE Show
  <2>1. /\ shown' = query.val /\ query' = NoFetch /\ failed' = FALSE /\ query.pc = "answered"
        /\ UNCHANGED <<row, announcing, current, inbox, heard>>
    BY <1>13 DEF Show, worldVars, socketVars
  <2>2. query' \in [pc : {"idle", "asked", "answered"}, val : Int] /\ query'.pc = "idle"
    BY <2>1, SMT DEF NoFetch, Absent
  <2>3. shown' \in Int /\ (shown' >= 0 => shown' >= heard)
    BY <2>1, SMT DEF Absent, PageInv, PageTyped, AnswerIsNew, Versions
  <2> QED
    BY <2>1, <2>2, <2>3 DEF PageInv, PageTyped, Versions, AnswerIsNew, HeardIsShown
<1>14. CASE FetchFails
  <2>1. /\ query' = NoFetch /\ failed' = TRUE
        /\ UNCHANGED <<row, announcing, current, inbox, shown, heard>>
    BY <1>14 DEF FetchFails, worldVars, socketVars
  <2>2. query' \in [pc : {"idle", "asked", "answered"}, val : Int] /\ query'.pc = "idle"
    BY <2>1, SMT DEF NoFetch, Absent
  <2> QED
    BY <2>1, <2>2 DEF PageInv, PageTyped, Versions, AnswerIsNew, HeardIsShown
<1>15. CASE UNCHANGED liveVars
  BY <1>15 DEF liveVars, worldVars, socketVars, queryVars, PageInv, PageTyped, Versions,
               AnswerIsNew, HeardIsShown
<1> QED
  BY <1>1, <1>2, <1>3, <1>4, <1>5, <1>6, <1>7, <1>8, <1>9, <1>10, <1>11, <1>12, <1>13, <1>14,
     <1>15 DEF LiveNext

(* At rest without an error, the page is as new as every event the browser  *)
(* handled, whatever fetches were dropped, joined or failed meanwhile.      *)
THEOREM PageKeepsUp == LiveSpec => []HeardIsShown
<1>1. PageInv => HeardIsShown
  BY DEF PageInv
<1> QED
  BY <1>1, PageInitEstablishes, PageStepKeeps, PTL DEF LiveSpec
=============================================================================
