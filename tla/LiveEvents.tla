----------------------------- MODULE LiveEvents -----------------------------
(***************************************************************************)
(* What a dashboard shows of one portfolio's trading state.                 *)
(* apps/api/src/modules/ws/gateway.ts and registerWebSocket in app.ts fan   *)
(* the kill switch's events out to sockets; useLiveEvents.ts reconnects and *)
(* invalidates queries; DashboardPage and RiskMonitor also poll.            *)
(*                                                                         *)
(* `row` counts the changes of the portfolio's row: what a query returned   *)
(* and what an event announced are versions of it.  The browser opens one   *)
(* socket after another, and the server may hold one its peer has left.     *)
(***************************************************************************)
EXTENDS Integers, FiniteSets

CONSTANTS
  MaxChanges,   \* bound: changes of the row
  Sockets       \* sockets the browser and the server hold at a time

ASSUME LiveEventsAssumption == MaxChanges \in Nat

VARIABLES
  row,          \* version of the portfolio's row
  announcing,   \* versions committed by engage(), not yet published
  admin,        \* the user's role is ADMIN
  granted,      \* the database lets the user read the portfolio
  signedIn,     \* the access cookie is valid and the user active
  mounted,      \* the dashboard is on screen
  current,      \* the browser's latest socket
  status,       \* useLiveEvents' status
  link,         \* per socket: "up", "closing" by the server, "cut" without a word, "closed"
  server,       \* per socket: how far registerWebSocket has come
  sub,          \* per socket: its Subscriber: whether portfolioIds has the
                \* portfolio, isAlive, and (history) heartbeats without a peer
  inbox,        \* per socket: events sent and not yet handled
  query,        \* the ['portfolios'] query: its fetch
  shown,        \* what the page shows: a version, Absent, or Nothing before the first answer
  failed,       \* the query's last fetch failed
  heard         \* history: newest event handled once there was an answer

NoSocket == "none"
Absent  == -1
Nothing == -2
NoSub   == [scope |-> FALSE, alive |-> FALSE, beats |-> 0]
NoFetch == [pc |-> "idle", val |-> Absent]
Asked   == [pc |-> "asked", val |-> Absent]

socketVars == <<mounted, current, status, link, server, sub, inbox>>
queryVars  == <<query, shown, failed, heard>>
worldVars  == <<row, announcing, admin, granted, signedIn>>
liveVars   == <<worldVars, socketVars, queryVars>>

Subscribers == {s \in Sockets : server[s] = "registered"}
Visible == admin \/ granted
-----------------------------------------------------------------------------
(* The row changes; engage() publishes after its commit, its sweep and its  *)
(* audit entry, release() does not publish.                                 *)

Release ==
  /\ row < MaxChanges
  /\ row' = row + 1
  /\ UNCHANGED <<announcing, admin, granted, signedIn, socketVars, queryVars>>

(* Subscribers leave the set; the others become as given.                   *)
Delete(gone, subs) ==
  /\ server' = [s \in Sockets |-> IF s \in gone THEN "none" ELSE server[s]]
  /\ sub' = [s \in Sockets |-> IF s \in gone THEN NoSub ELSE subs[s]]

(* mayReceive(): a null scope, an administrator's, admits every portfolio.  *)
MayReceive(s) == admin \/ sub[s].scope

(* publish(): ws drops a frame for a socket that is not open any more.      *)
Publish(v) ==
  inbox' = [s \in Sockets |-> IF s \in Subscribers /\ MayReceive(s) /\ link[s] = "up"
                              THEN inbox[s] \cup {v} ELSE inbox[s]]

(* Mutant of Engage: the event is published before the transaction commits. *)
EngagePublishingFirst ==
  /\ row < MaxChanges /\ announcing = {}
  /\ announcing' = {row + 1}
  /\ Publish(row + 1)
  /\ UNCHANGED <<row, admin, granted, signedIn, mounted, current, status, link, server, sub, queryVars>>

Engage ==
  /\ row < MaxChanges
  /\ row' = row + 1 /\ announcing' = announcing \cup {row + 1}
  /\ UNCHANGED <<admin, granted, signedIn, socketVars, queryVars>>

Announce ==
  \E v \in announcing :
    /\ Publish(v)
    /\ announcing' = announcing \ {v}
    /\ UNCHANGED <<row, admin, granted, signedIn, mounted, current, status, link, server, sub, queryVars>>

(* Grants and sessions change outside the gateway.                          *)
GrantChanges ==
  /\ granted' = ~granted
  /\ UNCHANGED <<row, announcing, admin, signedIn, mounted, current, status, link, server, sub, inbox, queryVars>>

SessionEnds ==
  /\ signedIn /\ signedIn' = FALSE
  /\ UNCHANGED <<row, announcing, admin, granted, socketVars, queryVars>>
-----------------------------------------------------------------------------
(* registerWebSocket: the upgrade is complete, so the browser sees the      *)
(* socket open, before the token is verified and the user and scope read.   *)

Connect(s) ==
  /\ mounted /\ status = "closed"
  /\ link[s] \in {"closed", "cut"} /\ server[s] = "none"
  /\ current' = s /\ status' = "open"
  /\ link' = [link EXCEPT ![s] = "up"] /\ server' = [server EXCEPT ![s] = "accepted"]
  /\ inbox' = [inbox EXCEPT ![s] = {}]
  /\ UNCHANGED <<worldVars, mounted, sub, queryVars>>

(* socket.close(4401)                                                       *)
ReadUser(s) ==
  /\ server[s] = "accepted"
  /\ IF signedIn THEN server' = [server EXCEPT ![s] = "reading"] /\ UNCHANGED link
     ELSE /\ server' = [server EXCEPT ![s] = "none"]
          /\ link' = [link EXCEPT ![s] = IF @ = "up" THEN "closing" ELSE @]
  /\ UNCHANGED <<worldVars, mounted, current, status, sub, inbox, queryVars>>

(* listAccessiblePortfolioIds(), then register() in the same continuation.  *)
(* A socket closed meanwhile is registered like any other: its close event  *)
(* had no listener.                                                         *)
Register(s) ==
  /\ server[s] = "reading"
  /\ server' = [server EXCEPT ![s] = "registered"]
  /\ sub' = [sub EXCEPT ![s] = [scope |-> granted, alive |-> TRUE, beats |-> 0]]
  /\ UNCHANGED <<worldVars, mounted, current, status, link, inbox, queryVars>>

(* The browser's end goes away without a word, or closes.                   *)
Cut(s) ==
  /\ link[s] = "up"
  /\ link' = [link EXCEPT ![s] = "cut"]
  /\ UNCHANGED <<worldVars, mounted, current, status, server, sub, inbox, queryVars>>

Close(s) ==
  /\ link[s] \in {"up", "closing"}
  /\ link' = [link EXCEPT ![s] = "closed"] /\ inbox' = [inbox EXCEPT ![s] = {}]
  /\ IF server[s] = "registered" THEN Delete({s}, sub) ELSE UNCHANGED <<server, sub>>
  /\ status' = IF s = current THEN "closed" ELSE status
  /\ UNCHANGED <<worldVars, mounted, current, queryVars>>

(* onclose after a cut, when the browser gives up on the connection.        *)
NoticeCut ==
  /\ current # NoSocket /\ status = "open" /\ link[current] = "cut"
  /\ status' = "closed" /\ inbox' = [inbox EXCEPT ![current] = {}]
  /\ UNCHANGED <<worldVars, mounted, current, link, server, sub, queryVars>>

Pong(s) ==
  /\ s \in Subscribers /\ link[s] = "up" /\ ~sub[s].alive
  /\ sub' = [sub EXCEPT ![s].alive = TRUE]
  /\ UNCHANGED <<worldVars, mounted, current, status, link, server, inbox, queryVars>>

Silent == {s \in Subscribers : ~sub[s].alive}

(* A subscriber that outlives its peer: heartbeats since then, 3 for more.  *)
Beat(s) == IF link[s] \notin {"up", "closing"} /\ sub[s].beats < 3
           THEN sub[s].beats + 1 ELSE sub[s].beats

(* Mutant of Pinged: isAlive is not cleared before the ping.                *)
PingedTrusting(s) == [sub[s] EXCEPT !.beats = Beat(s)]

Pinged(s) == [sub[s] EXCEPT !.alive = FALSE, !.beats = Beat(s)]

(* pingAll(): who did not answer the previous ping is terminated.           *)
PingAll ==
  /\ Subscribers # {}
  /\ Delete(Silent, [s \in Sockets |-> IF s \in Subscribers THEN Pinged(s) ELSE sub[s]])
  /\ link' = [s \in Sockets |-> IF s \in Silent /\ link[s] = "up" THEN "closing" ELSE link[s]]
  /\ UNCHANGED <<worldVars, mounted, current, status, inbox, queryVars>>

(* stop() on shutdown, or a crash, and start() of the next process: every   *)
(* subscriber and every event not yet published is lost.                    *)
Restart ==
  /\ Delete(Sockets, sub)
  /\ link' = [s \in Sockets |-> IF link[s] = "up" THEN "closing" ELSE link[s]]
  /\ announcing' = {}
  /\ UNCHANGED <<row, admin, granted, signedIn, mounted, current, status, inbox, queryVars>>
-----------------------------------------------------------------------------
(* The page.                                                                *)

DashboardOpens ==
  /\ ~mounted
  /\ mounted' = TRUE /\ query' = Asked
  /\ UNCHANGED <<worldVars, current, status, link, server, sub, inbox, shown, failed, heard>>

(* onmessage: invalidateQueries drops the fetch in flight and asks again,   *)
(* unless that fetch is the first: then it is joined.                       *)
HandleEvent(v) ==
  /\ current # NoSocket /\ status = "open" /\ v \in inbox[current]
  /\ inbox' = [inbox EXCEPT ![current] = @ \ {v}]
  /\ IF shown = Nothing /\ query.pc # "idle"
     THEN UNCHANGED <<query, heard>>
     ELSE query' = Asked /\ heard' = IF v > heard THEN v ELSE heard
  /\ UNCHANGED <<worldVars, mounted, current, status, link, server, sub, shown, failed>>

(* Mutant of Poll: the query has no refetchInterval.                        *)
PollUntilShown ==
  /\ mounted /\ query.pc = "idle" /\ shown = Nothing
  /\ query' = Asked
  /\ UNCHANGED <<worldVars, socketVars, shown, failed, heard>>

(* refetchInterval; a fetch already in flight is left alone.                *)
Poll ==
  /\ mounted /\ query.pc = "idle"
  /\ query' = Asked
  /\ UNCHANGED <<worldVars, socketVars, shown, failed, heard>>

(* PortfolioService.list(): the portfolios in scope, as the table is now.   *)
List ==
  /\ query.pc = "asked" /\ signedIn
  /\ query' = [pc |-> "answered", val |-> IF Visible THEN row ELSE Absent]
  /\ UNCHANGED <<worldVars, socketVars, shown, failed, heard>>

Show ==
  /\ query.pc = "answered"
  /\ shown' = query.val /\ failed' = FALSE /\ query' = NoFetch
  /\ UNCHANGED <<worldVars, socketVars, heard>>

FetchFails ==
  /\ query.pc # "idle"
  /\ failed' = TRUE /\ query' = NoFetch
  /\ UNCHANGED <<worldVars, socketVars, shown, heard>>
-----------------------------------------------------------------------------
LiveInit ==
  /\ row = 0 /\ announcing = {} /\ admin \in BOOLEAN /\ granted \in BOOLEAN /\ signedIn = TRUE
  /\ mounted = FALSE /\ current = NoSocket /\ status = "closed"
  /\ link = [s \in Sockets |-> "closed"] /\ server = [s \in Sockets |-> "none"]
  /\ sub = [s \in Sockets |-> NoSub]
  /\ inbox = [s \in Sockets |-> {}]
  /\ query = NoFetch /\ shown = Nothing /\ failed = FALSE
  /\ heard = 0

LiveNext ==
  \/ Release \/ Engage \/ Announce \/ GrantChanges \/ SessionEnds
  \/ NoticeCut \/ PingAll \/ Restart
  \/ \E s \in Sockets : Connect(s) \/ ReadUser(s) \/ Register(s) \/ Cut(s) \/ Close(s) \/ Pong(s)
  \/ \E v \in 1 .. MaxChanges : HandleEvent(v)
  \/ DashboardOpens \/ Poll \/ List \/ Show \/ FetchFails

LiveSpec == LiveInit /\ [][LiveNext]_liveVars

(* The timers of React Query run, and a request that is repeated for ever   *)
(* is not answered with an error for ever.                                  *)
LiveFairness == WF_liveVars(Poll) /\ SF_liveVars(List) /\ SF_liveVars(Show)
-----------------------------------------------------------------------------
(* Whatever is fetched, dropped, joined or failed meanwhile: once the query *)
(* is at rest without an error, the page is at least as new as every event  *)
(* the browser has handled.                                                 *)
HeardIsShown == query.pc = "idle" /\ ~failed /\ shown >= 0 => shown >= heard

(* Losing events, sockets and restarts delays the truth but does not hide   *)
(* it: the page of a user whose session lasts ends up with the row as it    *)
(* is, or without it once the grant is gone.                                *)
ShownEventually ==
  /\ <>[](mounted /\ signedIn /\ Visible)  => <>[](shown = row)
  /\ <>[](mounted /\ signedIn /\ ~Visible) => <>[](shown = Absent)

(* However a connection ends, even during its handshake, its subscriber     *)
(* survives one heartbeat at most: the second one drops it.                 *)
DeadSocketsGo == \A s \in Subscribers : sub[s].beats <= 1
=============================================================================
