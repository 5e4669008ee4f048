------------------------------- MODULE Access -------------------------------
(***************************************************************************)
(* Who may reach which portfolio: access-control.ts, permissions.ts,        *)
(* AuthService.accessiblePortfolioIds() and the scope a websocket is        *)
(* registered with (app.ts, gateway.ts), which answer the same question     *)
(* each in its own way, over grants, client links and ownership that change.*)
(***************************************************************************)
EXTENDS FiniteSets

CONSTANTS Users, Clients, Folios

VARIABLES
  role,      \* of each user; set outside the API
  memberOf,  \* clientId of each user, or NoClient
  folios,    \* portfolios that exist
  owner,     \* clientId of each portfolio, or NoClient
  linked,    \* client_portfolios: pairs of client and portfolio
  grants,    \* portfolio_access: user, portfolio, canTrade
  subscriber,  \* of each user: the websocket, with the scope it was given
  changed      \* history, of each user: portfolios whose grants, links or
               \* existence changed for the user since the socket got its scope

rows       == <<role, memberOf, folios, owner, linked, grants>>
accessVars == <<rows, subscriber, changed>>

NoClient == "none"
NoSocket == [isOpen |-> FALSE, all |-> FALSE, portfolioIds |-> {}]
Viewer   == {"portfolio:read", "position:read", "performance:read"}
Client   == Viewer \cup {"order:read", "signal:read", "risk:read", "report:read", "strategy:read"}
Manager  == Client \cup {"client:read", "portfolio:write", "broker_account:read", "strategy:write",
                         "signal:approve", "order:write", "backtest:read", "backtest:write",
                         "kill_switch:activate", "system:read"}
Admin    == Manager \cup {"user:read", "user:write", "client:write", "broker_account:write",
                          "strategy:promote", "risk:write", "kill_switch:release", "audit:read",
                          "system:write"}

RolePermissions == [VIEWER |-> Viewer, CLIENT |-> Client, MANAGER |-> Manager, ADMIN |-> Admin]
MayDo(u, permission) == permission \in RolePermissions[role[u]]
-----------------------------------------------------------------------------
Granted(u) == {g.folio : g \in {h \in grants : h.user = u}}

(* Mutant of PortfolioScope: only the owning client's clause.               *)
PortfolioScopeUnlinked(u) ==
  {p \in folios : \/ role[u] = "ADMIN"
                  \/ p \in Granted(u)
                  \/ memberOf[u] # NoClient /\ owner[p] = memberOf[u]}

(* portfolioScope(): the `where` of every scoped read.                      *)
PortfolioScope(u) ==
  {p \in folios : \/ role[u] = "ADMIN"
                  \/ p \in Granted(u)
                  \/ memberOf[u] # NoClient
                     /\ (owner[p] = memberOf[u] \/ <<memberOf[u], p>> \in linked)}

(* accessiblePortfolioIds(): what the signed-in user's browser is told. An  *)
(* administrator's list is all of them and not empty, as schemas.ts:79 says.*)
AccessiblePortfolioIds(u) ==
  IF role[u] = "ADMIN" THEN folios
  ELSE Granted(u) \cup
       (IF memberOf[u] = NoClient THEN {}
        ELSE {p \in folios : owner[p] = memberOf[u] \/ <<memberOf[u], p>> \in linked})

(* WebSocketGateway.mayReceive(); a null scope receives everything.         *)
MayReceive(u, p) ==
  LET sub == subscriber[u] IN sub.isOpen /\ (sub.all \/ p \in sub.portfolioIds)

(* assertPortfolioAccess(): what is not in scope does not exist.            *)
AssertPortfolioAccess(u, p, permission, requireTrade) ==
  IF ~MayDo(u, permission) THEN "FORBIDDEN"
  ELSE IF p \notin PortfolioScope(u) THEN "NOT_FOUND"
  ELSE IF requireTrade /\ role[u] # "ADMIN"
          /\ [user |-> u, folio |-> p, canTrade |-> TRUE] \notin grants
  THEN "FORBIDDEN" ELSE "ok"
-----------------------------------------------------------------------------
Concerns(users, p) ==
  /\ changed' = [u \in Users |-> IF u \in users /\ subscriber[u].isOpen
                                THEN changed[u] \cup {p} ELSE changed[u]]
  /\ UNCHANGED subscriber

MembersOf(c) == {u \in Users : memberOf[u] = c}

(* PortfolioService.create(): owner and primary link together; its creator  *)
(* gets no grant.                                                           *)
Create(u, p, c) ==
  /\ MayDo(u, "portfolio:write") /\ p \notin folios
  /\ folios' = folios \cup {p}
  /\ owner' = [owner EXCEPT ![p] = c]
  /\ linked' = IF c = NoClient THEN linked ELSE linked \cup {<<c, p>>}
  /\ Concerns(Users, p)
  /\ UNCHANGED <<role, memberOf, grants>>

(* Grants (one per user and portfolio) and links are kept outside the API.  *)
Grant(u, p, trade) ==
  /\ p \in folios
  /\ grants' = {g \in grants : g.user # u \/ g.folio # p}
               \cup {[user |-> u, folio |-> p, canTrade |-> trade]}
  /\ Concerns({u}, p)
  /\ UNCHANGED <<role, memberOf, folios, owner, linked>>

Revoke(g) ==
  /\ grants' = grants \ {g} /\ Concerns({g.user}, g.folio)
  /\ UNCHANGED <<role, memberOf, folios, owner, linked>>

Link(c, p) ==
  /\ p \in folios
  /\ linked' = linked \cup {<<c, p>>} /\ Concerns(MembersOf(c), p)
  /\ UNCHANGED <<role, memberOf, folios, owner, grants>>

Unlink(l) ==
  /\ linked' = linked \ {l} /\ Concerns(MembersOf(l[1]), l[2])
  /\ UNCHANGED <<role, memberOf, folios, owner, grants>>

(* A socket, in place of the last: it gets its scope once and for all.      *)
Register(u) ==
  /\ subscriber' = [subscriber EXCEPT ![u] =
       [isOpen |-> TRUE, all |-> role[u] = "ADMIN",
        portfolioIds |-> IF role[u] = "ADMIN" THEN {} ELSE PortfolioScope(u)]]
  /\ changed' = [changed EXCEPT ![u] = {}]
  /\ UNCHANGED rows

AccessInit ==
  /\ role \in [Users -> DOMAIN RolePermissions]
  /\ memberOf \in [Users -> Clients \cup {NoClient}]
  /\ folios = {} /\ owner = [p \in Folios |-> NoClient] /\ linked = {} /\ grants = {}
  /\ subscriber = [u \in Users |-> NoSocket] /\ changed = [u \in Users |-> {}]

AccessNext ==
  \/ \E u \in Users, p \in Folios :
       \/ \E c \in Clients \cup {NoClient} : Create(u, p, c)
       \/ \E trade \in BOOLEAN : Grant(u, p, trade)
  \/ \E g \in grants : Revoke(g)
  \/ \E c \in Clients, p \in Folios : Link(c, p)
  \/ \E l \in linked : Unlink(l)
  \/ \E u \in Users : Register(u)

AccessSpec == AccessInit /\ [][AccessNext]_accessVars
-----------------------------------------------------------------------------
MayOpen(u, p) == AssertPortfolioAccess(u, p, "portfolio:read", FALSE) = "ok"

(* The list a browser is told and the filter of its queries name the same   *)
(* portfolios whatever was granted, linked, created or taken away. A socket *)
(* delivers the events of the portfolios a request may name, but for what   *)
(* has changed for its user since it opened; an administrator's always does.*)
ScopesAgree ==
  \A u \in Users :
    /\ AccessiblePortfolioIds(u) = PortfolioScope(u)
    /\ subscriber[u].isOpen =>
         \A p \in folios :
           \/ MayReceive(u, p) <=> MayOpen(u, p)
           \/ role[u] # "ADMIN" /\ p \in changed[u]

(* "Every message is filtered by the same portfolio scope as the REST API", *)
(* says gateway.ts. The socket keeps the scope of the moment it opened.     *)
SocketScopeIsReadScope ==
  \A u \in Users, p \in folios :
    subscriber[u].isOpen => (MayReceive(u, p) <=> MayOpen(u, p))
=============================================================================
