--------------------------- MODULE PlatformProofs ---------------------------
(***************************************************************************)
(* For any users, clients and portfolios, everyone gets the same answer to  *)
(* who may reach a portfolio; for any quotes and moves of the books, its    *)
(* summary says what it is worth and what prices have earned; for any       *)
(* number of rows and runs, a seed that ended is complete.                  *)
(***************************************************************************)
EXTENDS Access, Valuation, Seed, TLAPS

(* Only roles of RolePermissions exist, and grants name portfolios that     *)
(* exist: nothing deletes a portfolio. A socket has the scope that its user *)
(* has, but for what has changed.                                           *)
SocketKeepsScope(u) ==
  /\ subscriber[u].all <=> subscriber[u].isOpen /\ role[u] = "ADMIN"
  /\ subscriber[u].isOpen /\ role[u] # "ADMIN" =>
       \A p \in folios : p \in changed[u] \/ (p \in subscriber[u].portfolioIds <=> p \in PortfolioScope(u))

AccessInv ==
  /\ role \in [Users -> DOMAIN RolePermissions]
  /\ DOMAIN subscriber = Users /\ DOMAIN changed = Users
  /\ linked \subseteq Clients \X Folios
  /\ folios \subseteq Folios
  /\ \A g \in grants : g.folio \in folios /\ g.user \in Users
  /\ \A l \in linked : l[2] \in folios
  /\ \A u \in Users : SocketKeepsScope(u)
-----------------------------------------------------------------------------
LEMMA AccessInit_Inv == AccessInit => AccessInv
BY DEF AccessInit, AccessInv, SocketKeepsScope, NoSocket

(* A change that concerns the users whose scope it changes, and says so,    *)
(* leaves every socket right about the rest.                                *)
LEMMA ConcernsKeeps ==
  ASSUME AccessInv, NEW users, NEW p, Concerns(users, p), UNCHANGED role,
         \A q \in folios' : q \in folios \/ q = p,
         p \notin folios => Users \subseteq users,
         \A u \in Users \ users : \A q \in folios :
           q \in PortfolioScope(u)' <=> q \in PortfolioScope(u),
         \A u \in Users : \A q \in folios \ {p} :
           q \in PortfolioScope(u)' <=> q \in PortfolioScope(u)
  PROVE  \A u \in Users : SocketKeepsScope(u)'
<1> SUFFICES ASSUME NEW u \in Users PROVE SocketKeepsScope(u)'
  OBVIOUS
<1>1. /\ SocketKeepsScope(u) /\ UNCHANGED subscriber
      /\ changed'[u] = IF u \in users /\ subscriber[u].isOpen THEN changed[u] \cup {p} ELSE changed[u]
  BY DEF AccessInv, Concerns
<1>2. ASSUME subscriber[u].isOpen, role[u] # "ADMIN", NEW q \in folios', q \notin changed'[u]
      PROVE  q \in subscriber[u].portfolioIds <=> q \in PortfolioScope(u)'
  <2>1. q \notin changed[u] /\ (u \in users => q # p)
    BY <1>1, <1>2
  <2>2. q \in folios
    BY <1>2, <2>1
  <2>3. q \in PortfolioScope(u)' <=> q \in PortfolioScope(u)
    BY <2>1, <2>2
  <2> QED
    BY <1>1, <1>2, <2>1, <2>2, <2>3 DEF SocketKeepsScope
<1> QED
  BY <1>1, <1>2 DEF SocketKeepsScope

LEMMA CreateKeeps ==
  ASSUME AccessInv, NEW u \in Users, NEW p \in Folios, NEW c \in Clients \cup {NoClient}, Create(u, p, c)
  PROVE  AccessInv'
<1>1. /\ p \notin folios /\ folios' = folios \cup {p} /\ Concerns(Users, p)
      /\ UNCHANGED <<role, memberOf, grants>>
      /\ owner' = [owner EXCEPT ![p] = c]
      /\ linked' = linked \/ (c \in Clients /\ linked' = linked \cup {<<c, p>>})
  BY DEF Create
<1>2. \A v \in Users : \A q \in folios \ {p} : q \in PortfolioScope(v)' <=> q \in PortfolioScope(v)
  <2> SUFFICES ASSUME NEW v \in Users, NEW q \in folios, q # p
               PROVE  q \in PortfolioScope(v)' <=> q \in PortfolioScope(v)
    OBVIOUS
  <2>1. owner'[q] = owner[q] /\ (<<memberOf[v], q>> \in linked' <=> <<memberOf[v], q>> \in linked)
    BY <1>1
  <2> QED
    BY <1>1, <2>1 DEF PortfolioScope, Granted
<1>3. \A v \in Users : SocketKeepsScope(v)'
  BY <1>1, <1>2, ConcernsKeeps
<1> QED
  BY <1>1, <1>3 DEF AccessInv, Concerns

LEMMA GrantsKeep ==
  ASSUME AccessInv, NEW v \in Users, NEW p \in folios, Concerns({v}, p),
         UNCHANGED <<role, memberOf, folios, owner, linked>>,
         \A g \in grants' : g.folio \in folios /\ g.user \in Users,
         \A g : g.user # v \/ g.folio # p => (g \in grants' <=> g \in grants)
  PROVE  AccessInv'
<1>1. ASSUME NEW u \in Users, NEW q \in folios, u # v \/ q # p
      PROVE  q \in PortfolioScope(u)' <=> q \in PortfolioScope(u)
  <2>1. q \in Granted(u)' <=> q \in Granted(u)
    BY <1>1 DEF Granted
  <2> QED
    BY <2>1 DEF PortfolioScope
<1>2. \A u \in Users : SocketKeepsScope(u)'
  BY <1>1, ConcernsKeeps
<1> QED
  BY <1>2 DEF AccessInv, Concerns

LEMMA LinksKeep ==
  ASSUME AccessInv, NEW c \in Clients, NEW p \in folios, Concerns(MembersOf(c), p),
         UNCHANGED <<role, memberOf, folios, owner, grants>>,
         linked' \subseteq Clients \X Folios, \A l \in linked' : l[2] \in folios,
         \A l : l # <<c, p>> => (l \in linked' <=> l \in linked)
  PROVE  AccessInv'
<1>1. ASSUME NEW u \in Users, NEW q \in folios, u \notin MembersOf(c) \/ q # p
      PROVE  q \in PortfolioScope(u)' <=> q \in PortfolioScope(u)
  <2>1. <<memberOf[u], q>> \in linked' <=> <<memberOf[u], q>> \in linked
    BY <1>1 DEF MembersOf
  <2> QED
    BY <2>1 DEF PortfolioScope, Granted
<1>2. \A u \in Users : SocketKeepsScope(u)'
  BY <1>1, ConcernsKeeps
<1> QED
  BY <1>2 DEF AccessInv, Concerns

LEMMA RegisterKeeps ==
  ASSUME AccessInv, NEW u \in Users, Register(u)
  PROVE  AccessInv'
<1>1. UNCHANGED rows /\ DOMAIN subscriber' = Users /\ DOMAIN changed' = Users
  BY DEF Register, AccessInv
<1>2. SocketKeepsScope(u)'
  BY DEF Register, AccessInv, SocketKeepsScope, rows, PortfolioScope, Granted
<1>3. ASSUME NEW v \in Users, v # u PROVE SocketKeepsScope(v)'
  BY <1>3 DEF Register, AccessInv, SocketKeepsScope, rows, PortfolioScope, Granted
<1> QED
  BY <1>1, <1>2, <1>3 DEF AccessInv, rows

LEMMA AccessNext_Inv == AccessInv /\ [AccessNext]_accessVars => AccessInv'
<1> SUFFICES ASSUME AccessInv, [AccessNext]_accessVars
             PROVE  AccessInv'
  OBVIOUS
<1>1. ASSUME NEW u \in Users, NEW p \in Folios, NEW c \in Clients \cup {NoClient}, Create(u, p, c)
      PROVE  AccessInv'
  BY <1>1, CreateKeeps
<1>2. ASSUME NEW u \in Users, NEW p \in Folios, NEW trade \in BOOLEAN, Grant(u, p, trade)
      PROVE  AccessInv'
  <2>1. \A g : g.user # u \/ g.folio # p => (g \in grants' <=> g \in grants)
    BY <1>2 DEF Grant
  <2> QED
    BY <1>2, <2>1, GrantsKeep DEF Grant, AccessInv
<1>3. ASSUME NEW g \in grants, Revoke(g)
      PROVE  AccessInv'
  BY <1>3, GrantsKeep DEF Revoke, AccessInv
<1>4. ASSUME NEW c \in Clients, NEW p \in Folios, Link(c, p)
      PROVE  AccessInv'
  BY <1>4, LinksKeep DEF Link, AccessInv
<1>5. ASSUME NEW l \in linked, Unlink(l)
      PROVE  AccessInv'
  BY <1>5, LinksKeep DEF Unlink, AccessInv
<1>6. CASE \E u \in Users : Register(u)
  BY <1>6, RegisterKeeps
<1>7. CASE UNCHANGED accessVars
  BY <1>7 DEF accessVars, rows, AccessInv, SocketKeepsScope, PortfolioScope, Granted
<1> QED
  BY <1>1, <1>2, <1>3, <1>4, <1>5, <1>6, <1>7 DEF AccessNext, AccessInv

(* Every role may read the portfolios in its scope.                         *)
LEMMA ReadingIsForAll ==
  ASSUME AccessInv, NEW u \in Users
  PROVE  MayDo(u, "portfolio:read")
<1>1. "portfolio:read" \in Viewer
  BY DEF Viewer
<1>2. Viewer \subseteq Client /\ Client \subseteq Manager /\ Manager \subseteq Admin
  BY DEF Client, Manager, Admin
<1>3. role[u] \in {"VIEWER", "CLIENT", "MANAGER", "ADMIN"}
  BY DEF AccessInv, RolePermissions
<1> QED
  BY <1>1, <1>2, <1>3 DEF MayDo, RolePermissions

LEMMA InvAgrees == AccessInv => ScopesAgree
<1> SUFFICES ASSUME AccessInv, NEW u \in Users
             PROVE  /\ AccessiblePortfolioIds(u) = PortfolioScope(u)
                    /\ subscriber[u].isOpen =>
                         \A p \in folios :
                           \/ MayReceive(u, p) <=> MayOpen(u, p)
                           \/ role[u] # "ADMIN" /\ p \in changed[u]
  BY DEF ScopesAgree
<1>1. Granted(u) \subseteq folios
  BY DEF AccessInv, Granted
<1>2. AccessiblePortfolioIds(u) = PortfolioScope(u)
  BY <1>1 DEF AccessiblePortfolioIds, PortfolioScope
<1>3. ASSUME NEW p \in folios PROVE MayOpen(u, p) <=> p \in PortfolioScope(u)
  BY ReadingIsForAll DEF MayOpen, AssertPortfolioAccess
<1>4. ASSUME subscriber[u].isOpen, NEW p \in folios
      PROVE  \/ MayReceive(u, p) <=> p \in PortfolioScope(u)
             \/ role[u] # "ADMIN" /\ p \in changed[u]
  <2>1. SocketKeepsScope(u)
    BY DEF AccessInv
  <2>2. CASE role[u] = "ADMIN"
    BY <1>4, <2>1, <2>2 DEF SocketKeepsScope, MayReceive, PortfolioScope
  <2>3. CASE role[u] # "ADMIN"
    BY <1>4, <2>1, <2>3 DEF SocketKeepsScope, MayReceive
  <2> QED
    BY <2>2, <2>3
<1> QED
  BY <1>2, <1>3, <1>4

(* The portfolios a browser is told about (accessiblePortfolioIds) and      *)
(* those its queries return (portfolioScope) are the same, whatever is      *)
(* granted, linked and created. An open socket delivers the events of those *)
(* a request may name (assertPortfolioAccess), but for what was created,    *)
(* granted, linked or taken away for its user since it opened.              *)
THEOREM ScopesAlwaysAgree == AccessSpec => []ScopesAgree
<1>1. AccessInit => AccessInv
  BY AccessInit_Inv
<1>2. AccessInv /\ [AccessNext]_accessVars => AccessInv'
  BY AccessNext_Inv
<1>3. AccessInv => ScopesAgree
  BY InvAgrees
<1> QED
  BY <1>1, <1>2, <1>3, PTL DEF AccessSpec
-----------------------------------------------------------------------------
(* The summary of a portfolio.                                              *)

Flows     == [deposited : Nat, withdrawn : Nat]
Snapshots == [equity : Int, gained : Int, flow : Flows]
Marks     == [of : Int]
Reading   == [pc : {"idle", "row", "books", "marked", "done"}, cash : Int, quantity : Int,
              prior : Snapshots \cup {None}, mark : Marks \cup {None}]

Worth  == cash + quantity * price
Net(f) == f.deposited - f.withdrawn

BooksTyped ==
  /\ cash \in Int /\ quantity \in Int /\ price \in Int /\ gained \in Int
  /\ quoted \in BOOLEAN /\ gap \in BOOLEAN /\ flow \in Flows
  /\ prior \in Snapshots \cup {None} /\ latest \in Snapshots \cup {None}

(* What is held is worth what it was at a snapshot, plus what prices have   *)
(* earned and the money moved since.                                        *)
BooksBalance ==
  /\ prior # None /\ ~gap
       => Worth = prior.equity + (gained - prior.gained) + Net(flow)
  /\ latest # None
       => Worth = latest.equity + (gained - latest.gained) + Net(flow) - Net(latest.flow)

(* While nothing moves under it, a reader has read what is there.           *)
ReadIsCurrent ==
  /\ read.pc # "idle" => read.cash = cash
  /\ read.pc \in {"books", "marked", "done"} => read.quantity = quantity /\ read.prior = prior
  /\ read.pc \in {"marked", "done"}
       => read.mark = IF quantity # 0 /\ quoted THEN [of |-> price] ELSE None
  /\ read.pc = "done"
       => /\ summary.equity = IF quantity = 0 \/ quoted THEN [of |-> Worth] ELSE None
          /\ summary.dailyPnl # None
               => prior # None /\ summary.dailyPnl.of = Worth - prior.equity - Net(flow)

ValuationInv ==
  /\ BooksTyped /\ BooksBalance
  /\ read \in Reading /\ torn \in BOOLEAN
  /\ ~torn => ReadIsCurrent
-----------------------------------------------------------------------------
LEMMA ValuationInit_Inv == ValuationInit => ValuationInv
<1> SUFFICES ASSUME ValuationInit PROVE ValuationInv
    OBVIOUS
<1>1. quoted \in BOOLEAN /\ gap \in BOOLEAN /\ torn \in BOOLEAN
    BY DEF ValuationInit
<1>2. BooksTyped
    BY <1>1, ValuationAssumption DEF ValuationInit, BooksTyped, NoFlow, Flows
<1>3. BooksBalance
    BY DEF ValuationInit, BooksBalance
<1>4. read \in Reading /\ read.pc = "idle"
    BY DEF ValuationInit, NoRead, Reading
<1> QED BY <1>1, <1>2, <1>3, <1>4 DEF ValuationInv, ReadIsCurrent

(* A change of the world keeps the reader's part: it tears what is read.    *)
LEMMA MoveTears ==
  ASSUME ValuationInv, Moves, BooksTyped', BooksBalance'
  PROVE  ValuationInv'
<1>1. read' = read /\ summary' = summary /\ read \in Reading /\ torn' = (torn \/ read.pc # "idle")
    BY DEF ValuationInv, Moves, reader
<1>2. ~torn' => read'.pc = "idle"
    BY <1>1
<1>3. ~torn' => ReadIsCurrent'
    BY <1>2 DEF ReadIsCurrent
<1> QED BY <1>1, <1>3 DEF ValuationInv

(* A step of the reader keeps the books.                                    *)
LEMMA ReaderKeepsBooks ==
  ASSUME ValuationInv, UNCHANGED <<holdings, books>>
  PROVE  BooksTyped' /\ BooksBalance'
BY DEF ValuationInv, BooksTyped, BooksBalance, Worth, Net, holdings, books

LEMMA Distributes ==
  \A a, b, c \in Int : (a + b) * c = a * c + b * c /\ c * (a + b) = c * a + c * b
OBVIOUS

LEMMA DepositKeeps == ASSUME ValuationInv, Deposit PROVE ValuationInv'
<1>1. BooksTyped'
    BY DEF ValuationInv, Deposit, BooksTyped, Flows
<1>2. Worth' = Worth + 1 /\ Net(flow') = Net(flow) + 1
    BY DEF ValuationInv, Deposit, BooksTyped, Flows, Worth, Net
<1>3. Worth \in Int /\ Net(flow) \in Int
    BY DEF ValuationInv, BooksTyped, Flows, Worth, Net
<1>4. BooksBalance'
    BY <1>2, <1>3 DEF ValuationInv, Deposit, BooksTyped, BooksBalance, Snapshots, Flows, Net
<1> QED BY <1>1, <1>4, MoveTears DEF Deposit

LEMMA WithdrawKeeps == ASSUME ValuationInv, Withdraw PROVE ValuationInv'
<1>1. BooksTyped'
    BY DEF ValuationInv, Withdraw, BooksTyped, Flows
<1>2. Worth' = Worth - 1 /\ Net(flow') = Net(flow) - 1
    BY DEF ValuationInv, Withdraw, BooksTyped, Flows, Worth, Net
<1>3. Worth \in Int /\ Net(flow) \in Int
    BY DEF ValuationInv, BooksTyped, Flows, Worth, Net
<1>4. BooksBalance'
    BY <1>2, <1>3 DEF ValuationInv, Withdraw, BooksTyped, BooksBalance, Snapshots, Flows, Net
<1> QED BY <1>1, <1>4, MoveTears DEF Withdraw

(* Buying and selling at the quoted price moves value, and makes none.      *)
LEMMA TradeKeeps ==
  ASSUME ValuationInv, NEW side \in {-1, 1}, Trade(side)
  PROVE  ValuationInv'
<1>1. BooksTyped'
    BY DEF ValuationInv, Trade, BooksTyped, books
<1>2. (quantity + side) * price = quantity * price + side * price
    BY Distributes DEF ValuationInv, BooksTyped
<1>3. Worth' = Worth
    BY <1>2 DEF ValuationInv, Trade, BooksTyped, Worth
<1>4. BooksBalance'
    BY <1>3 DEF ValuationInv, Trade, BooksBalance, books, Net
<1> QED BY <1>1, <1>4, MoveTears DEF Trade

LEMMA PriceKeeps ==
  ASSUME ValuationInv, NEW p \in Prices, PriceMoves(p)
  PROVE  ValuationInv'
<1> DEFINE gain == quantity * (p - price)
<1>1. p \in Int /\ price \in Int /\ quantity \in Int /\ gain \in Int
    BY ValuationAssumption DEF ValuationInv, BooksTyped
<1>2. quantity * p = quantity * price + gain
    BY <1>1, Distributes
<1>3. gained' = gained + gain /\ price' = p /\ UNCHANGED <<cash, quantity, flow, prior, latest, gap>>
    BY DEF PriceMoves
<1> HIDE DEF gain
<1>4. BooksTyped'
    BY <1>1 DEF ValuationInv, PriceMoves, BooksTyped, gain
<1>5. Worth' = Worth + gain /\ Worth \in Int
    BY <1>1, <1>2, <1>3 DEF ValuationInv, BooksTyped, Worth
<1>6. BooksBalance'
    BY <1>1, <1>3, <1>5 DEF ValuationInv, BooksTyped, BooksBalance, Snapshots, Flows, Net
<1> QED BY <1>4, <1>6, MoveTears DEF PriceMoves

LEMMA QuotesKeep == ASSUME ValuationInv, QuotesChange PROVE ValuationInv'
BY MoveTears DEF ValuationInv, QuotesChange, BooksTyped, BooksBalance, Worth, Net, books

LEMMA SnapshotKeeps == ASSUME ValuationInv, TakeSnapshot PROVE ValuationInv'
<1>1. Worth \in Int /\ Worth' = Worth
    BY DEF ValuationInv, TakeSnapshot, BooksTyped, Worth, holdings
<1>2. latest' = [equity |-> Worth, gained |-> gained, flow |-> flow]
    BY DEF TakeSnapshot, Worth
<1>3. BooksTyped'
    BY <1>1, <1>2 DEF ValuationInv, TakeSnapshot, BooksTyped, Snapshots, holdings
<1>4. BooksBalance'
    BY <1>1, <1>2 DEF ValuationInv, TakeSnapshot, BooksTyped, BooksBalance, Snapshots, Flows, Net
<1> QED BY <1>3, <1>4, MoveTears DEF TakeSnapshot

(* The day's flows are forgotten; nothing moved since the snapshot, or the  *)
(* gap is remembered.                                                       *)
LEMMA MidnightKeeps == ASSUME ValuationInv, Midnight PROVE ValuationInv'
<1>1. Worth \in Int /\ Worth' = Worth /\ gained' = gained
    BY DEF ValuationInv, Midnight, BooksTyped, Worth, holdings
<1>2. BooksTyped'
    BY DEF ValuationInv, Midnight, BooksTyped, holdings, NoFlow, Flows
<1>3. latest' = None /\ Net(flow') = 0
    BY DEF Midnight, NoFlow, Net
<1>4. CASE latest = None
  <2>1. prior' = prior /\ (~gap' => ~gap /\ flow = NoFlow)
      BY <1>4 DEF Midnight
  <2>2. ~gap' => ~gap /\ Net(flow) = 0
      BY <2>1 DEF NoFlow, Net
  <2>3. BooksBalance'
      BY <1>1, <1>3, <2>1, <2>2 DEF ValuationInv, BooksBalance
  <2> QED BY <1>2, <2>3, MoveTears DEF Midnight
<1>5. CASE latest # None
  <2>1. prior' = latest /\ (~gap' => flow = latest.flow)
      BY <1>5 DEF Midnight
  <2> QED
      BY <1>1, <1>2, <1>3, <1>5, <2>1, MoveTears
      DEF ValuationInv, BooksTyped, BooksBalance, Snapshots, Flows, Net, Midnight
<1> QED BY <1>4, <1>5
-----------------------------------------------------------------------------
LEMMA ReadingKeeps ==
  ASSUME ValuationInv, ReadRow \/ ReadBooks \/ MarkPrices
  PROVE  ValuationInv'
<1>1. UNCHANGED <<holdings, books>>
    BY DEF ReadRow, ReadBooks, MarkPrices, Reads
<1>2. BooksTyped /\ read \in Reading /\ torn \in BOOLEAN /\ (~torn => ReadIsCurrent)
    BY DEF ValuationInv
<1>3. torn' \in BOOLEAN
    BY <1>2 DEF ReadRow, ReadBooks, MarkPrices
<1>4. read' \in Reading
  <2>1. CASE ReadRow
    <3>1. NoRead \in Reading
        BY DEF NoRead, Reading
    <3> QED BY <1>2, <2>1, <3>1 DEF ReadRow, Reads, Reading, BooksTyped
  <2>2. CASE ReadBooks
      BY <1>2, <2>2 DEF ReadBooks, Reads, Reading, BooksTyped
  <2>3. CASE MarkPrices
      BY <1>2, <2>3 DEF MarkPrices, Reads, Reading, BooksTyped, Marks
  <2> QED BY <2>1, <2>2, <2>3
<1>5. ~torn' => ReadIsCurrent'
  <2>1. CASE ReadRow
      BY <1>1, <2>1 DEF ReadRow, ReadIsCurrent, NoRead, holdings
  <2>2. CASE ReadBooks
      BY <1>1, <1>2, <2>2 DEF ReadBooks, Reads, ReadIsCurrent, Reading, holdings, books
  <2>3. CASE MarkPrices
      BY <1>1, <1>2, <2>3 DEF MarkPrices, Reads, ReadIsCurrent, Reading, holdings, books
  <2> QED BY <2>1, <2>2, <2>3
<1> QED BY <1>1, <1>3, <1>4, <1>5, ReaderKeepsBooks DEF ValuationInv

(* What is computed from current reads is the worth of what is held.        *)
LEMMA SummariseKeeps == ASSUME ValuationInv, Summarise PROVE ValuationInv'
<1>1. UNCHANGED <<holdings, books>> /\ torn' = torn
    BY DEF Summarise
<1>2. BooksTyped /\ read \in Reading /\ torn \in BOOLEAN /\ (~torn => ReadIsCurrent)
    BY DEF ValuationInv
<1>3. read' \in Reading
    BY <1>2 DEF Summarise, Reading
<1>4. ASSUME ~torn PROVE ReadIsCurrent'
  <2>1. /\ read.cash = cash /\ read.quantity = quantity /\ read.prior = prior
        /\ read.mark = IF quantity # 0 /\ quoted THEN [of |-> price] ELSE None
      BY <1>2, <1>4 DEF Summarise, ReadIsCurrent
  <2>2. 0 * price = 0 /\ cash \in Int /\ quantity \in Int /\ price \in Int
      BY <1>2 DEF BooksTyped
  <2>3. Equity(read) = IF quantity = 0 \/ quoted THEN [of |-> Worth] ELSE None
    <3>1. CASE quantity = 0
        BY <2>1, <2>2, <3>1 DEF Equity, Worth
    <3>2. CASE quantity # 0 /\ quoted
        BY <2>1, <3>2 DEF Equity, Worth, None
    <3>3. CASE quantity # 0 /\ ~quoted
        BY <2>1, <3>3 DEF Equity
    <3> QED BY <3>1, <3>2, <3>3
  <2>4. /\ summary'.equity = Equity(read)
        /\ summary'.dailyPnl # None
             => /\ Equity(read) # None /\ read.prior # None
                /\ summary'.dailyPnl.of = Equity(read).of - read.prior.equity - Net(flow)
      BY DEF Summarise, NetCashFlow, Net
  <2>5. read'.pc = "done" /\ UNCHANGED <<read.cash, read.quantity, read.prior, read.mark>>
      BY <1>2 DEF Summarise, Reading
  <2>6. UNCHANGED <<cash, quantity, quoted, price, prior, flow, Worth>>
      BY <1>1 DEF holdings, books, Worth
  <2>7. Net(flow)' = Net(flow)
      BY <2>6 DEF Net
  <2> QED BY <2>1, <2>3, <2>4, <2>5, <2>6, <2>7 DEF ReadIsCurrent
<1> QED BY <1>1, <1>2, <1>3, <1>4, ReaderKeepsBooks DEF ValuationInv

LEMMA ValuationNext_Inv ==
  ASSUME ValuationInv, [ValuationNext]_valuationVars
  PROVE  ValuationInv'
<1>1. CASE UNCHANGED valuationVars
  <2>1. UNCHANGED <<holdings, books>> /\ UNCHANGED <<read, summary, torn>>
      BY <1>1 DEF valuationVars, reader
  <2>2. ReadIsCurrent' = ReadIsCurrent
      BY <2>1 DEF ReadIsCurrent, holdings, books, Worth, Net
  <2> QED BY <2>1, <2>2, ReaderKeepsBooks DEF ValuationInv
<1> QED
    BY <1>1, DepositKeeps, WithdrawKeeps, QuotesKeep, SnapshotKeeps, MidnightKeeps, TradeKeeps,
       PriceKeeps, ReadingKeeps, SummariseKeeps
    DEF ValuationNext

LEMMA InvValues == ValuationInv => PnlIsMarketGain /\ EquityNeverInvented
<1> SUFFICES ASSUME ValuationInv PROVE PnlIsMarketGain /\ EquityNeverInvented
    OBVIOUS
<1>1. EquityNeverInvented
    BY DEF ValuationInv, ReadIsCurrent, EquityNeverInvented, Worth
<1>2. Worth \in Int /\ Net(flow) \in Int /\ gained \in Int /\ prior \in Snapshots \cup {None}
    BY DEF ValuationInv, BooksTyped, Flows, Worth, Net
<1>3. PnlIsMarketGain
    BY <1>2 DEF ValuationInv, ReadIsCurrent, BooksBalance, PnlIsMarketGain, Snapshots
<1> QED BY <1>1, <1>3

(* The profit of the day that summarise() reports is what prices have       *)
(* earned since the last snapshot of an earlier day, whatever is deposited, *)
(* withdrawn and traded, at any quotes.                                     *)
THEOREM PnlAlwaysIsMarketGain == ValuationSpec => []PnlIsMarketGain
<1>1. ValuationInit => ValuationInv
    BY ValuationInit_Inv
<1>2. ValuationInv /\ [ValuationNext]_valuationVars => ValuationInv'
    BY ValuationNext_Inv
<1>3. ValuationInv => PnlIsMarketGain
    BY InvValues
<1> QED BY <1>1, <1>2, <1>3, PTL DEF ValuationSpec

(* The equity that summarise() reports is cash and positions at the quoted  *)
(* price, and it reports none while an open position has no quote.          *)
THEOREM EquityIsNeverInvented == ValuationSpec => []EquityNeverInvented
<1>1. ValuationInit => ValuationInv
    BY ValuationInit_Inv
<1>2. ValuationInv /\ [ValuationNext]_valuationVars => ValuationInv'
    BY ValuationNext_Inv
<1>3. ValuationInv => EquityNeverInvented
    BY InvValues
<1> QED BY <1>1, <1>2, <1>3, PTL DEF ValuationSpec
-----------------------------------------------------------------------------
(* The demo data seed.                                                      *)

(* A part that no run will write to again, or none can complete.            *)
Done(p) == stored[p] = Rows[p] \/ (p \in cut /\ p \notin Keyed)

SeedTypeOK ==
  /\ stored \in [Names -> Nat] /\ \A p \in Names : stored[p] <= Rows[p]
  /\ at \in 0 .. Len(Parts) /\ next \in Nat
  /\ at = 0 => next = 0
  /\ at # 0 => next <= Rows[Part]

(* The rows before the next one are there; a checked part has no other.     *)
InPart ==
  at # 0 /\ next # 0 =>
    IF Part \in Keyed THEN stored[Part] >= next - 1 ELSE stored[Part] = next - 1

(* A checked part is half written only where a run was interrupted, or by   *)
(* the run that is at it.                                                   *)
Partial ==
  \A p \in Names \ Keyed :
    stored[p] # 0 => Done(p) \/ (at # 0 /\ next > 1 /\ p = Part)

Passed ==
  /\ \A i \in 1 .. Len(Parts) : i < at => Done(Parts[i])
  /\ finished => \A p \in Names : Done(p)

SeedInv == SeedTypeOK /\ InPart /\ Partial /\ Passed
-----------------------------------------------------------------------------
LEMMA PartsAreNamed ==
  /\ Len(Parts) \in Nat \ {0}
  /\ \A i \in 1 .. Len(Parts) : Parts[i] \in Names
  /\ \A p \in Names : \E i \in 1 .. Len(Parts) : p = Parts[i]
<1>1. Len(Parts) = 12
    BY DEF Parts
<1>2. DOMAIN Parts = 1 .. 12
    BY DEF Parts
<1> QED BY <1>1, <1>2 DEF Names

LEMMA PartIsNamed == SeedTypeOK /\ at # 0 => Part \in Names /\ Rows[Part] \in Nat \ {0}
BY PartsAreNamed, SeedAssumption DEF SeedTypeOK, Part

LEMMA SeedInit_Inv == SeedInit => SeedInv
BY PartsAreNamed, SeedAssumption
   DEF SeedInit, SeedInv, SeedTypeOK, InPart, Partial, Passed

(* Going on from a part that is done.                                       *)
LEMMA GoOnPreserves ==
  ASSUME SeedTypeOK, Passed, at # 0, GoOn, NEW q \in Names, q = Part,
         stored' \in [Names -> Nat], \A p \in Names : stored'[p] <= Rows[p],
         \A p \in Names : Done(p) => Done(p)',
         \A p \in Names \ Keyed : stored'[p] # 0 => Done(p)',
         Done(q)'
  PROVE  SeedInv'
<1>1. at' \in 0 .. Len(Parts) /\ next' = 0
    BY PartsAreNamed DEF SeedTypeOK, GoOn
<1>2. SeedTypeOK'
    <2>1. at' # 0 => Part' \in Names
        BY <1>1, PartsAreNamed DEF Part
    <2> QED BY <1>1, <2>1, SeedAssumption DEF SeedTypeOK
<1>3. InPart' /\ Partial'
    BY <1>1 DEF InPart, Partial
<1>4. Passed'
    <2>1. ASSUME NEW i \in 1 .. Len(Parts), i <= at
          PROVE  Done(Parts[i])'
        <3>1. CASE i = at
            BY <3>1 DEF Part
        <3>2. CASE i < at
            BY <3>2, PartsAreNamed DEF Passed
        <3> QED BY <2>1, <3>1, <3>2, PartsAreNamed DEF SeedTypeOK
    <2>2. \A i \in 1 .. Len(Parts) : i < at' => Done(Parts[i])'
        BY <2>1, PartsAreNamed DEF GoOn, SeedTypeOK
    <2>3. at = Len(Parts) => \A p \in Names : Done(p)'
        BY <2>1, PartsAreNamed
    <2>4. finished => \A p \in Names : Done(p)'
        BY DEF Passed
    <2> QED BY <2>2, <2>3, <2>4 DEF Passed, GoOn
<1> QED BY <1>2, <1>3, <1>4 DEF SeedInv

LEMMA CheckPartPreserves == SeedInv /\ CheckPart => SeedInv'
<1> SUFFICES ASSUME SeedInv, CheckPart
             PROVE  SeedInv'
    OBVIOUS
<1> USE DEF SeedInv
<1>1. at # 0 /\ next = 0 /\ UNCHANGED <<stored, cut>>
    BY DEF CheckPart
<1>2. Part \in Names /\ Rows[Part] \in Nat \ {0}
    BY <1>1, PartIsNamed
<1>3. \A p \in Names : Done(p)' <=> Done(p)
    BY <1>1 DEF Done
<1>4. CASE Present(Part)
    <2>1. GoOn
        BY <1>4 DEF CheckPart
    <2>2. PICK q \in Names : q = Part /\ Done(q)'
        BY <1>1, <1>2, <1>3, <1>4 DEF Present, Partial, SeedTypeOK
    <2>3. \A p \in Names \ Keyed : stored'[p] # 0 => Done(p)'
        BY <1>1, <1>3 DEF Partial
    <2> QED BY <1>1, <1>2, <1>3, <2>1, <2>2, <2>3, GoOnPreserves DEF SeedTypeOK
<1>5. CASE ~Present(Part)
    <2>1. next' = 1 /\ UNCHANGED <<at, finished>>
        BY <1>5 DEF CheckPart
    <2>2. SeedTypeOK'
        BY <1>1, <1>2, <2>1 DEF SeedTypeOK, Part
    <2>3. InPart'
        BY <1>1, <1>2, <1>5, <2>1 DEF InPart, Present, SeedTypeOK, Part
    <2>4. Partial'
        BY <1>1, <1>3, <2>1 DEF Partial
    <2>5. Passed'
        BY <1>3, <2>1, PartsAreNamed DEF Passed
    <2> QED BY <2>2, <2>3, <2>4, <2>5
<1> QED BY <1>4, <1>5

LEMMA SeedRowPreserves == SeedInv /\ SeedRow => SeedInv'
<1> SUFFICES ASSUME SeedInv, SeedRow
             PROVE  SeedInv'
    OBVIOUS
<1> USE DEF SeedInv
<1>1. at # 0 /\ next # 0 /\ UNCHANGED cut
    BY DEF SeedRow
<1>2. Part \in Names /\ Rows[Part] \in Nat \ {0}
    BY <1>1, PartIsNamed
<1> DEFINE n == IF Part \in Keyed /\ stored[Part] >= next THEN stored[Part] ELSE stored[Part] + 1
<1>3. stored' = [stored EXCEPT ![Part] = n]
    BY DEF SeedRow
<1>4. n \in Nat /\ n >= next /\ n <= Rows[Part] /\ n >= stored[Part]
      /\ (Part \notin Keyed => n = next /\ stored[Part] < Rows[Part])
    BY <1>1, <1>2 DEF InPart, SeedTypeOK
<1>5. /\ stored' \in [Names -> Nat] /\ \A p \in Names : stored'[p] <= Rows[p]
      /\ stored'[Part] = n /\ \A p \in Names \ {Part} : stored'[p] = stored[p]
    BY <1>2, <1>3, <1>4 DEF SeedTypeOK
<1>6. \A p \in Names : Done(p) => Done(p)'
    BY <1>1, <1>2, <1>4, <1>5, SeedAssumption DEF Done, SeedTypeOK
<1>7. CASE next = Rows[Part]
    <2>1. GoOn
        BY <1>7 DEF SeedRow
    <2>2. PICK q \in Names : q = Part /\ Done(q)'
        BY <1>2, <1>4, <1>5, <1>7 DEF Done, SeedTypeOK
    <2>3. ASSUME NEW p \in Names \ Keyed, stored'[p] # 0
          PROVE  Done(p)'
        <3>1. CASE p = Part
            BY <2>2, <3>1
        <3>2. CASE p # Part
            BY <1>5, <1>6, <2>3, <3>2 DEF Partial
        <3> QED BY <3>1, <3>2
    <2> QED BY <1>1, <1>5, <1>6, <2>1, <2>2, <2>3, GoOnPreserves
<1>8. CASE next # Rows[Part]
    <2>1. next' = next + 1 /\ UNCHANGED <<at, finished>>
        BY <1>8 DEF SeedRow
    <2>2. SeedTypeOK'
        BY <1>1, <1>2, <1>5, <1>8, <2>1 DEF SeedTypeOK, Part
    <2>3. InPart'
        BY <1>1, <1>2, <1>4, <1>5, <2>1 DEF InPart, SeedTypeOK, Part
    <2>4. Partial'
        BY <1>1, <1>2, <1>5, <1>6, <2>1 DEF Partial, SeedTypeOK, Part
    <2>5. Passed'
        BY <1>6, <2>1, PartsAreNamed DEF Passed
    <2> QED BY <2>2, <2>3, <2>4, <2>5
<1> QED BY <1>7, <1>8

LEMMA InterruptedPreserves == SeedInv /\ Interrupted => SeedInv'
<1> SUFFICES ASSUME SeedInv, Interrupted
             PROVE  SeedInv'
    OBVIOUS
<1> USE DEF SeedInv
<1>1. /\ at # 0 /\ at' = 0 /\ next' = 0 /\ UNCHANGED <<stored, finished>>
      /\ cut' = IF next > 1 THEN cut \cup {Part} ELSE cut
    BY DEF Interrupted
<1>2. \A p \in Names : Done(p) => Done(p)'
    BY <1>1 DEF Done
<1>3. SeedTypeOK' /\ InPart'
    BY <1>1 DEF SeedTypeOK, InPart
<1>4. Partial'
    BY <1>1, <1>2 DEF Partial, Done
<1>5. Passed'
    BY <1>1, <1>2, PartsAreNamed DEF Passed, SeedTypeOK
<1> QED BY <1>3, <1>4, <1>5

LEMMA SeedNext_Inv == SeedInv /\ [SeedNext]_seedVars => SeedInv'
<1> SUFFICES ASSUME SeedInv, [SeedNext]_seedVars
             PROVE  SeedInv'
    OBVIOUS
<1>1. CASE StartSeed
    <2>1. at = 0 /\ at' = 1 /\ next' = 0 /\ UNCHANGED <<stored, finished, cut>>
        BY <1>1 DEF StartSeed
    <2>2. 1 \in 1 .. Len(Parts) /\ Part' \in Names
        BY <2>1, PartsAreNamed DEF Part
    <2>3. SeedTypeOK' /\ InPart'
        BY <2>1, <2>2, PartsAreNamed, SeedAssumption DEF SeedInv, SeedTypeOK, InPart
    <2>4. Partial' /\ Passed'
        BY <2>1, PartsAreNamed DEF SeedInv, SeedTypeOK, Partial, Passed, Done
    <2> QED BY <2>3, <2>4 DEF SeedInv
<1>2. CASE CheckPart
    BY <1>2, CheckPartPreserves
<1>3. CASE SeedRow
    BY <1>3, SeedRowPreserves
<1>4. CASE Interrupted
    BY <1>4, InterruptedPreserves
<1>5. CASE UNCHANGED seedVars
    BY <1>5 DEF seedVars, SeedInv, SeedTypeOK, InPart, Partial, Passed, Done, Part
<1> QED BY <1>1, <1>2, <1>3, <1>4, <1>5 DEF SeedNext

(* Wherever runs of seed.ts were interrupted, a run that ends leaves every  *)
(* part complete, except a checked part inside which one was interrupted.   *)
THEOREM SeedCompletes == SeedSpec => []CompleteUnlessCut
<1>1. SeedInit => SeedInv
    BY SeedInit_Inv
<1>2. SeedInv /\ [SeedNext]_seedVars => SeedInv'
    BY SeedNext_Inv
<1>3. SeedInv => CompleteUnlessCut
    BY DEF SeedInv, SeedTypeOK, Passed, Done, CompleteUnlessCut
<1> QED BY <1>1, <1>2, <1>3, PTL DEF SeedSpec
=============================================================================
