----------------------------- MODULE Valuation -----------------------------
(***************************************************************************)
(* PortfolioService.summarise(): the equity and the day's profit of a       *)
(* portfolio, computed from reads at four moments - the row, the positions  *)
(* with the last snapshot of an earlier day, the quotes, today's cash flows *)
(* - while trading, deposits, quotes and the day go on.                     *)
(*                                                                         *)
(* One symbol.  Cash flows, snapshots and fills are written outside the     *)
(* code modelled here (the seed; planned engines), each in one transaction  *)
(* with the cash it moves.  A snapshot also remembers the true figures of   *)
(* its moment, which the code cannot see.                                   *)
(***************************************************************************)
EXTENDS Integers

CONSTANTS
  Capital,       \* initialCapital
  Prices,        \* quotes of the symbol
  MaxDailyLoss,  \* of the active risk limit
  MaxMoves       \* bound: changes of the world

ASSUME ValuationAssumption ==
  /\ Capital \in Int /\ Prices \subseteq Int
  /\ MaxDailyLoss \in Nat \ {0} /\ MaxMoves \in Nat

VARIABLES
  cash, quantity, price,
  quoted,        \* a broker of the portfolio's environment quotes the symbol
  flow,          \* cash flows since midnight: deposited, withdrawn
  prior,         \* last snapshot of an earlier day, or None
  latest,        \* last snapshot of today, or None
  gap,           \* history: flows between the prior snapshot and today
  gained,        \* history: what prices have earned
  moves,
  read,          \* summarise(): what it has read
  torn,          \* history: the world changed under it
  summary        \* its last answer

holdings      == <<cash, quantity, price, quoted>>
books         == <<flow, prior, latest, gap, gained>>
reader        == <<read, summary>>
valuationVars == <<holdings, books, moves, reader, torn>>

None   == [none |-> TRUE]
NoFlow == [deposited |-> 0, withdrawn |-> 0]
NoRead == [pc |-> "idle", cash |-> 0, quantity |-> 0, prior |-> None, mark |-> None]
Empty  == [equity |-> None, dailyPnl |-> None, riskUsedPct |-> None]
-----------------------------------------------------------------------------
(* The world.                                                               *)

Moves ==
  /\ moves < MaxMoves /\ moves' = moves + 1
  /\ torn' = (torn \/ read.pc # "idle")
  /\ UNCHANGED reader

Deposit ==
  /\ Moves
  /\ cash' = cash + 1 /\ flow' = [flow EXCEPT !.deposited = @ + 1]
  /\ UNCHANGED <<quantity, price, quoted, prior, latest, gap, gained>>

Withdraw ==
  /\ Moves
  /\ cash' = cash - 1 /\ flow' = [flow EXCEPT !.withdrawn = @ + 1]
  /\ UNCHANGED <<quantity, price, quoted, prior, latest, gap, gained>>

Trade(side) ==
  /\ Moves
  /\ cash' = cash - side * price /\ quantity' = quantity + side
  /\ UNCHANGED <<price, quoted, books>>

PriceMoves(p) ==
  /\ Moves
  /\ price' = p /\ gained' = gained + quantity * (p - price)
  /\ UNCHANGED <<cash, quantity, quoted, flow, prior, latest, gap>>

QuotesChange ==
  Moves /\ quoted' = ~quoted /\ UNCHANGED <<cash, quantity, price, books>>

TakeSnapshot ==
  /\ Moves
  /\ latest' = [equity |-> cash + quantity * price, gained |-> gained, flow |-> flow]
  /\ UNCHANGED <<holdings, flow, prior, gap, gained>>

Midnight ==
  LET since == IF latest = None THEN NoFlow ELSE latest.flow IN
  /\ Moves
  /\ prior' = IF latest = None THEN prior ELSE latest
  /\ gap' = (flow # since \/ (latest = None /\ gap))
  /\ latest' = None /\ flow' = NoFlow
  /\ UNCHANGED <<holdings, gained>>
-----------------------------------------------------------------------------
(* summarise().                                                             *)

Reads(record) ==
  read' = record /\ UNCHANGED <<holdings, books, moves, summary>>

(* list(), get(): the row comes with the access check. A new request        *)
(* starts with nothing of the one that was answered before it.              *)
ReadRow ==
  /\ read.pc \in {"idle", "done"}
  /\ read' = [NoRead EXCEPT !.pc = "row", !.cash = cash] /\ summary' = Empty
  /\ torn' = FALSE
  /\ UNCHANGED <<holdings, books, moves>>

(* Promise.all: the open positions and the last snapshot of an earlier day. *)
ReadBooks ==
  /\ read.pc = "row"
  /\ Reads([read EXCEPT !.pc = "books", !.quantity = quantity, !.prior = prior])
  /\ UNCHANGED torn

(* markPrices(): no position, no quote; no source, no mark.                 *)
MarkPrices ==
  /\ read.pc = "books"
  /\ Reads([read EXCEPT !.pc = "marked",
                        !.mark = IF read.quantity # 0 /\ quoted THEN [of |-> price] ELSE None])
  /\ UNCHANGED torn

(* Mutant of NetCashFlow: every flow counts as a deposit.                   *)
GrossCashFlow == flow.deposited + flow.withdrawn

(* netCashFlowSince(midnight)                                               *)
NetCashFlow == flow.deposited - flow.withdrawn

(* Mutant of Equity: a position without a mark is left out of the sum.      *)
EquityOfMarked(r) ==
  [of |-> r.cash + (IF r.mark = None THEN 0 ELSE r.quantity * r.mark.of)]

(* null unless every position is marked                                     *)
Equity(r) ==
  IF r.quantity = 0 THEN [of |-> r.cash]
  ELSE IF r.mark = None THEN None ELSE [of |-> r.cash + r.quantity * r.mark.of]

RiskUsedPct(pnl) == IF pnl < 0 THEN (-pnl * 100) \div MaxDailyLoss ELSE 0

Summarise ==
  LET equity == Equity(read)
      known  == equity # None /\ read.prior # None
      pnl    == equity.of - read.prior.equity - NetCashFlow
  IN
  /\ read.pc = "marked"
  /\ summary' = [equity |-> equity,
                 dailyPnl |-> IF known THEN [of |-> pnl] ELSE None,
                 riskUsedPct |-> IF known THEN [of |-> RiskUsedPct(pnl)] ELSE None]
  /\ read' = [read EXCEPT !.pc = "done"]
  /\ UNCHANGED <<holdings, books, moves, torn>>
-----------------------------------------------------------------------------
ValuationInit ==
  /\ cash = Capital /\ quantity = 0 /\ price \in Prices /\ quoted \in BOOLEAN
  /\ flow = NoFlow /\ prior = None /\ latest = None /\ gap = FALSE /\ gained = 0
  /\ moves = 0 /\ read = NoRead /\ torn = FALSE /\ summary = Empty

ValuationNext ==
  \/ Deposit \/ Withdraw \/ QuotesChange \/ TakeSnapshot \/ Midnight
  \/ \E side \in {-1, 1} : Trade(side)
  \/ \E p \in Prices \ {price} : PriceMoves(p)
  \/ ReadRow \/ ReadBooks \/ MarkPrices \/ Summarise

ValuationSpec == ValuationInit /\ [][ValuationNext]_valuationVars
-----------------------------------------------------------------------------
(* dailyPnl is what prices have earned since the last snapshot of an        *)
(* earlier day: money paid in or out and trading itself are not profit.     *)
(* (Unless something changed while summarise() was reading, or money moved  *)
(* between that snapshot and today, which the code leaves out.)             *)
PnlIsMarketGain ==
  read.pc = "done" /\ ~torn /\ ~gap /\ summary.dailyPnl # None
    => summary.dailyPnl.of = gained - prior.gained

(* "A missing quote leaves the position unmarked; it is never invented":    *)
(* the equity is cash and positions at the quoted price, and none is given  *)
(* while an open position has no quote.                                     *)
EquityNeverInvented ==
  read.pc = "done" /\ ~torn
    => summary.equity = IF quantity = 0 \/ quoted THEN [of |-> cash + quantity * price] ELSE None
=============================================================================
