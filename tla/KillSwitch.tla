----------------------------- MODULE KillSwitch -----------------------------
(***************************************************************************)
(* The kill switch (modules/risk/kill-switch.service.ts) and the trading    *)
(* gate (modules/risk/trading-gate.ts) over the portfolio rows they share   *)
(* and the resting orders of the portfolios' brokers.                       *)
(*                                                                         *)
(* Both services read a row, await something, and act on what they read.    *)
(* One step runs from one await to the next; a database transaction is one  *)
(* step (its first statement locks the portfolio row).                      *)
(*                                                                         *)
(* Two parts of the system are external to this repository's code: the      *)
(* reconciliation engine, which alone moves a portfolio into and out of     *)
(* RECONCILIATION_ERROR, and the order manager, which submits an order      *)
(* once the gate allowed it.                                                *)
(***************************************************************************)
EXTENDS Integers, FiniteSets

CONSTANTS
  Portfolios,
  Demo,           \* portfolios whose environment has a broker adapter
  Operators,      \* requests that may engage or release the switch
  Scope,          \* portfolios each of them can reach
  Admins,         \* those with KILL_SWITCH_RELEASE
  Gates,          \* gate evaluations in progress
  Orders,
  PortfolioOf,    \* the portfolio an order belongs to
  RiskCap         \* bound: unresolved risk events are counted up to here

ASSUME SwitchAssumption ==
  /\ Demo \subseteq Portfolios /\ Admins \subseteq Operators
  /\ Scope \in [Operators -> SUBSET Portfolios]
  /\ PortfolioOf \in [Orders -> Portfolios]
  /\ RiskCap \in Nat /\ RiskCap > 0

None == "none"
TradingStates == {"ACTIVE", "HALTED", "RECONCILIATION_ERROR"}

VARIABLES
  tradingState,   \* portfolio.tradingState
  enabled,        \* portfolio.isActive and executionMode is not OBSERVE
  riskEvents,     \* unresolved KILL_SWITCH_MANUAL risk events
  order,          \* each order: "new", "open", "cancelled" or "done"
  op,             \* where each operator's request is
  gate,           \* where each gate evaluation is
  cleared         \* history: evaluations that overlapped an unblocked moment

rows == <<tradingState, enabled, riskEvents>>
vars == <<rows, order, op, gate, cleared>>

NoRequest ==
  [pc |-> "idle", targets |-> {}, at |-> None, sweep |-> {}, resting |-> {}]
NoEvaluation == [pc |-> "idle", portfolio |-> None, open |-> FALSE]

OpenOrders(p) == {o \in Orders : PortfolioOf[o] = p /\ order[o] = "open"}

(* Mutant of RowBlocks: RECONCILIATION_ERROR is forgotten.                  *)
RowBlocksWhenHalted(p) ==
  tradingState[p] = "HALTED" \/ ~enabled[p] \/ p \notin Demo

(* Whether the row itself blocks trading (evaluate(), first six checks).    *)
RowBlocks(p) == tradingState[p] # "ACTIVE" \/ ~enabled[p] \/ p \notin Demo

(* The history variable: the evaluations during which the portfolio was at  *)
(* some moment active, enabled and in the ACTIVE state.                     *)
RecordClear ==
  cleared' = {g \in Gates :
                /\ gate'[g].pc # "idle"
                /\ \/ g \in cleared
                   \/ LET p == gate'[g].portfolio
                      IN  tradingState'[p] = "ACTIVE" /\ enabled'[p]}
-----------------------------------------------------------------------------
(* KillSwitchService.engage *)

(* Mutant of EngageRead: engage-all forgets the caller's scope.              *)
EngageReadUnscoped(e) ==
  /\ op[e].pc = "idle"
  /\ \E found \in {{p} : p \in Scope[e]}
                    \union {{p \in Portfolios : tradingState[p] = "ACTIVE"}} :
       op' = [op EXCEPT ![e].pc = "next",
                        ![e].targets = {p \in found :
                            tradingState[p] # "RECONCILIATION_ERROR"}]
  /\ UNCHANGED <<rows, order, gate>> /\ RecordClear

(* The targets are read up front, by id or every ACTIVE one in scope.  A    *)
(* target already in RECONCILIATION_ERROR will be skipped.                  *)
EngageRead(e) ==
  /\ op[e].pc = "idle"
  /\ \E found \in {{p} : p \in Scope[e]}
                    \union {{p \in Scope[e] : tradingState[p] = "ACTIVE"}} :
       op' = [op EXCEPT ![e].pc = "next",
                        ![e].targets = {p \in found :
                            tradingState[p] # "RECONCILIATION_ERROR"}]
  /\ UNCHANGED <<rows, order, gate>> /\ RecordClear

(* Mutant of HaltRow: the event is meant to be written once, for rows that  *)
(* were ACTIVE.                                                             *)
HaltRowOnce(p) ==
  /\ tradingState' = [tradingState EXCEPT ![p] = "HALTED"]
  /\ riskEvents' = [riskEvents EXCEPT ![p] =
       IF tradingState[p] = "ACTIVE" /\ @ < RiskCap THEN @ + 1 ELSE @]
  /\ UNCHANGED enabled

(* The transaction: halt the row and open a risk event (and audit, which is  *)
(* the audit log's business).                                               *)
HaltRow(p) ==
  /\ tradingState' = [tradingState EXCEPT ![p] = "HALTED"]
  /\ riskEvents' = [riskEvents EXCEPT ![p] = IF @ < RiskCap THEN @ + 1 ELSE @]
  /\ UNCHANGED enabled

EngageHalt(e, p) ==
  /\ op[e].pc = "next" /\ p \in op[e].targets
  /\ HaltRow(p)
  /\ op' = [op EXCEPT ![e].pc = "halted", ![e].at = p,
                      ![e].resting = OpenOrders(p)]
  /\ UNCHANGED <<order, gate>> /\ RecordClear

(* The transaction fails, or commits but its acknowledgement is lost; the   *)
(* request ends with the error and the remaining targets are left alone.    *)
EngageFails(e, p) ==
  /\ op[e].pc = "next" /\ p \in op[e].targets
  /\ HaltRow(p) \/ UNCHANGED rows
  /\ op' = [op EXCEPT ![e] = NoRequest]
  /\ UNCHANGED <<order, gate>> /\ RecordClear

(* Mutant of ListOpenOrders: deactivated portfolios are skipped.            *)
ListOpenOrdersIfEnabled(e) ==
  /\ op[e].pc = "halted"
  /\ op' = [op EXCEPT ![e].pc = "cancel",
                      ![e].sweep = IF op[e].at \in Demo /\ enabled[op[e].at]
                                   THEN OpenOrders(op[e].at) ELSE {}]
  /\ UNCHANGED <<rows, order, gate>> /\ RecordClear

(* cancelRestingOrders: the open orders are listed once ...                 *)
ListOpenOrders(e) ==
  /\ op[e].pc = "halted"
  /\ op' = [op EXCEPT ![e].pc = "cancel",
                      ![e].sweep = IF op[e].at \in Demo
                                   THEN OpenOrders(op[e].at) ELSE {}]
  /\ UNCHANGED <<rows, order, gate>> /\ RecordClear

(* ... and cancelled one await at a time; one that traded meanwhile stays   *)
(* as it is.                                                                *)
CancelResting(e, o) ==
  /\ op[e].pc = "cancel" /\ o \in op[e].sweep
  /\ order' = [order EXCEPT ![o] = IF @ = "open" THEN "cancelled" ELSE @]
  /\ op' = [op EXCEPT ![e].sweep = @ \ {o}]
  /\ UNCHANGED <<rows, gate>> /\ RecordClear

(* Mutant of PortfolioDone: the cancellations are not awaited.              *)
PortfolioDoneUnawaited(e) ==
  /\ op[e].pc = "cancel"
  /\ op' = [op EXCEPT ![e].pc = "next", ![e].at = None, ![e].resting = {},
                      ![e].targets = @ \ {op[e].at}]
  /\ UNCHANGED <<rows, order, gate>> /\ RecordClear

(* The portfolio is added to the result and announced; on to the next.      *)
PortfolioDone(e) ==
  /\ op[e].pc = "cancel" /\ op[e].sweep = {}
  /\ op' = [op EXCEPT ![e].pc = "next", ![e].at = None, ![e].resting = {},
                      ![e].targets = @ \ {op[e].at}]
  /\ UNCHANGED <<rows, order, gate>> /\ RecordClear

EngageReturn(e) ==
  /\ op[e].pc = "next" /\ op[e].targets = {}
  /\ op' = [op EXCEPT ![e] = NoRequest]
  /\ UNCHANGED <<rows, order, gate>> /\ RecordClear
-----------------------------------------------------------------------------
(* KillSwitchService.release: answers at once for an ACTIVE row, refuses a  *)
(* RECONCILIATION_ERROR one.                                                *)
ReleaseRead(e) ==
  /\ op[e].pc = "idle" /\ e \in Admins
  /\ \E p \in Scope[e] :
       /\ tradingState[p] = "HALTED"
       /\ op' = [op EXCEPT ![e] = [NoRequest EXCEPT !.pc = "release", !.at = p]]
  /\ UNCHANGED <<rows, order, gate>> /\ RecordClear

ReleaseCommit(e) ==
  LET p == op[e].at
  IN  /\ op[e].pc = "release"
      /\ tradingState' = [tradingState EXCEPT ![p] = "ACTIVE"]
      /\ riskEvents' = [riskEvents EXCEPT ![p] = 0]
      /\ op' = [op EXCEPT ![e] = NoRequest]
      /\ UNCHANGED <<enabled, order, gate>> /\ RecordClear

(* The transaction aborts.                                                  *)
ReleaseFails(e) ==
  /\ op[e].pc = "release"
  /\ op' = [op EXCEPT ![e] = NoRequest]
  /\ UNCHANGED <<rows, order, gate>> /\ RecordClear
-----------------------------------------------------------------------------
(* TradingGate.assertCanTrade: read the row, await the health snapshot,     *)
(* decide on the row as it was read.                                        *)
GateRead(g, p) ==
  /\ gate[g].pc = "idle"
  /\ gate' = [gate EXCEPT ![g] =
                [pc |-> "probing", portfolio |-> p, open |-> ~RowBlocks(p)]]
  /\ UNCHANGED <<rows, order, op>> /\ RecordClear

GateAllows(g) ==
  /\ gate[g].pc = "probing" /\ gate[g].open
  /\ gate' = [gate EXCEPT ![g].pc = "allowed"]
  /\ UNCHANGED <<rows, order, op>> /\ RecordClear

(* Blocked by the row, or by a critical service the snapshot found DOWN.    *)
GateRefuses(g) ==
  /\ gate[g].pc = "probing"
  /\ gate' = [gate EXCEPT ![g] = NoEvaluation]
  /\ UNCHANGED <<rows, order, op>> /\ RecordClear
-----------------------------------------------------------------------------
(* External: order manager, venue, reconciliation, portfolio settings.      *)

SubmitOrder(g, o) ==
  /\ gate[g].pc = "allowed"
  /\ order[o] = "new" /\ PortfolioOf[o] = gate[g].portfolio
  /\ order' = [order EXCEPT ![o] = "open"]
  /\ gate' = [gate EXCEPT ![g] = NoEvaluation]
  /\ UNCHANGED <<rows, op>> /\ RecordClear

GiveUp(g) ==
  /\ gate[g].pc = "allowed"
  /\ gate' = [gate EXCEPT ![g] = NoEvaluation]
  /\ UNCHANGED <<rows, order, op>> /\ RecordClear

OrderTrades(o) ==
  /\ order[o] = "open"
  /\ order' = [order EXCEPT ![o] = "done"]
  /\ UNCHANGED <<rows, op, gate>> /\ RecordClear

ReconciliationMismatch(p) ==
  /\ tradingState[p] # "RECONCILIATION_ERROR"
  /\ tradingState' = [tradingState EXCEPT ![p] = "RECONCILIATION_ERROR"]
  /\ UNCHANGED <<enabled, riskEvents, order, op, gate>> /\ RecordClear

ReconciliationResolved(p) ==
  /\ tradingState[p] = "RECONCILIATION_ERROR"
  /\ tradingState' = [tradingState EXCEPT ![p] = "ACTIVE"]
  /\ UNCHANGED <<enabled, riskEvents, order, op, gate>> /\ RecordClear

(* PortfolioService.update of isActive or executionMode.                    *)
UpdatePortfolio(p) ==
  /\ enabled' = [enabled EXCEPT ![p] = ~@]
  /\ UNCHANGED <<tradingState, riskEvents, order, op, gate>> /\ RecordClear
-----------------------------------------------------------------------------
Init ==
  /\ tradingState = [p \in Portfolios |-> "ACTIVE"]
  /\ enabled = [p \in Portfolios |-> TRUE]
  /\ riskEvents = [p \in Portfolios |-> 0]
  /\ order = [o \in Orders |-> "new"]
  /\ op = [e \in Operators |-> NoRequest]
  /\ gate = [g \in Gates |-> NoEvaluation]
  /\ cleared = {}

Operate ==
  \E e \in Operators :
    \/ EngageRead(e) \/ ListOpenOrders(e) \/ PortfolioDone(e) \/ EngageReturn(e)
    \/ \E p \in Portfolios : EngageHalt(e, p) \/ EngageFails(e, p)
    \/ \E o \in Orders : CancelResting(e, o)
    \/ ReleaseRead(e) \/ ReleaseCommit(e) \/ ReleaseFails(e)

Evaluate ==
  \E g \in Gates :
    \/ \E p \in Portfolios : GateRead(g, p)
    \/ GateAllows(g) \/ GateRefuses(g)
    \/ \E o \in Orders : SubmitOrder(g, o)
    \/ GiveUp(g)

Environment ==
  \/ \E o \in Orders : OrderTrades(o)
  \/ \E p \in Portfolios :
       ReconciliationMismatch(p) \/ ReconciliationResolved(p) \/ UpdatePortfolio(p)

Next == Operate \/ Evaluate \/ Environment

Spec == Init /\ [][Next]_vars

(* Every await of a request is answered, and its loop goes on.              *)
Proceed(e) ==
  \/ ListOpenOrders(e) \/ PortfolioDone(e) \/ EngageReturn(e)
  \/ ReleaseCommit(e) \/ ReleaseFails(e)
  \/ \E p \in Portfolios : EngageHalt(e, p) \/ EngageFails(e, p)
  \/ \E o \in Orders : CancelResting(e, o)

FairSpec == Spec /\ \A e \in Operators : WF_vars(Proceed(e))
-----------------------------------------------------------------------------
(* Every variable keeps its type; a request works on portfolios of its      *)
(* caller's scope only, holds one exactly while it halts, sweeps or         *)
(* releases it, and sweeps orders of that portfolio only.                   *)
TypeOK ==
  /\ tradingState \in [Portfolios -> TradingStates]
  /\ enabled \in [Portfolios -> BOOLEAN]
  /\ riskEvents \in [Portfolios -> 0..RiskCap]
  /\ order \in [Orders -> {"new", "open", "cancelled", "done"}]
  /\ op \in [Operators ->
       [pc : {"idle", "next", "halted", "cancel", "release"},
        targets : SUBSET Portfolios, at : Portfolios \union {None},
        sweep : SUBSET Orders, resting : SUBSET Orders]]
  /\ \A e \in Operators :
       /\ op[e].targets \subseteq Scope[e]
       /\ IF op[e].pc \in {"halted", "cancel", "release"}
          THEN op[e].at \in Scope[e] ELSE op[e].at = None
       /\ \A o \in op[e].sweep \union op[e].resting : PortfolioOf[o] = op[e].at
       /\ op[e].pc # "cancel" => op[e].sweep = {}
  /\ gate \in [Gates ->
       [pc : {"idle", "probing", "allowed"},
        portfolio : Portfolios \union {None}, open : BOOLEAN]]
  /\ cleared \subseteq Gates

(* A halted portfolio has an unresolved risk event to show for it, whatever *)
(* halts, releases and mismatches raced with each other (engage 80-97,      *)
(* release 159-168).                                                        *)
HaltLeavesTrace ==
  \A p \in Portfolios : tradingState[p] = "HALTED" => riskEvents[p] > 0

(* When engage is done with a portfolio, no order that rested there at the  *)
(* moment the halt was committed rests any more, although orders trade and  *)
(* other requests cancel between its awaits (cancelRestingOrders 202-207).  *)
SweepComplete ==
  [][\A e \in Operators :
       op[e].pc = "cancel" /\ op'[e].pc = "next" =>
         \A o \in op[e].resting : order[o] # "open"]_vars

(* An allowing decision is never made up: the portfolio was really open for *)
(* trading at some moment while the decision was taken (assertCanTrade).    *)
AllowedWasOpen ==
  [][\A g \in Gates :
       gate[g].pc # "allowed" /\ gate'[g].pc = "allowed" => g \in cleared]_vars

(* An order that rests when a halt is committed is eventually cancelled or  *)
(* traded: the request that halted the portfolio gets to it.                *)
RestingOrdersGo ==
  \A e \in Operators, o \in Orders :
    o \in op[e].resting ~> order[o] # "open"
-----------------------------------------------------------------------------
(* What the documents say and the code does not do.                         *)

(* A mismatch is "a stronger reason; do not weaken it"                      *)
(* (kill-switch.service.ts:76) and "must be resolved before trading         *)
(* resumes" (:152): neither engage nor release moves a portfolio out of     *)
(* RECONCILIATION_ERROR.                                                    *)
MismatchStands ==
  [][\A e \in Operators, p \in Portfolios :
       /\ op[e].pc \in {"next", "release"} /\ op'[e] # op[e]
       /\ tradingState[p] = "RECONCILIATION_ERROR"
       => tradingState'[p] = "RECONCILIATION_ERROR"]_vars
=============================================================================
