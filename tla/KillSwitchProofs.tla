-------------------------- MODULE KillSwitchProofs --------------------------
(* Theorems about KillSwitch, for any portfolios, operators, orders and     *)
(* gate evaluations.                                                        *)
EXTENDS KillSwitch, TLAPS

(* The strengthening.  Orders rest only where there is an adapter, because  *)
(* the gate allows nothing else; an evaluation that read an open row has    *)
(* seen the portfolio open; and the orders that rested when a halt was      *)
(* committed are, from the listing on, either listed or gone.               *)
AdapterOnly ==
  /\ \A o \in Orders : order[o] = "open" => PortfolioOf[o] \in Demo
  /\ \A g \in Gates : gate[g].open => gate[g].portfolio \in Demo
  /\ \A g \in Gates : gate[g].pc = "allowed" => gate[g].open

ReadWasOpen ==
  \A g \in Gates : gate[g].pc = "probing" /\ gate[g].open => g \in cleared

SweepCovers ==
  \A e \in Operators : \A o \in op[e].resting :
    /\ order[o] # "new"
    /\ op[e].pc = "cancel" => order[o] # "open" \/ o \in op[e].sweep

IInv == TypeOK /\ HaltLeavesTrace /\ AdapterOnly /\ ReadWasOpen /\ SweepCovers

Request ==
  [pc : {"idle", "next", "halted", "cancel", "release"},
   targets : SUBSET Portfolios, at : Portfolios \union {None},
   sweep : SUBSET Orders, resting : SUBSET Orders]

Evaluation ==
  [pc : {"idle", "probing", "allowed"},
   portfolio : Portfolios \union {None}, open : BOOLEAN]

(* What a request's own fields say about each other and about the orders. *)
InScope(e, r) ==
  /\ r.targets \subseteq Scope[e]
  /\ IF r.pc \in {"halted", "cancel", "release"} THEN r.at \in Scope[e]
                                                ELSE r.at = None
  /\ \A o \in r.sweep \union r.resting : PortfolioOf[o] = r.at
  /\ r.pc # "cancel" => r.sweep = {}

Covered(r) ==
  \A o \in r.resting : /\ order[o] # "new"
                       /\ r.pc = "cancel" => order[o] # "open" \/ o \in r.sweep

LEMMA InitSound == Init => IInv
<1> SUFFICES ASSUME Init PROVE IInv
  OBVIOUS
<1>1. TypeOK
  BY SwitchAssumption
  DEF Init, TypeOK, TradingStates, NoRequest, NoEvaluation
<1>2. HaltLeavesTrace
  BY DEF Init, HaltLeavesTrace
<1>3. AdapterOnly /\ ReadWasOpen /\ SweepCovers
  BY DEF Init, AdapterOnly, ReadWasOpen, SweepCovers, NoRequest, NoEvaluation
<1> QED
  BY <1>1, <1>2, <1>3 DEF IInv
-----------------------------------------------------------------------------
(* Steps of requests.  A step of a request leaves the evaluations alone, so *)
(* only their history can grow.                                             *)

LEMMA GatesAlone ==
  ASSUME IInv, gate' = gate, RecordClear
  PROVE  cleared' \subseteq Gates /\ ReadWasOpen'
<1>1. \A g \in Gates : gate[g].pc # "idle" /\ g \in cleared => g \in cleared'
  BY DEF RecordClear
<1> QED
  BY <1>1 DEF RecordClear, IInv, ReadWasOpen

(* Request e becomes r; the other requests do not move and no order opens. *)
LEMMA RequestStep ==
  ASSUME IInv, NEW e \in Operators, NEW r \in Request, InScope(e, r), Covered(r)',
         op' = [op EXCEPT ![e] = r], gate' = gate, RecordClear,
         order' \in [Orders -> {"new", "open", "cancelled", "done"}],
         \A o \in Orders :
           order'[o] = order[o]
             \/ (order[o] # "new" /\ order'[o] \in {"cancelled", "done"}),
         tradingState' \in [Portfolios -> TradingStates], enabled' = enabled,
         riskEvents' \in [Portfolios -> 0 .. RiskCap], HaltLeavesTrace'
  PROVE  IInv'
<1>1. /\ op'[e] = r /\ op' \in [Operators -> Request]
      /\ \A f \in Operators \ {e} : op'[f] = op[f]
  BY DEF IInv, TypeOK, Request
<1>2. cleared' \subseteq Gates /\ ReadWasOpen'
  BY GatesAlone
<1>3. TypeOK'
  <2>1. \A f \in Operators : InScope(f, op'[f])
    BY <1>1 DEF IInv, TypeOK, InScope
  <2> QED
    BY <1>1, <1>2, <2>1 DEF IInv, TypeOK, Request, InScope
<1>4. AdapterOnly'
  BY DEF IInv, AdapterOnly
<1>5. SweepCovers'
  <2>1. ASSUME NEW f \in Operators, NEW o \in op'[f].resting
        PROVE  /\ order'[o] # "new"
               /\ op'[f].pc = "cancel" => order'[o] # "open" \/ o \in op'[f].sweep
    <3>1. CASE f = e
      BY <1>1, <2>1, <3>1 DEF Covered
    <3>2. CASE f # e
      <4>1. op'[f] = op[f] /\ o \in Orders
        BY <1>1, <2>1, <3>2 DEF IInv, TypeOK
      <4>2. /\ order[o] # "new"
            /\ op[f].pc = "cancel" => order[o] # "open" \/ o \in op[f].sweep
        BY <2>1, <4>1 DEF IInv, SweepCovers
      <4> QED
        BY <4>1, <4>2
    <3> QED
      BY <3>1, <3>2
  <2> QED
    BY <2>1 DEF SweepCovers
<1> QED
  BY <1>2, <1>3, <1>4, <1>5 DEF IInv

(* Most steps of a request touch no row and no order. *)
LEMMA QuietStep ==
  ASSUME IInv, NEW e \in Operators, NEW r \in Request, InScope(e, r), Covered(r),
         op' = [op EXCEPT ![e] = r], UNCHANGED <<rows, order, gate>>, RecordClear
  PROVE  IInv'
<1>1. Covered(r)'
  BY DEF Covered
<1>2. HaltLeavesTrace'
  BY DEF IInv, HaltLeavesTrace, rows
<1>3. /\ order' \in [Orders -> {"new", "open", "cancelled", "done"}]
      /\ \A o \in Orders : order'[o] = order[o]
      /\ tradingState' \in [Portfolios -> TradingStates] /\ enabled' = enabled
      /\ riskEvents' \in [Portfolios -> 0 .. RiskCap]
  BY DEF IInv, TypeOK, rows
<1> QED
  BY <1>1, <1>2, <1>3, RequestStep

LEMMA IdleRequest ==
  ASSUME NEW e \in Operators
  PROVE  NoRequest \in Request /\ InScope(e, NoRequest)
         /\ Covered(NoRequest) /\ Covered(NoRequest)'
BY DEF NoRequest, Request, InScope, Covered

LEMMA HaltRowSound ==
  ASSUME IInv, NEW p \in Portfolios, HaltRow(p)
  PROVE  /\ tradingState' \in [Portfolios -> TradingStates] /\ enabled' = enabled
         /\ riskEvents' \in [Portfolios -> 0 .. RiskCap] /\ HaltLeavesTrace'
<1>1. /\ tradingState' \in [Portfolios -> TradingStates] /\ enabled' = enabled
      /\ riskEvents' \in [Portfolios -> 0 .. RiskCap]
  BY SwitchAssumption DEF HaltRow, IInv, TypeOK, TradingStates
<1>2. ASSUME NEW q \in Portfolios, tradingState'[q] = "HALTED"
      PROVE  riskEvents'[q] > 0
  <2>1. riskEvents[q] \in 0 .. RiskCap
    BY DEF IInv, TypeOK
  <2>2. CASE q = p
    BY <2>1, <2>2, SwitchAssumption DEF HaltRow, IInv, TypeOK
  <2>3. CASE q # p
    BY <1>2, <2>3 DEF HaltRow, IInv, TypeOK, HaltLeavesTrace
  <2> QED
    BY <2>2, <2>3
<1> QED
  BY <1>1, <1>2 DEF HaltLeavesTrace

LEMMA EngageReadPreserves ==
  ASSUME IInv, NEW e \in Operators, EngageRead(e)
  PROVE  IInv'
<1>1. PICK found \in {{p} : p \in Scope[e]}
                      \union {{p \in Scope[e] : tradingState[p] = "ACTIVE"}} :
        op' = [op EXCEPT ![e].pc = "next",
                         ![e].targets = {p \in found :
                             tradingState[p] # "RECONCILIATION_ERROR"}]
  BY DEF EngageRead
<1>2. PICK T : T = {p \in found : tradingState[p] # "RECONCILIATION_ERROR"}
  OBVIOUS
<1>3. T \subseteq Scope[e] /\ Scope[e] \subseteq Portfolios
  BY <1>2, SwitchAssumption
<1>4. op[e] \in Request /\ InScope(e, op[e]) /\ Covered(op[e]) /\ op[e].pc = "idle"
  BY DEF EngageRead, IInv, TypeOK, Request, InScope, SweepCovers, Covered
<1>5. PICK r : r = [op[e] EXCEPT !.pc = "next", !.targets = T]
  OBVIOUS
<1>6. r \in Request /\ InScope(e, r) /\ Covered(r)
  BY <1>3, <1>4, <1>5 DEF Request, InScope, Covered
<1>7. op' = [op EXCEPT ![e] = r]
  BY <1>1, <1>2, <1>4, <1>5 DEF IInv, TypeOK
<1> QED
  BY <1>6, <1>7, QuietStep DEF EngageRead

LEMMA EngageHaltPreserves ==
  ASSUME IInv, NEW e \in Operators, NEW p \in Portfolios, EngageHalt(e, p)
  PROVE  IInv'
<1>1. PICK r : r = [op[e] EXCEPT !.pc = "halted", !.at = p, !.resting = OpenOrders(p)]
  OBVIOUS
<1>2. /\ op[e] \in Request /\ InScope(e, op[e]) /\ op[e].pc = "next"
      /\ p \in op[e].targets /\ HaltRow(p) /\ order' = order /\ gate' = gate
      /\ RecordClear /\ op' = [op EXCEPT ![e] = r]
  BY <1>1 DEF EngageHalt, IInv, TypeOK, Request, InScope
<1>3. r \in Request /\ InScope(e, r) /\ Covered(r)'
  BY <1>1, <1>2 DEF Request, InScope, Covered, OpenOrders
<1>4. /\ tradingState' \in [Portfolios -> TradingStates] /\ enabled' = enabled
      /\ riskEvents' \in [Portfolios -> 0 .. RiskCap] /\ HaltLeavesTrace'
  BY <1>2, HaltRowSound
<1>5. order' \in [Orders -> {"new", "open", "cancelled", "done"}]
  BY <1>2 DEF IInv, TypeOK
<1> QED
  BY <1>2, <1>3, <1>4, <1>5, RequestStep

LEMMA EngageFailsPreserves ==
  ASSUME IInv, NEW e \in Operators, NEW p \in Portfolios, EngageFails(e, p)
  PROVE  IInv'
<1>1. /\ order' = order /\ gate' = gate /\ RecordClear
      /\ op' = [op EXCEPT ![e] = NoRequest]
  BY DEF EngageFails
<1>2. /\ tradingState' \in [Portfolios -> TradingStates] /\ enabled' = enabled
      /\ riskEvents' \in [Portfolios -> 0 .. RiskCap] /\ HaltLeavesTrace'
  <2>1. CASE HaltRow(p)
    BY <2>1, HaltRowSound
  <2>2. CASE UNCHANGED rows
    BY <2>2 DEF rows, IInv, TypeOK, HaltLeavesTrace
  <2> QED
    BY <2>1, <2>2 DEF EngageFails
<1>3. order' \in [Orders -> {"new", "open", "cancelled", "done"}]
  BY <1>1 DEF IInv, TypeOK
<1> QED
  BY <1>1, <1>2, <1>3, IdleRequest, RequestStep

LEMMA ListOpenOrdersPreserves ==
  ASSUME IInv, NEW e \in Operators, ListOpenOrders(e)
  PROVE  IInv'
<1>1. PICK r : r = [op[e] EXCEPT !.pc = "cancel",
                      !.sweep = IF op[e].at \in Demo THEN OpenOrders(op[e].at) ELSE {}]
  OBVIOUS
<1>2. /\ op[e] \in Request /\ InScope(e, op[e]) /\ Covered(op[e])
      /\ op[e].pc = "halted" /\ op' = [op EXCEPT ![e] = r]
  BY <1>1 DEF ListOpenOrders, IInv, TypeOK, Request, InScope, SweepCovers, Covered
<1>3. \A o \in op[e].resting : order[o] = "open" => o \in OpenOrders(op[e].at)
                                                 /\ op[e].at \in Demo
  BY <1>2 DEF IInv, AdapterOnly, InScope, Request, OpenOrders
<1>4. r \in Request /\ InScope(e, r) /\ Covered(r)
  <2>1. /\ r.sweep \subseteq OpenOrders(op[e].at) /\ OpenOrders(op[e].at) \subseteq Orders
        /\ r.pc = "cancel" /\ r.targets = op[e].targets /\ r.at = op[e].at
        /\ r.resting = op[e].resting
        /\ op[e].at \in Demo => r.sweep = OpenOrders(op[e].at)
    BY <1>1, <1>2 DEF Request, OpenOrders
  <2>2. r \in Request
    BY <1>1, <1>2, <2>1 DEF Request
  <2>3. InScope(e, r)
    BY <1>2, <2>1 DEF InScope, OpenOrders
  <2>4. Covered(r)
    BY <1>2, <1>3, <2>1 DEF Covered
  <2> QED
    BY <2>2, <2>3, <2>4
<1> QED
  BY <1>2, <1>4, QuietStep DEF ListOpenOrders

LEMMA CancelRestingPreserves ==
  ASSUME IInv, NEW e \in Operators, NEW o \in Orders, CancelResting(e, o)
  PROVE  IInv'
<1>1. PICK r : r = [op[e] EXCEPT !.sweep = @ \ {o}]
  OBVIOUS
<1>2. /\ op[e] \in Request /\ InScope(e, op[e]) /\ Covered(op[e])
      /\ op[e].pc = "cancel" /\ o \in op[e].sweep /\ op' = [op EXCEPT ![e] = r]
      /\ order' = [order EXCEPT ![o] = IF @ = "open" THEN "cancelled" ELSE @]
  BY <1>1 DEF CancelResting, IInv, TypeOK, Request, InScope, SweepCovers, Covered
<1>3. /\ order' \in [Orders -> {"new", "open", "cancelled", "done"}]
      /\ order'[o] # "open"
      /\ \A q \in Orders :
           order'[q] = order[q] \/ (order[q] # "new" /\ order'[q] = "cancelled")
  BY <1>2 DEF IInv, TypeOK
<1>4. r \in Request /\ InScope(e, r)
  BY <1>1, <1>2 DEF Request, InScope
<1>5. Covered(r)'
  <2>1. r.resting = op[e].resting /\ r.pc = "cancel" /\ r.sweep = op[e].sweep \ {o}
    BY <1>1, <1>2 DEF Request
  <2>2. \A q \in r.resting : q \in Orders /\ order[q] # "new"
                            /\ (order[q] # "open" \/ q \in op[e].sweep)
    BY <1>2, <2>1 DEF Covered, Request
  <2>3. \A q \in r.resting : order'[q] # "new" /\ (order'[q] # "open" \/ q \in r.sweep)
    BY <1>3, <2>1, <2>2
  <2> QED
    BY <2>3 DEF Covered
<1>6. /\ tradingState' \in [Portfolios -> TradingStates] /\ enabled' = enabled
      /\ riskEvents' \in [Portfolios -> 0 .. RiskCap] /\ HaltLeavesTrace'
  BY DEF CancelResting, rows, IInv, TypeOK, HaltLeavesTrace
<1> QED
  BY <1>2, <1>3, <1>4, <1>5, <1>6, RequestStep DEF CancelResting

LEMMA PortfolioDonePreserves ==
  ASSUME IInv, NEW e \in Operators, PortfolioDone(e)
  PROVE  IInv'
<1>1. PICK r : r = [op[e] EXCEPT !.pc = "next", !.at = None, !.resting = {},
                                 !.targets = @ \ {op[e].at}]
  OBVIOUS
<1>2. /\ op[e] \in Request /\ InScope(e, op[e]) /\ op[e].sweep = {}
      /\ op' = [op EXCEPT ![e] = r]
  BY <1>1 DEF PortfolioDone, IInv, TypeOK, Request, InScope
<1>3. r \in Request /\ InScope(e, r) /\ Covered(r)
  BY <1>1, <1>2 DEF Request, InScope, Covered
<1> QED
  BY <1>2, <1>3, QuietStep DEF PortfolioDone

LEMMA ReleaseReadPreserves ==
  ASSUME IInv, NEW e \in Operators, ReleaseRead(e)
  PROVE  IInv'
<1>1. PICK p \in Scope[e] :
        op' = [op EXCEPT ![e] = [NoRequest EXCEPT !.pc = "release", !.at = p]]
  BY DEF ReleaseRead
<1>2. PICK r : r = [NoRequest EXCEPT !.pc = "release", !.at = p]
  OBVIOUS
<1>3. r \in Request /\ InScope(e, r) /\ Covered(r)
  BY <1>2, SwitchAssumption DEF NoRequest, Request, InScope, Covered
<1> QED
  BY <1>1, <1>2, <1>3, QuietStep DEF ReleaseRead

LEMMA ReleaseCommitPreserves ==
  ASSUME IInv, NEW e \in Operators, ReleaseCommit(e)
  PROVE  IInv'
<1>1. op[e].at \in Portfolios
  BY SwitchAssumption DEF ReleaseCommit, IInv, TypeOK
<1>2. /\ tradingState' = [tradingState EXCEPT ![op[e].at] = "ACTIVE"]
      /\ riskEvents' = [riskEvents EXCEPT ![op[e].at] = 0]
      /\ op' = [op EXCEPT ![e] = NoRequest]
      /\ enabled' = enabled /\ order' = order /\ gate' = gate /\ RecordClear
  BY DEF ReleaseCommit
<1>3. /\ tradingState' \in [Portfolios -> TradingStates]
      /\ riskEvents' \in [Portfolios -> 0 .. RiskCap]
      /\ order' \in [Orders -> {"new", "open", "cancelled", "done"}]
  BY <1>1, <1>2, SwitchAssumption DEF IInv, TypeOK, TradingStates
<1>4. HaltLeavesTrace'
  BY <1>1, <1>2 DEF IInv, TypeOK, HaltLeavesTrace
<1> QED
  BY <1>2, <1>3, <1>4, IdleRequest, RequestStep
-----------------------------------------------------------------------------
(* Steps of gate evaluations and of the environment: no request moves.      *)

LEMMA OtherStep ==
  ASSUME IInv, op' = op, RecordClear,
         gate' \in [Gates -> Evaluation],
         \A g \in Gates :
           \/ gate'[g] = gate[g] \/ ~gate'[g].open
           \/ gate'[g].portfolio \in Demo /\ gate'[g].pc # "idle" /\ g \in cleared',
         \A g \in Gates : gate'[g].pc = "allowed" => gate'[g].open,
         order' \in [Orders -> {"new", "open", "cancelled", "done"}],
         \A o \in Orders :
           \/ order'[o] = order[o]
           \/ order[o] = "new" /\ order'[o] = "open" /\ PortfolioOf[o] \in Demo
           \/ order[o] = "open" /\ order'[o] = "done",
         tradingState' \in [Portfolios -> TradingStates],
         enabled' \in [Portfolios -> BOOLEAN], riskEvents' = riskEvents,
         \A p \in Portfolios : tradingState'[p] = "HALTED" => tradingState[p] = "HALTED"
  PROVE  IInv'
<1>1. TypeOK'
  BY DEF IInv, TypeOK, Evaluation, RecordClear
<1>2. HaltLeavesTrace'
  BY DEF IInv, HaltLeavesTrace
<1>3. AdapterOnly'
  BY DEF IInv, AdapterOnly
<1>4. ReadWasOpen'
  <2>1. ASSUME NEW g \in Gates, gate'[g].pc = "probing", gate'[g].open
        PROVE  g \in cleared'
    <3>1. CASE gate'[g] = gate[g]
      BY <2>1, <3>1 DEF IInv, ReadWasOpen, RecordClear
    <3>2. CASE gate'[g] # gate[g]
      BY <2>1, <3>2
    <3> QED
      BY <3>1, <3>2
  <2> QED
    BY <2>1 DEF ReadWasOpen
<1>5. SweepCovers'
  <2>1. ASSUME NEW e \in Operators, NEW o \in op[e].resting
        PROVE  /\ order'[o] # "new"
               /\ op[e].pc = "cancel" => order'[o] # "open" \/ o \in op[e].sweep
    <3>1. o \in Orders
      BY <2>1 DEF IInv, TypeOK
    <3>2. /\ order[o] # "new"
          /\ op[e].pc = "cancel" => order[o] # "open" \/ o \in op[e].sweep
      BY <2>1 DEF IInv, SweepCovers
    <3> QED
      BY <3>1, <3>2
  <2> QED
    BY <2>1 DEF SweepCovers
<1> QED
  BY <1>1, <1>2, <1>3, <1>4, <1>5 DEF IInv

LEMMA GatePreserves ==
  ASSUME IInv, NEW g \in Gates,
         \/ \E p \in Portfolios : GateRead(g, p)
         \/ GateAllows(g) \/ GateRefuses(g)
         \/ \E o \in Orders : SubmitOrder(g, o)
         \/ GiveUp(g)
  PROVE  IInv'
<1>1. /\ gate \in [Gates -> Evaluation] /\ NoEvaluation \in Evaluation
      /\ ~NoEvaluation.open /\ NoEvaluation.pc = "idle"
  BY DEF IInv, TypeOK, Evaluation, NoEvaluation
<1>2. /\ order \in [Orders -> {"new", "open", "cancelled", "done"}]
      /\ tradingState \in [Portfolios -> TradingStates]
      /\ enabled \in [Portfolios -> BOOLEAN]
      /\ \A h \in Gates : gate[h].pc = "allowed" => gate[h].open
      /\ \A h \in Gates : gate[h].open => gate[h].portfolio \in Demo
      /\ \A h \in Gates : gate[h].pc = "probing" /\ gate[h].open => h \in cleared
  BY DEF IInv, TypeOK, AdapterOnly, ReadWasOpen
<1>3. ASSUME NEW p \in Portfolios, GateRead(g, p) PROVE IInv'
  <2>1. PICK v : v = [pc |-> "probing", portfolio |-> p, open |-> ~RowBlocks(p)]
    OBVIOUS
  <2>2. /\ v \in Evaluation /\ v.pc = "probing"
        /\ v.open => p \in Demo /\ tradingState[p] = "ACTIVE" /\ enabled[p]
        /\ v.portfolio = p
    BY <2>1 DEF RowBlocks, Evaluation
  <2>3. /\ gate' = [gate EXCEPT ![g] = v] /\ RecordClear
        /\ UNCHANGED <<rows, order, op>>
    BY <1>3, <2>1 DEF GateRead
  <2>4. gate' \in [Gates -> Evaluation] /\ gate'[g] = v
        /\ \A h \in Gates \ {g} : gate'[h] = gate[h]
    BY <1>1, <2>2, <2>3
  <2>5. v.open => g \in cleared'
    BY <2>2, <2>3, <2>4 DEF RecordClear, rows
  <2> QED
    BY <1>2, <2>2, <2>3, <2>4, <2>5, OtherStep DEF rows
<1>4. CASE GateAllows(g)
  <2>1. PICK v : v = [gate[g] EXCEPT !.pc = "allowed"]
    OBVIOUS
  <2>2. /\ v \in Evaluation /\ v.pc = "allowed" /\ v.open
        /\ v.portfolio = gate[g].portfolio /\ g \in cleared /\ v.portfolio \in Demo
    BY <1>1, <1>2, <1>4, <2>1 DEF GateAllows, Evaluation
  <2>3. /\ gate' = [gate EXCEPT ![g] = v] /\ RecordClear
        /\ UNCHANGED <<rows, order, op>>
    BY <1>1, <1>4, <2>1 DEF GateAllows
  <2>4. gate' \in [Gates -> Evaluation] /\ gate'[g] = v
        /\ \A h \in Gates \ {g} : gate'[h] = gate[h]
    BY <1>1, <2>2, <2>3
  <2>5. g \in cleared'
    BY <2>2, <2>3, <2>4 DEF RecordClear
  <2> QED
    BY <1>2, <2>2, <2>3, <2>4, <2>5, OtherStep DEF rows
<1>5. ASSUME gate' = [gate EXCEPT ![g] = NoEvaluation]
      PROVE  /\ gate' \in [Gates -> Evaluation]
             /\ \A h \in Gates : gate'[h] = gate[h] \/ ~gate'[h].open
             /\ \A h \in Gates : gate'[h].pc = "allowed" => gate'[h].open
  BY <1>1, <1>2, <1>5
<1>6. CASE GateRefuses(g) \/ GiveUp(g)
  BY <1>2, <1>5, <1>6, OtherStep DEF GateRefuses, GiveUp, rows
<1>7. ASSUME NEW o \in Orders, SubmitOrder(g, o) PROVE IInv'
  <2>1. PortfolioOf[o] \in Demo
    BY <1>2, <1>7 DEF SubmitOrder
  <2>2. /\ order' \in [Orders -> {"new", "open", "cancelled", "done"}]
        /\ \A q \in Orders :
             \/ order'[q] = order[q]
             \/ order[q] = "new" /\ order'[q] = "open" /\ PortfolioOf[q] \in Demo
    BY <1>2, <1>7, <2>1 DEF SubmitOrder
  <2> QED
    BY <1>2, <1>5, <1>7, <2>2, OtherStep DEF SubmitOrder, rows
<1> QED
  BY <1>3, <1>4, <1>6, <1>7

LEMMA EnvironmentPreserves == IInv /\ Environment => IInv'
<1> SUFFICES ASSUME IInv, Environment PROVE IInv'
  OBVIOUS
<1>1. /\ gate \in [Gates -> Evaluation]
      /\ order \in [Orders -> {"new", "open", "cancelled", "done"}]
      /\ tradingState \in [Portfolios -> TradingStates]
      /\ enabled \in [Portfolios -> BOOLEAN]
      /\ \A g \in Gates : gate[g].pc = "allowed" => gate[g].open
  BY DEF IInv, TypeOK, Evaluation, AdapterOnly
<1>2. ASSUME NEW o \in Orders, OrderTrades(o) PROVE IInv'
  <2>1. /\ order' \in [Orders -> {"new", "open", "cancelled", "done"}]
        /\ \A q \in Orders :
             \/ order'[q] = order[q]
             \/ order[q] = "open" /\ order'[q] = "done"
    BY <1>1, <1>2 DEF OrderTrades
  <2> QED
    BY <1>1, <1>2, <2>1, OtherStep DEF OrderTrades, rows
<1>3. ASSUME NEW p \in Portfolios,
             ReconciliationMismatch(p) \/ ReconciliationResolved(p)
      PROVE  IInv'
  <2>1. /\ tradingState' \in [Portfolios -> TradingStates]
        /\ \A q \in Portfolios :
             tradingState'[q] = "HALTED" => tradingState[q] = "HALTED"
    BY <1>1, <1>3 DEF ReconciliationMismatch, ReconciliationResolved, TradingStates
  <2> QED
    BY <1>1, <1>3, <2>1, OtherStep
    DEF ReconciliationMismatch, ReconciliationResolved
<1>4. ASSUME NEW p \in Portfolios, UpdatePortfolio(p) PROVE IInv'
  <2>1. enabled' \in [Portfolios -> BOOLEAN]
    BY <1>1, <1>4 DEF UpdatePortfolio
  <2> QED
    BY <1>1, <1>4, <2>1, OtherStep DEF UpdatePortfolio
<1> QED
  BY <1>2, <1>3, <1>4 DEF Environment

LEMMA StepPreserves == IInv /\ [Next]_vars => IInv'
<1> SUFFICES ASSUME IInv, [Next]_vars PROVE IInv'
  OBVIOUS
<1>1. CASE Operate
  <2> SUFFICES ASSUME NEW e \in Operators,
                      \/ EngageRead(e) \/ ListOpenOrders(e) \/ PortfolioDone(e)
                      \/ EngageReturn(e)
                      \/ \E p \in Portfolios : EngageHalt(e, p) \/ EngageFails(e, p)
                      \/ \E o \in Orders : CancelResting(e, o)
                      \/ ReleaseRead(e) \/ ReleaseCommit(e) \/ ReleaseFails(e)
               PROVE  IInv'
    BY <1>1 DEF Operate
  <2>1. EngageReturn(e) \/ ReleaseFails(e) => IInv'
    BY IdleRequest, QuietStep DEF EngageReturn, ReleaseFails
  <2> QED
    BY <2>1, EngageReadPreserves, EngageHaltPreserves, EngageFailsPreserves,
       ListOpenOrdersPreserves, CancelRestingPreserves, PortfolioDonePreserves,
       ReleaseReadPreserves, ReleaseCommitPreserves
<1>2. CASE Evaluate
  BY <1>2, GatePreserves DEF Evaluate
<1>3. CASE Environment
  BY <1>3, EnvironmentPreserves
<1>4. CASE UNCHANGED vars
  BY <1>4 DEF vars, rows, IInv, TypeOK, HaltLeavesTrace, AdapterOnly, ReadWasOpen,
              SweepCovers
<1> QED
  BY <1>1, <1>2, <1>3, <1>4 DEF Next

LEMMA AlwaysSound == Spec => []IInv
BY InitSound, StepPreserves, PTL DEF Spec
-----------------------------------------------------------------------------
(* TypeOK: besides the types, no request ever acts on a portfolio outside   *)
(* its caller's scope nor cancels an order of another portfolio.            *)
THEOREM SwitchTypeOK == Spec => []TypeOK
<1>1. IInv => TypeOK
  BY DEF IInv
<1> QED
  BY <1>1, AlwaysSound, PTL

(* HaltLeavesTrace: however halts, releases, failures and mismatches race,  *)
(* a halted portfolio has an unresolved risk event.                         *)
THEOREM HaltsAreTraced == Spec => []HaltLeavesTrace
<1>1. IInv => HaltLeavesTrace
  BY DEF IInv
<1> QED
  BY <1>1, AlwaysSound, PTL

(* SweepComplete: when engage moves on from a portfolio, nothing that       *)
(* rested there when the halt was committed rests any more.                 *)
THEOREM SweepsAreComplete == Spec => SweepComplete
<1>1. ASSUME IInv, [Next]_vars, NEW e \in Operators,
             op[e].pc = "cancel", op'[e].pc = "next", NEW o \in op[e].resting
      PROVE  order[o] # "open"
  <2>1. op[e].sweep = {}
    <3>1. op \in [Operators -> Request] /\ op' # op
      BY <1>1 DEF IInv, TypeOK, Request
    <3>2. Operate
      BY <1>1, <3>1
      DEF Next, Evaluate, Environment, GateRead, GateAllows, GateRefuses, SubmitOrder,
          GiveUp, OrderTrades, ReconciliationMismatch, ReconciliationResolved,
          UpdatePortfolio, vars
    <3>3. PICK f \in Operators :
            \/ EngageRead(f) \/ ListOpenOrders(f) \/ PortfolioDone(f) \/ EngageReturn(f)
            \/ \E p \in Portfolios : EngageHalt(f, p) \/ EngageFails(f, p)
            \/ \E q \in Orders : CancelResting(f, q)
            \/ ReleaseRead(f) \/ ReleaseCommit(f) \/ ReleaseFails(f)
      BY <3>2 DEF Operate
    <3>4. \A h \in Operators \ {f} : op'[h] = op[h]
      BY <3>1, <3>3
      DEF EngageRead, ListOpenOrders, PortfolioDone, EngageReturn, EngageHalt,
          EngageFails, CancelResting, ReleaseRead, ReleaseCommit, ReleaseFails
    <3>5. f = e
      BY <1>1, <3>4
    <3>6. ~(EngageRead(e) \/ EngageReturn(e) \/ ReleaseRead(e) \/ ListOpenOrders(e)
             \/ ReleaseCommit(e) \/ ReleaseFails(e))
      BY <1>1
      DEF EngageRead, EngageReturn, ReleaseRead, ListOpenOrders, ReleaseCommit,
          ReleaseFails
    <3>7. ~\E p \in Portfolios : EngageHalt(e, p) \/ EngageFails(e, p)
      BY <1>1 DEF EngageHalt, EngageFails
    <3>8. ~\E q \in Orders : CancelResting(e, q)
      BY <1>1, <3>1 DEF CancelResting, Request
    <3>9. PortfolioDone(e)
      BY <3>3, <3>5, <3>6, <3>7, <3>8
    <3> QED
      BY <3>9 DEF PortfolioDone
  <2> QED
    BY <1>1, <2>1 DEF IInv, SweepCovers
<1>2. IInv /\ [Next]_vars =>
        [\A e \in Operators :
           op[e].pc = "cancel" /\ op'[e].pc = "next" =>
             \A o \in op[e].resting : order[o] # "open"]_vars
  BY <1>1
<1> QED
  BY <1>2, AlwaysSound, PTL DEF Spec, SweepComplete

(* AllowedWasOpen: an allowing decision rests on a moment, during the       *)
(* evaluation, at which the portfolio was active, enabled and not halted.   *)
THEOREM AllowancesWereTrue == Spec => AllowedWasOpen
<1>1. ASSUME IInv, [Next]_vars, NEW g \in Gates,
             gate[g].pc # "allowed", gate'[g].pc = "allowed"
      PROVE  g \in cleared
  <2>1. gate \in [Gates -> Evaluation] /\ gate' # gate
    BY <1>1 DEF IInv, TypeOK, Evaluation
  <2>2. Evaluate
    BY <1>1, <2>1
    DEF Next, Operate, Environment, EngageRead, ListOpenOrders, PortfolioDone,
        EngageReturn, EngageHalt, EngageFails, CancelResting, ReleaseRead,
        ReleaseCommit, ReleaseFails, OrderTrades, ReconciliationMismatch,
        ReconciliationResolved, UpdatePortfolio, vars
  <2>3. GateAllows(g)
    BY <1>1, <2>1, <2>2
    DEF Evaluate, GateRead, GateAllows, GateRefuses, SubmitOrder, GiveUp, NoEvaluation
  <2> QED
    BY <1>1, <2>3 DEF GateAllows, IInv, ReadWasOpen
<1>2. IInv /\ [Next]_vars =>
        [\A g \in Gates :
           gate[g].pc # "allowed" /\ gate'[g].pc = "allowed" => g \in cleared]_vars
  BY <1>1
<1> QED
  BY <1>2, AlwaysSound, PTL DEF Spec, AllowedWasOpen
=============================================================================
