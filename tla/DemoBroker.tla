----------------------------- MODULE DemoBroker -----------------------------
(***************************************************************************)
(* The simulated venue of the DEMO environment,                             *)
(* apps/api/src/modules/broker/demo-broker.ts, over the sessions of         *)
(* market-simulator.ts.                                                     *)
(*                                                                         *)
(* Matching is lazy: nothing happens to an order until somebody asks about  *)
(* it, and settle() then replays the match slices since the last question.  *)
(* One tick of `now` is one match slice (MATCH_SLICE_MS).  Every call is    *)
(* synchronous JavaScript, so while `pc` is not "idle" neither the clock    *)
(* nor another call moves; each pass through the matching loop is a step.   *)
(*                                                                         *)
(* Prices are integers in units of 0.0001, quantities in the smallest step  *)
(* roundQuantity keeps.                                                     *)
(***************************************************************************)
EXTENDS Integers, Sequences, SequencesExt, OrderLifecycle

CONSTANTS
  Symbols,        \* traded symbols
  Keys,           \* idempotency keys callers use
  Requests,       \* the PlaceOrderRequests callers send
  Quotes,         \* [bid, ask] pairs the price path can show
  Liquidity,      \* liquidityPerSecond of every symbol
  StartingCash,   \* startingCash, in price units
  QtyScale,       \* request quantity units per step roundQuantity keeps
  AckTicks,       \* ACK_LATENCY_MS, in ticks
  MaxSlices,      \* MAX_SLICES_PER_SETTLE
  ImpactBps, ImpactScale,       \* 3 bps and the 10_000 it is divided by
  SecRate, TafPerShare, TafCap, \* regulatory fee schedule, SecRate per 10_000
  Cent,           \* price units in MONEY_DP's last digit
  AvgScale,       \* averageEntryPrice keeps this many steps per price unit
  DayTicks,       \* ticks of one UTC day
  ClosedTicks,    \* ticks from midnight to the pre-market open
  ClosedDays,     \* days on which the venue does not open (weekends)
  MaxOrders,      \* bound: orders ever placed between two resets
  Horizon         \* bound: last tick of the clock

Sides        == {"BUY", "SELL"}
OrderTypes   == {"MARKET", "LIMIT", "STOP", "STOP_LIMIT"}
TimesInForce == {"DAY", "GTC", "IOC", "FOK"}
OrderIds     == 1 .. MaxOrders
NoKey        == "no key"

(* The slice budget is shorter than the night: 900 s against 8 h. *)
ASSUME VenueAssumption ==
  /\ Liquidity \in [Symbols -> Nat \ {0}]
  /\ StartingCash \in Nat /\ QtyScale \in Nat \ {0} /\ AckTicks \in Nat \ {0}
  /\ MaxSlices \in Nat \ {0} /\ ClosedTicks \in Nat /\ DayTicks \in Nat \ {0}
  /\ AckTicks <= 1 /\ MaxSlices <= ClosedTicks /\ ClosedTicks < DayTicks
  /\ MaxOrders \in Nat \ {0} /\ Horizon \in Nat /\ ClosedDays \subseteq Nat
  /\ IsFiniteSet(Symbols)

ASSUME PriceAssumption ==
  /\ Quotes # {} /\ Quotes \subseteq [bid : Nat, ask : Nat]
  /\ ImpactBps \in Nat /\ ImpactScale \in Nat \ {0}
  /\ SecRate \in Nat /\ TafPerShare \in Nat /\ TafCap \in Nat
  /\ Cent \in Nat \ {0} /\ AvgScale \in Nat \ {0}

(* A sale pays for its fees: the impact of one slice is 3 bps at most, the  *)
(* fee on the notional a third of one, and the simulator quotes no share    *)
(* below 14 dollars where the fee on it is a sixtieth of a cent.            *)
ASSUME SaleAssumption ==
  /\ 2 * ImpactBps <= ImpactScale /\ 4 * SecRate <= 10000
  /\ \A q \in Quotes : 16 * TafPerShare + 2 <= q.bid

ASSUME RequestAssumption ==
  /\ Requests # {}
  /\ Requests \subseteq [symbol : Symbols, side : Sides, type : OrderTypes,
                         tif : TimesInForce, qty : Int, limit : Int, stop : Int]

VARIABLES
  now,        \* this.now(), in ticks
  quotes,     \* the deterministic price path, revealed as time passes
  orders,     \* this.orders, in insertion order
  placed,     \* number of orders in it
  cash,       \* this.cash
  position,   \* this.positions
  pc, task, cur, slices    \* the call in progress

clock   == <<now, quotes>>
book    == <<orders, placed>>
account == <<cash, position>>
control == <<pc, task, cur, slices>>
vars    == <<clock, book, account, control>>
-----------------------------------------------------------------------------
(* Arithmetic *)

SmallerOf(a, b) == IF a <= b THEN a ELSE b
Magnitude(n)    == IF n < 0 THEN -n ELSE n

(* n / d to the nearest integer, ties to even (Decimal.ROUND_HALF_EVEN). *)
DivHalfEven(n, d) ==
  LET q == n \div d
      r == n % d
  IN  IF 2 * r > d \/ (2 * r = d /\ q % 2 = 1) THEN q + 1 ELSE q

(* roundQuantity truncates. *)
RoundQuantity(q) == q \div QtyScale

(* Sessions and days of the simulated market calendar. *)
Day(t)  == t \div DayTicks
Open(t) == Day(t) \notin ClosedDays /\ t % DayTicks >= ClosedTicks

(* Impact moves the price against the taker in proportion to its share of  *)
(* the liquidity of the second.                                            *)
FillPrice(side, price, qty, available) ==
  LET whole  == ImpactScale * available
      impact == ImpactBps * qty
  IN  DivHalfEven(price * (IF side = "BUY" THEN whole + impact
                                           ELSE whole - impact), whole)

FeesFor(side, qty, notional) ==
  IF side # "SELL" THEN 0
  ELSE Cent * DivHalfEven(notional * SecRate
                            + 10000 * SmallerOf(qty * TafPerShare, TafCap),
                          10000 * Cent)
-----------------------------------------------------------------------------
(* Orders and positions *)

NoOrder ==
  [key |-> NoKey, req |-> CHOOSE r \in Requests : TRUE, qty |-> 0,
   status |-> "NONE", filled |-> 0, submittedAt |-> 0, matchedTo |-> 0,
   triggered |-> FALSE, fills |-> <<>>]

Flat == [qty |-> 0, avg |-> 0, realized |-> 0]

IsOpen(o) == o.status # "NONE" /\ ~IsTerminalOrderStatus(o.status)

(* Mutant of ApplyToPosition: a flipped position keeps its old cost basis.  *)
ApplyToPositionKeepingBasis(p, side, qty, price) ==
  LET signed    == IF side = "BUY" THEN qty ELSE -qty
      newQty    == p.qty + signed
      sameSide  == (p.qty >= 0) <=> (signed >= 0)
      closed    == SmallerOf(qty, Magnitude(p.qty))
      direction == IF p.qty >= 0 THEN 1 ELSE -1
      cost      == p.avg * Magnitude(p.qty) + price * AvgScale * qty
  IN  IF p.qty = 0 \/ sameSide
      THEN [p EXCEPT !.qty = newQty,
                     !.avg = IF newQty = 0 THEN 0
                             ELSE DivHalfEven(cost, Magnitude(newQty))]
      ELSE [qty      |-> newQty,
            realized |-> p.realized
                           + (price * AvgScale - p.avg) * closed * direction,
            avg      |-> IF newQty = 0 THEN 0 ELSE p.avg]

(* Weighted-average cost when adding, realised P&L when reducing or        *)
(* flipping.                                                               *)
ApplyToPosition(p, side, qty, price) ==
  LET signed    == IF side = "BUY" THEN qty ELSE -qty
      newQty    == p.qty + signed
      sameSide  == (p.qty >= 0) <=> (signed >= 0)
      closed    == SmallerOf(qty, Magnitude(p.qty))
      direction == IF p.qty >= 0 THEN 1 ELSE -1
      cost      == p.avg * Magnitude(p.qty) + price * AvgScale * qty
  IN  IF p.qty = 0 \/ sameSide
      THEN [p EXCEPT !.qty = newQty,
                     !.avg = IF newQty = 0 THEN 0
                             ELSE DivHalfEven(cost, Magnitude(newQty))]
      ELSE [qty      |-> newQty,
            realized |-> p.realized
                           + (price * AvgScale - p.avg) * closed * direction,
            avg      |-> IF newQty = 0 THEN 0
                         ELSE IF (newQty >= 0) # (p.qty >= 0)
                              THEN price * AvgScale
                              ELSE p.avg]

PreTradeReject(r, qty) ==
  \/ ~Open(now) /\ r.tif = "IOC"
  \/ r.side = "SELL" /\ position[r.symbol].qty < qty
-----------------------------------------------------------------------------
(* Entry points.  Each ends in settle() of one order or of all of them.     *)

BeginSettle(t, o) ==
  /\ pc' = "settle" /\ task' = t /\ cur' = o /\ slices' = 0

Idle == pc = "idle"

(* Mutant of PlaceOrder: the idempotency key is not looked up.              *)
PlaceOrderIgnoringKey(k, r) ==
  LET o   == placed + 1
      qty == RoundQuantity(r.qty)
  IN  /\ Idle /\ placed < MaxOrders
      /\ r.qty > 0
      /\ placed' = o
      /\ orders' = [orders EXCEPT ![o] =
           [key |-> k, req |-> r, qty |-> qty,
            status |-> IF PreTradeReject(r, qty) THEN "REJECTED"
                                                 ELSE "SUBMITTED",
            filled |-> 0, submittedAt |-> now, matchedTo |-> now + AckTicks,
            triggered |-> r.type \notin {"STOP", "STOP_LIMIT"},
            fills |-> <<>>]]
      /\ BeginSettle("status", o)
      /\ UNCHANGED <<clock, account>>

(* placeOrder with a key the venue has not seen.  A non-positive quantity   *)
(* throws before anything changes.                                          *)
PlaceOrder(k, r) ==
  LET o   == placed + 1
      qty == RoundQuantity(r.qty)
  IN  /\ Idle /\ placed < MaxOrders
      /\ \A i \in 1 .. placed : orders[i].key # k
      /\ r.qty > 0
      /\ placed' = o
      /\ orders' = [orders EXCEPT ![o] =
           [key |-> k, req |-> r, qty |-> qty,
            status |-> IF PreTradeReject(r, qty) THEN "REJECTED"
                                                 ELSE "SUBMITTED",
            filled |-> 0, submittedAt |-> now, matchedTo |-> now + AckTicks,
            triggered |-> r.type \notin {"STOP", "STOP_LIMIT"},
            fills |-> <<>>]]
      /\ BeginSettle("status", o)
      /\ UNCHANGED <<clock, account>>

(* placeOrder repeated with a known key, whatever the request says.         *)
RetryPlaceOrder(k) ==
  /\ Idle
  /\ \E o \in 1 .. placed : orders[o].key = k /\ BeginSettle("status", o)
  /\ UNCHANGED <<clock, book, account>>

GetOrderStatus(o) ==
  /\ Idle /\ o <= placed
  /\ BeginSettle("status", o)
  /\ UNCHANGED <<clock, book, account>>

(* getOrders, getAccount and getPositions settle every order in turn.       *)
SettleAll ==
  /\ Idle /\ placed > 0
  /\ BeginSettle("sweep", 1)
  /\ UNCHANGED <<clock, book, account>>

CancelOrder(o) ==
  /\ Idle /\ o <= placed
  /\ BeginSettle("cancel", o)
  /\ UNCHANGED <<clock, book, account>>

(* reset(), or the loss of the process.                                     *)
Reset ==
  /\ Idle /\ placed > 0
  /\ orders' = [o \in OrderIds |-> NoOrder] /\ placed' = 0
  /\ cash' = StartingCash /\ position' = [s \in Symbols |-> Flat]
  /\ UNCHANGED <<clock, control>>
-----------------------------------------------------------------------------
(* settle(): the order in progress and how a pass of its loop leaves it.    *)

Current == orders[cur]
At      == Current.matchedTo
Symbol  == Current.req.symbol
Quote   == quotes[At][Symbol]
Touch   == IF Current.req.side = "BUY" THEN Quote.ask ELSE Quote.bid

Become(o) == orders' = [orders EXCEPT ![cur] = o] /\ UNCHANGED placed

(* settle() returned with the order in status s: finish the call.           *)
Return(s) ==
  LET cancelNext == task = "cancel" /\ ~IsTerminalOrderStatus(s)
      sweepNext  == task = "sweep" /\ cur < placed
  IN  /\ slices' = 0
      /\ pc'   = IF cancelNext THEN "cancel"
                 ELSE IF sweepNext THEN "settle" ELSE "idle"
      /\ task' = IF cancelNext \/ sweepNext THEN task ELSE "none"
      /\ cur'  = IF cancelNext THEN cur ELSE IF sweepNext THEN cur + 1 ELSE 0

(* Nothing to do: terminal, or not acknowledged by the venue yet.           *)
SettleNothing ==
  /\ pc = "settle"
  /\ IsTerminalOrderStatus(Current.status)
       \/ now < Current.submittedAt + AckTicks
  /\ Return(Current.status)
  /\ UNCHANGED <<clock, book, account>>

(* Mutant of StartMatching: terminal orders are matched again.              *)
StartMatchingAnyOrder ==
  /\ pc = "settle"
  /\ now >= Current.submittedAt + AckTicks
  /\ Become([Current EXCEPT !.status = IF @ = "SUBMITTED" THEN "ACKNOWLEDGED"
                                                          ELSE @])
  /\ pc' = "match"
  /\ UNCHANGED <<task, cur, slices, clock, account>>

StartMatching ==
  /\ pc = "settle"
  /\ ~IsTerminalOrderStatus(Current.status)
  /\ now >= Current.submittedAt + AckTicks
  /\ Become([Current EXCEPT !.status = IF @ = "SUBMITTED" THEN "ACKNOWLEDGED"
                                                          ELSE @])
  /\ pc' = "match"
  /\ UNCHANGED <<task, cur, slices, clock, account>>

(* Mutant of InLoop: one slice more than the budget.                        *)
InLoopOnceMore == pc = "match" /\ At <= now /\ slices <= MaxSlices

InLoop == pc = "match" /\ At <= now /\ slices < MaxSlices

StopHit ==
  IF Current.req.side = "BUY" THEN Quote.ask >= Current.req.stop
                              ELSE Quote.bid <= Current.req.stop

Triggered == Current.triggered \/ StopHit

(* A stop order that got here has triggered, so a plain STOP is marketable. *)
Executable ==
  \/ Current.req.type \in {"MARKET", "STOP"}
  \/ IF Current.req.side = "BUY" THEN Quote.ask <= Current.req.limit
                                 ELSE Quote.bid >= Current.req.limit

Remaining == Current.qty - Current.filled
SliceQty  == SmallerOf(Remaining, Liquidity[Symbol])

(* Mutant of TooThinForFok: given up only when nothing can be had.          *)
NothingForFok == Current.req.tif = "FOK" /\ SliceQty <= 0

(* A fill-or-kill order wants all of it from one slice.                     *)
TooThinForFok == Current.req.tif = "FOK" /\ SliceQty < Remaining

Price     == FillPrice(Current.req.side, Touch, SliceQty, Liquidity[Symbol])
Notional  == SliceQty * Price
Fees      == FeesFor(Current.req.side, SliceQty, Notional)

Advanced == [Current EXCEPT !.matchedTo = At + 1,
                            !.triggered = @ \/ (Open(At) /\ Triggered)]

(* `continue` in the loop. *)
NextSlice(o) ==
  /\ Become(o) /\ slices' = slices + 1 /\ UNCHANGED <<pc, task, cur>>

SliceClosed ==
  /\ InLoop /\ ~Open(At)
  /\ NextSlice(Advanced)
  /\ UNCHANGED <<clock, account>>

SliceUntriggered ==
  /\ InLoop /\ Open(At) /\ ~Triggered
  /\ NextSlice(Advanced)
  /\ UNCHANGED <<clock, account>>

Live == InLoop /\ Open(At) /\ Triggered

SliceNotExecutable ==
  /\ Live /\ ~Executable
  /\ Current.req.tif \notin {"IOC", "FOK"}
  /\ NextSlice(Advanced)
  /\ UNCHANGED <<clock, account>>

(* IOC and FOK leave the loop for finishUnfilled. *)
SliceGivesUp ==
  /\ Live
  /\ \/ ~Executable /\ Current.req.tif \in {"IOC", "FOK"}
     \/ Executable /\ TooThinForFok
  /\ Become(Advanced)
  /\ pc' = "unfilled"
  /\ UNCHANGED <<task, cur, slices, clock, account>>

Tradable == Live /\ Executable /\ ~TooThinForFok

SliceNothingLeft ==
  /\ Tradable /\ SliceQty <= 0
  /\ NextSlice(Advanced)
  /\ UNCHANGED <<clock, account>>

(* Mutant of Affordable: compared with the account's starting cash.         *)
AffordableAtFirst == Current.req.side = "BUY" => Notional + Fees <= StartingCash

Affordable == Current.req.side = "BUY" => Notional + Fees <= cash

(* Mutant of SliceUnaffordable: REJECTED even after a partial fill.         *)
SliceUnaffordableRejects ==
  /\ Tradable /\ SliceQty > 0 /\ ~Affordable
  /\ Become([Advanced EXCEPT !.status = "REJECTED"])
  /\ Return("REJECTED")
  /\ UNCHANGED <<clock, account>>

(* applyFill refuses: the remainder is cancelled, what was done is kept.    *)
SliceUnaffordable ==
  LET s == IF Current.filled > 0 THEN "CANCELLED" ELSE "REJECTED"
  IN  /\ Tradable /\ SliceQty > 0 /\ ~Affordable
      /\ Become([Advanced EXCEPT !.status = s])
      /\ Return(s)
      /\ UNCHANGED <<clock, account>>

(* Mutant of Filled: the same slice is offered again.                       *)
FilledInPlace(s) ==
  [Current EXCEPT
     !.status = s,
     !.filled = @ + SliceQty,
     !.fills  = Append(@, [qty |-> SliceQty, price |-> Price,
                           fees |-> Fees, at |-> At])]

(* The order after one more execution.                                      *)
Filled(s) ==
  [Advanced EXCEPT
     !.status = s,
     !.filled = @ + SliceQty,
     !.fills  = Append(@, [qty |-> SliceQty, price |-> Price,
                           fees |-> Fees, at |-> At])]

(* Mutant of BookFill: fees are reported but not charged.                   *)
BookFillWithoutFees ==
  /\ Tradable /\ SliceQty > 0 /\ Affordable
  /\ cash' = IF Current.req.side = "BUY" THEN cash - Notional ELSE cash + Notional
  /\ position' = [position EXCEPT ![Symbol] =
                    ApplyToPosition(@, Current.req.side, SliceQty, Price)]
  /\ UNCHANGED clock

(* applyFill books the execution and moves cash and the position.           *)
BookFill ==
  /\ Tradable /\ SliceQty > 0 /\ Affordable
  /\ cash' = IF Current.req.side = "BUY" THEN cash - Notional - Fees
                                         ELSE cash + Notional - Fees
  /\ position' = [position EXCEPT ![Symbol] =
                    ApplyToPosition(@, Current.req.side, SliceQty, Price)]
  /\ UNCHANGED clock

FillCompletes ==
  /\ BookFill /\ Current.filled + SliceQty >= Current.qty
  /\ Become(Filled("FILLED"))
  /\ Return("FILLED")

FillPartially ==
  /\ BookFill /\ Current.filled + SliceQty < Current.qty
  /\ IF Current.req.tif = "IOC"
     THEN /\ Become(Filled("PARTIALLY_FILLED"))
          /\ pc' = "unfilled" /\ UNCHANGED <<task, cur, slices>>
     ELSE NextSlice(Filled("PARTIALLY_FILLED"))

FinishUnfilled ==
  /\ pc = "unfilled"
  /\ Become([Current EXCEPT !.status = "CANCELLED"])
  /\ Return("CANCELLED")
  /\ UNCHANGED <<clock, account>>

(* Mutants of LeaveLoop: DAY orders never expire, or only untouched ones.   *)
LeaveLoopResting ==
  /\ pc = "match" /\ ~InLoop
  /\ Become(Current)
  /\ Return(Current.status)
  /\ UNCHANGED <<clock, account>>

LeaveLoopPartial ==
  LET expires == /\ Current.req.tif = "DAY" /\ Current.filled = 0
                 /\ Day(Current.submittedAt) # Day(now)
      s       == IF expires THEN "EXPIRED" ELSE Current.status
  IN  /\ pc = "match" /\ ~InLoop
      /\ Become([Current EXCEPT !.status = s])
      /\ Return(s)
      /\ UNCHANGED <<clock, account>>

(* The loop ran out of time or of slices: a DAY order of another day ends.  *)
LeaveLoop ==
  LET expires == /\ Current.req.tif = "DAY"
                 /\ Day(Current.submittedAt) # Day(now)
      s       == IF expires THEN "EXPIRED" ELSE Current.status
  IN  /\ pc = "match" /\ ~InLoop
      /\ Become([Current EXCEPT !.status = s])
      /\ Return(s)
      /\ UNCHANGED <<clock, account>>

(* cancelOrder's two transitions after settle() left the order open.        *)
RequestCancel ==
  /\ pc = "cancel" /\ Current.status # "CANCEL_REQUESTED"
  /\ Become([Current EXCEPT !.status = "CANCEL_REQUESTED"])
  /\ UNCHANGED <<control, clock, account>>

ConfirmCancel ==
  /\ pc = "cancel" /\ Current.status = "CANCEL_REQUESTED"
  /\ Become([Current EXCEPT !.status = "CANCELLED"])
  /\ Return("CANCELLED")
  /\ UNCHANGED <<clock, account>>
-----------------------------------------------------------------------------
(* The clock and the price path.  Prices matter only while the venue is     *)
(* open, so the path does not branch in closed ticks.                       *)
Tick ==
  /\ Idle /\ now < Horizon
  /\ now' = now + 1
  /\ \E q \in [Symbols -> Quotes] :
       /\ ~Open(now + 1) => q = quotes[now]
       /\ quotes' = [t \in 0 .. now + 1 |-> IF t <= now THEN quotes[t] ELSE q]
  /\ UNCHANGED <<book, account, control>>

Init ==
  /\ now = 0
  /\ quotes = [t \in 0 .. 0 |-> [s \in Symbols |-> CHOOSE q \in Quotes : TRUE]]
  /\ orders = [o \in OrderIds |-> NoOrder] /\ placed = 0
  /\ cash = StartingCash /\ position = [s \in Symbols |-> Flat]
  /\ pc = "idle" /\ task = "none" /\ cur = 0 /\ slices = 0

Call ==
  \/ \E k \in Keys, r \in Requests : PlaceOrder(k, r)
  \/ \E k \in Keys : RetryPlaceOrder(k)
  \/ \E o \in OrderIds : GetOrderStatus(o) \/ CancelOrder(o)
  \/ SettleAll
  \/ Reset

Settle ==
  \/ SettleNothing \/ StartMatching
  \/ SliceClosed \/ SliceUntriggered \/ SliceNotExecutable \/ SliceGivesUp
  \/ SliceNothingLeft \/ SliceUnaffordable \/ FillCompletes \/ FillPartially
  \/ FinishUnfilled \/ LeaveLoop
  \/ RequestCancel \/ ConfirmCancel

Next == Tick \/ Call \/ Settle

Spec == Init /\ [][Next]_vars
-----------------------------------------------------------------------------
(* Fairness: a running call finishes; the wall clock advances and somebody  *)
(* keeps asking for all orders (the dashboard polls its queries every few   *)
(* seconds) however many other calls run in between, hence SF for both.     *)
FairSpec ==
  Spec /\ WF_vars(Settle) /\ SF_vars(Tick) /\ SF_vars(SettleAll)
-----------------------------------------------------------------------------
(* Properties *)

Order ==
  [key : Keys \cup {NoKey}, req : Requests, qty : Nat,
   status : OrderStatuses \cup {"NONE"}, filled : Nat, submittedAt : Nat,
   matchedTo : Nat, triggered : BOOLEAN,
   fills : Seq([qty : Nat, price : Int, fees : Int, at : Nat])]

(* Every variable keeps to the values its counterpart in DemoBroker can     *)
(* hold; the order in progress is one that was placed.                      *)
TypeOK ==
  /\ now \in 0 .. Horizon
  /\ quotes \in [0 .. now -> [Symbols -> Quotes]]
  /\ orders \in [OrderIds -> Order]
  /\ placed \in 0 .. MaxOrders
  /\ cash \in Int
  /\ position \in [Symbols -> [qty : Int, avg : Int, realized : Int]]
  /\ pc \in {"idle", "settle", "match", "unfilled", "cancel"}
  /\ task \in {"none", "status", "sweep", "cancel"}
  /\ cur \in 0 .. placed
  /\ slices \in 0 .. MaxSlices

(* No status contradicts the quantity executed: nothing is executed before  *)
(* a fill is reported, a partial fill is neither empty nor complete,        *)
(* FILLED means all of it, a rejected order executed nothing, and no order  *)
(* that executed completely is reported cancelled or expired.  The only     *)
(* exception is an order whose quantity roundQuantity made zero.            *)
StatusTellsFills ==
  \A o \in OrderIds :
    LET s == orders[o].status
        f == orders[o].filled
        q == orders[o].qty
    IN  /\ s \in {"NONE", "SUBMITTED", "ACKNOWLEDGED", "REJECTED"} => f = 0
        /\ s = "PARTIALLY_FILLED" => 0 < f /\ f < q
        /\ s = "FILLED" => f = q /\ q > 0
        /\ s \in {"CANCEL_REQUESTED", "CANCELLED", "EXPIRED"}
             => f < q \/ q = 0

(* settle() never asks for a transition the shared table forbids (it would  *)
(* throw), executed quantity only grows and never exceeds the request, and  *)
(* a terminal order is never touched again: the venue implements            *)
(* OrderContract.                                                          *)
Contract == INSTANCE OrderContract WITH
  Orders    <- OrderIds,
  status    <- [o \in OrderIds |-> orders[o].status],
  requested <- [o \in OrderIds |-> orders[o].qty],
  filled    <- [o \in OrderIds |-> orders[o].filled]

ImplementsOrderContract == Contract!Spec

(* A fill-or-kill order is executed completely or not at all, whatever      *)
(* liquidity, cash and other orders did meanwhile.                          *)
FillOrKill ==
  \A o \in OrderIds :
    orders[o].req.tif = "FOK" => orders[o].filled \in {0, orders[o].qty}

(* The demo account is cash-only: resting orders that were each affordable  *)
(* when placed never overdraw it together.                                  *)
CashNeverNegative == cash >= 0

OrdersIn(s) == {o \in OrderIds : orders[o].req.symbol = s}

SumOver(f(_), S) == SumFunction([x \in S |-> f(x)])

OverFills(f(_, _), o) ==
  LET x == orders[o]
  IN  SumOver(LAMBDA i : f(x.req.side, x.fills[i]), DOMAIN x.fills)

SharesMoved(o) ==
  OverFills(LAMBDA side, f : IF side = "BUY" THEN f.qty ELSE -f.qty, o)
CashMoved(o) ==
  OverFills(LAMBDA side, f : IF side = "BUY" THEN -(f.qty * f.price) - f.fees
                             ELSE f.qty * f.price - f.fees, o)
FeesPaid(o)   == OverFills(LAMBDA side, f : f.fees, o)
SharesDone(o) == OverFills(LAMBDA side, f : f.qty, o)

(* Cash, positions and filled quantities are exactly what the reported      *)
(* executions add up to, after any interleaving of fills, cancels and       *)
(* expiries (the two sides reconciliation compares).                        *)
LedgerReconciles ==
  /\ cash = StartingCash + SumOver(CashMoved, OrderIds)
  /\ \A s \in Symbols : position[s].qty = SumOver(SharesMoved, OrdersIn(s))
  /\ \A o \in OrderIds : orders[o].filled = SharesDone(o)

(* Totals of the account: shares traded, executions, cash spent on shares,  *)
(* what the positions cost and what closing them earned.                    *)
Traded     == SumOver(SharesDone, OrderIds)
Executions == SumOver(LAMBDA o : Len(orders[o].fills), OrderIds)
Spent      == StartingCash - cash - SumOver(FeesPaid, OrderIds)
Basis      == SumOver(LAMBDA s : position[s].avg * position[s].qty, Symbols)
Profit     == SumOver(LAMBDA s : position[s].realized, Symbols)

(* Cost basis and realised P&L account for all the cash that moved, up to   *)
(* half a rounding step per share for every execution averaged in: no       *)
(* sequence of adding, reducing, closing and flipping a position creates    *)
(* or loses profit.                                                         *)
CostBasisReconciles ==
  2 * Magnitude(Basis - Spent * AvgScale - Profit) <= Executions * Traded

(* Each order executes at most once per second, after its acknowledgement,  *)
(* never in the future, and only while the venue is open.                   *)
ExecutionsInSession ==
  \A o \in OrderIds :
    LET x == orders[o]
    IN  \A i \in DOMAIN x.fills :
          /\ Open(x.fills[i].at)
          /\ x.submittedAt + AckTicks <= x.fills[i].at /\ x.fills[i].at <= now
          /\ i > 1 => x.fills[i - 1].at < x.fills[i].at

(* However late it is polled, a DAY order executes only on the UTC day it   *)
(* was submitted: the slice budget ends inside the night, and then the      *)
(* order expires.                                                           *)
DayOrdersFillOnTheirDay ==
  \A o \in OrderIds :
    orders[o].req.tif = "DAY" =>
      \A i \in DOMAIN orders[o].fills :
        Day(orders[o].fills[i].at) = Day(orders[o].submittedAt)

(* A key names one order however often it is retried.                       *)
OneOrderPerKey ==
  \A i, j \in 1 .. placed : orders[i].key = orders[j].key => i = j

(* A DAY order placed before the last day of the run is eventually          *)
(* terminal: it does not rest for ever.                                     *)
DayOrdersEnd ==
  \A o \in OrderIds :
    (/\ IsOpen(orders[o]) /\ orders[o].req.tif = "DAY"
     /\ Day(orders[o].submittedAt) < Day(Horizon)) ~> ~IsOpen(orders[o])
-----------------------------------------------------------------------------
(* Statements of the repository the code does not keep.                     *)

(* "fills a marketable limit order at or better than its limit"             *)
(* (demo-broker.test.ts).                                                   *)
LimitPriceRespected ==
  \A o \in OrderIds :
    LET r == orders[o].req
    IN  r.type \in {"LIMIT", "STOP_LIMIT"} =>
          \A i \in DOMAIN orders[o].fills :
            IF r.side = "BUY" THEN orders[o].fills[i].price <= r.limit
                              ELSE orders[o].fills[i].price >= r.limit

(* "the demo account does not permit short selling" (preTradeReject).       *)
NoShortPosition == \A s \in Symbols : position[s].qty >= 0
=============================================================================
