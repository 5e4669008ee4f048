-------------------------- MODULE DemoBrokerProofs --------------------------
(* Theorems about DemoBroker, for any instruments, requests, price paths,   *)
(* budgets, calendars and fee schedules.                                    *)
EXTENDS DemoBroker, FiniteSums, TLAPS

-----------------------------------------------------------------------------
(* Arithmetic of the venue.                                                 *)

LEMMA DivNat == ASSUME NEW n \in Nat, NEW d \in Nat \ {0} PROVE n \div d \in Nat
BY SMT

LEMMA ProductPositive ==
  ASSUME NEW a \in Nat \ {0}, NEW b \in Nat \ {0} PROVE a * b \in Nat \ {0}
BY SMT

LEMMA HalfEvenInt ==
  ASSUME NEW n \in Int, NEW d \in Nat \ {0} PROVE DivHalfEven(n, d) \in Int
<1>1. n \div d \in Int /\ n % d \in Int
  BY SMT
<1> QED
  BY <1>1, SMT DEF DivHalfEven

LEMMA RoundQuantityNat ==
  ASSUME NEW q \in Nat PROVE RoundQuantity(q) \in Nat
BY VenueAssumption, DivNat DEF RoundQuantity

LEMMA FillPriceInt ==
  ASSUME NEW side \in Sides, NEW price \in Int, NEW qty \in Int,
         NEW available \in Nat \ {0}
  PROVE  FillPrice(side, price, qty, available) \in Int
<1> DEFINE whole == ImpactScale * available
           impact == ImpactBps * qty
           factor == IF side = "BUY" THEN whole + impact ELSE whole - impact
<1>1. whole \in Nat \ {0}
  BY ProductPositive, PriceAssumption
<1>2. impact \in Int
  BY PriceAssumption, SMT
<1>3. factor \in Int
  BY <1>1, <1>2, SMT
<1>4. price * factor \in Int
  BY <1>3, SMT
<1>5. DivHalfEven(price * factor, whole) \in Int
  BY <1>1, <1>4, HalfEvenInt
<1> QED
  BY <1>5 DEF FillPrice

LEMMA FeesInt ==
  ASSUME NEW side \in Sides, NEW qty \in Int, NEW notional \in Int
  PROVE  FeesFor(side, qty, notional) \in Int
<1> DEFINE taf == SmallerOf(qty * TafPerShare, TafCap)
           due == notional * SecRate + 10000 * taf
<1>1. qty * TafPerShare \in Int /\ notional * SecRate \in Int
  BY PriceAssumption, SMT
<1>2. taf \in Int
  BY <1>1, PriceAssumption, SMT DEF SmallerOf
<1>3. due \in Int
  BY <1>1, <1>2, SMT
<1>4. 10000 * Cent \in Nat \ {0}
  BY PriceAssumption, SMT
<1>5. DivHalfEven(due, 10000 * Cent) \in Int
  BY <1>3, <1>4, HalfEvenInt
<1>6. Cent * DivHalfEven(due, 10000 * Cent) \in Int
  BY <1>5, PriceAssumption, SMT
<1> QED
  BY <1>6 DEF FeesFor

Holding == [qty : Int, avg : Int, realized : Int]

LEMMA HoldingUpdated ==
  ASSUME NEW p \in Holding, NEW a \in Int, NEW b \in Int
  PROVE  [p EXCEPT !.qty = a, !.avg = b] \in Holding
BY DEF Holding

LEMMA ApplyToPositionTyped ==
  ASSUME NEW p \in Holding, NEW side \in Sides, NEW qty \in Nat, NEW price \in Int
  PROVE  ApplyToPosition(p, side, qty, price) \in Holding
<1> DEFINE signed    == IF side = "BUY" THEN qty ELSE -qty
           newQty    == p.qty + signed
           sameSide  == (p.qty >= 0) <=> (signed >= 0)
           closed    == SmallerOf(qty, Magnitude(p.qty))
           direction == IF p.qty >= 0 THEN 1 ELSE -1
           cost      == p.avg * Magnitude(p.qty) + price * AvgScale * qty
           added     == IF newQty = 0 THEN 0 ELSE DivHalfEven(cost, Magnitude(newQty))
           gain      == p.realized + (price * AvgScale - p.avg) * closed * direction
           basis     == IF newQty = 0 THEN 0
                        ELSE IF (newQty >= 0) # (p.qty >= 0)
                             THEN price * AvgScale
                             ELSE p.avg
<1>1. signed \in Int /\ newQty \in Int /\ Magnitude(p.qty) \in Int
      /\ p.qty \in Int /\ p.avg \in Int /\ p.realized \in Int
  BY SMT DEF Magnitude, Holding
<1>2. price * AvgScale \in Int
  BY PriceAssumption, SMT
<1>3. cost \in Int
  <2>1. p.avg * Magnitude(p.qty) \in Int
    BY <1>1, SMT
  <2>2. price * AvgScale * qty \in Int
    BY <1>2, SMT
  <2> QED
    BY <2>1, <2>2, SMT
<1>4. added \in Int
  <2>1. newQty # 0 => Magnitude(newQty) \in Nat \ {0}
    BY <1>1, SMT DEF Magnitude
  <2> HIDE DEF newQty, cost
  <2> QED
    BY <1>1, <1>3, <2>1, HalfEvenInt
<1>5. gain \in Int
  <2>1. closed \in Int /\ direction \in Int
    BY <1>1, SMT DEF SmallerOf
  <2> HIDE DEF closed, direction
  <2>2. (price * AvgScale - p.avg) * closed \in Int
    BY <2>1, <1>1, <1>2, SMT
  <2>3. (price * AvgScale - p.avg) * closed * direction \in Int
    BY <2>1, <2>2, SMT
  <2> QED
    BY <2>3, <1>1, SMT
<1>6. basis \in Int
  BY <1>1, <1>2, SMT
<1>7. ApplyToPosition(p, side, qty, price)
        = IF p.qty = 0 \/ sameSide
          THEN [p EXCEPT !.qty = newQty, !.avg = added]
          ELSE [qty |-> newQty, realized |-> gain, avg |-> basis]
  BY DEF ApplyToPosition
<1> HIDE DEF signed, newQty, sameSide, closed, direction, cost, added, gain, basis
<1>8. [p EXCEPT !.qty = newQty, !.avg = added] \in Holding
  BY <1>1, <1>4, HoldingUpdated
<1>9. [qty |-> newQty, realized |-> gain, avg |-> basis] \in Holding
  BY <1>1, <1>5, <1>6 DEF Holding
<1> QED
  BY <1>7, <1>8, <1>9
-----------------------------------------------------------------------------
(* The inductive invariant.  TypeOK is not inductive: that the order in     *)
(* progress exists and is not finished is what keeps matching typed, and    *)
(* that a finished order is never matched keeps the fills within the        *)
(* request.                                                                 *)

Reported ==
  {"SUBMITTED", "ACKNOWLEDGED", "PARTIALLY_FILLED", "FILLED",
   "CANCEL_REQUESTED", "CANCELLED", "REJECTED", "EXPIRED"}

(* What an order's own fields say about each other. *)
Sound(x) ==
  /\ x.filled <= x.qty
  /\ x.status \in {"NONE", "SUBMITTED", "ACKNOWLEDGED", "REJECTED"} => x.filled = 0
  /\ x.status = "PARTIALLY_FILLED" => 0 < x.filled /\ x.filled < x.qty
  /\ x.status = "FILLED" => x.filled = x.qty /\ x.qty > 0
  /\ x.status \in {"CANCEL_REQUESTED", "CANCELLED", "EXPIRED"}
       => x.filled < x.qty \/ x.qty = 0
  /\ x.req.tif = "FOK" => x.filled \in {0, x.qty}

OrdersSound == \A o \in OrderIds : Sound(orders[o])

(* The order table holds exactly the orders placed. *)
TableFull ==
  \A o \in OrderIds : IF o <= placed THEN orders[o].status \in Reported
                                      ELSE orders[o] = NoOrder

(* What the call in progress may rely on. *)
CallSound ==
  /\ IF pc = "idle" THEN cur = 0 ELSE cur \in 1 .. placed
  /\ pc \in {"match", "unfilled"}
       => orders[cur].status \in {"ACKNOWLEDGED", "PARTIALLY_FILLED"}
  /\ pc = "cancel" => ~IsTerminalOrderStatus(orders[cur].status)
  /\ \A o \in OrderIds :
       orders[o].status = "CANCEL_REQUESTED" => pc = "cancel" /\ cur = o

IInv == TypeOK /\ OrdersSound /\ TableFull /\ CallSound

LEMMA NoOrderSound == NoOrder \in Order /\ Sound(NoOrder)
<1>1. (CHOOSE r \in Requests : TRUE) \in Requests
  BY RequestAssumption
<1> QED
  BY <1>1 DEF NoOrder, Order, Sound, NoKey

LEMMA InitSound == Init => IInv
<1> SUFFICES ASSUME Init PROVE IInv
  OBVIOUS
<1>1. (CHOOSE q \in Quotes : TRUE) \in Quotes
  BY PriceAssumption
<1>2. TypeOK
  <2>1. quotes \in [0 .. now -> [Symbols -> Quotes]]
    BY <1>1 DEF Init
  <2>2. orders \in [OrderIds -> Order]
    BY NoOrderSound DEF Init
  <2>3. position \in [Symbols -> [qty : Int, avg : Int, realized : Int]]
    BY DEF Init, Flat
  <2> QED
    BY <2>1, <2>2, <2>3, VenueAssumption DEF Init, TypeOK
<1>3. OrdersSound
  BY NoOrderSound DEF Init, OrdersSound
<1>4. TableFull
  BY DEF Init, TableFull, OrderIds
<1>5. CallSound
  BY DEF Init, CallSound, NoOrder
<1> QED
  BY <1>2, <1>3, <1>4, <1>5 DEF IInv

(* The call returns with the current order in a settled state x.            *)
LEMMA ReturnPreserves ==
  ASSUME IInv, pc # "idle", NEW x \in Order, Sound(x),
         x.status \in Reported \ {"CANCEL_REQUESTED"},
         Become(x), Return(x.status), now' = now, quotes' = quotes,
         cash' \in Int,
         position' \in [Symbols -> [qty : Int, avg : Int, realized : Int]]
  PROVE  IInv'
<1> USE DEF IInv
<1>1. cur \in 1 .. placed /\ placed \in 0 .. MaxOrders /\ placed' = placed
  BY DEF CallSound, TypeOK, Become
<1>2. cur \in OrderIds
  BY <1>1, VenueAssumption DEF OrderIds
<1>3. /\ orders' \in [OrderIds -> Order]
      /\ orders'[cur] = x
      /\ \A o \in OrderIds \ {cur} : orders'[o] = orders[o]
  BY <1>2 DEF TypeOK, Become
<1>4. /\ pc' \in {"idle", "settle", "cancel"}
      /\ task' \in {"none", "status", "sweep", "cancel"}
      /\ IF pc' = "idle" THEN cur' = 0 ELSE cur' \in 1 .. placed
      /\ cur' \in 0 .. placed /\ slices' = 0
      /\ pc' = "cancel" => cur' = cur /\ ~IsTerminalOrderStatus(x.status)
  BY <1>1, VenueAssumption DEF Return, TypeOK
<1>5. TypeOK'
  BY <1>1, <1>3, <1>4, VenueAssumption DEF TypeOK
<1>6. OrdersSound'
  BY <1>3 DEF OrdersSound
<1>7. TableFull'
  BY <1>1, <1>2, <1>3 DEF TableFull
<1>8. CallSound'
  <2>1. \A o \in OrderIds : orders'[o].status # "CANCEL_REQUESTED"
    <3>1. TAKE o \in OrderIds
    <3>2. CASE o = cur
      BY <3>2, <1>3
    <3>3. CASE o # cur
      BY <3>3, <1>3 DEF CallSound
    <3> QED
      BY <3>2, <3>3
  <2> QED
    BY <2>1, <1>1, <1>3, <1>4 DEF CallSound
<1> QED
  BY <1>5, <1>6, <1>7, <1>8

(* The call goes on working on the current order, now x.                    *)
LEMMA WorkPreserves ==
  ASSUME IInv, pc # "idle", pc # "cancel", NEW x \in Order, Sound(x),
         x.status \in {"ACKNOWLEDGED", "PARTIALLY_FILLED"},
         Become(x), pc' \in {"match", "unfilled"}, task' = task, cur' = cur,
         slices' \in 0 .. MaxSlices, now' = now, quotes' = quotes,
         cash' \in Int,
         position' \in [Symbols -> [qty : Int, avg : Int, realized : Int]]
  PROVE  IInv'
<1> USE DEF IInv
<1>1. cur \in 1 .. placed /\ placed \in 0 .. MaxOrders /\ placed' = placed
  BY DEF CallSound, TypeOK, Become
<1>2. cur \in OrderIds
  BY <1>1, VenueAssumption DEF OrderIds
<1>3. /\ orders' \in [OrderIds -> Order]
      /\ orders'[cur] = x
      /\ \A o \in OrderIds \ {cur} : orders'[o] = orders[o]
  BY <1>2 DEF TypeOK, Become
<1>4. TypeOK'
  BY <1>1, <1>3 DEF TypeOK
<1>5. OrdersSound'
  BY <1>3 DEF OrdersSound
<1>6. TableFull'
  BY <1>1, <1>2, <1>3 DEF TableFull, Reported
<1>7. CallSound'
  BY <1>1, <1>2, <1>3 DEF CallSound
<1> QED
  BY <1>4, <1>5, <1>6, <1>7
-----------------------------------------------------------------------------
(* The entry points.                                                        *)

LEMMA PlaceOrderPreserves ==
  ASSUME IInv, NEW k \in Keys, NEW r \in Requests, PlaceOrder(k, r)
  PROVE  IInv'
<1> USE DEF IInv
<1> DEFINE new == placed + 1
           qty == RoundQuantity(r.qty)
           x   == [key |-> k, req |-> r, qty |-> qty,
                   status |-> IF PreTradeReject(r, qty) THEN "REJECTED"
                                                        ELSE "SUBMITTED",
                   filled |-> 0, submittedAt |-> now,
                   matchedTo |-> now + AckTicks,
                   triggered |-> r.type \notin {"STOP", "STOP_LIMIT"},
                   fills |-> <<>>]
<1>1. /\ pc = "idle" /\ placed \in 0 .. MaxOrders /\ placed < MaxOrders
      /\ r.qty > 0 /\ placed' = new
      /\ orders' = [orders EXCEPT ![new] = x]
      /\ pc' = "settle" /\ task' = "status" /\ cur' = new /\ slices' = 0
      /\ UNCHANGED <<now, quotes, cash, position>>
  BY DEF PlaceOrder, Idle, BeginSettle, clock, account, TypeOK
<1>2. new \in OrderIds /\ new \in 0 .. MaxOrders /\ new \in 1 .. new
  BY <1>1, VenueAssumption DEF OrderIds
<1>3. qty \in Nat
  <2>1. r.qty \in Nat
    BY <1>1, RequestAssumption
  <2> QED
    BY <2>1, RoundQuantityNat
<1>4. x \in Order /\ Sound(x) /\ x.status \in {"SUBMITTED", "REJECTED"}
  <2>1. now + AckTicks \in Nat /\ now \in Nat
    BY VenueAssumption DEF TypeOK
  <2>2. x.fills \in Seq([qty : Nat, price : Int, fees : Int, at : Nat])
    OBVIOUS
  <2> HIDE DEF qty
  <2>3. x.status \in {"SUBMITTED", "REJECTED"}
    OBVIOUS
  <2>4. x.triggered \in BOOLEAN
    OBVIOUS
  <2> QED
    BY <1>3, <2>1, <2>2, <2>3, <2>4 DEF Order, Sound, OrderStatuses
<1> HIDE DEF x, qty
<1>5. /\ orders' \in [OrderIds -> Order] /\ orders'[new] = x
      /\ \A o \in OrderIds \ {new} : orders'[o] = orders[o]
  BY <1>1, <1>2, <1>4 DEF TypeOK
<1>6. TypeOK'
  BY <1>1, <1>2, <1>5, VenueAssumption DEF TypeOK
<1>7. OrdersSound'
  BY <1>4, <1>5 DEF OrdersSound
<1>8. TableFull'
  BY <1>1, <1>2, <1>4, <1>5 DEF TableFull, Reported, OrderIds
<1>9. CallSound'
  BY <1>1, <1>2, <1>4, <1>5 DEF CallSound
<1> QED
  BY <1>6, <1>7, <1>8, <1>9

(* The other calls only begin to settle an order that exists.               *)
LEMMA BeginPreserves ==
  ASSUME IInv, pc = "idle", UNCHANGED <<clock, book, account>>,
         NEW t \in {"status", "sweep", "cancel"}, NEW o \in 1 .. placed,
         BeginSettle(t, o)
  PROVE  IInv'
BY VenueAssumption
DEF IInv, TypeOK, OrdersSound, TableFull, CallSound, BeginSettle, clock, book, account

LEMMA ResetPreserves == IInv /\ Reset => IInv'
<1> SUFFICES ASSUME IInv, Reset PROVE IInv'
  OBVIOUS
<1>1. TypeOK'
  <2>1. orders' \in [OrderIds -> Order]
    BY NoOrderSound DEF Reset
  <2>2. position' \in [Symbols -> [qty : Int, avg : Int, realized : Int]]
    BY DEF Reset, Flat
  <2>3. cur' \in 0 .. placed'
    BY DEF Reset, Idle, IInv, TypeOK, CallSound, control
  <2> QED
    BY <2>1, <2>2, <2>3, VenueAssumption
    DEF Reset, IInv, TypeOK, clock, control
<1>2. OrdersSound'
  BY NoOrderSound DEF Reset, OrdersSound
<1>3. TableFull'
  BY DEF Reset, TableFull, OrderIds
<1>4. CallSound'
  BY DEF Reset, IInv, CallSound, NoOrder, Idle, control
<1> QED
  BY <1>1, <1>2, <1>3, <1>4 DEF IInv

LEMMA TickPreserves == IInv /\ Tick => IInv'
<1> SUFFICES ASSUME IInv, Tick PROVE IInv'
  OBVIOUS
<1>1. PICK q \in [Symbols -> Quotes] :
        quotes' = [t \in 0 .. now + 1 |-> IF t <= now THEN quotes[t] ELSE q]
  BY DEF Tick
<1>2. now \in Nat /\ now' = now + 1 /\ now' \in 0 .. Horizon
  BY VenueAssumption DEF Tick, IInv, TypeOK
<1>3. quotes' \in [0 .. now' -> [Symbols -> Quotes]]
  BY <1>1, <1>2 DEF IInv, TypeOK
<1> QED
  BY <1>2, <1>3
  DEF Tick, IInv, TypeOK, OrdersSound, TableFull, CallSound, book, account, control
-----------------------------------------------------------------------------
(* The passes of settle().                                                  *)

(* What every step on an order in progress may use. *)
LEMMA InProgress ==
  ASSUME IInv, pc # "idle"
  PROVE  /\ cur \in OrderIds /\ Current \in Order /\ Sound(Current)
         /\ Current.status \in Reported
         /\ Current.status = "CANCEL_REQUESTED" => pc = "cancel"
         /\ At \in Nat /\ now \in Nat /\ slices \in 0 .. MaxSlices
         /\ cash \in Int
         /\ position \in [Symbols -> [qty : Int, avg : Int, realized : Int]]
<1>1. cur \in 1 .. placed /\ placed \in 0 .. MaxOrders
  BY DEF IInv, CallSound, TypeOK
<1>2. cur \in OrderIds /\ cur <= placed
  BY <1>1, VenueAssumption DEF OrderIds
<1>3. Current \in Order
  BY <1>2 DEF IInv, TypeOK, Current
<1> QED
  BY <1>2, <1>3, VenueAssumption
  DEF IInv, TypeOK, OrdersSound, TableFull, CallSound, Current, At, Order

(* Replaying a slice changes nothing the invariant reads. *)
LEMMA AdvancedSound ==
  ASSUME IInv, pc # "idle"
  PROVE  /\ Advanced \in Order /\ Sound(Advanced)
         /\ Advanced.status = Current.status
         /\ Advanced.qty = Current.qty /\ Advanced.filled = Current.filled
         /\ Advanced.req = Current.req
<1>1. Current \in Order /\ Sound(Current) /\ At \in Nat
  BY InProgress
<1> DEFINE trig == Current.triggered \/ (Open(At) /\ Triggered)
<1>2. trig \in BOOLEAN /\ At + 1 \in Nat
  BY <1>1 DEF Order
<1>3. Advanced = [Current EXCEPT !.matchedTo = At + 1, !.triggered = trig]
  BY DEF Advanced
<1> HIDE DEF trig
<1>4. Advanced \in Order
  BY <1>1, <1>2, <1>3 DEF Order
<1>5. /\ Advanced.status = Current.status /\ Advanced.qty = Current.qty
      /\ Advanced.filled = Current.filled /\ Advanced.req = Current.req
  BY <1>1, <1>3 DEF Order
<1> QED
  BY <1>1, <1>4, <1>5 DEF Sound

(* A tradable slice executes between one step and everything that is left,  *)
(* and all of it when the order is fill-or-kill.                            *)
LEMMA SliceFacts ==
  ASSUME IInv, Tradable
  PROVE  /\ pc = "match" /\ slices + 1 \in 0 .. MaxSlices
         /\ SliceQty \in Int /\ SliceQty <= Remaining
         /\ Remaining = Current.qty - Current.filled
         /\ Current.req.tif = "FOK" => SliceQty = Remaining
         /\ Price \in Int /\ Notional \in Int /\ Fees \in Int
<1>1. /\ pc = "match" /\ At <= now /\ slices < MaxSlices
      /\ ~TooThinForFok
  BY DEF Tradable, Live, InLoop
<1>2. /\ Current \in Order /\ At \in Nat /\ now \in Nat
      /\ slices \in 0 .. MaxSlices
  BY <1>1, InProgress
<1>3. slices + 1 \in 0 .. MaxSlices
  BY <1>1, <1>2, VenueAssumption
<1>4. /\ Current.req \in Requests /\ Symbol \in Symbols
      /\ Current.req.side \in Sides
      /\ Liquidity[Symbol] \in Nat \ {0}
  BY <1>2, RequestAssumption, VenueAssumption DEF Order, Symbol
<1>5. /\ Remaining \in Int /\ SliceQty \in Int /\ SliceQty <= Remaining
      /\ Current.req.tif = "FOK" => SliceQty = Remaining
  <2>1. Current.qty \in Nat /\ Current.filled \in Nat
    BY <1>2 DEF Order
  <2> QED
    BY <2>1, <1>1, <1>4 DEF Remaining, SliceQty, SmallerOf, TooThinForFok
<1>6. Touch \in Int
  <2>1. At \in 0 .. now
    BY <1>1, <1>2
  <2>2. Quote \in Quotes
    BY <2>1, <1>4 DEF IInv, TypeOK, Quote
  <2> QED
    BY <2>2, PriceAssumption DEF Touch
<1>7. Price \in Int
  BY <1>4, <1>5, <1>6, FillPriceInt DEF Price
<1>8. Notional \in Int
  BY <1>5, <1>7, SMT DEF Notional
<1>9. Fees \in Int
  BY <1>4, <1>5, <1>8, FeesInt DEF Fees
<1> QED
  BY <1>1, <1>3, <1>5, <1>7, <1>8, <1>9 DEF Remaining

(* An execution keeps the order sound: completely done or partly done.      *)
LEMMA FilledSound ==
  ASSUME IInv, BookFill, NEW s \in {"FILLED", "PARTIALLY_FILLED"},
         s = "FILLED" <=> Current.filled + SliceQty >= Current.qty
  PROVE  /\ Filled(s) \in Order /\ Sound(Filled(s)) /\ Filled(s).status = s
         /\ Filled(s).filled = Current.filled + SliceQty
         /\ Filled(s).qty = Current.qty
         /\ SliceQty \in Nat \ {0} /\ SliceQty <= Current.qty - Current.filled
<1>1. Tradable /\ SliceQty > 0
  BY DEF BookFill
<1>2. /\ pc = "match" /\ SliceQty \in Int
      /\ SliceQty <= Current.qty - Current.filled
      /\ Current.req.tif = "FOK" => SliceQty = Current.qty - Current.filled
      /\ Price \in Int /\ Fees \in Int
  BY <1>1, SliceFacts
<1>3. /\ Advanced \in Order /\ Sound(Advanced)
      /\ Advanced.qty = Current.qty /\ Advanced.filled = Current.filled
      /\ Advanced.req = Current.req
  BY <1>2, AdvancedSound
<1>4. At \in Nat /\ Current \in Order
  BY <1>2, InProgress
<1> DEFINE done == Current.filled + SliceQty
           f    == [qty |-> SliceQty, price |-> Price, fees |-> Fees, at |-> At]
           all  == Append(Advanced.fills, f)
<1>5. done \in Nat /\ SliceQty \in Nat \ {0}
  BY <1>1, <1>2, <1>4 DEF Order
<1>6. all \in Seq([qty : Nat, price : Int, fees : Int, at : Nat])
  <2>1. f \in [qty : Nat, price : Int, fees : Int, at : Nat]
    BY <1>2, <1>4, <1>5
  <2>2. Advanced.fills \in Seq([qty : Nat, price : Int, fees : Int, at : Nat])
    BY <1>3 DEF Order
  <2> HIDE DEF f
  <2> QED
    BY <2>1, <2>2
<1>7. Filled(s) = [Advanced EXCEPT !.status = s, !.filled = done, !.fills = all]
  BY <1>3 DEF Filled
<1> HIDE DEF done, all
<1>8. /\ Filled(s) \in Order /\ Filled(s).status = s /\ Filled(s).filled = done
      /\ Filled(s).qty = Current.qty /\ Filled(s).req = Current.req
  BY <1>3, <1>5, <1>6, <1>7 DEF Order, OrderStatuses
<1>9. Sound(Filled(s))
  BY <1>2, <1>3, <1>4, <1>5, <1>8 DEF Sound, done, Order
<1> QED
  BY <1>2, <1>5, <1>8, <1>9 DEF done

LEMMA BookFillTyped ==
  ASSUME IInv, BookFill
  PROVE  /\ cash' \in Int
         /\ position' \in [Symbols -> [qty : Int, avg : Int, realized : Int]]
         /\ now' = now /\ quotes' = quotes
<1>1. Tradable /\ SliceQty > 0
  BY DEF BookFill
<1>2. /\ pc = "match" /\ SliceQty \in Nat
      /\ Price \in Int /\ Notional \in Int /\ Fees \in Int
  BY <1>1, SliceFacts
<1>3. /\ Current \in Order /\ cash \in Int
      /\ position \in [Symbols -> [qty : Int, avg : Int, realized : Int]]
  BY <1>2, InProgress
<1>4. Symbol \in Symbols /\ Current.req.side \in Sides
  BY <1>3, RequestAssumption DEF Order, Symbol
<1>5. ApplyToPosition(position[Symbol], Current.req.side, SliceQty, Price)
        \in [qty : Int, avg : Int, realized : Int]
  BY <1>2, <1>3, <1>4, ApplyToPositionTyped DEF Holding
<1>6. position' \in [Symbols -> [qty : Int, avg : Int, realized : Int]]
  BY <1>3, <1>5 DEF BookFill
<1>7. cash' \in Int
  BY <1>2, <1>3 DEF BookFill
<1> QED
  BY <1>6, <1>7 DEF BookFill, clock

(* An open order may be refused while untouched, cancelled or expired.      *)
LEMMA EndedSound ==
  ASSUME NEW y \in Order, Sound(y),
         y.status \in Reported, ~IsTerminalOrderStatus(y.status),
         NEW s \in {"REJECTED", "CANCEL_REQUESTED", "CANCELLED", "EXPIRED"},
         s = "REJECTED" => y.filled = 0
  PROVE  /\ [y EXCEPT !.status = s] \in Order
         /\ [y EXCEPT !.status = s].status = s
         /\ Sound([y EXCEPT !.status = s])
<1> DEFINE x == [y EXCEPT !.status = s]
<1>1. y.filled \in Nat /\ y.qty \in Nat
  BY DEF Order
<1>2. /\ x.status = s /\ x.filled = y.filled /\ x.qty = y.qty /\ x.req = y.req
  BY DEF Order
<1>3. x \in Order
  BY DEF Order, OrderStatuses
<1>4. y.status \in {"SUBMITTED", "ACKNOWLEDGED", "PARTIALLY_FILLED",
                    "CANCEL_REQUESTED"}
  BY DEF Reported, IsTerminalOrderStatus, TerminalOrderStatuses
<1>5. y.filled < y.qty \/ y.qty = 0
  BY <1>1, <1>4 DEF Sound
<1> HIDE DEF x
<1>6. Sound(x)
  BY <1>1, <1>2, <1>5 DEF Sound
<1> QED
  BY <1>2, <1>3, <1>6 DEF x

LEMMA SettlePreserves == IInv /\ Settle => IInv'
<1> SUFFICES ASSUME IInv, Settle PROVE IInv'
  OBVIOUS
<1>1. pc # "idle"
  BY DEF Settle, SettleNothing, StartMatching, SliceClosed, SliceUntriggered,
         SliceNotExecutable, SliceGivesUp, SliceNothingLeft, SliceUnaffordable,
         FillCompletes, FillPartially, FinishUnfilled, LeaveLoop,
         RequestCancel, ConfirmCancel, BookFill, Tradable, Live, InLoop
<1>2. /\ cur \in OrderIds /\ Current \in Order /\ Sound(Current)
      /\ Current.status \in Reported
      /\ Current.status = "CANCEL_REQUESTED" => pc = "cancel"
      /\ slices \in 0 .. MaxSlices /\ cash \in Int
      /\ position \in [Symbols -> [qty : Int, avg : Int, realized : Int]]
  BY <1>1, InProgress
<1>3. /\ Advanced \in Order /\ Sound(Advanced)
      /\ Advanced.status = Current.status
      /\ Advanced.qty = Current.qty /\ Advanced.filled = Current.filled
  BY <1>1, AdvancedSound
<1>4. /\ pc \in {"match", "unfilled"}
           => Current.status \in {"ACKNOWLEDGED", "PARTIALLY_FILLED"}
      /\ pc = "cancel" => ~IsTerminalOrderStatus(Current.status)
  BY DEF IInv, CallSound, Current
<1>5. InLoop => slices + 1 \in 0 .. MaxSlices
  BY <1>2, VenueAssumption DEF InLoop
(* The outcomes several passes share. *)
<1>6. ASSUME NextSlice(Advanced), InLoop, UNCHANGED <<clock, account>> PROVE IInv'
  BY <1>3, <1>4, <1>5, <1>6, <1>2, WorkPreserves DEF NextSlice, InLoop, clock, account
<1>7. ASSUME NEW s \in {"CANCELLED", "REJECTED"}, NEW y \in {Current, Advanced},
             s = "REJECTED" <=> y.filled = 0 /\ pc = "match",
             pc # "settle", ~IsTerminalOrderStatus(Current.status),
             Become([y EXCEPT !.status = s]), Return(s),
             UNCHANGED <<clock, account>>
      PROVE  IInv'
  <2> DEFINE x == [y EXCEPT !.status = s]
  <2>1. /\ y \in Order /\ Sound(y) /\ y.status = Current.status
    BY <1>2, <1>3
  <2>2. x \in Order /\ Sound(x) /\ x.status = s
    BY <2>1, <1>2, <1>7, EndedSound
  <2> HIDE DEF x
  <2>3. Become(x) /\ Return(x.status)
    BY <1>7, <2>2 DEF x
  <2> QED
    BY <1>1, <1>2, <1>7, <2>2, <2>3, ReturnPreserves DEF clock, account, Reported
<1>8. CASE SettleNothing
  <2>1. Become(Current) /\ Return(Current.status)
    BY <1>2, <1>8 DEF SettleNothing, Become, Current, book, IInv, TypeOK
  <2>2. Current.status \in Reported \ {"CANCEL_REQUESTED"}
    BY <1>2, <1>8 DEF SettleNothing
  <2> QED
    BY <1>1, <1>2, <1>8, <2>1, <2>2, ReturnPreserves
    DEF SettleNothing, clock, account
<1>9. CASE StartMatching
  <2> DEFINE s == IF Current.status = "SUBMITTED" THEN "ACKNOWLEDGED"
                                                 ELSE Current.status
             x == [Current EXCEPT !.status = s]
  <2>1. Become(x)
    BY <1>9, <1>2 DEF StartMatching, Order
  <2>2. s \in {"ACKNOWLEDGED", "PARTIALLY_FILLED"}
    BY <1>2, <1>9
    DEF StartMatching, Reported, IsTerminalOrderStatus, TerminalOrderStatuses
  <2>3. x \in Order /\ Sound(x) /\ x.status = s
    BY <1>2, <2>2 DEF Order, Sound, OrderStatuses
  <2> HIDE DEF x, s
  <2> QED
    BY <1>1, <1>2, <1>9, <2>1, <2>2, <2>3, WorkPreserves
    DEF StartMatching, clock, account
<1>10. CASE SliceClosed
  BY <1>6, <1>10 DEF SliceClosed
<1>11. CASE SliceUntriggered
  BY <1>6, <1>11 DEF SliceUntriggered
<1>12. CASE SliceNotExecutable
  BY <1>6, <1>12 DEF SliceNotExecutable, Live
<1>13. CASE SliceNothingLeft
  BY <1>6, <1>13 DEF SliceNothingLeft, Tradable, Live
<1>14. CASE SliceGivesUp
  BY <1>2, <1>3, <1>4, <1>14, WorkPreserves
  DEF SliceGivesUp, Live, InLoop, clock, account
<1>15. CASE SliceUnaffordable
  <2>1. pc = "match" /\ Current.filled \in Nat /\ Advanced.filled = Current.filled
    BY <1>2, <1>3, <1>15 DEF SliceUnaffordable, Tradable, Live, InLoop, Order
  <2>2. ~IsTerminalOrderStatus(Current.status)
    BY <1>4, <2>1 DEF IsTerminalOrderStatus, TerminalOrderStatuses
  <2> DEFINE s == IF Current.filled > 0 THEN "CANCELLED" ELSE "REJECTED"
  <2>3. s \in {"CANCELLED", "REJECTED"} /\ (s = "REJECTED" <=> Current.filled = 0)
    BY <2>1
  <2>4. /\ Become([Advanced EXCEPT !.status = s]) /\ Return(s)
        /\ UNCHANGED <<clock, account>>
    BY <1>15 DEF SliceUnaffordable
  <2> HIDE DEF s
  <2> QED
    BY <1>7, <2>1, <2>2, <2>3, <2>4
<1>16. CASE FillCompletes
  <2>1. BookFill /\ Become(Filled("FILLED")) /\ Return("FILLED")
        /\ Current.filled + SliceQty >= Current.qty
    BY <1>16 DEF FillCompletes
  <2>2. /\ Filled("FILLED") \in Order /\ Sound(Filled("FILLED"))
        /\ Filled("FILLED").status = "FILLED"
    BY <2>1, FilledSound
  <2> QED
    BY <1>1, <2>1, <2>2, BookFillTyped, ReturnPreserves DEF Reported
<1>17. CASE FillPartially
  <2> DEFINE x == Filled("PARTIALLY_FILLED")
  <2>1. BookFill /\ ~(Current.filled + SliceQty >= Current.qty)
    <3>1. BookFill /\ Current.filled + SliceQty < Current.qty
      BY <1>17 DEF FillPartially
    <3>2. SliceQty \in Int /\ Current.filled \in Nat /\ Current.qty \in Nat
      BY <1>2, <3>1, SliceFacts DEF BookFill, Order
    <3> QED
      BY <3>1, <3>2
  <2>2. x \in Order /\ Sound(x) /\ x.status = "PARTIALLY_FILLED"
    BY <2>1, FilledSound
  <2>3. InLoop /\ pc = "match"
    BY <2>1 DEF BookFill, Tradable, Live, InLoop
  <2>4. /\ Become(x) /\ pc' \in {"match", "unfilled"} /\ task' = task
        /\ cur' = cur /\ slices' \in 0 .. MaxSlices
    BY <1>2, <1>5, <1>17, <2>3 DEF FillPartially, NextSlice
  <2> HIDE DEF x
  <2> QED
    BY <2>1, <2>2, <2>3, <2>4, BookFillTyped, WorkPreserves
<1>18. CASE FinishUnfilled
  BY <1>4, <1>7, <1>18
  DEF FinishUnfilled, IsTerminalOrderStatus, TerminalOrderStatuses
<1>19. CASE LeaveLoop
  <2> DEFINE expires == /\ Current.req.tif = "DAY"
                        /\ Day(Current.submittedAt) # Day(now)
             s == IF expires THEN "EXPIRED" ELSE Current.status
             x == [Current EXCEPT !.status = s]
  <2>1. pc = "match" /\ Become(x) /\ Return(s) /\ UNCHANGED <<clock, account>>
    BY <1>19 DEF LeaveLoop
  <2>2. s \in {"EXPIRED", "ACKNOWLEDGED", "PARTIALLY_FILLED"}
        /\ (s # "EXPIRED" => s = Current.status)
    BY <1>4, <2>1
  <2> HIDE DEF s
  <2>3. x \in Order /\ Sound(x) /\ x.status = s
    <3>1. CASE s = "EXPIRED"
      BY <3>1, <1>2, <1>4, <2>1, EndedSound
      DEF IsTerminalOrderStatus, TerminalOrderStatuses
    <3>2. CASE s # "EXPIRED"
      BY <3>2, <1>2, <2>2 DEF Order
    <3> QED
      BY <3>1, <3>2
  <2> HIDE DEF x
  <2> QED
    BY <1>1, <1>2, <2>1, <2>2, <2>3, ReturnPreserves DEF clock, account, Reported
<1>20. CASE RequestCancel
  <2> DEFINE x == [Current EXCEPT !.status = "CANCEL_REQUESTED"]
  <2>1. /\ pc = "cancel" /\ Become(x)
        /\ UNCHANGED <<now, quotes, cash, position, pc, task, cur, slices>>
    BY <1>20 DEF RequestCancel, clock, account, control
  <2>2. x \in Order /\ Sound(x) /\ x.status = "CANCEL_REQUESTED"
    BY <1>2, <1>4, <2>1, EndedSound
  <2> HIDE DEF x
  <2>3. /\ orders' \in [OrderIds -> Order] /\ orders'[cur] = x
        /\ \A o \in OrderIds \ {cur} : orders'[o] = orders[o]
        /\ placed' = placed
    BY <1>2, <2>1, <2>2 DEF Become, IInv, TypeOK
  <2>4. TypeOK'
    BY <2>1, <2>3 DEF IInv, TypeOK
  <2>5. OrdersSound'
    BY <2>2, <2>3 DEF IInv, OrdersSound
  <2>6. TableFull'
    <3>1. cur <= placed
      BY <1>1, VenueAssumption DEF IInv, CallSound, TypeOK
    <3> QED
      BY <2>2, <2>3, <3>1 DEF IInv, TableFull, Reported
  <2>7. CallSound'
    BY <1>1, <2>1, <2>2, <2>3
    DEF IInv, CallSound, IsTerminalOrderStatus, TerminalOrderStatuses
  <2> QED
    BY <2>4, <2>5, <2>6, <2>7 DEF IInv
<1>21. CASE ConfirmCancel
  BY <1>4, <1>7, <1>21 DEF ConfirmCancel
<1> QED
  BY <1>8, <1>9, <1>10, <1>11, <1>12, <1>13, <1>14, <1>15, <1>16, <1>17, <1>18,
     <1>19, <1>20, <1>21 DEF Settle

LEMMA StepPreserves == IInv /\ [Next]_vars => IInv'
<1> SUFFICES ASSUME IInv, [Next]_vars PROVE IInv'
  OBVIOUS
<1>1. CASE Tick
  BY <1>1, TickPreserves
<1>2. CASE Call
  <2>1. ASSUME NEW k \in Keys, NEW r \in Requests, PlaceOrder(k, r) PROVE IInv'
    BY <2>1, PlaceOrderPreserves
  <2>2. ASSUME NEW k \in Keys, RetryPlaceOrder(k) PROVE IInv'
    BY <2>2, BeginPreserves DEF RetryPlaceOrder, Idle
  <2>3. ASSUME NEW o \in OrderIds, GetOrderStatus(o) \/ CancelOrder(o) PROVE IInv'
    <3>1. o \in 1 .. placed /\ pc = "idle" /\ UNCHANGED <<clock, book, account>>
      BY <2>3, VenueAssumption
      DEF GetOrderStatus, CancelOrder, Idle, OrderIds, IInv, TypeOK
    <3> QED
      BY <2>3, <3>1, BeginPreserves DEF GetOrderStatus, CancelOrder
  <2>4. CASE SettleAll
    <3>1. 1 \in 1 .. placed
      BY <2>4, VenueAssumption DEF SettleAll, IInv, TypeOK
    <3> QED
      BY <2>4, <3>1, BeginPreserves DEF SettleAll, Idle
  <2>5. CASE Reset
    BY <2>5, ResetPreserves
  <2> QED
    BY <1>2, <2>1, <2>2, <2>3, <2>4, <2>5 DEF Call
<1>3. CASE Settle
  BY <1>3, SettlePreserves
<1>4. CASE UNCHANGED vars
  BY <1>4
  DEF vars, clock, book, account, control, IInv, TypeOK, OrdersSound, TableFull,
      CallSound
<1> QED
  BY <1>1, <1>2, <1>3, <1>4 DEF Next

LEMMA AlwaysSound == Spec => []IInv
BY InitSound, StepPreserves, PTL DEF Spec

(* TypeOK: every variable keeps its type for any requests, price path,      *)
(* budgets and calendar, so no pass of settle() reads a quote that does not *)
(* exist or works on an order that was never placed.                        *)
THEOREM VenueTypeOK == Spec => []TypeOK
<1>1. IInv => TypeOK
  BY DEF IInv
<1> QED
  BY <1>1, AlwaysSound, PTL

(* StatusTellsFills: a reported status never contradicts the quantity       *)
(* applyFill, applyCancel and the expiry booked.                            *)
THEOREM StatusNeverContradictsFills == Spec => []StatusTellsFills
<1>1. IInv => StatusTellsFills
  <2> SUFFICES ASSUME IInv, NEW o \in OrderIds
               PROVE  LET s == orders[o].status
                          f == orders[o].filled
                          q == orders[o].qty
                      IN  /\ s \in {"NONE", "SUBMITTED", "ACKNOWLEDGED", "REJECTED"}
                               => f = 0
                          /\ s = "PARTIALLY_FILLED" => 0 < f /\ f < q
                          /\ s = "FILLED" => f = q /\ q > 0
                          /\ s \in {"CANCEL_REQUESTED", "CANCELLED", "EXPIRED"}
                               => f < q \/ q = 0
    BY DEF StatusTellsFills
  <2> QED
    BY DEF IInv, OrdersSound, Sound
<1> QED
  BY <1>1, AlwaysSound, PTL

(* FillOrKill: a fill-or-kill order executes completely or not at all,      *)
(* however liquidity, cash and other orders move while it rests.            *)
THEOREM FillOrKillIsAllOrNothing == Spec => []FillOrKill
<1>1. IInv => FillOrKill
  BY DEF IInv, OrdersSound, Sound, FillOrKill
<1> QED
  BY <1>1, AlwaysSound, PTL
-----------------------------------------------------------------------------
(* What a pass of settle() may do to the book: nothing, or report one order *)
(* along the shared transition table with its quantity going up.            *)

Reports(x) ==
  /\ x \in Order /\ x.key = Current.key /\ x.qty = Current.qty
  /\ \/ x.status = Current.status /\ x.filled = Current.filled
     \/ /\ x.status \in OrderTransitions[Current.status]
        /\ x.filled \in Current.filled .. Current.qty
        /\ Contract!Consistent(x.status, x.filled, x.qty)

(* Changing only the status of y, which is the current order before or      *)
(* after its clock moved.                                                   *)
LEMMA StatusReports ==
  ASSUME NEW y \in Order, y.key = Current.key, y.qty = Current.qty,
         y.filled = Current.filled, Current \in Order, Sound(Current),
         Current.status \in {"SUBMITTED", "ACKNOWLEDGED", "PARTIALLY_FILLED",
                             "CANCEL_REQUESTED"},
         NEW s \in {"ACKNOWLEDGED", "REJECTED", "CANCEL_REQUESTED", "CANCELLED",
                    "EXPIRED"},
         s = "ACKNOWLEDGED" => Current.status = "SUBMITTED",
         s = "REJECTED" => Current.status \in {"ACKNOWLEDGED"},
         s = "CANCEL_REQUESTED" => Current.status # "CANCEL_REQUESTED",
         s = "EXPIRED" => Current.status # "CANCEL_REQUESTED"
  PROVE  Reports([y EXCEPT !.status = s])
<1> DEFINE x == [y EXCEPT !.status = s]
<1>1. /\ x.status = s /\ x.filled = y.filled /\ x.qty = y.qty /\ x.key = y.key
      /\ x \in Order
  BY DEF Order, OrderStatuses
<1>2. /\ Current.filled \in Nat /\ Current.qty \in Nat
      /\ Current.filled <= Current.qty
      /\ Current.status = "ACKNOWLEDGED" => Current.filled = 0
  BY DEF Order, Sound
<1>3. s \in OrderTransitions[Current.status]
  BY DEF OrderTransitions, OrderStatuses, TerminalOrderStatuses
<1>4. Contract!Consistent(s, Current.filled, Current.qty)
  BY <1>2 DEF Contract!Consistent
<1> HIDE DEF x
<1>5. Reports(x)
  BY <1>1, <1>2, <1>3, <1>4 DEF Reports
<1> QED
  BY <1>5 DEF x

LEMMA SettleReports ==
  ASSUME IInv, Settle
  PROVE  /\ cur \in OrderIds /\ Current \in Order /\ Current.status \in Reported
         /\ UNCHANGED book \/ \E x : Become(x) /\ Reports(x)
<1>1. pc # "idle"
  BY DEF Settle, SettleNothing, StartMatching, SliceClosed, SliceUntriggered,
         SliceNotExecutable, SliceGivesUp, SliceNothingLeft, SliceUnaffordable,
         FillCompletes, FillPartially, FinishUnfilled, LeaveLoop,
         RequestCancel, ConfirmCancel, BookFill, Tradable, Live, InLoop
<1>2. /\ cur \in OrderIds /\ Current \in Order /\ Sound(Current)
      /\ Current.status \in Reported
      /\ Current.status = "CANCEL_REQUESTED" => pc = "cancel"
  BY <1>1, InProgress
<1>3. /\ Advanced \in Order /\ Advanced.status = Current.status
      /\ Advanced.qty = Current.qty /\ Advanced.filled = Current.filled
      /\ Advanced.key = Current.key
  BY <1>1, <1>2, AdvancedSound DEF Advanced, Order
<1>4. /\ pc \in {"match", "unfilled"}
           => Current.status \in {"ACKNOWLEDGED", "PARTIALLY_FILLED"}
      /\ pc = "cancel" => ~IsTerminalOrderStatus(Current.status)
  BY DEF IInv, CallSound, Current
<1>5. pc = "cancel" => Current.status \in {"SUBMITTED", "ACKNOWLEDGED",
                                          "PARTIALLY_FILLED", "CANCEL_REQUESTED"}
  BY <1>2, <1>4 DEF Reported, IsTerminalOrderStatus, TerminalOrderStatuses
<1>6. Reports(Advanced) /\ Reports(Current)
  BY <1>2, <1>3 DEF Reports
<1>7. SettleNothing => UNCHANGED book
  BY DEF SettleNothing
<1>8. ASSUME StartMatching PROVE \E x : Become(x) /\ Reports(x)
  <2>1. CASE Current.status = "SUBMITTED"
    <3>1. Become([Current EXCEPT !.status = "ACKNOWLEDGED"])
      BY <1>2, <1>8, <2>1 DEF StartMatching, Order
    <3>2. Reports([Current EXCEPT !.status = "ACKNOWLEDGED"])
      BY <1>2, <2>1, StatusReports
    <3> QED
      BY <3>1, <3>2
  <2>2. CASE Current.status # "SUBMITTED"
    <3>1. [Current EXCEPT !.status = IF @ = "SUBMITTED" THEN "ACKNOWLEDGED" ELSE @]
            = Current
      BY <1>2, <2>2 DEF Order
    <3> QED
      BY <1>6, <1>8, <3>1 DEF StartMatching
  <2> QED
    BY <2>1, <2>2
<1>9. SliceClosed \/ SliceUntriggered \/ SliceNotExecutable \/ SliceNothingLeft
        \/ SliceGivesUp => Become(Advanced)
  BY DEF SliceClosed, SliceUntriggered, SliceNotExecutable, SliceNothingLeft,
         SliceGivesUp, NextSlice
<1>10. ASSUME SliceUnaffordable PROVE \E x : Become(x) /\ Reports(x)
  <2> DEFINE s == IF Current.filled > 0 THEN "CANCELLED" ELSE "REJECTED"
  <2>1. Become([Advanced EXCEPT !.status = s]) /\ pc = "match"
    BY <1>10 DEF SliceUnaffordable, Tradable, Live, InLoop
  <2>2. s \in {"CANCELLED", "REJECTED"}
        /\ (s = "REJECTED" => Current.status = "ACKNOWLEDGED")
    BY <1>2, <1>4, <2>1 DEF Order, Sound
  <2> HIDE DEF s
  <2>3. Reports([Advanced EXCEPT !.status = s])
    BY <1>2, <1>3, <1>4, <2>1, <2>2, StatusReports
  <2> QED
    BY <2>1, <2>3
<1>11. ASSUME NEW s \in {"FILLED", "PARTIALLY_FILLED"}, BookFill,
              s = "FILLED" <=> Current.filled + SliceQty >= Current.qty
       PROVE  Reports(Filled(s))
  <2>1. /\ Filled(s) \in Order /\ Sound(Filled(s)) /\ Filled(s).status = s
        /\ Filled(s).filled = Current.filled + SliceQty
        /\ Filled(s).qty = Current.qty
        /\ SliceQty \in Nat \ {0} /\ SliceQty <= Current.qty - Current.filled
    BY <1>11, FilledSound
  <2>2. Filled(s).key = Current.key
    BY <1>3 DEF Filled, Order
  <2>3. Filled(s).filled \in Current.filled .. Current.qty
    BY <1>2, <2>1 DEF Order
  <2>4. pc = "match"
    BY <1>11 DEF BookFill, Tradable, Live, InLoop
  <2>5. s \in OrderTransitions[Current.status]
    BY <1>4, <2>4 DEF OrderTransitions, OrderStatuses
  <2>6. Contract!Consistent(s, Filled(s).filled, Filled(s).qty)
    BY <2>1 DEF Contract!Consistent, Sound
  <2> QED
    BY <2>1, <2>2, <2>3, <2>5, <2>6 DEF Reports
<1>12. ASSUME FillCompletes PROVE \E x : Become(x) /\ Reports(x)
  BY <1>11, <1>12 DEF FillCompletes
<1>13. ASSUME FillPartially PROVE \E x : Become(x) /\ Reports(x)
  <2>1. BookFill /\ Current.filled + SliceQty < Current.qty
    BY <1>13 DEF FillPartially
  <2>2. SliceQty \in Int /\ Current.filled \in Nat /\ Current.qty \in Nat
    BY <1>2, <2>1, SliceFacts DEF BookFill, Order
  <2>3. Reports(Filled("PARTIALLY_FILLED"))
    BY <1>11, <2>1, <2>2
  <2>4. Become(Filled("PARTIALLY_FILLED"))
    BY <1>13 DEF FillPartially, NextSlice
  <2> QED
    BY <2>3, <2>4
<1>14. ASSUME FinishUnfilled PROVE \E x : Become(x) /\ Reports(x)
  <2>1. Become([Current EXCEPT !.status = "CANCELLED"]) /\ pc = "unfilled"
    BY <1>14 DEF FinishUnfilled
  <2>2. Reports([Current EXCEPT !.status = "CANCELLED"])
    BY <1>2, <1>4, <2>1, StatusReports
  <2> QED
    BY <2>1, <2>2
<1>15. ASSUME LeaveLoop PROVE \E x : Become(x) /\ Reports(x)
  <2> DEFINE expires == /\ Current.req.tif = "DAY"
                        /\ Day(Current.submittedAt) # Day(now)
             s == IF expires THEN "EXPIRED" ELSE Current.status
  <2>1. Become([Current EXCEPT !.status = s]) /\ pc = "match"
    BY <1>15 DEF LeaveLoop
  <2>2. s = "EXPIRED" \/ s = Current.status
    OBVIOUS
  <2> HIDE DEF s
  <2>3. CASE s = "EXPIRED"
    BY <1>2, <1>4, <2>1, <2>3, StatusReports
  <2>4. CASE s = Current.status
    <3>1. [Current EXCEPT !.status = s] = Current
      BY <1>2, <2>4 DEF Order
    <3> QED
      BY <1>6, <2>1, <3>1
  <2> QED
    BY <2>2, <2>3, <2>4
<1>16. ASSUME RequestCancel PROVE \E x : Become(x) /\ Reports(x)
  <2>1. /\ Become([Current EXCEPT !.status = "CANCEL_REQUESTED"]) /\ pc = "cancel"
        /\ Current.status # "CANCEL_REQUESTED"
    BY <1>16 DEF RequestCancel
  <2>2. Reports([Current EXCEPT !.status = "CANCEL_REQUESTED"])
    BY <1>2, <1>5, <2>1, StatusReports
  <2> QED
    BY <2>1, <2>2
<1>17. ASSUME ConfirmCancel PROVE \E x : Become(x) /\ Reports(x)
  <2>1. Become([Current EXCEPT !.status = "CANCELLED"]) /\ pc = "cancel"
    BY <1>17 DEF ConfirmCancel
  <2>2. Reports([Current EXCEPT !.status = "CANCELLED"])
    BY <1>2, <1>5, <2>1, StatusReports
  <2> QED
    BY <2>1, <2>2
<1> QED
  BY <1>2, <1>6, <1>7, <1>8, <1>9, <1>10, <1>12, <1>13, <1>14, <1>15, <1>16, <1>17
  DEF Settle
-----------------------------------------------------------------------------
(* The keys of the orders placed stay what they were.                       *)

LEMMA KeysKept ==
  IInv /\ OneOrderPerKey /\ [Next]_vars => OneOrderPerKey'
<1> SUFFICES ASSUME IInv, OneOrderPerKey, [Next]_vars PROVE OneOrderPerKey'
  OBVIOUS
<1>1. placed \in 0 .. MaxOrders /\ MaxOrders \in Nat /\ orders \in [OrderIds -> Order]
  BY VenueAssumption DEF IInv, TypeOK
<1>2. \A o : o \in 1 .. placed => o \in OrderIds
  BY <1>1 DEF OrderIds
<1>3. CASE UNCHANGED book
  BY <1>3 DEF book, OneOrderPerKey
<1>4. CASE Settle
  <2>1. ASSUME NEW x, Become(x), Reports(x) PROVE OneOrderPerKey'
    <3>1. cur \in OrderIds /\ x.key = orders[cur].key
      BY <1>4, <2>1, SettleReports DEF Reports, Current
    <3>2. placed' = placed
          /\ \A o \in OrderIds : orders'[o] = IF o = cur THEN x ELSE orders[o]
      BY <1>1, <2>1, <3>1 DEF Become
    <3>3. \A o \in 1 .. placed : orders'[o].key = orders[o].key
      BY <1>2, <3>1, <3>2
    <3> QED
      BY <3>2, <3>3 DEF OneOrderPerKey
  <2> QED
    BY <1>3, <1>4, <2>1, SettleReports
<1>5. ASSUME NEW k \in Keys, NEW r \in Requests, PlaceOrder(k, r)
      PROVE  OneOrderPerKey'
  <2>1. /\ placed' = placed + 1 /\ placed + 1 \in OrderIds
        /\ \A i \in 1 .. placed : orders[i].key # k
    BY <1>1, <1>5 DEF PlaceOrder, OrderIds
  <2>2. /\ orders'[placed + 1].key = k
        /\ \A i \in 1 .. placed : orders'[i] = orders[i]
    BY <1>1, <1>2, <1>5, <2>1 DEF PlaceOrder
  <2>3. ASSUME NEW i \in 1 .. placed + 1, NEW j \in 1 .. placed + 1,
               orders'[i].key = orders'[j].key
        PROVE  i = j
    <3>1. CASE i \in 1 .. placed /\ j \in 1 .. placed
      BY <2>2, <2>3, <3>1 DEF OneOrderPerKey
    <3>2. CASE i = placed + 1 \/ j = placed + 1
      <4>1. i # placed + 1 => i \in 1 .. placed
        BY <1>1
      <4>2. j # placed + 1 => j \in 1 .. placed
        BY <1>1
      <4> QED
        BY <2>1, <2>2, <2>3, <3>2, <4>1, <4>2
    <3> QED
      BY <1>1, <3>1, <3>2
  <2> QED
    BY <2>1, <2>3 DEF OneOrderPerKey
<1>6. CASE Reset
  BY <1>6 DEF Reset, OneOrderPerKey
<1>7. CASE Call
  BY <1>3, <1>5, <1>6, <1>7
  DEF Call, RetryPlaceOrder, GetOrderStatus, CancelOrder, SettleAll
<1>8. CASE Tick \/ UNCHANGED vars
  BY <1>3, <1>8 DEF Tick, vars, book
<1> QED
  BY <1>4, <1>7, <1>8 DEF Next

(* OneOrderPerKey: placeOrder books at most one order per idempotency key   *)
(* however often and with whatever request it is retried.                   *)
THEOREM KeyNamesOneOrder == Spec => []OneOrderPerKey
<1>1. Init => OneOrderPerKey
  BY DEF Init, OneOrderPerKey
<1> QED
  BY <1>1, AlwaysSound, KeysKept, PTL DEF Spec
-----------------------------------------------------------------------------
(* The venue implements the contract.                                       *)

(* The book as OrderContract sees it. *)
statusOf    == [o \in OrderIds |-> orders[o].status]
requestedOf == [o \in OrderIds |-> orders[o].qty]
filledOf    == [o \in OrderIds |-> orders[o].filled]

LEMMA EmptyBook ==
  orders = [o \in OrderIds |-> NoOrder]
    => /\ statusOf = [o \in OrderIds |-> "NONE"]
       /\ requestedOf = [o \in OrderIds |-> 0]
       /\ filledOf = [o \in OrderIds |-> 0]
BY DEF statusOf, requestedOf, filledOf, NoOrder

LEMMA InitMapped == Init => Contract!Init
BY EmptyBook
DEF Init, Contract!Init, Contract!Unknown, Contract!Zero, statusOf, requestedOf, filledOf

(* Replacing one order replaces one entry of each mapped function. *)
LEMMA OneEntry ==
  ASSUME NEW o \in OrderIds, NEW x, orders' = [orders EXCEPT ![o] = x],
         orders \in [OrderIds -> Order]
  PROVE  /\ statusOf' = [statusOf EXCEPT ![o] = x.status]
         /\ requestedOf' = [requestedOf EXCEPT ![o] = x.qty]
         /\ filledOf' = [filledOf EXCEPT ![o] = x.filled]
         /\ statusOf'[o] = x.status /\ requestedOf'[o] = x.qty
         /\ filledOf'[o] = x.filled
BY DEF statusOf, requestedOf, filledOf

LEMMA SameTable == Contract!OrderTransitions = OrderTransitions
BY DEF Contract!OrderTransitions, OrderTransitions, Contract!OrderStatuses,
       OrderStatuses, Contract!TerminalOrderStatuses, TerminalOrderStatuses

LEMMA PlaceOrderAccepts ==
  ASSUME IInv, NEW k \in Keys, NEW r \in Requests, PlaceOrder(k, r)
  PROVE  \E o \in OrderIds : Contract!Accept(o)
<1>o. PICK o \in OrderIds : o = placed + 1
  BY VenueAssumption DEF PlaceOrder, OrderIds, IInv, TypeOK
<1> DEFINE qty == RoundQuantity(r.qty)
           s == IF PreTradeReject(r, qty) THEN "REJECTED" ELSE "SUBMITTED"
           x == [key |-> k, req |-> r, qty |-> qty, status |-> s,
                 filled |-> 0, submittedAt |-> now, matchedTo |-> now + AckTicks,
                 triggered |-> r.type \notin {"STOP", "STOP_LIMIT"}, fills |-> <<>>]
<1>1. /\ ~(o <= placed) /\ orders \in [OrderIds -> Order]
      /\ orders' = [orders EXCEPT ![o] = x]
  BY <1>o, VenueAssumption DEF PlaceOrder, OrderIds, IInv, TypeOK
<1>2. r.qty \in Nat
  BY RequestAssumption DEF PlaceOrder
<1>3. qty \in Nat
  BY <1>2, RoundQuantityNat
<1>4. orders[o] = NoOrder
  BY <1>1 DEF IInv, TableFull
<1>5. s \in {"SUBMITTED", "REJECTED"}
  OBVIOUS
<1>6. /\ x.status = s /\ x.qty = qty /\ x.filled = 0
  OBVIOUS
<1> HIDE DEF x, s, qty
<1>7. statusOf[o] = "NONE"
  BY <1>4 DEF NoOrder, statusOf
<1>8. /\ statusOf' = [statusOf EXCEPT ![o] = s]
      /\ requestedOf' = [requestedOf EXCEPT ![o] = qty] /\ requestedOf'[o] = qty
      /\ filledOf' = [filledOf EXCEPT ![o] = 0]
  BY <1>1, <1>6, OneEntry
<1>9. Contract!Accept(o)
  BY <1>3, <1>5, <1>7, <1>8 DEF Contract!Accept, statusOf, requestedOf, filledOf
<1> QED
  BY <1>9

LEMMA SettleMapped ==
  ASSUME IInv, Settle
  PROVE  (\E o \in OrderIds : Contract!Report(o)) \/ UNCHANGED Contract!vars
<1>c. PICK c \in OrderIds : c = cur
  BY SettleReports
<1>1. orders \in [OrderIds -> Order] /\ Current = orders[c] /\ Current.status # "NONE"
  BY <1>c, SettleReports DEF IInv, TypeOK, Current, Reported
<1>2. CASE UNCHANGED book
  BY <1>2 DEF book, Contract!vars
<1>3. ASSUME NEW x, Become(x), Reports(x)
      PROVE  Contract!Report(c) \/ UNCHANGED Contract!vars
  <2>1. /\ statusOf' = [statusOf EXCEPT ![c] = x.status]
        /\ requestedOf' = [requestedOf EXCEPT ![c] = x.qty]
        /\ filledOf' = [filledOf EXCEPT ![c] = x.filled]
        /\ filledOf'[c] = x.filled
    BY <1>c, <1>1, <1>3, OneEntry DEF Become
  <2>2. /\ statusOf[c] = Current.status /\ requestedOf[c] = Current.qty
        /\ filledOf[c] = Current.filled /\ x.qty = Current.qty
        /\ requestedOf' = requestedOf
    BY <1>1, <1>3, <2>1 DEF Reports, statusOf, requestedOf, filledOf
  <2>3. CASE x.status = Current.status /\ x.filled = Current.filled
    <3>1. statusOf' = statusOf /\ filledOf' = filledOf
      BY <1>1, <2>1, <2>2, <2>3 DEF statusOf, filledOf
    <3> QED
      BY <2>2, <3>1 DEF Contract!vars, statusOf, requestedOf, filledOf
  <2>4. CASE /\ x.status \in OrderTransitions[Current.status]
             /\ x.filled \in Current.filled .. Current.qty
             /\ Contract!Consistent(x.status, x.filled, x.qty)
    <3>1. /\ statusOf[c] # "NONE"
          /\ filledOf'[c] \in filledOf[c] .. requestedOf[c]
          /\ filledOf' = [filledOf EXCEPT ![c] = filledOf'[c]]
          /\ x.status \in OrderTransitions[statusOf[c]]
          /\ Contract!Consistent(x.status, filledOf'[c], requestedOf[c])
          /\ statusOf' = [statusOf EXCEPT ![c] = x.status]
          /\ requestedOf' = requestedOf
      BY <1>1, <2>1, <2>2, <2>4
    <3> QED
      BY <3>1, SameTable DEF Contract!Report, statusOf, requestedOf, filledOf
  <2> QED
    BY <1>3, <2>3, <2>4 DEF Reports
<1> QED
  BY <1>1, <1>2, <1>3, SettleReports

LEMMA StepMapped == IInv /\ [Next]_vars => [Contract!Next]_(Contract!vars)
<1> SUFFICES ASSUME IInv, [Next]_vars PROVE [Contract!Next]_(Contract!vars)
  OBVIOUS
<1>1. CASE UNCHANGED book
  BY <1>1 DEF book, Contract!vars
<1>2. CASE Settle
  BY <1>2, SettleMapped DEF Contract!Next
<1>3. ASSUME NEW k \in Keys, NEW r \in Requests, PlaceOrder(k, r)
      PROVE  Contract!Next
  BY <1>3, PlaceOrderAccepts DEF Contract!Next
<1>4. CASE Reset
  <2>1. Contract!Forget
    BY <1>4, EmptyBook
    DEF Reset, Contract!Forget, Contract!Unknown, Contract!Zero, NoOrder
  <2> QED
    BY <2>1 DEF Contract!Next
<1>5. CASE Call
  BY <1>1, <1>3, <1>4, <1>5
  DEF Call, RetryPlaceOrder, GetOrderStatus, CancelOrder, SettleAll
<1>6. CASE Tick \/ UNCHANGED vars
  BY <1>1, <1>6 DEF Tick, vars
<1> QED
  BY <1>2, <1>5, <1>6 DEF Next

(* ImplementsOrderContract: every behaviour of the venue is one             *)
(* OrderContract allows: statuses follow the shared transition table,       *)
(* executed quantity only grows and stays within the request, and a         *)
(* terminal order never changes again.                                      *)
THEOREM VenueKeepsContract == Spec => ImplementsOrderContract
BY InitMapped, StepMapped, AlwaysSound, PTL
DEF Spec, ImplementsOrderContract, Contract!Spec
-----------------------------------------------------------------------------
(* Days and sessions.                                                       *)

LEMMA ProductNat == ASSUME NEW a \in Nat, NEW b \in Nat PROVE a * b \in Nat
BY SMT

LEMMA Multiple == ASSUME NEW n \in Nat \ {0}, NEW d \in Nat PROVE n * d >= d
BY SMT

LEMMA DivMod ==
  ASSUME NEW t \in Nat, NEW d \in Nat \ {0}
  PROVE  /\ t = d * (t \div d) + (t % d) /\ t % d \in 0 .. d - 1 /\ t \div d \in Nat
BY SMT

(* A quotient and a remainder are determined by the number they make up.    *)
LEMMA DivisionUnique ==
  ASSUME NEW t \in Nat, NEW d \in Nat \ {0}, NEW k \in Nat, NEW r \in 0 .. d - 1,
         t = d * k + r
  PROVE  t \div d = k /\ t % d = r
<1> DEFINE q == t \div d
           s == t % d
<1>1. t = d * q + s /\ s \in 0 .. d - 1 /\ q \in Nat
  BY DivMod
<1> HIDE DEF q, s
<1>2. (q - k) * d = r - s /\ (k - q) * d = s - r
  BY <1>1, SMT
<1>3. ASSUME q > k PROVE FALSE
  BY <1>1, <1>2, <1>3, Multiple
<1>4. ASSUME k > q PROVE FALSE
  BY <1>1, <1>2, <1>4, Multiple
<1>5. q = k
  BY <1>1, <1>3, <1>4
<1>6. r = s
  BY <1>1, <1>5
<1> QED
  BY <1>5, <1>6 DEF q, s

EndOfDay(t) == DayTicks * (Day(t) + 1)

LEMMA DayFacts ==
  ASSUME NEW t \in Nat
  PROVE  /\ Day(t) \in Nat /\ EndOfDay(t) \in Nat /\ t < EndOfDay(t)
         /\ DayTicks * Day(t) \in Nat /\ DayTicks * Day(t) <= t
         /\ EndOfDay(t) = DayTicks * Day(t) + DayTicks
<1>1. DayTicks \in Nat \ {0}
  BY VenueAssumption
<1>2. /\ Day(t) \in Nat /\ t = DayTicks * Day(t) + (t % DayTicks)
      /\ t % DayTicks \in 0 .. DayTicks - 1
  BY <1>1, DivMod DEF Day
<1>3. EndOfDay(t) = DayTicks * Day(t) + DayTicks
  BY <1>1, <1>2, SMT DEF EndOfDay
<1>4. DayTicks * Day(t) \in Nat
  BY <1>1, <1>2, ProductNat
<1> QED
  BY <1>1, <1>2, <1>3, <1>4

(* A tick from one of a day to the end of the day belongs to that day.      *)
LEMMA SameDay ==
  ASSUME NEW a \in Nat, NEW b \in Nat, a <= b, b < EndOfDay(a)
  PROVE  Day(b) = Day(a)
<1>1. DayTicks \in Nat \ {0}
  BY VenueAssumption
<1>2. PICK k \in Nat : k = Day(a)
  BY DayFacts
<1>3. PICK m \in Nat : m = DayTicks * k
  BY <1>2, DayFacts
<1>4. m <= a /\ EndOfDay(a) = m + DayTicks
  BY <1>2, <1>3, DayFacts
<1>5. PICK r \in 0 .. DayTicks - 1 : b = m + r
  <2>1. b - m \in 0 .. DayTicks - 1 /\ b = m + (b - m)
    BY <1>1, <1>4
  <2> QED
    BY <2>1
<1> QED
  BY <1>1, <1>2, <1>3, <1>5, DivisionUnique DEF Day

(* After the end of a day the venue is closed for a while.                  *)
LEMMA NightIsClosed ==
  ASSUME NEW a \in Nat, NEW t \in Nat, EndOfDay(a) <= t, t < EndOfDay(a) + ClosedTicks
  PROVE  ~Open(t)
<1>1. DayTicks \in Nat \ {0} /\ ClosedTicks \in Nat /\ ClosedTicks < DayTicks
  BY VenueAssumption
<1>2. PICK k \in Nat : k = Day(a) + 1
  BY DayFacts
<1>3. PICK m \in Nat : m = EndOfDay(a) /\ m = DayTicks * k
  BY <1>2, DayFacts DEF EndOfDay
<1>4. PICK r \in 0 .. DayTicks - 1 : t = m + r
  <2>1. t - m \in 0 .. DayTicks - 1 /\ t = m + (t - m)
    BY <1>1, <1>3
  <2> QED
    BY <2>1
<1>5. t % DayTicks = r
  BY <1>1, <1>3, <1>4, DivisionUnique
<1>6. r < ClosedTicks
  BY <1>1, <1>3, <1>4
<1> QED
  BY <1>1, <1>5, <1>6 DEF Open
-----------------------------------------------------------------------------
(* The clock of an order.  Each execution has the time of the slice it came *)
(* from and matchedTo is always past it, so times grow; and a DAY order     *)
(* that is open between two calls was never matched beyond the end of its   *)
(* day, so that the slices one call may replay end inside the night.        *)

ClockSound(x) ==
  \/ x = NoOrder
  \/ /\ x.submittedAt <= now
     /\ x.submittedAt + AckTicks <= x.matchedTo /\ x.matchedTo <= now + 1
     /\ \A i \in DOMAIN x.fills :
          /\ Open(x.fills[i].at)
          /\ x.submittedAt + AckTicks <= x.fills[i].at
          /\ x.fills[i].at <= now /\ x.fills[i].at < x.matchedTo
          /\ i > 1 => x.fills[i - 1].at < x.fills[i].at

(* How far past its day an order may be: by the slices of this call.        *)
Late(o) == IF pc = "match" /\ cur = o THEN slices ELSE 0

DaySound(o) ==
  LET x == orders[o] IN
  x.req.tif = "DAY" =>
    /\ IsOpen(x) => x.matchedTo <= EndOfDay(x.submittedAt) + Late(o)
    /\ \A i \in DOMAIN x.fills : Day(x.fills[i].at) = Day(x.submittedAt)

ClockInv ==
  /\ \A o \in OrderIds : ClockSound(orders[o]) /\ DaySound(o)
  /\ pc = "settle" => slices = 0

Execution == [qty : Nat, price : Int, fees : Int, at : Nat]

(* What a step of settle() makes of the current order's clock and fills.    *)
Moves(x) ==
  /\ x \in Order /\ x.req = Current.req /\ x.submittedAt = Current.submittedAt
  /\ x.status # "NONE"
  /\ \/ x.matchedTo = At /\ x.fills = Current.fills
     \/ /\ InLoop /\ x.matchedTo = At + 1
        /\ \/ x.fills = Current.fills
           \/ /\ Open(At)
              /\ \E f \in Execution : f.at = At /\ x.fills = Append(Current.fills, f)

(* How it goes on: with the next slice, or out of the loop.                 *)
Leaves(x) ==
  \/ /\ pc' = "match" /\ cur' = cur
     /\ \/ /\ pc = "settle" /\ ~IsTerminalOrderStatus(Current.status)
           /\ x.matchedTo = At /\ slices' = slices
        \/ pc = "match" /\ x.matchedTo = At + 1 /\ slices' = slices + 1
  \/ /\ pc' # "match" /\ (pc' = "settle" => slices' = 0)
     /\ \/ IsTerminalOrderStatus(x.status)
        \/ x.req.tif # "DAY"
        \/ /\ x.matchedTo = At
           /\ IF pc = "match" THEN Day(x.submittedAt) = Day(now)
                              ELSE ~IsTerminalOrderStatus(Current.status)

LEMMA ReturnLeaves ==
  ASSUME NEW s, Return(s) PROVE pc' # "match" /\ slices' = 0
BY DEF Return

(* A new status alone moves no clock.                                       *)
LEMMA StatusMoves ==
  ASSUME IInv, pc # "idle",
         NEW s \in {"ACKNOWLEDGED", "PARTIALLY_FILLED", "CANCEL_REQUESTED", "CANCELLED",
                    "EXPIRED"}
  PROVE  /\ Moves([Current EXCEPT !.status = s])
         /\ [Current EXCEPT !.status = s].status = s
         /\ [Current EXCEPT !.status = s].matchedTo = At
         /\ [Current EXCEPT !.status = s].submittedAt = Current.submittedAt
<1>1. Current \in Order
  BY InProgress
<1>2. [Current EXCEPT !.status = s] \in Order
  BY <1>1 DEF Order, OrderStatuses
<1> QED
  BY <1>1, <1>2 DEF Moves, Order, At

LEMMA AdvancedMoves ==
  ASSUME IInv, InLoop
  PROVE  /\ Moves(Advanced) /\ Advanced.matchedTo = At + 1 /\ Advanced \in Order
         /\ Advanced.fills = Current.fills /\ Advanced.submittedAt = Current.submittedAt
         /\ Advanced.req = Current.req /\ Advanced.status = Current.status
         /\ \A s \in {"REJECTED", "CANCELLED"} :
              /\ Moves([Advanced EXCEPT !.status = s])
              /\ [Advanced EXCEPT !.status = s].status = s
<1>1. pc # "idle"
  BY DEF InLoop
<1>2. /\ Current \in Order /\ Current.status \in Reported /\ Advanced \in Order
      /\ Advanced.req = Current.req /\ Advanced.status = Current.status
  BY <1>1, InProgress, AdvancedSound
<1>3. /\ Advanced.matchedTo = At + 1 /\ Advanced.fills = Current.fills
      /\ Advanced.submittedAt = Current.submittedAt
  BY <1>2 DEF Advanced, Order
<1>4. Moves(Advanced)
  BY <1>2, <1>3 DEF Moves, Reported
<1>5. ASSUME NEW s \in {"REJECTED", "CANCELLED"}
      PROVE  /\ Moves([Advanced EXCEPT !.status = s])
             /\ [Advanced EXCEPT !.status = s].status = s
  <2>1. [Advanced EXCEPT !.status = s] \in Order
    BY <1>2 DEF Order, OrderStatuses
  <2> QED
    BY <1>2, <1>3, <2>1 DEF Moves, Order
<1> QED
  BY <1>2, <1>3, <1>4, <1>5

LEMMA FilledMoves ==
  ASSUME IInv, BookFill, NEW s \in {"FILLED", "PARTIALLY_FILLED"},
         s = "FILLED" <=> Current.filled + SliceQty >= Current.qty
  PROVE  /\ Moves(Filled(s)) /\ Filled(s).status = s /\ Filled(s).matchedTo = At + 1
         /\ Filled(s).req = Current.req
<1>1. Tradable /\ InLoop /\ Open(At) /\ pc # "idle"
  BY DEF BookFill, Tradable, Live, InLoop
<1>2. /\ Filled(s) \in Order /\ Filled(s).status = s
      /\ SliceQty \in Nat \ {0} /\ Price \in Int /\ Fees \in Int /\ At \in Nat
  BY <1>1, FilledSound, SliceFacts, InProgress
<1> DEFINE f == [qty |-> SliceQty, price |-> Price, fees |-> Fees, at |-> At]
<1>3. f \in Execution /\ f.at = At
  BY <1>2 DEF Execution
<1>4. /\ Filled(s).fills = Append(Current.fills, f) /\ Filled(s).matchedTo = At + 1
      /\ Filled(s).req = Current.req /\ Filled(s).submittedAt = Current.submittedAt
  BY <1>1, AdvancedMoves DEF Filled, Order
<1> HIDE DEF f
<1> QED
  BY <1>1, <1>2, <1>3, <1>4 DEF Moves

LEMMA SettleMoves ==
  ASSUME IInv, Settle, pc = "settle" => slices = 0
  PROVE  /\ cur \in OrderIds /\ Current \in Order /\ Current.status \in Reported
         /\ now' = now /\ \E x : Become(x) /\ Moves(x) /\ Leaves(x)
<1>1. pc # "idle"
  BY DEF Settle, SettleNothing, StartMatching, SliceClosed, SliceUntriggered,
         SliceNotExecutable, SliceGivesUp, SliceNothingLeft, SliceUnaffordable,
         FillCompletes, FillPartially, FinishUnfilled, LeaveLoop,
         RequestCancel, ConfirmCancel, BookFill, Tradable, Live, InLoop
<1>2. /\ cur \in OrderIds /\ Current \in Order /\ Sound(Current)
      /\ Current.status \in Reported
  BY <1>1, InProgress
<1>3. /\ pc \in {"match", "unfilled"}
           => Current.status \in {"ACKNOWLEDGED", "PARTIALLY_FILLED"}
      /\ pc = "cancel" => ~IsTerminalOrderStatus(Current.status)
  BY DEF IInv, CallSound, Current
<1>4. \A s \in {"FILLED", "CANCELLED", "REJECTED", "EXPIRED"} : IsTerminalOrderStatus(s)
  BY DEF IsTerminalOrderStatus, TerminalOrderStatuses
<1>5. now' = now
  BY DEF Settle, SettleNothing, StartMatching, SliceClosed, SliceUntriggered,
         SliceNotExecutable, SliceGivesUp, SliceNothingLeft, SliceUnaffordable,
         FillCompletes, FillPartially, FinishUnfilled, LeaveLoop,
         RequestCancel, ConfirmCancel, BookFill, clock
<1> SUFFICES \E x : Become(x) /\ Moves(x) /\ Leaves(x)
  BY <1>2, <1>5
<1>6. ASSUME InLoop, NextSlice(Advanced) PROVE \E x : Become(x) /\ Moves(x) /\ Leaves(x)
  BY <1>6, AdvancedMoves DEF NextSlice, InLoop, Leaves
<1>7. CASE SettleNothing
  <2>1. Become(Current)
    BY <1>2, <1>7 DEF SettleNothing, Become, Current, book, IInv, TypeOK
  <2>2. Moves(Current)
    BY <1>2 DEF Moves, At, Reported
  <2>3. Return(Current.status) /\ pc = "settle"
    BY <1>7 DEF SettleNothing
  <2>4. Leaves(Current)
    BY <2>3, ReturnLeaves DEF Leaves, At
  <2> QED
    BY <2>1, <2>2, <2>4
<1>8. CASE StartMatching
  <2> DEFINE s == IF Current.status = "SUBMITTED" THEN "ACKNOWLEDGED" ELSE Current.status
             x == [Current EXCEPT !.status = s]
  <2>1. /\ Become(x) /\ pc = "settle" /\ ~IsTerminalOrderStatus(Current.status)
        /\ pc' = "match" /\ cur' = cur /\ slices' = slices
    BY <1>2, <1>8 DEF StartMatching, Order
  <2>2. s \in {"ACKNOWLEDGED", "PARTIALLY_FILLED", "CANCEL_REQUESTED"}
    BY <1>2, <2>1, <1>4 DEF Reported
  <2> HIDE DEF s
  <2>3. Moves(x) /\ x.matchedTo = At
    BY <1>1, <2>2, StatusMoves
  <2> HIDE DEF x
  <2>4. Leaves(x)
    BY <2>1, <2>3 DEF Leaves
  <2> QED
    BY <2>1, <2>3, <2>4
<1>9. CASE SliceClosed \/ SliceUntriggered \/ SliceNotExecutable \/ SliceNothingLeft
  BY <1>6, <1>9
  DEF SliceClosed, SliceUntriggered, SliceNotExecutable, SliceNothingLeft, Tradable, Live
<1>10. CASE SliceGivesUp
  <2>1. InLoop /\ Become(Advanced) /\ pc' = "unfilled" /\ Current.req.tif \in {"IOC", "FOK"}
    BY <1>10 DEF SliceGivesUp, Live, TooThinForFok
  <2>2. Moves(Advanced) /\ Advanced.req.tif # "DAY"
    BY <2>1, AdvancedMoves
  <2> QED
    BY <2>1, <2>2 DEF Leaves
<1>11. CASE SliceUnaffordable
  <2> DEFINE s == IF Current.filled > 0 THEN "CANCELLED" ELSE "REJECTED"
             x == [Advanced EXCEPT !.status = s]
  <2>1. InLoop /\ Become(x) /\ Return(s) /\ s \in {"CANCELLED", "REJECTED"}
    BY <1>11 DEF SliceUnaffordable, Tradable, Live
  <2> HIDE DEF s
  <2>2. Moves(x) /\ x.status = s
    BY <2>1, AdvancedMoves
  <2> HIDE DEF x
  <2>3. Leaves(x)
    BY <1>4, <2>1, <2>2, ReturnLeaves DEF Leaves
  <2> QED
    BY <2>1, <2>2, <2>3
<1>12. CASE FillCompletes
  <2> DEFINE x == Filled("FILLED")
  <2>1. /\ BookFill /\ Become(x) /\ Return("FILLED")
        /\ Current.filled + SliceQty >= Current.qty
    BY <1>12 DEF FillCompletes
  <2>2. Moves(x) /\ x.status = "FILLED"
    BY <2>1, FilledMoves
  <2> HIDE DEF x
  <2>3. Leaves(x)
    BY <1>4, <2>1, <2>2, ReturnLeaves DEF Leaves
  <2> QED
    BY <2>1, <2>2, <2>3
<1>13. CASE FillPartially
  <2> DEFINE x == Filled("PARTIALLY_FILLED")
  <2>1. /\ BookFill /\ Become(x) /\ Current.filled + SliceQty < Current.qty
        /\ IF Current.req.tif = "IOC" THEN pc' = "unfilled"
           ELSE pc' = pc /\ cur' = cur /\ slices' = slices + 1
    BY <1>13 DEF FillPartially, NextSlice
  <2>2. pc = "match" /\ ~(Current.filled + SliceQty >= Current.qty)
    <3>1. SliceQty \in Int /\ Current.filled \in Nat /\ Current.qty \in Nat
      BY <1>2, <2>1, SliceFacts DEF BookFill, Order
    <3> QED
      BY <2>1, <3>1 DEF BookFill, Tradable, Live, InLoop
  <2>3. Moves(x) /\ x.matchedTo = At + 1 /\ x.req = Current.req
    BY <2>1, <2>2, FilledMoves
  <2> HIDE DEF x
  <2>4. Leaves(x)
    BY <2>1, <2>2, <2>3 DEF Leaves
  <2> QED
    BY <2>1, <2>3, <2>4
<1>14. CASE FinishUnfilled \/ ConfirmCancel
  <2> DEFINE x == [Current EXCEPT !.status = "CANCELLED"]
  <2>1. Become(x) /\ Return("CANCELLED")
    BY <1>14 DEF FinishUnfilled, ConfirmCancel
  <2>2. Moves(x) /\ x.status = "CANCELLED"
    BY <1>1, StatusMoves
  <2> HIDE DEF x
  <2>3. Leaves(x)
    BY <1>4, <2>1, <2>2, ReturnLeaves DEF Leaves
  <2> QED
    BY <2>1, <2>2, <2>3
<1>15. CASE LeaveLoop
  <2> DEFINE expires == Current.req.tif = "DAY" /\ Day(Current.submittedAt) # Day(now)
             s == IF expires THEN "EXPIRED" ELSE Current.status
             x == [Current EXCEPT !.status = s]
  <2>1. pc = "match" /\ Become(x) /\ Return(s)
    BY <1>15 DEF LeaveLoop
  <2>2. /\ s \in {"EXPIRED", "ACKNOWLEDGED", "PARTIALLY_FILLED"}
        /\ \/ s = "EXPIRED" \/ Current.req.tif # "DAY"
           \/ Day(Current.submittedAt) = Day(now)
    BY <1>3, <2>1
  <2> HIDE DEF s
  <2>3. Moves(x) /\ x.status = s /\ x.matchedTo = At /\ x.submittedAt = Current.submittedAt
    BY <1>1, <2>2, StatusMoves
  <2> HIDE DEF x
  <2>4. x.req = Current.req
    BY <2>3 DEF Moves
  <2>5. Leaves(x)
    BY <1>4, <2>1, <2>2, <2>3, <2>4, ReturnLeaves DEF Leaves
  <2> QED
    BY <2>1, <2>3, <2>5
<1>16. CASE RequestCancel
  <2> DEFINE x == [Current EXCEPT !.status = "CANCEL_REQUESTED"]
  <2>1. Become(x) /\ pc = "cancel" /\ pc' = pc
    BY <1>16 DEF RequestCancel, control
  <2>2. Moves(x) /\ x.matchedTo = At
    BY <1>1, StatusMoves
  <2> HIDE DEF x
  <2>3. Leaves(x)
    BY <1>3, <2>1, <2>2 DEF Leaves
  <2> QED
    BY <2>1, <2>2, <2>3
<1> QED
  BY <1>7, <1>8, <1>9, <1>10, <1>11, <1>12, <1>13, <1>14, <1>15, <1>16 DEF Settle

(* Facts of an order's clock that every step on it uses.                    *)
LEMMA CurrentClock ==
  ASSUME IInv, ClockInv, cur \in OrderIds, Current \in Order, Current.status \in Reported
  PROVE  /\ Current.submittedAt \in Nat /\ At \in Nat /\ now \in Nat
         /\ AckTicks \in Nat \ {0}
         /\ Current.fills \in Seq(Execution)
         /\ Current.submittedAt + AckTicks <= At /\ At <= now + 1
         /\ \A i \in DOMAIN Current.fills :
              /\ Open(Current.fills[i].at)
              /\ Current.submittedAt + AckTicks <= Current.fills[i].at
              /\ Current.fills[i].at <= now /\ Current.fills[i].at < At
              /\ i > 1 => Current.fills[i - 1].at < Current.fills[i].at
<1>1. /\ Current.submittedAt \in Nat /\ At \in Nat /\ Current.fills \in Seq(Execution)
  BY DEF Order, At, Execution
<1>2. now \in Nat /\ AckTicks \in Nat \ {0}
  BY VenueAssumption DEF IInv, TypeOK
<1>3. Current # NoOrder
  BY DEF NoOrder, Reported
<1>4. ClockSound(Current)
  BY DEF ClockInv, Current
<1> QED
  BY <1>1, <1>2, <1>3, <1>4 DEF ClockSound, At

(* The current order's executions after a step that moves it.               *)
LEMMA MovedFills ==
  ASSUME IInv, ClockInv, cur \in OrderIds, Current \in Order, Current.status \in Reported,
         NEW x, Moves(x), NEW i \in DOMAIN x.fills
  PROVE  \/ /\ i \in DOMAIN Current.fills /\ x.fills[i] = Current.fills[i]
            /\ i > 1 => i - 1 \in DOMAIN Current.fills /\ x.fills[i - 1] = Current.fills[i - 1]
         \/ /\ InLoop /\ Open(At) /\ x.fills[i].at = At
            /\ i > 1 => i - 1 \in DOMAIN Current.fills /\ x.fills[i - 1] = Current.fills[i - 1]
<1> DEFINE s == Current.fills
<1>1. s \in Seq(Execution)
  BY CurrentClock
<1>2. CASE x.fills = s
  <2>1. i \in 1 .. Len(s) /\ Len(s) \in Nat
    BY <1>1, <1>2
  <2>2. i > 1 => i - 1 \in 1 .. Len(s)
    BY <2>1
  <2> QED
    BY <1>1, <1>2, <2>1, <2>2
<1>3. ASSUME NEW f \in Execution, InLoop, Open(At), f.at = At, x.fills = Append(s, f)
      PROVE  \/ /\ i \in DOMAIN s /\ x.fills[i] = s[i]
                /\ i > 1 => i - 1 \in DOMAIN s /\ x.fills[i - 1] = s[i - 1]
             \/ /\ InLoop /\ Open(At) /\ x.fills[i].at = At
                /\ i > 1 => i - 1 \in DOMAIN s /\ x.fills[i - 1] = s[i - 1]
  <2>1. /\ Len(s) \in Nat /\ DOMAIN s = 1 .. Len(s) /\ i \in 1 .. Len(s) + 1
        /\ x.fills[Len(s) + 1] = f /\ \A j \in 1 .. Len(s) : x.fills[j] = s[j]
    BY <1>1, <1>3
  <2>2. i > 1 => i - 1 \in 1 .. Len(s)
    BY <2>1
  <2>3. i # Len(s) + 1 => i \in 1 .. Len(s)
    BY <2>1
  <2> QED
    BY <1>3, <2>1, <2>2, <2>3
<1> QED
  BY <1>2, <1>3 DEF Moves

LEMMA MovedClock ==
  ASSUME IInv, ClockInv, cur \in OrderIds, Current \in Order, Current.status \in Reported,
         now' = now, NEW x, Moves(x)
  PROVE  ClockSound(x)'
<1>1. /\ x.submittedAt = Current.submittedAt
      /\ x.matchedTo = At \/ (InLoop /\ x.matchedTo = At + 1)
  BY DEF Moves
<1>2. /\ x.submittedAt <= now /\ x.submittedAt + AckTicks <= x.matchedTo
      /\ x.matchedTo <= now + 1
  BY <1>1, CurrentClock DEF InLoop
<1>3. ASSUME NEW i \in DOMAIN x.fills
      PROVE  /\ Open(x.fills[i].at)
             /\ x.submittedAt + AckTicks <= x.fills[i].at
             /\ x.fills[i].at <= now /\ x.fills[i].at < x.matchedTo
             /\ i > 1 => x.fills[i - 1].at < x.fills[i].at
  <2>1. CASE /\ i \in DOMAIN Current.fills /\ x.fills[i] = Current.fills[i]
             /\ i > 1 => x.fills[i - 1] = Current.fills[i - 1]
    <3>1. /\ Open(Current.fills[i].at)
          /\ Current.submittedAt + AckTicks <= Current.fills[i].at
          /\ Current.fills[i].at <= now /\ Current.fills[i].at < At
          /\ i > 1 => Current.fills[i - 1].at < Current.fills[i].at
      BY <2>1, CurrentClock
    <3>2. Current.fills[i].at \in Nat /\ At \in Nat
      <4>1. Current.fills[i] \in Execution /\ At \in Nat
        BY <2>1, CurrentClock
      <4> QED
        BY <4>1 DEF Execution
    <3>3. Current.fills[i].at < x.matchedTo
      BY <1>1, <3>1, <3>2
    <3> QED
      BY <1>1, <2>1, <3>1, <3>3
  <2>2. CASE /\ InLoop /\ Open(At) /\ x.fills[i].at = At
             /\ i > 1 => i - 1 \in DOMAIN Current.fills /\ x.fills[i - 1] = Current.fills[i - 1]
    <3>1. i > 1 => x.fills[i - 1].at < At
      BY <2>2, CurrentClock
    <3>2. At <= now /\ x.matchedTo = At + 1
      <4>1. ASSUME x.fills = Current.fills PROVE FALSE
        <5>1. i \in DOMAIN Current.fills /\ Current.fills[i].at = At
          BY <2>2, <4>1
        <5>2. At < At /\ At \in Nat
          BY <5>1, CurrentClock
        <5> QED
          BY <5>2
      <4> QED
        BY <2>2, <4>1 DEF Moves, InLoop
    <3>3. At < x.matchedTo /\ x.submittedAt + AckTicks <= At
      BY <1>1, <3>2, CurrentClock
    <3> QED
      BY <2>2, <3>1, <3>2, <3>3
  <2> QED
    BY <2>1, <2>2, MovedFills
<1> QED
  BY <1>2, <1>3 DEF ClockSound

(* A slice in which a DAY order executes belongs to its day.                *)
LEMMA SliceOfTheDay ==
  ASSUME IInv, ClockInv, cur \in OrderIds, Current \in Order, Current.status \in Reported,
         InLoop, Open(At), Current.req.tif = "DAY"
  PROVE  Day(At) = Day(Current.submittedAt)
<1> DEFINE e == EndOfDay(Current.submittedAt)
<1>1. /\ Current.submittedAt \in Nat /\ At \in Nat /\ Current.submittedAt <= At
      /\ slices \in Nat /\ slices < MaxSlices /\ MaxSlices <= ClosedTicks
      /\ MaxSlices \in Nat /\ ClosedTicks \in Nat /\ e \in Nat
  <2>1. /\ Current.submittedAt \in Nat /\ At \in Nat
        /\ Current.submittedAt + AckTicks <= At /\ AckTicks \in Nat
    BY CurrentClock
  <2>2. slices \in Nat /\ slices < MaxSlices /\ MaxSlices \in Nat
    BY VenueAssumption DEF InLoop, IInv, TypeOK
  <2>3. e \in Nat
    BY <2>1, DayFacts
  <2> QED
    BY <2>1, <2>2, <2>3, VenueAssumption
<1>2. At <= e + slices
  <2>1. pc = "match" /\ Current.status \in {"ACKNOWLEDGED", "PARTIALLY_FILLED"}
    BY DEF InLoop, IInv, CallSound, Current
  <2>2. IsOpen(orders[cur]) /\ Late(cur) = slices
    BY <2>1 DEF IsOpen, Late, Current, IsTerminalOrderStatus, TerminalOrderStatuses
  <2> QED
    BY <2>2 DEF ClockInv, DaySound, Current, At
<1> HIDE DEF e
<1>3. At < e + ClosedTicks
  BY <1>1, <1>2
<1>4. At < e
  <2> SUFFICES ASSUME e <= At PROVE FALSE
    BY <1>1
  <2> QED
    BY <1>1, <1>3, NightIsClosed DEF e
<1> QED
  BY <1>1, <1>4, SameDay DEF e

LEMMA MovedDay ==
  ASSUME IInv, ClockInv, NEW c \in OrderIds, c = cur, Current \in Order,
         Current.status \in Reported, now' = now,
         NEW x, Become(x), Moves(x), Leaves(x)
  PROVE  DaySound(c)'
<1> DEFINE e == EndOfDay(Current.submittedAt)
<1>1. orders'[c] = x /\ Current = orders[c]
  BY DEF Become, IInv, TypeOK, Current
<1>2. /\ x.req = Current.req /\ x.submittedAt = Current.submittedAt /\ x.status # "NONE"
  BY DEF Moves
<1> SUFFICES ASSUME Current.req.tif = "DAY"
             PROVE  /\ IsOpen(x) => x.matchedTo <= e + Late(c)'
                    /\ \A i \in DOMAIN x.fills : Day(x.fills[i].at) = Day(Current.submittedAt)
  BY <1>1, <1>2 DEF DaySound
<1>3. /\ Current.submittedAt \in Nat /\ At \in Nat /\ now \in Nat /\ At <= now + 1
      /\ Current.submittedAt <= now
  BY CurrentClock DEF ClockInv, ClockSound, Current, NoOrder, Reported
<1>4. e \in Nat
  BY <1>3, DayFacts
<1>5. slices \in Nat
  BY VenueAssumption DEF IInv, TypeOK
<1>6. IsOpen(Current) => At <= e + Late(c)
  BY <1>1 DEF ClockInv, DaySound, At
<1>7. pc = "match" => IsOpen(Current)
  BY DEF IInv, CallSound, Current, IsOpen, IsTerminalOrderStatus, TerminalOrderStatuses
<1>8. pc # "match" /\ ~IsTerminalOrderStatus(Current.status) => IsOpen(Current) /\ Late(c) = 0
  BY DEF IsOpen, Reported, Late
<1>9. Day(Current.submittedAt) = Day(now) => At <= e
  <2> SUFFICES ASSUME Day(Current.submittedAt) = Day(now) PROVE At <= e
    OBVIOUS
  <2>1. e = EndOfDay(now)
    BY DEF EndOfDay
  <2> HIDE DEF e
  <2>2. now < e
    BY <1>3, <2>1, DayFacts
  <2> QED
    BY <1>3, <1>4, <2>2
<1> HIDE DEF e
<1>10. ASSUME IsOpen(x) PROVE x.matchedTo <= e + Late(c)'
  <2>1. ~IsTerminalOrderStatus(x.status)
    BY <1>10 DEF IsOpen
  <2>2. CASE /\ pc' = "match" /\ cur' = cur
             /\ pc = "settle" /\ ~IsTerminalOrderStatus(Current.status)
             /\ x.matchedTo = At /\ slices' = slices
    <3>1. Late(c)' = slices /\ At <= e
      BY <1>4, <1>6, <1>8, <2>2 DEF Late
    <3> QED
      BY <1>3, <1>4, <1>5, <2>2, <3>1
  <2>3. CASE /\ pc' = "match" /\ cur' = cur
             /\ pc = "match" /\ x.matchedTo = At + 1 /\ slices' = slices + 1
    <3>1. Late(c)' = slices + 1 /\ At <= e + slices
      BY <1>6, <1>7, <2>3 DEF Late
    <3> QED
      BY <1>3, <1>4, <1>5, <2>3, <3>1
  <2>4. CASE /\ pc' # "match" /\ x.matchedTo = At
             /\ IF pc = "match" THEN Day(x.submittedAt) = Day(now)
                                ELSE ~IsTerminalOrderStatus(Current.status)
    <3>1. Late(c)' = 0
      BY <2>4 DEF Late
    <3>2. At <= e
      BY <1>2, <1>4, <1>6, <1>8, <1>9, <2>4
    <3> QED
      BY <1>3, <1>4, <2>4, <3>1, <3>2
  <2> QED
    BY <1>2, <2>1, <2>2, <2>3, <2>4 DEF Leaves
<1>11. ASSUME NEW i \in DOMAIN x.fills PROVE Day(x.fills[i].at) = Day(Current.submittedAt)
  <2>1. CASE i \in DOMAIN Current.fills /\ x.fills[i] = Current.fills[i]
    BY <1>1, <2>1 DEF ClockInv, DaySound
  <2>2. CASE InLoop /\ Open(At) /\ x.fills[i].at = At
    BY <2>2, SliceOfTheDay
  <2> QED
    BY <2>1, <2>2, MovedFills
<1> QED
  BY <1>10, <1>11

LEMMA ClockSettle == ASSUME IInv, ClockInv, Settle PROVE ClockInv'
<1>1. pc = "settle" => slices = 0
  BY DEF ClockInv
<1>2. PICK x : Become(x) /\ Moves(x) /\ Leaves(x)
  BY <1>1, SettleMoves
<1>3. cur \in OrderIds /\ Current \in Order /\ Current.status \in Reported /\ now' = now
  BY <1>1, SettleMoves
<1>4. PICK c \in OrderIds : c = cur
  BY <1>3
<1>5. /\ orders'[c] = x /\ \A o \in OrderIds \ {c} : orders'[o] = orders[o]
  BY <1>2, <1>4 DEF Become, IInv, TypeOK
<1>6. ClockSound(orders[c])' /\ DaySound(c)'
  <2>1. ClockSound(x)'
    BY <1>2, <1>3, MovedClock
  <2>2. DaySound(c)'
    BY <1>2, <1>3, <1>4, MovedDay
  <2> QED
    BY <1>5, <2>1, <2>2 DEF ClockSound
<1>7. ASSUME NEW o \in OrderIds, o # c PROVE ClockSound(orders[o])' /\ DaySound(o)'
  <2>1. ClockSound(orders[o]) /\ DaySound(o) /\ orders'[o] = orders[o]
    BY <1>5, <1>7 DEF ClockInv
  <2>2. Late(o) = 0 /\ Late(o)' = 0
    BY <1>2, <1>4, <1>7 DEF Late, Leaves
  <2> QED
    BY <1>3, <2>1, <2>2 DEF ClockSound, DaySound
<1>8. (pc = "settle" => slices = 0)'
  BY <1>2 DEF Leaves
<1> QED
  BY <1>6, <1>7, <1>8 DEF ClockInv

LEMMA UnplacedClock == ClockSound(NoOrder) /\ DOMAIN NoOrder.fills = {} /\ ~IsOpen(NoOrder)
BY DEF ClockSound, NoOrder, IsOpen

LEMMA ClockInit == Init => ClockInv
<1> SUFFICES ASSUME Init PROVE ClockInv
  OBVIOUS
<1>1. \A o \in OrderIds : orders[o] = NoOrder
  BY DEF Init
<1>2. pc = "idle"
  BY DEF Init
<1> QED
  BY <1>1, <1>2, UnplacedClock DEF ClockInv, DaySound

LEMMA ClockPlace ==
  ASSUME IInv, ClockInv, NEW k \in Keys, NEW r \in Requests, PlaceOrder(k, r)
  PROVE  ClockInv'
<1>c. PICK c \in OrderIds : c = placed + 1
  BY VenueAssumption DEF PlaceOrder, OrderIds, IInv, TypeOK
<1>1. /\ orders'[c].req = r /\ orders'[c].submittedAt = now
      /\ orders'[c].matchedTo = now + AckTicks /\ orders'[c].fills = <<>>
      /\ \A o \in OrderIds \ {c} : orders'[o] = orders[o]
  BY <1>c DEF PlaceOrder, IInv, TypeOK
<1>2. pc = "idle" /\ pc' = "settle" /\ slices' = 0 /\ now' = now
  BY DEF PlaceOrder, Idle, BeginSettle, clock
<1>3. AckTicks = 1 /\ now \in Nat /\ DOMAIN <<>> = {}
  BY VenueAssumption DEF IInv, TypeOK
<1>4. ClockSound(orders[c])'
  BY <1>1, <1>2, <1>3 DEF ClockSound
<1>5. DaySound(c)'
  <2>1. now < EndOfDay(now) /\ EndOfDay(now) \in Nat
    BY <1>3, DayFacts
  <2>2. Late(c)' = 0 /\ now + AckTicks <= EndOfDay(now) + 0
    BY <1>2, <1>3, <2>1 DEF Late
  <2> QED
    BY <1>1, <1>3, <2>2 DEF DaySound
<1>6. ASSUME NEW o \in OrderIds, o # c PROVE ClockSound(orders[o])' /\ DaySound(o)'
  <2>1. ClockSound(orders[o]) /\ DaySound(o) /\ orders'[o] = orders[o]
    BY <1>1, <1>6 DEF ClockInv
  <2>2. Late(o) = 0 /\ Late(o)' = 0
    BY <1>2 DEF Late
  <2> QED
    BY <1>2, <2>1, <2>2 DEF ClockSound, DaySound
<1> QED
  BY <1>2, <1>4, <1>5, <1>6 DEF ClockInv

(* Where no order changes and none is being matched.                        *)
LEMMA ClockRests ==
  ASSUME IInv, ClockInv, pc # "match", pc' # "match", orders' = orders,
         now' \in {now, now + 1}, pc' = "settle" => slices' = 0
  PROVE  ClockInv'
<1>1. now \in Nat
  BY DEF IInv, TypeOK
<1>2. ASSUME NEW o \in OrderIds PROVE ClockSound(orders[o])' /\ DaySound(o)'
  <2>1. ClockSound(orders[o]) /\ DaySound(o) /\ orders[o] \in Order
    BY DEF ClockInv, IInv, TypeOK
  <2>2. Late(o) = 0 /\ Late(o)' = 0
    BY DEF Late
  <2>3. DaySound(o)'
    BY <2>1, <2>2 DEF DaySound
  <2>4. ClockSound(orders[o])'
    <3> DEFINE x == orders[o]
    <3>1. /\ x.submittedAt \in Nat /\ x.matchedTo \in Nat /\ AckTicks \in Nat
          /\ x.fills \in Seq(Execution) /\ orders'[o] = x
      BY <2>1, VenueAssumption DEF Order, Execution
    <3> HIDE DEF x
    <3>2. ASSUME NEW i \in DOMAIN x.fills PROVE x.fills[i].at \in Nat
      <4>1. x.fills[i] \in Execution
        BY <3>1
      <4> QED
        BY <4>1 DEF Execution
    <3>3. now' \in Nat /\ now <= now'
      BY <1>1
    <3>4. ClockSound(x)
      BY <2>1 DEF x
    <3>5. CASE x = NoOrder
      BY <3>1, <3>5 DEF ClockSound
    <3>6. CASE x # NoOrder
      <4>1. /\ x.submittedAt <= now' /\ x.submittedAt + AckTicks <= x.matchedTo
            /\ x.matchedTo <= now' + 1
        BY <1>1, <3>1, <3>3, <3>4, <3>6 DEF ClockSound
      <4>2. ASSUME NEW i \in DOMAIN x.fills
            PROVE  /\ Open(x.fills[i].at) /\ x.submittedAt + AckTicks <= x.fills[i].at
                   /\ x.fills[i].at <= now' /\ x.fills[i].at < x.matchedTo
                   /\ i > 1 => x.fills[i - 1].at < x.fills[i].at
        BY <1>1, <3>2, <3>3, <3>4, <3>6 DEF ClockSound
      <4> QED
        BY <3>1, <4>1, <4>2 DEF ClockSound
    <3> QED
      BY <3>5, <3>6
  <2> QED
    BY <2>3, <2>4
<1> QED
  BY <1>2 DEF ClockInv

LEMMA ClockStep == IInv /\ ClockInv /\ [Next]_vars => ClockInv'
<1> SUFFICES ASSUME IInv, ClockInv, [Next]_vars PROVE ClockInv'
  OBVIOUS
<1>1. CASE Tick
  BY <1>1, ClockRests DEF Tick, Idle, book, control
<1>2. CASE Settle
  BY <1>2, ClockSettle
<1>3. ASSUME NEW k \in Keys, NEW r \in Requests, PlaceOrder(k, r) PROVE ClockInv'
  BY <1>3, ClockPlace
<1>4. ASSUME Idle, NEW t, NEW o, BeginSettle(t, o), UNCHANGED <<clock, book, account>>
      PROVE  ClockInv'
  BY <1>4, ClockRests DEF Idle, BeginSettle, clock, book
<1>5. CASE Reset
  <2>1. /\ pc' = "idle" /\ \A o \in OrderIds : orders'[o] = NoOrder
    BY <1>5 DEF Reset, Idle, control
  <2> QED
    BY <2>1, UnplacedClock DEF ClockInv, DaySound, ClockSound
<1>6. CASE Call
  BY <1>3, <1>4, <1>5, <1>6 DEF Call, RetryPlaceOrder, GetOrderStatus, CancelOrder, SettleAll
<1>7. CASE UNCHANGED vars
  BY <1>7 DEF vars, clock, book, control, ClockInv, ClockSound, DaySound, Late
<1> QED
  BY <1>1, <1>2, <1>6, <1>7 DEF Next

LEMMA AlwaysClocked == Spec => []ClockInv
BY ClockInit, ClockStep, AlwaysSound, PTL DEF Spec

(* ExecutionsInSession: each order executes at most once a second, after    *)
(* its acknowledgement and never ahead of the clock, and only while the     *)
(* venue is open, for any calendar and however lazily it is settled.        *)
THEOREM ExecutionsKeepTheirTime == Spec => []ExecutionsInSession
<1>1. IInv /\ ClockInv => ExecutionsInSession
  <2> SUFFICES ASSUME ClockInv, NEW o \in OrderIds, NEW i \in DOMAIN orders[o].fills
               PROVE  LET x == orders[o] IN
                      /\ Open(x.fills[i].at)
                      /\ x.submittedAt + AckTicks <= x.fills[i].at /\ x.fills[i].at <= now
                      /\ i > 1 => x.fills[i - 1].at < x.fills[i].at
    BY DEF ExecutionsInSession
  <2>1. orders[o] # NoOrder
    BY UnplacedClock
  <2> QED
    BY <2>1 DEF ClockInv, ClockSound
<1> QED
  BY <1>1, AlwaysSound, AlwaysClocked, PTL

(* DayOrdersFillOnTheirDay: however late it is polled, a DAY order executes *)
(* only on the day it was submitted, because the slices one call replays    *)
(* end before the venue opens again and the call then expires the order.    *)
THEOREM DayOrdersKeepTheirDay == Spec => []DayOrdersFillOnTheirDay
<1>1. ClockInv => DayOrdersFillOnTheirDay
  BY DEF ClockInv, DaySound, DayOrdersFillOnTheirDay
<1> QED
  BY <1>1, AlwaysClocked, PTL
-----------------------------------------------------------------------------
(* Cash.  A purchase is refused unless the cash covers it; a sale brings in *)
(* at least what its fees take, whatever is rounded in between.             *)

LEMMA ProductInt == ASSUME NEW a \in Int, NEW b \in Int PROVE a * b \in Int
BY SMT

LEMMA ProductMonotone ==
  ASSUME NEW a \in Int, NEW b \in Int, NEW c \in Nat, a <= b PROVE a * c <= b * c
BY SMT

(* Rounding to the nearest moves a quotient by half a divisor at most.      *)
LEMMA HalfEvenBounds ==
  ASSUME NEW n \in Int, NEW d \in Nat \ {0}
  PROVE  LET z == DivHalfEven(n, d) IN
         z \in Int /\ 2 * n - d <= 2 * (d * z) /\ 2 * (d * z) <= 2 * n + d
<1> DEFINE q == n \div d
           r == n % d
<1>1. q \in Int /\ r \in 0 .. d - 1 /\ n = d * q + r
  BY SMT
<1>2. DivHalfEven(n, d) = IF 2 * r > d \/ (2 * r = d /\ q % 2 = 1) THEN q + 1 ELSE q
  BY DEF DivHalfEven
<1> HIDE DEF q, r
<1>3. PICK m \in Int : m = d * q
  BY <1>1, ProductInt
<1>4. d * (q + 1) = m + d
  BY <1>1, <1>3, SMT
<1>5. CASE DivHalfEven(n, d) = q /\ 2 * r <= d
  BY <1>1, <1>3, <1>5
<1>6. CASE DivHalfEven(n, d) = q + 1 /\ 2 * r >= d
  <2>1. 2 * n - d <= 2 * (m + d) /\ 2 * (m + d) <= 2 * n + d
    BY <1>1, <1>3, <1>6
  <2> QED
    BY <1>1, <1>4, <1>6, <2>1
<1> QED
  BY <1>1, <1>2, <1>5, <1>6

(* A sale is made at half the bid at least.                                 *)
LEMMA SalePrice ==
  ASSUME NEW q \in Quotes, NEW qty \in Nat \ {0}, NEW available \in Nat \ {0},
         qty <= available
  PROVE  LET p == FillPrice("SELL", q.bid, qty, available) IN
         p \in Nat /\ 8 * TafPerShare + 1 <= p
<1> DEFINE w == ImpactScale * available
           i == ImpactBps * qty
           a == q.bid * (w - i)
           p == DivHalfEven(a, w)
<1>1. FillPrice("SELL", q.bid, qty, available) = p
  BY DEF FillPrice
<1>2. q.bid \in Nat /\ 16 * TafPerShare + 2 <= q.bid /\ TafPerShare \in Nat
  BY PriceAssumption, SaleAssumption
<1>3. w \in Nat \ {0} /\ i \in Nat /\ 2 * i <= w
  <2>1. /\ ImpactScale \in Nat \ {0} /\ ImpactBps \in Nat /\ 2 * ImpactBps <= ImpactScale
    BY PriceAssumption, SaleAssumption
  <2>2. w \in Nat \ {0} /\ i \in Nat
    BY <2>1, ProductPositive, ProductNat
  <2>3. qty * ImpactBps <= available * ImpactBps
    BY <2>1, ProductMonotone
  <2>4. (2 * ImpactBps) * available <= ImpactScale * available
    BY <2>1, ProductMonotone
  <2>5. i = qty * ImpactBps /\ (2 * ImpactBps) * available = 2 * (available * ImpactBps)
    BY <2>1, SMT
  <2>6. available * ImpactBps \in Nat
    BY <2>1, ProductNat
  <2> HIDE DEF i, w
  <2>7. qty * ImpactBps \in Nat
    BY <2>1, ProductNat
  <2>8. 2 * i <= (2 * ImpactBps) * available
    BY <2>2, <2>3, <2>5, <2>6, <2>7
  <2> QED
    BY <2>2, <2>4, <2>5, <2>6, <2>8 DEF w
<1> HIDE DEF w, i
<1>4. a \in Int /\ q.bid * w <= 2 * a
  <2>1. w <= 2 * (w - i) /\ w - i \in Int /\ 2 * (w - i) \in Int
    BY <1>3
  <2>2. w * q.bid <= (2 * (w - i)) * q.bid
    BY <1>2, <1>3, <2>1, ProductMonotone
  <2>3. /\ w * q.bid = q.bid * w /\ (2 * (w - i)) * q.bid = 2 * (q.bid * (w - i))
    BY <1>2, <1>3, <2>1, SMT
  <2> QED
    BY <1>2, <2>1, <2>2, <2>3, ProductInt
<1> HIDE DEF a
<1>5. p \in Int /\ 2 * a - w <= 2 * (w * p)
  BY <1>3, <1>4, HalfEvenBounds
<1> HIDE DEF p
<1>6. 2 * p >= q.bid - 1
  <2> SUFFICES ASSUME 2 * p + 1 <= q.bid - 1 PROVE FALSE
    BY <1>2, <1>5
  <2>1. (2 * p + 2) * w <= q.bid * w
    BY <1>2, <1>3, <1>5, ProductMonotone
  <2>2. (2 * p + 2) * w = 2 * (w * p) + 2 * w
    BY <1>3, <1>5, SMT
  <2>3. w * p \in Int /\ q.bid * w \in Int
    BY <1>2, <1>3, <1>5, ProductInt
  <2> QED
    BY <1>3, <1>4, <1>5, <2>1, <2>2, <2>3
<1>7. p \in Nat /\ 8 * TafPerShare + 1 <= p
  BY <1>2, <1>5, <1>6
<1> QED
  BY <1>1, <1>7

LEMMA SaleCoversFees ==
  ASSUME NEW qty \in Nat \ {0}, NEW price \in Nat, 8 * TafPerShare + 1 <= price
  PROVE  FeesFor("SELL", qty, qty * price) <= qty * price
<1> DEFINE v == qty * price
           taf == SmallerOf(qty * TafPerShare, TafCap)
           due == v * SecRate + 10000 * taf
           d == 10000 * Cent
           z == DivHalfEven(due, d)
<1>1. FeesFor("SELL", qty, v) = Cent * z
  BY DEF FeesFor
<1>2. /\ TafPerShare \in Nat /\ TafCap \in Nat /\ SecRate \in Nat /\ 4 * SecRate <= 10000
      /\ Cent \in Nat \ {0}
  BY PriceAssumption, SaleAssumption
<1>3. v \in Nat /\ d \in Nat \ {0}
  BY <1>2, ProductNat
<1>4. taf \in Int /\ 8 * taf <= v
  <2>1. qty * TafPerShare \in Nat /\ taf \in Int /\ taf <= qty * TafPerShare
    BY <1>2, ProductNat DEF SmallerOf
  <2>2. (8 * TafPerShare) * qty <= price * qty
    BY <1>2, ProductMonotone
  <2>3. (8 * TafPerShare) * qty = 8 * (qty * TafPerShare) /\ price * qty = v
    BY <1>2, SMT
  <2> HIDE DEF v, taf
  <2> QED
    BY <1>3, <2>1, <2>2, <2>3
<1> HIDE DEF taf
<1>5. v * SecRate \in Nat /\ 4 * (v * SecRate) <= 10000 * v
  <2>1. (4 * SecRate) * v <= 10000 * v
    BY <1>2, <1>3, ProductMonotone
  <2> HIDE DEF v
  <2>2. (4 * SecRate) * v = 4 * (v * SecRate)
    BY <1>2, <1>3, SMT
  <2> QED
    BY <1>2, <1>3, <2>1, <2>2, ProductNat
<1> HIDE DEF v
<1>6. due \in Int /\ 2 * due <= 10000 * v
  <2>1. PICK y \in Nat : y = v * SecRate
    BY <1>5
  <2>2. due = y + 10000 * taf
    BY <2>1
  <2> HIDE DEF due
  <2> QED
    BY <1>3, <1>4, <1>5, <2>1, <2>2
<1> HIDE DEF due, d
<1>7. z \in Int /\ 2 * (d * z) <= 2 * due + d
  <2>1. due \in Int /\ d \in Nat \ {0}
    BY <1>3, <1>6
  <2>2. z \in Int /\ 2 * due - d <= 2 * (d * z) /\ 2 * (d * z) <= 2 * due + d
    BY <2>1, HalfEvenBounds
  <2> QED
    BY <2>2
<1> HIDE DEF z
<1>8. PICK f \in Int : f = Cent * z
  BY <1>2, <1>7, ProductInt
<1>9. d * z = 10000 * f
  BY <1>2, <1>7, <1>8, SMT DEF d
<1>10. 2 * f <= v + Cent
  BY <1>2, <1>3, <1>6, <1>7, <1>8, <1>9 DEF d
<1>11. f <= v
  <2>1. CASE z <= 0
    <3>1. z * Cent <= 0 * Cent
      BY <1>2, <1>7, <2>1, ProductMonotone
    <3>2. z * Cent = f /\ 0 * Cent = 0
      BY <1>2, <1>7, <1>8, SMT
    <3> QED
      BY <1>3, <1>8, <3>1, <3>2
  <2>2. CASE 1 <= z
    <3>1. 1 * Cent <= z * Cent
      BY <1>2, <1>7, <2>2, ProductMonotone
    <3>2. z * Cent = f /\ 1 * Cent = Cent
      BY <1>2, <1>7, <1>8, SMT
    <3> QED
      BY <1>2, <1>3, <1>8, <1>10, <3>1, <3>2
  <2> QED
    BY <1>7, <2>1, <2>2
<1> QED
  BY <1>1, <1>8, <1>11 DEF v

LEMMA CashStep == IInv /\ CashNeverNegative /\ [Next]_vars => CashNeverNegative'
<1> SUFFICES ASSUME IInv, CashNeverNegative, [Next]_vars PROVE cash' >= 0
  BY DEF CashNeverNegative
<1>1. cash \in Nat
  BY DEF IInv, TypeOK, CashNeverNegative
<1>2. CASE BookFill
  <2>1. /\ SliceQty > 0 /\ SliceQty \in Int /\ Price \in Int /\ Notional \in Int /\ Fees \in Int
        /\ pc = "match" /\ At <= now /\ (Current.req.side = "BUY" => Notional + Fees <= cash)
    BY <1>2, SliceFacts DEF BookFill, Tradable, Live, InLoop, Affordable
  <2>2. CASE Current.req.side = "BUY"
    BY <1>1, <1>2, <2>1, <2>2 DEF BookFill
  <2>3. CASE Current.req.side = "SELL"
    <3>1. /\ Current \in Order /\ At \in 0 .. now
      BY <2>1, InProgress
    <3>2. /\ Symbol \in Symbols /\ Liquidity[Symbol] \in Nat \ {0}
      BY <3>1, RequestAssumption, VenueAssumption DEF Order, Symbol
    <3>3. Quote \in Quotes /\ Touch = Quote.bid
      BY <2>3, <3>1, <3>2 DEF IInv, TypeOK, Quote, Touch
    <3>4. SliceQty \in Nat \ {0} /\ SliceQty <= Liquidity[Symbol]
      <4>1. Remaining \in Int
        BY <3>1 DEF Remaining, Order
      <4> QED
        BY <2>1, <3>2, <4>1 DEF SliceQty, SmallerOf
    <3>5. Price \in Nat /\ 8 * TafPerShare + 1 <= Price
      BY <2>3, <3>2, <3>3, <3>4, SalePrice DEF Price
    <3>6. Fees <= Notional
      BY <2>3, <3>4, <3>5, SaleCoversFees DEF Fees, Notional
    <3> QED
      BY <1>1, <1>2, <2>1, <2>3, <3>6 DEF BookFill
  <2>4. Current.req.side \in {"BUY", "SELL"}
    BY <2>1, InProgress, RequestAssumption DEF Order, Sides
  <2> QED
    BY <2>2, <2>3, <2>4
<1>3. CASE Settle
  <2>1. BookFill \/ UNCHANGED account
    BY <1>3
    DEF Settle, SettleNothing, StartMatching, SliceClosed, SliceUntriggered,
        SliceNotExecutable, SliceGivesUp, SliceNothingLeft, SliceUnaffordable,
        FillCompletes, FillPartially, FinishUnfilled, LeaveLoop, RequestCancel,
        ConfirmCancel
  <2>2. CASE UNCHANGED account
    BY <1>1, <2>2 DEF account
  <2> QED
    BY <1>2, <2>1, <2>2
<1>4. CASE Reset
  BY <1>4, VenueAssumption DEF Reset
<1>5. CASE Call
  <2>1. UNCHANGED account \/ Reset
    BY <1>5 DEF Call, PlaceOrder, RetryPlaceOrder, GetOrderStatus, CancelOrder, SettleAll
  <2>2. CASE UNCHANGED account
    BY <1>1, <2>2 DEF account
  <2> QED
    BY <1>4, <2>1, <2>2
<1>6. CASE Tick \/ UNCHANGED vars
  BY <1>1, <1>6 DEF Tick, vars, account
<1> QED
  BY <1>3, <1>5, <1>6 DEF Next

(* CashNeverNegative: the demo account is never overdrawn, however many     *)
(* orders that were each affordable fill together: each purchase is checked *)
(* against the cash of its moment and no sale costs more than it brings.    *)
THEOREM CashIsNeverOverdrawn == Spec => []CashNeverNegative
<1>1. Init => CashNeverNegative
  BY VenueAssumption DEF Init, CashNeverNegative
<1> QED
  BY <1>1, CashStep, AlwaysSound, PTL DEF Spec
-----------------------------------------------------------------------------
(* Books.  Every total of the account is a sum over orders of sums over     *)
(* their executions; a step of settle() adds at most one execution to one   *)
(* order, and applyFill moves cash and the position by as much.             *)

(* The executions of an order added up.                                     *)
Shares(x)  == SumFunction([i \in DOMAIN x.fills |->
                             IF x.req.side = "BUY" THEN x.fills[i].qty
                                                   ELSE -x.fills[i].qty])
Money(x)   == SumFunction([i \in DOMAIN x.fills |->
                             IF x.req.side = "BUY"
                             THEN -(x.fills[i].qty * x.fills[i].price) - x.fills[i].fees
                             ELSE x.fills[i].qty * x.fills[i].price - x.fills[i].fees])
Charges(x) == SumFunction([i \in DOMAIN x.fills |-> x.fills[i].fees])
Volume(x)  == SumFunction([i \in DOMAIN x.fills |-> x.fills[i].qty])

(* The totals, in terms of the orders alone.                                *)
SharesIn(table, s) ==
  SumFunction([o \in {i \in OrderIds : table[i].req.symbol = s} |-> Shares(table[o])])
MoneyOf(table)   == SumFunction([o \in OrderIds |-> Money(table[o])])
ChargesOf(table) == SumFunction([o \in OrderIds |-> Charges(table[o])])
VolumeOf(table)  == SumFunction([o \in OrderIds |-> Volume(table[o])])
CountOf(table)   == SumFunction([o \in OrderIds |-> Len(table[o].fills)])

LEMMA TotalsOfTheTable ==
  /\ SumOver(CashMoved, OrderIds) = MoneyOf(orders)
  /\ SumOver(FeesPaid, OrderIds) = ChargesOf(orders)
  /\ Traded = VolumeOf(orders) /\ Executions = CountOf(orders)
  /\ \A s \in Symbols : SumOver(SharesMoved, OrdersIn(s)) = SharesIn(orders, s)
  /\ \A o \in OrderIds : SharesDone(o) = Volume(orders[o])
BY DEF CashMoved, FeesPaid, Traded, Executions, SharesMoved, SharesDone, OverFills, SumOver,
       OrdersIn, MoneyOf, ChargesOf, VolumeOf, CountOf, SharesIn, Money, Charges, Volume,
       Shares

LEMMA TotalsAfter ==
  /\ SumOver(CashMoved, OrderIds)' = MoneyOf(orders')
  /\ SumOver(FeesPaid, OrderIds)' = ChargesOf(orders')
  /\ Traded' = VolumeOf(orders') /\ Executions' = CountOf(orders')
  /\ \A s \in Symbols : SumOver(SharesMoved, OrdersIn(s))' = SharesIn(orders', s)
  /\ \A o \in OrderIds : SharesDone(o)' = Volume(orders'[o])
BY DEF CashMoved, FeesPaid, Traded, Executions, SharesMoved, SharesDone, OverFills, SumOver,
       OrdersIn, MoneyOf, ChargesOf, VolumeOf, CountOf, SharesIn, Money, Charges, Volume,
       Shares

LEMMA ExecutionTyped ==
  ASSUME NEW f \in Execution
  PROVE  f.qty \in Nat /\ f.price \in Int /\ f.fees \in Int /\ f.qty * f.price \in Int
<1>1. f.qty \in Nat /\ f.price \in Int /\ f.fees \in Int
  BY DEF Execution
<1> QED
  BY <1>1, ProductInt

LEMMA AppendAdds ==
  ASSUME NEW s \in Seq(Execution), NEW f \in Execution,
         NEW a, DOMAIN a = DOMAIN s, \A i \in DOMAIN s : a[i] \in Int,
         NEW b, DOMAIN b = DOMAIN Append(s, f), \A i \in DOMAIN s : b[i] = a[i],
         b[Len(s) + 1] \in Int
  PROVE  SumFunction(b) = SumFunction(a) + b[Len(s) + 1]
<1>1. /\ Len(s) \in Nat /\ DOMAIN s = 1 .. Len(s)
      /\ DOMAIN Append(s, f) = DOMAIN s \cup {Len(s) + 1} /\ Len(s) + 1 \notin DOMAIN s
  OBVIOUS
<1>2. IsFiniteSet(DOMAIN a)
  BY <1>1, FS_Interval
<1> QED
  BY <1>1, <1>2, SumExtends

LEMMA AmountsTyped ==
  ASSUME NEW x, x.fills \in Seq(Execution)
  PROVE  /\ Shares(x) \in Int /\ Money(x) \in Int /\ Charges(x) \in Int
         /\ Volume(x) \in Int /\ Len(x.fills) \in Nat
<1>1. IsFiniteSet(DOMAIN x.fills)
  BY FS_Interval
<1>2. \A i \in DOMAIN x.fills :
        /\ x.fills[i].qty \in Int /\ x.fills[i].fees \in Int
        /\ x.fills[i].qty * x.fills[i].price \in Int
  <2>1. \A i \in DOMAIN x.fills : x.fills[i] \in Execution
    OBVIOUS
  <2> QED
    BY <2>1, ExecutionTyped
<1>3. Shares(x) \in Int
  BY <1>1, <1>2, SumIsInt DEF Shares
<1>4. Money(x) \in Int
  <2> DEFINE m == [i \in DOMAIN x.fills |->
                     IF x.req.side = "BUY"
                     THEN -(x.fills[i].qty * x.fills[i].price) - x.fills[i].fees
                     ELSE x.fills[i].qty * x.fills[i].price - x.fills[i].fees]
  <2>1. ASSUME NEW i \in DOMAIN x.fills PROVE m[i] \in Int
    <3>1. PICK p \in Int : p = x.fills[i].qty * x.fills[i].price
      BY <1>2
    <3>2. m[i] = IF x.req.side = "BUY" THEN -p - x.fills[i].fees ELSE p - x.fills[i].fees
      BY <3>1
    <3> QED
      BY <1>2, <3>2
  <2>2. Money(x) = SumFunction(m) /\ DOMAIN m = DOMAIN x.fills
    BY DEF Money
  <2> HIDE DEF m
  <2> QED
    BY <1>1, <2>1, <2>2, SumIsInt
<1>5. Charges(x) \in Int /\ Volume(x) \in Int
  BY <1>1, <1>2, SumIsInt DEF Charges, Volume
<1> QED
  BY <1>3, <1>4, <1>5

LEMMA NothingYet ==
  ASSUME NEW x, x.fills = <<>>
  PROVE  Shares(x) = 0 /\ Money(x) = 0 /\ Charges(x) = 0 /\ Volume(x) = 0 /\ Len(x.fills) = 0
BY SumOfNothing DEF Shares, Money, Charges, Volume

LEMMA SameAmounts ==
  ASSUME NEW x, NEW y, y.fills = x.fills, y.req = x.req
  PROVE  Shares(y) = Shares(x) /\ Money(y) = Money(x) /\ Charges(y) = Charges(x)
         /\ Volume(y) = Volume(x) /\ Len(y.fills) = Len(x.fills)
BY DEF Shares, Money, Charges, Volume

LEMMA FillAdds ==
  ASSUME NEW x, NEW y, NEW f \in Execution, x.fills \in Seq(Execution),
         y.req = x.req, y.fills = Append(x.fills, f)
  PROVE  LET buy == x.req.side = "BUY" IN
         /\ Shares(y) = Shares(x) + (IF buy THEN f.qty ELSE -f.qty)
         /\ Money(y) = Money(x) + (IF buy THEN -(f.qty * f.price) - f.fees
                                          ELSE f.qty * f.price - f.fees)
         /\ Charges(y) = Charges(x) + f.fees /\ Volume(y) = Volume(x) + f.qty
         /\ Len(y.fills) = Len(x.fills) + 1
<1>0. PICK s \in Seq(Execution) : s = x.fills
  OBVIOUS
<1>1. PICK t : s = x.fills /\ t = y.fills /\ t = Append(s, f)
  BY <1>0
<1>2. /\ Len(s) \in Nat /\ DOMAIN s = 1 .. Len(s) /\ DOMAIN t = DOMAIN Append(s, f)
      /\ DOMAIN s \subseteq DOMAIN t /\ Len(s) + 1 \in DOMAIN t /\ t[Len(s) + 1] = f
      /\ \A i \in DOMAIN s : t[i] = s[i] /\ s[i] \in Execution
      /\ Len(t) = Len(s) + 1
  BY <1>1
<1>3. \A i \in DOMAIN s :
        s[i].qty \in Int /\ s[i].fees \in Int /\ s[i].qty * s[i].price \in Int
  BY <1>2, ExecutionTyped
<1>4. f.qty \in Int /\ f.fees \in Int /\ f.qty * f.price \in Int
  BY ExecutionTyped
<1>5. Shares(y) = Shares(x) + (IF x.req.side = "BUY" THEN f.qty ELSE -f.qty)
  <2> DEFINE a == [i \in DOMAIN s |-> IF x.req.side = "BUY" THEN s[i].qty ELSE -s[i].qty]
             b == [i \in DOMAIN t |-> IF x.req.side = "BUY" THEN t[i].qty ELSE -t[i].qty]
  <2>1. Shares(x) = SumFunction(a) /\ Shares(y) = SumFunction(b)
    BY <1>1 DEF Shares
  <2>2. /\ DOMAIN a = DOMAIN s /\ DOMAIN b = DOMAIN Append(s, f)
        /\ \A i \in DOMAIN s : a[i] \in Int /\ b[i] = a[i]
        /\ b[Len(s) + 1] = (IF x.req.side = "BUY" THEN f.qty ELSE -f.qty)
        /\ b[Len(s) + 1] \in Int
    BY <1>2, <1>3, <1>4
  <2> HIDE DEF a, b
  <2> QED
    BY <2>1, <2>2, AppendAdds
<1>6. Money(y) = Money(x) + (IF x.req.side = "BUY" THEN -(f.qty * f.price) - f.fees
                                                   ELSE f.qty * f.price - f.fees)
  <2> DEFINE V(g) == IF x.req.side = "BUY" THEN -(g.qty * g.price) - g.fees
                                           ELSE g.qty * g.price - g.fees
             a == [i \in DOMAIN s |-> V(s[i])]
             b == [i \in DOMAIN t |-> V(t[i])]
  <2>1. Money(x) = SumFunction(a) /\ Money(y) = SumFunction(b)
    BY <1>1 DEF Money
  <2>2. ASSUME NEW g \in Execution PROVE V(g) \in Int
    <3>1. PICK p \in Int : p = g.qty * g.price
      BY ExecutionTyped
    <3>2. V(g) = IF x.req.side = "BUY" THEN -p - g.fees ELSE p - g.fees
      BY <3>1
    <3> QED
      BY <3>2, ExecutionTyped
  <2> HIDE DEF V
  <2>3. /\ DOMAIN a = DOMAIN s /\ DOMAIN b = DOMAIN Append(s, f)
        /\ \A i \in DOMAIN s : a[i] = V(s[i]) /\ b[i] = V(t[i])
        /\ b[Len(s) + 1] = V(t[Len(s) + 1])
    BY <1>2
  <2>4. /\ \A i \in DOMAIN s : a[i] \in Int /\ b[i] = a[i]
        /\ b[Len(s) + 1] = V(f) /\ b[Len(s) + 1] \in Int
    <3> HIDE DEF a, b
    <3> QED
      BY <1>2, <2>2, <2>3
  <2> HIDE DEF a, b
  <2>5. Money(y) = Money(x) + V(f)
    BY <2>1, <2>3, <2>4, AppendAdds
  <2> QED
    BY <2>5 DEF V
<1>7. Charges(y) = Charges(x) + f.fees
  <2> DEFINE a == [i \in DOMAIN s |-> s[i].fees]
             b == [i \in DOMAIN t |-> t[i].fees]
  <2>1. Charges(x) = SumFunction(a) /\ Charges(y) = SumFunction(b)
    BY <1>1 DEF Charges
  <2>2. /\ DOMAIN a = DOMAIN s /\ DOMAIN b = DOMAIN Append(s, f)
        /\ \A i \in DOMAIN s : a[i] = s[i].fees /\ b[i] = t[i].fees
        /\ b[Len(s) + 1] = t[Len(s) + 1].fees
    BY <1>2
  <2> HIDE DEF a, b
  <2>3. /\ DOMAIN a = DOMAIN s /\ DOMAIN b = DOMAIN Append(s, f)
        /\ \A i \in DOMAIN s : a[i] \in Int /\ b[i] = a[i]
        /\ b[Len(s) + 1] = f.fees /\ b[Len(s) + 1] \in Int
    BY <1>2, <1>3, <1>4, <2>2
  <2>4. SumFunction(b) = SumFunction(a) + b[Len(s) + 1]
    BY <2>3, AppendAdds
  <2> QED
    BY <2>1, <2>3, <2>4
<1>8. Volume(y) = Volume(x) + f.qty
  <2> DEFINE a == [i \in DOMAIN s |-> s[i].qty]
             b == [i \in DOMAIN t |-> t[i].qty]
  <2>1. Volume(x) = SumFunction(a) /\ Volume(y) = SumFunction(b)
    BY <1>1 DEF Volume
  <2>2. /\ DOMAIN a = DOMAIN s /\ DOMAIN b = DOMAIN Append(s, f)
        /\ \A i \in DOMAIN s : a[i] = s[i].qty /\ b[i] = t[i].qty
        /\ b[Len(s) + 1] = t[Len(s) + 1].qty
    BY <1>2
  <2> HIDE DEF a, b
  <2>3. /\ DOMAIN a = DOMAIN s /\ DOMAIN b = DOMAIN Append(s, f)
        /\ \A i \in DOMAIN s : a[i] \in Int /\ b[i] = a[i]
        /\ b[Len(s) + 1] = f.qty /\ b[Len(s) + 1] \in Int
    BY <1>2, <1>3, <1>4, <2>2
  <2>4. SumFunction(b) = SumFunction(a) + b[Len(s) + 1]
    BY <2>3, AppendAdds
  <2> QED
    BY <2>1, <2>3, <2>4
<1> QED
  BY <1>1, <1>2, <1>5, <1>6, <1>7, <1>8

LEMMA OrderIdsFinite == IsFiniteSet(OrderIds)
BY VenueAssumption, FS_Interval DEF OrderIds

Table == [OrderIds -> Order]

LEMMA FillsTyped ==
  ASSUME NEW t \in Table, NEW o \in OrderIds PROVE t[o].fills \in Seq(Execution)
BY DEF Table, Order, Execution

LEMMA TotalsTyped ==
  ASSUME NEW t \in Table
  PROVE  /\ MoneyOf(t) \in Int /\ ChargesOf(t) \in Int /\ VolumeOf(t) \in Int
         /\ CountOf(t) \in Int /\ \A s \in Symbols : SharesIn(t, s) \in Int
<1>1. \A o \in OrderIds :
        /\ Shares(t[o]) \in Int /\ Money(t[o]) \in Int /\ Charges(t[o]) \in Int
        /\ Volume(t[o]) \in Int /\ Len(t[o].fills) \in Int
  BY FillsTyped, AmountsTyped
<1>2. MoneyOf(t) \in Int /\ ChargesOf(t) \in Int
  BY <1>1, OrderIdsFinite, SumIsInt DEF MoneyOf, ChargesOf
<1>3. VolumeOf(t) \in Int /\ CountOf(t) \in Int
  BY <1>1, OrderIdsFinite, SumIsInt DEF VolumeOf, CountOf
<1>4. ASSUME NEW s \in Symbols PROVE SharesIn(t, s) \in Int
  <2> DEFINE S == {i \in OrderIds : t[i].req.symbol = s}
             f == [o \in S |-> Shares(t[o])]
  <2>1. IsFiniteSet(S)
    BY OrderIdsFinite, FS_Subset
  <2>2. DOMAIN f = S /\ \A o \in S : f[o] \in Int
    BY <1>1
  <2>3. SharesIn(t, s) = SumFunction(f)
    BY DEF SharesIn
  <2> HIDE DEF f, S
  <2> QED
    BY <2>1, <2>2, <2>3, SumIsInt
<1> QED
  BY <1>2, <1>3, <1>4

(* No executions, no totals.                                                *)
LEMMA EmptyTotals ==
  ASSUME NEW t, \A o \in OrderIds : t[o].fills = <<>>
  PROVE  /\ MoneyOf(t) = 0 /\ ChargesOf(t) = 0 /\ VolumeOf(t) = 0 /\ CountOf(t) = 0
         /\ \A s \in Symbols : SharesIn(t, s) = 0
<1>1. \A o \in OrderIds :
        /\ Shares(t[o]) = 0 /\ Money(t[o]) = 0 /\ Charges(t[o]) = 0 /\ Volume(t[o]) = 0
        /\ Len(t[o].fills) = 0
  BY NothingYet
<1>2. MoneyOf(t) = 0 /\ ChargesOf(t) = 0
  BY <1>1, OrderIdsFinite, SumOfZeros DEF MoneyOf, ChargesOf
<1>3. VolumeOf(t) = 0 /\ CountOf(t) = 0
  BY <1>1, OrderIdsFinite, SumOfZeros DEF VolumeOf, CountOf
<1>4. ASSUME NEW s \in Symbols PROVE SharesIn(t, s) = 0
  <2> DEFINE S == {i \in OrderIds : t[i].req.symbol = s}
             f == [o \in S |-> Shares(t[o])]
  <2>1. IsFiniteSet(S)
    BY OrderIdsFinite, FS_Subset
  <2>2. DOMAIN f = S /\ \A o \in S : f[o] = 0
    BY <1>1
  <2>3. SharesIn(t, s) = SumFunction(f)
    BY DEF SharesIn
  <2> HIDE DEF f, S
  <2> QED
    BY <2>1, <2>2, <2>3, SumOfZeros
<1> QED
  BY <1>2, <1>3, <1>4

(* A step that executes nothing changes no total, even if order n is new.   *)
LEMMA SameTotals ==
  ASSUME NEW t \in Table, NEW u \in Table, NEW n \in OrderIds,
         \A o \in OrderIds : u[o].fills = t[o].fills,
         \A o \in OrderIds : u[o].req = t[o].req \/ (o = n /\ t[o].fills = <<>>)
  PROVE  /\ MoneyOf(u) = MoneyOf(t) /\ ChargesOf(u) = ChargesOf(t)
         /\ VolumeOf(u) = VolumeOf(t) /\ CountOf(u) = CountOf(t)
         /\ \A s \in Symbols : SharesIn(u, s) = SharesIn(t, s)
         /\ \A o \in OrderIds : Volume(u[o]) = Volume(t[o])
<1>1. \A o \in OrderIds :
        /\ Shares(u[o]) = Shares(t[o]) /\ Money(u[o]) = Money(t[o])
        /\ Charges(u[o]) = Charges(t[o]) /\ Volume(u[o]) = Volume(t[o])
        /\ Len(u[o].fills) = Len(t[o].fills)
  BY SameAmounts, NothingYet
<1>2. MoneyOf(u) = MoneyOf(t) /\ ChargesOf(u) = ChargesOf(t)
  BY <1>1 DEF MoneyOf, ChargesOf
<1>3. VolumeOf(u) = VolumeOf(t) /\ CountOf(u) = CountOf(t)
  BY <1>1 DEF VolumeOf, CountOf
<1>4. ASSUME NEW s \in Symbols PROVE SharesIn(u, s) = SharesIn(t, s)
  <2> DEFINE S == {i \in OrderIds : t[i].req.symbol = s}
             U == {i \in OrderIds : u[i].req.symbol = s}
             f == [o \in S |-> Shares(t[o])]
             g == [o \in U |-> Shares(u[o])]
  <2>1. IsFiniteSet(S)
    BY OrderIdsFinite, FS_Subset
  <2>2. SharesIn(t, s) = SumFunction(f) /\ SharesIn(u, s) = SumFunction(g)
    BY DEF SharesIn
  <2>3. CASE u[n].req = t[n].req
    <3>1. S = U
      BY <2>3
    <3>2. f = g
      BY <1>1, <3>1
    <3> QED
      BY <2>2, <3>2
  <2>4. CASE u[n].req # t[n].req
    <3>1. t[n].fills = <<>> /\ Shares(t[n]) = 0 /\ Shares(u[n]) = 0
      BY <2>4, <1>1, NothingYet
    <3>2. S \cup {n} = U \cup {n}
      BY <2>4
    <3>3. \A o \in S : Shares(t[o]) \in Int
      BY FillsTyped, AmountsTyped
    <3>4. /\ DOMAIN f = S /\ DOMAIN g = U
          /\ \A o \in S : f[o] = Shares(t[o])
          /\ \A o \in U : g[o] = Shares(u[o])
      OBVIOUS
    <3>5. \A o \in S \ {n} : o \in U /\ Shares(u[o]) = Shares(t[o])
      BY <1>1, <2>4
    <3> HIDE DEF S, U, f, g
    <3>6. SumFunction(g) = SumFunction(f)
      BY <2>1, <3>1, <3>2, <3>3, <3>4, <3>5, SumIgnoresZero
    <3> QED
      BY <2>2, <3>6
  <2> QED
    BY <2>3, <2>4
<1> QED
  BY <1>1, <1>2, <1>3, <1>4

(* One execution more, of order c.                                          *)
LEMMA FillTotals ==
  ASSUME NEW t \in Table, NEW u, NEW c \in OrderIds, NEW f \in Execution,
         u[c].req = t[c].req, u[c].fills = Append(t[c].fills, f),
         \A o \in OrderIds \ {c} : u[o] = t[o]
  PROVE  LET buy == t[c].req.side = "BUY" IN
         /\ MoneyOf(u) = MoneyOf(t) + (IF buy THEN -(f.qty * f.price) - f.fees
                                              ELSE f.qty * f.price - f.fees)
         /\ ChargesOf(u) = ChargesOf(t) + f.fees
         /\ VolumeOf(u) = VolumeOf(t) + f.qty /\ CountOf(u) = CountOf(t) + 1
         /\ \A s \in Symbols :
              SharesIn(u, s) = SharesIn(t, s) + (IF s # t[c].req.symbol THEN 0
                                                 ELSE IF buy THEN f.qty ELSE -f.qty)
         /\ \A o \in OrderIds :
              Volume(u[o]) = Volume(t[o]) + (IF o = c THEN f.qty ELSE 0)
<1> DEFINE x == t[c]
           y == u[c]
           cashed == IF x.req.side = "BUY" THEN -(f.qty * f.price) - f.fees
                                           ELSE f.qty * f.price - f.fees
           moved == IF x.req.side = "BUY" THEN f.qty ELSE -f.qty
<1>1. /\ Shares(y) = Shares(x) + moved /\ Money(y) = Money(x) + cashed
      /\ Charges(y) = Charges(x) + f.fees /\ Volume(y) = Volume(x) + f.qty
      /\ Len(y.fills) = Len(x.fills) + 1
  BY FillsTyped, FillAdds
<1>2. u[c] = y /\ \A o \in OrderIds : o # c => u[o] = t[o]
  OBVIOUS
<1>3. \A o \in OrderIds :
        /\ Shares(t[o]) \in Int /\ Money(t[o]) \in Int /\ Charges(t[o]) \in Int
        /\ Volume(t[o]) \in Int /\ Len(t[o].fills) \in Int
  BY FillsTyped, AmountsTyped
<1>4. f.qty \in Int /\ f.fees \in Int /\ cashed \in Int /\ moved \in Int
  <2>1. f.qty \in Int /\ f.fees \in Int /\ moved \in Int
    BY ExecutionTyped
  <2>2. PICK p \in Int : p = f.qty * f.price
    BY ExecutionTyped
  <2>3. cashed = IF x.req.side = "BUY" THEN -p - f.fees ELSE p - f.fees
    BY <2>2
  <2> QED
    BY <2>1, <2>3
<1> HIDE DEF cashed, moved
(* Each total is the sum of a function that changed at c.                   *)
<1>5. ASSUME NEW a, NEW b, NEW d \in Int, DOMAIN a = OrderIds, DOMAIN b = OrderIds,
             \A o \in OrderIds : a[o] \in Int, b[c] = a[c] + d,
             \A o \in OrderIds \ {c} : b[o] = a[o]
      PROVE  SumFunction(b) = SumFunction(a) + d
  <2>1. b[c] \in Int /\ a[c] \in Int
    BY <1>5
  <2>2. SumFunction(b) = SumFunction(a) - a[c] + b[c]
    BY <1>5, <2>1, OrderIdsFinite, SumChanges
  <2>3. SumFunction(a) \in Int
    BY <1>5, OrderIdsFinite, SumIsInt
  <2> QED
    BY <1>5, <2>1, <2>2, <2>3
<1>6. MoneyOf(u) = MoneyOf(t) + cashed
  <2> DEFINE a == [o \in OrderIds |-> Money(t[o])]
             b == [o \in OrderIds |-> Money(u[o])]
  <2>1. MoneyOf(t) = SumFunction(a) /\ MoneyOf(u) = SumFunction(b)
    BY DEF MoneyOf
  <2>2. /\ DOMAIN a = OrderIds /\ DOMAIN b = OrderIds
        /\ \A o \in OrderIds : a[o] = Money(t[o]) /\ b[o] = Money(u[o])
    OBVIOUS
  <2> HIDE DEF a, b
  <2>3. /\ \A o \in OrderIds : a[o] \in Int
        /\ b[c] = a[c] + cashed
        /\ \A o \in OrderIds \ {c} : b[o] = a[o]
    BY <1>1, <1>2, <1>3, <2>2
  <2>4. cashed \in Int
    BY <1>4
  <2>5. SumFunction(b) = SumFunction(a) + cashed
    BY <1>5, <2>2, <2>3, <2>4
  <2> QED
    BY <2>1, <2>5
<1>7. ChargesOf(u) = ChargesOf(t) + f.fees
  <2> DEFINE a == [o \in OrderIds |-> Charges(t[o])]
             b == [o \in OrderIds |-> Charges(u[o])]
  <2>1. ChargesOf(t) = SumFunction(a) /\ ChargesOf(u) = SumFunction(b)
    BY DEF ChargesOf
  <2>2. /\ DOMAIN a = OrderIds /\ DOMAIN b = OrderIds
        /\ \A o \in OrderIds : a[o] = Charges(t[o]) /\ b[o] = Charges(u[o])
    OBVIOUS
  <2> HIDE DEF a, b
  <2>3. /\ \A o \in OrderIds : a[o] \in Int
        /\ b[c] = a[c] + f.fees
        /\ \A o \in OrderIds \ {c} : b[o] = a[o]
    BY <1>1, <1>2, <1>3, <2>2
  <2>4. f.fees \in Int
    BY <1>4
  <2>5. SumFunction(b) = SumFunction(a) + f.fees
    BY <1>5, <2>2, <2>3, <2>4
  <2> QED
    BY <2>1, <2>5
<1>8. VolumeOf(u) = VolumeOf(t) + f.qty
  <2> DEFINE a == [o \in OrderIds |-> Volume(t[o])]
             b == [o \in OrderIds |-> Volume(u[o])]
  <2>1. VolumeOf(t) = SumFunction(a) /\ VolumeOf(u) = SumFunction(b)
    BY DEF VolumeOf
  <2>2. /\ DOMAIN a = OrderIds /\ DOMAIN b = OrderIds
        /\ \A o \in OrderIds : a[o] = Volume(t[o]) /\ b[o] = Volume(u[o])
    OBVIOUS
  <2> HIDE DEF a, b
  <2>3. /\ \A o \in OrderIds : a[o] \in Int
        /\ b[c] = a[c] + f.qty
        /\ \A o \in OrderIds \ {c} : b[o] = a[o]
    BY <1>1, <1>2, <1>3, <2>2
  <2>4. f.qty \in Int
    BY <1>4
  <2>5. SumFunction(b) = SumFunction(a) + f.qty
    BY <1>5, <2>2, <2>3, <2>4
  <2> QED
    BY <2>1, <2>5
<1>9. CountOf(u) = CountOf(t) + 1
  <2> DEFINE a == [o \in OrderIds |-> Len(t[o].fills)]
             b == [o \in OrderIds |-> Len(u[o].fills)]
  <2>1. CountOf(t) = SumFunction(a) /\ CountOf(u) = SumFunction(b)
    BY DEF CountOf
  <2>2. /\ DOMAIN a = OrderIds /\ DOMAIN b = OrderIds
        /\ \A o \in OrderIds : a[o] = Len(t[o].fills) /\ b[o] = Len(u[o].fills)
    OBVIOUS
  <2> HIDE DEF a, b
  <2>3. /\ \A o \in OrderIds : a[o] \in Int
        /\ b[c] = a[c] + 1
        /\ \A o \in OrderIds \ {c} : b[o] = a[o]
    BY <1>1, <1>2, <1>3, <2>2
  <2>4. 1 \in Int
    BY <1>4
  <2>5. SumFunction(b) = SumFunction(a) + 1
    BY <1>5, <2>2, <2>3, <2>4
  <2> QED
    BY <2>1, <2>5
<1>10. ASSUME NEW s \in Symbols
       PROVE  SharesIn(u, s) = SharesIn(t, s) + (IF s # x.req.symbol THEN 0 ELSE moved)
  <2> DEFINE S == {i \in OrderIds : t[i].req.symbol = s}
             a == [o \in S |-> Shares(t[o])]
             b == [o \in S |-> Shares(u[o])]
  <2>1. IsFiniteSet(S)
    BY OrderIdsFinite, FS_Subset
  <2>2. {i \in OrderIds : u[i].req.symbol = s} = S
    BY <1>2
  <2>3. SharesIn(t, s) = SumFunction(a) /\ SharesIn(u, s) = SumFunction(b)
    BY <2>2 DEF SharesIn
  <2>4. SharesIn(t, s) \in Int
    BY TotalsTyped
  <2>5. CASE s # x.req.symbol
    <3>1. c \notin S
      BY <2>5
    <3>2. a = b
      BY <1>2, <3>1
    <3> QED
      BY <2>3, <2>4, <2>5, <3>2
  <2>6. CASE s = x.req.symbol
    <3>1. /\ c \in S /\ DOMAIN a = S /\ DOMAIN b = S /\ \A o \in S : a[o] \in Int
          /\ b[c] = a[c] + moved /\ \A o \in S \ {c} : b[o] = a[o]
      BY <1>1, <1>2, <1>3, <2>6
    <3> HIDE DEF S, a, b
    <3>2. a[c] \in Int /\ b[c] \in Int
      BY <1>4, <3>1
    <3>3. SumFunction(b) = SumFunction(a) - a[c] + b[c]
      BY <2>1, <3>1, <3>2, SumChanges
    <3> QED
      BY <1>4, <2>3, <2>4, <2>6, <3>1, <3>2, <3>3
  <2> QED
    BY <2>5, <2>6
<1>11. ASSUME NEW o \in OrderIds
       PROVE  Volume(u[o]) = Volume(t[o]) + (IF o = c THEN f.qty ELSE 0)
  BY <1>1, <1>2, <1>3
<1> QED
  BY <1>6, <1>7, <1>8, <1>9, <1>10, <1>11 DEF cashed, moved

(* What the books of an order are kept from.                                *)
KeepsBooks(y, x) == y.fills = x.fills /\ y.filled = x.filled /\ y.req = x.req

(* A step of settle() that is no fill leaves the account and the books.     *)
LEMMA SettleQuiet ==
  ASSUME IInv, Settle, ~FillCompletes, ~FillPartially
  PROVE  /\ UNCHANGED account /\ cur \in OrderIds
         /\ \E y : orders' = [orders EXCEPT ![cur] = y] /\ KeepsBooks(y, Current)
<1>1. pc # "idle"
  BY DEF Settle, SettleNothing, StartMatching, SliceClosed, SliceUntriggered,
         SliceNotExecutable, SliceGivesUp, SliceNothingLeft, SliceUnaffordable,
         FinishUnfilled, LeaveLoop, RequestCancel, ConfirmCancel, Tradable, Live, InLoop
<1>2. cur \in OrderIds /\ Current \in Order /\ Advanced \in Order
  BY <1>1, InProgress, AdvancedSound
<1>3. ASSUME NEW s PROVE KeepsBooks([Current EXCEPT !.status = s], Current)
  BY <1>2 DEF KeepsBooks, Order
<1>4. KeepsBooks(Advanced, Current)
  BY <1>2 DEF KeepsBooks, Order, Advanced
<1>5. ASSUME NEW s PROVE KeepsBooks([Advanced EXCEPT !.status = s], Current)
  BY <1>2, <1>4 DEF KeepsBooks, Order
<1>6. orders = [orders EXCEPT ![cur] = Current] /\ KeepsBooks(Current, Current)
  BY <1>2 DEF Current, IInv, TypeOK, KeepsBooks
<1>7. UNCHANGED account
  BY DEF Settle, SettleNothing, StartMatching, SliceClosed, SliceUntriggered,
         SliceNotExecutable, SliceGivesUp, SliceNothingLeft, SliceUnaffordable,
         FinishUnfilled, LeaveLoop, RequestCancel, ConfirmCancel
<1> SUFFICES \E y : orders' = [orders EXCEPT ![cur] = y] /\ KeepsBooks(y, Current)
  BY <1>2, <1>7
<1>8. CASE SettleNothing
  BY <1>6, <1>8 DEF SettleNothing, book
<1>9. CASE SliceClosed \/ SliceUntriggered \/ SliceNotExecutable \/ SliceGivesUp
             \/ SliceNothingLeft
  BY <1>4, <1>9 DEF SliceClosed, SliceUntriggered, SliceNotExecutable, SliceGivesUp,
                    SliceNothingLeft, NextSlice, Become
<1>10. CASE SliceUnaffordable
  BY <1>5, <1>10 DEF SliceUnaffordable, Become
<1>11. CASE StartMatching
  <2> DEFINE s == IF Current.status = "SUBMITTED" THEN "ACKNOWLEDGED" ELSE Current.status
             y == [Current EXCEPT !.status = s]
  <2>1. orders' = [orders EXCEPT ![cur] = y]
    BY <1>2, <1>11 DEF StartMatching, Become, Order
  <2> QED
    BY <1>3, <2>1
<1>12. CASE FinishUnfilled \/ LeaveLoop \/ RequestCancel \/ ConfirmCancel
  BY <1>3, <1>12 DEF FinishUnfilled, LeaveLoop, RequestCancel, ConfirmCancel, Become
<1> QED
  BY <1>8, <1>9, <1>10, <1>11, <1>12 DEF Settle

(* What a step that is neither a fill nor a reset leaves of the books.      *)
QuietTable(n) ==
  \A o \in OrderIds :
    /\ orders'[o].fills = orders[o].fills /\ orders'[o].filled = orders[o].filled
    /\ orders'[o].req = orders[o].req \/ (o = n /\ orders[o].fills = <<>>)

LEMMA QuietStep ==
  ASSUME IInv, [Next]_vars, ~FillCompletes, ~FillPartially, ~Reset
  PROVE  UNCHANGED account /\ \E n \in OrderIds : QuietTable(n)
<1>1. 1 \in OrderIds
  BY VenueAssumption DEF OrderIds
<1>2. CASE Settle
  <2>1. /\ UNCHANGED account /\ cur \in OrderIds
        /\ \E y : orders' = [orders EXCEPT ![cur] = y] /\ KeepsBooks(y, Current)
    BY <1>2, SettleQuiet
  <2>2. PICK y : orders' = [orders EXCEPT ![cur] = y] /\ KeepsBooks(y, Current)
    BY <2>1
  <2>3. QuietTable(cur)
    BY <2>1, <2>2 DEF QuietTable, KeepsBooks, Current, IInv, TypeOK
  <2> QED
    BY <2>1, <2>3
<1>3. ASSUME NEW k \in Keys, NEW r \in Requests, PlaceOrder(k, r)
      PROVE  UNCHANGED account /\ \E n \in OrderIds : QuietTable(n)
  <2>1. placed + 1 \in OrderIds /\ orders[placed + 1] = NoOrder
    BY <1>3, VenueAssumption DEF PlaceOrder, OrderIds, IInv, TypeOK, TableFull
  <2>2. NoOrder.fills = <<>> /\ NoOrder.filled = 0
    BY DEF NoOrder
  <2>3. QuietTable(placed + 1)
    BY <1>3, <2>1, <2>2 DEF PlaceOrder, QuietTable, IInv, TypeOK
  <2> QED
    BY <1>3, <2>1, <2>3 DEF PlaceOrder
<1>4. CASE UNCHANGED <<book, account>>
  BY <1>1, <1>4 DEF book, QuietTable
<1>5. CASE Call
  BY <1>3, <1>4, <1>5 DEF Call, RetryPlaceOrder, GetOrderStatus, CancelOrder, SettleAll
<1>6. CASE Tick \/ UNCHANGED vars
  BY <1>4, <1>6 DEF Tick, vars
<1> QED
  BY <1>2, <1>5, <1>6 DEF Next

(* A fill adds one execution to the current order and books it.             *)
LEMMA FillStep ==
  ASSUME IInv, FillCompletes \/ FillPartially
  PROVE  /\ cur \in OrderIds /\ Current \in Order /\ Symbol \in Symbols
         /\ Current.req.side \in Sides /\ BookFill
         /\ SliceQty \in Nat \ {0} /\ Price \in Int /\ Fees \in Int
         /\ \E f \in Execution : \E y :
              /\ f.qty = SliceQty /\ f.price = Price /\ f.fees = Fees
              /\ orders' = [orders EXCEPT ![cur] = y]
              /\ y.req = Current.req /\ y.filled = Current.filled + SliceQty
              /\ y.fills = Append(Current.fills, f)
<1>1. BookFill /\ Tradable /\ InLoop /\ pc # "idle"
  BY DEF FillCompletes, FillPartially, BookFill, Tradable, Live, InLoop
<1>2. /\ cur \in OrderIds /\ Current \in Order /\ At \in Nat
      /\ Price \in Int /\ Fees \in Int /\ SliceQty \in Int
      /\ Advanced \in Order
  BY <1>1, InProgress, SliceFacts, AdvancedSound
<1>3. Symbol \in Symbols /\ Current.req.side \in Sides
  BY <1>2, RequestAssumption DEF Order, Symbol
<1>4. PICK s \in {"FILLED", "PARTIALLY_FILLED"} :
        /\ orders' = [orders EXCEPT ![cur] = Filled(s)]
        /\ s = "FILLED" <=> Current.filled + SliceQty >= Current.qty
  <2>1. CASE FillCompletes
    BY <2>1 DEF FillCompletes, Become
  <2>2. CASE FillPartially
    <3>1. Current.filled \in Nat /\ Current.qty \in Nat
      BY <1>2 DEF Order
    <3>2. orders' = [orders EXCEPT ![cur] = Filled("PARTIALLY_FILLED")]
      BY <2>2 DEF FillPartially, NextSlice, Become
    <3>3. ~(Current.filled + SliceQty >= Current.qty)
      BY <1>2, <2>2, <3>1 DEF FillPartially
    <3> QED
      BY <3>2, <3>3
  <2> QED
    BY <2>1, <2>2
<1>5. /\ SliceQty \in Nat \ {0} /\ Filled(s).filled = Current.filled + SliceQty
      /\ Filled(s).req = Current.req
  BY <1>1, <1>4, FilledSound, FilledMoves
<1> DEFINE f == [qty |-> SliceQty, price |-> Price, fees |-> Fees, at |-> At]
<1>6. f \in Execution /\ f.qty = SliceQty /\ f.price = Price /\ f.fees = Fees
  BY <1>2, <1>5 DEF Execution
<1>7. Filled(s).fills = Append(Current.fills, f)
  BY <1>1, <1>2, AdvancedMoves DEF Filled, Order
<1> HIDE DEF f
<1> QED
  BY <1>1, <1>2, <1>3, <1>4, <1>5, <1>6, <1>7

LEMMA LedgerInit == Init => LedgerReconciles
<1> SUFFICES ASSUME Init PROVE LedgerReconciles
  OBVIOUS
<1>1. /\ cash = StartingCash /\ StartingCash \in Nat
      /\ \A s \in Symbols : position[s].qty = 0
      /\ \A o \in OrderIds : orders[o].fills = <<>> /\ orders[o].filled = 0
  BY VenueAssumption DEF Init, Flat, NoOrder
<1>2. MoneyOf(orders) = 0 /\ \A s \in Symbols : SharesIn(orders, s) = 0
  BY <1>1, EmptyTotals
<1>3. \A o \in OrderIds : Volume(orders[o]) = 0
  BY <1>1, NothingYet
<1> QED
  BY <1>1, <1>2, <1>3, TotalsOfTheTable DEF LedgerReconciles

(* The totals before a step, read from the table.                           *)
LEMMA LedgerNow ==
  ASSUME IInv, LedgerReconciles
  PROVE  /\ orders \in Table /\ cash = StartingCash + MoneyOf(orders)
         /\ \A s \in Symbols : position[s].qty = SharesIn(orders, s)
         /\ \A o \in OrderIds : orders[o].filled = Volume(orders[o])
         /\ StartingCash \in Nat /\ MoneyOf(orders) \in Int
BY TotalsOfTheTable, TotalsTyped, VenueAssumption DEF LedgerReconciles, IInv, TypeOK, Table

LEMMA LedgerNext ==
  ASSUME cash' = StartingCash + MoneyOf(orders'),
         \A s \in Symbols : position'[s].qty = SharesIn(orders', s),
         \A o \in OrderIds : orders'[o].filled = Volume(orders'[o])
  PROVE  LedgerReconciles'
BY TotalsAfter DEF LedgerReconciles

LEMMA ResetEmpties ==
  ASSUME Reset
  PROVE  /\ cash' = StartingCash /\ StartingCash \in Nat
         /\ position' = [s \in Symbols |-> Flat]
         /\ \A o \in OrderIds : orders'[o].fills = <<>> /\ orders'[o].filled = 0
         /\ MoneyOf(orders') = 0 /\ ChargesOf(orders') = 0
         /\ VolumeOf(orders') = 0 /\ CountOf(orders') = 0
         /\ \A s \in Symbols : SharesIn(orders', s) = 0
<1>1. \A o \in OrderIds : orders'[o].fills = <<>> /\ orders'[o].filled = 0
  BY DEF Reset, NoOrder
<1>2. PICK t : t = orders'
  OBVIOUS
<1>3. /\ MoneyOf(t) = 0 /\ ChargesOf(t) = 0 /\ VolumeOf(t) = 0 /\ CountOf(t) = 0
      /\ \A s \in Symbols : SharesIn(t, s) = 0
  BY <1>1, <1>2, EmptyTotals
<1> QED
  BY <1>1, <1>2, <1>3, VenueAssumption DEF Reset

LEMMA QuietTotals ==
  ASSUME IInv, IInv', NEW n \in OrderIds, QuietTable(n)
  PROVE  /\ MoneyOf(orders') = MoneyOf(orders) /\ ChargesOf(orders') = ChargesOf(orders)
         /\ VolumeOf(orders') = VolumeOf(orders) /\ CountOf(orders') = CountOf(orders)
         /\ \A s \in Symbols : SharesIn(orders', s) = SharesIn(orders, s)
         /\ \A o \in OrderIds : Volume(orders'[o]) = Volume(orders[o])
<1>1. PICK t \in Table : t = orders
  BY DEF IInv, TypeOK, Table
<1>2. PICK u \in Table : u = orders'
  BY DEF IInv, TypeOK, Table
<1>3. /\ \A o \in OrderIds : u[o].fills = t[o].fills
      /\ \A o \in OrderIds : u[o].req = t[o].req \/ (o = n /\ t[o].fills = <<>>)
  BY <1>1, <1>2 DEF QuietTable
<1> QED
  BY <1>1, <1>2, <1>3, SameTotals

(* What a fill adds to the totals.                                          *)
LEMMA FillTotalsNow ==
  ASSUME IInv, FillCompletes \/ FillPartially
  PROVE  LET buy == Current.req.side = "BUY" IN
         /\ MoneyOf(orders') = MoneyOf(orders) + (IF buy THEN -Notional - Fees
                                                         ELSE Notional - Fees)
         /\ ChargesOf(orders') = ChargesOf(orders) + Fees
         /\ VolumeOf(orders') = VolumeOf(orders) + SliceQty
         /\ CountOf(orders') = CountOf(orders) + 1
         /\ \A s \in Symbols :
              SharesIn(orders', s) = SharesIn(orders, s)
                                       + (IF s # Symbol THEN 0
                                          ELSE IF buy THEN SliceQty ELSE -SliceQty)
         /\ \A o \in OrderIds :
              /\ Volume(orders'[o]) = Volume(orders[o]) + (IF o = cur THEN SliceQty ELSE 0)
              /\ orders'[o].filled = orders[o].filled + (IF o = cur THEN SliceQty ELSE 0)
<1>1. PICK t \in Table : t = orders
  BY DEF IInv, TypeOK, Table
<1>2. PICK c \in OrderIds : c = cur
  BY FillStep
<1>3. PICK f \in Execution : \E y :
        /\ f.qty = SliceQty /\ f.price = Price /\ f.fees = Fees
        /\ orders' = [orders EXCEPT ![cur] = y]
        /\ y.req = Current.req /\ y.filled = Current.filled + SliceQty
        /\ y.fills = Append(Current.fills, f)
  BY FillStep
<1>4. PICK u : u = orders'
  OBVIOUS
<1>5. /\ u[c].req = t[c].req /\ u[c].filled = t[c].filled + SliceQty
      /\ u[c].fills = Append(t[c].fills, f) /\ \A o \in OrderIds \ {c} : u[o] = t[o]
  BY <1>1, <1>2, <1>3, <1>4 DEF Current, Table
<1>6. LET buy == t[c].req.side = "BUY" IN
      /\ MoneyOf(u) = MoneyOf(t) + (IF buy THEN -(f.qty * f.price) - f.fees
                                           ELSE f.qty * f.price - f.fees)
      /\ ChargesOf(u) = ChargesOf(t) + f.fees
      /\ VolumeOf(u) = VolumeOf(t) + f.qty /\ CountOf(u) = CountOf(t) + 1
      /\ \A s \in Symbols :
           SharesIn(u, s) = SharesIn(t, s) + (IF s # t[c].req.symbol THEN 0
                                              ELSE IF buy THEN f.qty ELSE -f.qty)
      /\ \A o \in OrderIds :
           Volume(u[o]) = Volume(t[o]) + (IF o = c THEN f.qty ELSE 0)
  BY <1>5, FillTotals
<1>7. \A o \in OrderIds :
        u[o].filled = t[o].filled + (IF o = c THEN SliceQty ELSE 0)
  <2>1. \A o \in OrderIds : t[o].filled \in Nat
    BY DEF Table, Order
  <2> QED
    BY <1>5, <2>1
<1>8. f.qty * f.price = Notional /\ f.fees = Fees /\ f.qty = SliceQty
      /\ t[c].req = Current.req /\ t[c].req.symbol = Symbol
  BY <1>1, <1>2, <1>3 DEF Notional, Symbol, Current
<1> QED
  BY <1>1, <1>2, <1>4, <1>6, <1>7, <1>8

(* What a fill does to cash and to the positions.                           *)
LEMMA FillAccount ==
  ASSUME IInv, FillCompletes \/ FillPartially
  PROVE  LET buy == Current.req.side = "BUY" IN
         /\ cash \in Int /\ Notional \in Int /\ Fees \in Int
         /\ cash' = IF buy THEN cash - Notional - Fees ELSE cash + Notional - Fees
         /\ position \in [Symbols -> Holding] /\ position' \in [Symbols -> Holding]
         /\ position'[Symbol]
              = ApplyToPosition(position[Symbol], Current.req.side, SliceQty, Price)
         /\ \A s \in Symbols \ {Symbol} : position'[s] = position[s]
<1>1. BookFill /\ Symbol \in Symbols /\ SliceQty \in Int /\ Price \in Int /\ Fees \in Int
  BY FillStep
<1>2. cash \in Int /\ position \in [Symbols -> Holding] /\ position' \in [Symbols -> Holding]
  BY <1>1, BookFillTyped DEF IInv, TypeOK, Holding
<1>3. Notional \in Int
  BY <1>1, ProductInt DEF Notional
<1> QED
  BY <1>1, <1>2, <1>3 DEF BookFill

LEMMA AppliedQty ==
  ASSUME NEW p \in Holding, NEW side \in Sides, NEW qty \in Nat, NEW price \in Int
  PROVE  ApplyToPosition(p, side, qty, price).qty
           = p.qty + (IF side = "BUY" THEN qty ELSE -qty)
BY DEF ApplyToPosition, Holding

LEMMA LedgerStep == ASSUME IInv, IInv', LedgerReconciles, [Next]_vars PROVE LedgerReconciles'
<1>1. /\ cash = StartingCash + MoneyOf(orders)
      /\ \A s \in Symbols : position[s].qty = SharesIn(orders, s)
      /\ \A o \in OrderIds : orders[o].filled = Volume(orders[o])
      /\ StartingCash \in Nat /\ MoneyOf(orders) \in Int
  BY LedgerNow
<1>2. CASE FillCompletes \/ FillPartially
  <2> DEFINE buy == Current.req.side = "BUY"
  <2>1. /\ MoneyOf(orders') = MoneyOf(orders) + (IF buy THEN -Notional - Fees
                                                        ELSE Notional - Fees)
        /\ \A s \in Symbols :
             SharesIn(orders', s) = SharesIn(orders, s)
                                      + (IF s # Symbol THEN 0
                                         ELSE IF buy THEN SliceQty ELSE -SliceQty)
        /\ \A o \in OrderIds :
             /\ Volume(orders'[o]) = Volume(orders[o]) + (IF o = cur THEN SliceQty ELSE 0)
             /\ orders'[o].filled = orders[o].filled + (IF o = cur THEN SliceQty ELSE 0)
    BY <1>2, FillTotalsNow
  <2>2. /\ Notional \in Int /\ Fees \in Int
        /\ cash' = IF buy THEN cash - Notional - Fees ELSE cash + Notional - Fees
        /\ position \in [Symbols -> Holding]
        /\ position'[Symbol]
             = ApplyToPosition(position[Symbol], Current.req.side, SliceQty, Price)
        /\ \A s \in Symbols \ {Symbol} : position'[s] = position[s]
    BY <1>2, FillAccount
  <2>3. Symbol \in Symbols /\ Current.req.side \in Sides /\ SliceQty \in Nat /\ Price \in Int
    BY <1>2, FillStep
  <2>4. position'[Symbol].qty = position[Symbol].qty + (IF buy THEN SliceQty ELSE -SliceQty)
    BY <2>2, <2>3, AppliedQty
  <2>5. cash' = StartingCash + MoneyOf(orders')
    BY <1>1, <2>1, <2>2
  <2>6. \A s \in Symbols : position'[s].qty = SharesIn(orders', s)
    <3>1. \A s \in Symbols : SharesIn(orders, s) \in Int
      BY LedgerNow, TotalsTyped
    <3> QED
      BY <1>1, <2>1, <2>2, <2>4, <3>1
  <2>7. \A o \in OrderIds : orders'[o].filled = Volume(orders'[o])
    BY <1>1, <2>1
  <2> QED
    BY <2>5, <2>6, <2>7, LedgerNext
<1>3. CASE Reset
  <2>1. /\ cash' = StartingCash /\ position' = [s \in Symbols |-> Flat]
        /\ \A o \in OrderIds : orders'[o].fills = <<>> /\ orders'[o].filled = 0
        /\ MoneyOf(orders') = 0 /\ \A s \in Symbols : SharesIn(orders', s) = 0
    BY <1>3, ResetEmpties
  <2>2. \A o \in OrderIds : Volume(orders'[o]) = 0
    BY <2>1, NothingYet
  <2> QED
    BY <1>1, <2>1, <2>2, LedgerNext DEF Flat
<1>4. CASE ~(FillCompletes \/ FillPartially) /\ ~Reset
  <2>1. UNCHANGED account /\ \E n \in OrderIds : QuietTable(n)
    BY <1>4, QuietStep
  <2>2. PICK n \in OrderIds : QuietTable(n)
    BY <2>1
  <2>3. /\ MoneyOf(orders') = MoneyOf(orders)
        /\ \A s \in Symbols : SharesIn(orders', s) = SharesIn(orders, s)
        /\ \A o \in OrderIds : Volume(orders'[o]) = Volume(orders[o])
    BY <2>2, QuietTotals
  <2> QED
    BY <1>1, <2>1, <2>2, <2>3, LedgerNext DEF QuietTable, account
<1> QED
  BY <1>2, <1>3, <1>4

(* LedgerReconciles: cash, positions and filled quantities are exactly the  *)
(* sums of the executions the venue reports, in every state.                *)
THEOREM LedgerAlwaysReconciles == Spec => []LedgerReconciles
<1>1. IInv /\ IInv' /\ LedgerReconciles /\ [Next]_vars => LedgerReconciles'
  BY LedgerStep
<1> QED
  BY <1>1, LedgerInit, AlwaysSound, PTL DEF Spec
-----------------------------------------------------------------------------
(* Cost basis.  What the position of one symbol is worth at cost, less what *)
(* it cost and what it earned, moves only when an addition rounds the       *)
(* average, and then by half a step per share held at most.                 *)

LEMMA Distributes ==
  ASSUME NEW a \in Int, NEW b \in Int, NEW c \in Int
  PROVE  /\ a * (b + c) = a * b + a * c /\ a * (b - c) = a * b - a * c
         /\ a * (-b) = -(a * b) /\ (a - b) * c = a * c - b * c /\ a * b = b * a
         /\ (-a) * b = -(a * b)
BY SMT

(* Basis of a position, and what one execution does to basis, cash and      *)
(* profit together.                                                         *)
Cost(p) == p.avg * p.qty

Lost(p, r, spent) == Cost(r) - Cost(p) - spent * AvgScale - (r.realized - p.realized)

(* The shares bought, negative when sold.                                   *)
Signed(side, qty) == IF side = "BUY" THEN qty ELSE -qty

LEMMA AddedCost ==
  ASSUME NEW p \in Holding, NEW side \in Sides, NEW qty \in Nat \ {0}, NEW price \in Int,
         p.qty = 0 \/ ((p.qty >= 0) <=> side = "BUY")
  PROVE  LET r == ApplyToPosition(p, side, qty, price) IN
         2 * Magnitude(Lost(p, r, Signed(side, qty) * price)) <= Magnitude(r.qty)
<1> DEFINE held == Magnitude(p.qty)
           n == held + qty
           up == side = "BUY"
           r == ApplyToPosition(p, side, qty, price)
<1>1. /\ p.qty \in Int /\ p.avg \in Int /\ p.realized \in Int /\ held \in Nat
      /\ n \in Nat \ {0} /\ AvgScale \in Int
      /\ p.qty = (IF up THEN held ELSE -held)
      /\ p.qty + Signed(side, qty) = (IF up THEN n ELSE -n)
      /\ Magnitude(p.qty + Signed(side, qty)) = n /\ p.qty + Signed(side, qty) # 0
  BY PriceAssumption DEF Holding, Magnitude, Sides, Signed
<1>2. PICK unit \in Int : unit = price * AvgScale
  BY <1>1, ProductInt
<1>3. PICK paid \in Int : paid = unit * qty
  BY ProductInt
<1>4. PICK before \in Int : before = p.avg * held
  BY <1>1, ProductInt
<1>5. PICK z \in Int : /\ z = DivHalfEven(before + paid, n)
                       /\ 2 * (before + paid) - n <= 2 * (n * z)
                       /\ 2 * (n * z) <= 2 * (before + paid) + n
  <2>1. PICK d \in Nat \ {0} : d = n
    BY <1>1
  <2>2. PICK c \in Int : c = before + paid
    OBVIOUS
  <2>3. LET z == DivHalfEven(c, d) IN
        z \in Int /\ 2 * c - d <= 2 * (d * z) /\ 2 * (d * z) <= 2 * c + d
    BY HalfEvenBounds
  <2> QED
    BY <2>1, <2>2, <2>3
<1>6. PICK after \in Int : after = n * z
  BY <1>1, ProductInt
<1>7. r = [p EXCEPT !.qty = p.qty + Signed(side, qty), !.avg = z]
  <2>1. (p.qty >= 0) <=> (Signed(side, qty) >= 0) \/ p.qty = 0
    BY <1>1 DEF Signed
  <2> QED
    BY <1>1, <1>2, <1>3, <1>4, <1>5, <2>1 DEF ApplyToPosition, Signed
<1>8. /\ r.qty = (IF up THEN n ELSE -n) /\ r.avg = z /\ r.realized = p.realized
      /\ Magnitude(r.qty) = n
  BY <1>1, <1>7 DEF Holding
<1>9. Cost(p) = IF up THEN before ELSE -before
  BY <1>1, <1>4, Distributes DEF Cost
<1>10. Cost(r) = IF up THEN after ELSE -after
  BY <1>1, <1>5, <1>6, <1>8, Distributes DEF Cost
<1>11. (Signed(side, qty) * price) * AvgScale = IF up THEN paid ELSE -paid
  <2>1. (qty * price) * AvgScale = paid
    BY <1>1, <1>2, <1>3, SMT
  <2>2. PICK m \in Int : m = qty * price
    BY ProductInt
  <2>3. Signed(side, qty) * price = IF up THEN m ELSE -m
    BY <2>2, Distributes DEF Signed
  <2> QED
    BY <1>1, <2>1, <2>2, <2>3, Distributes
<1>12. Lost(p, r, Signed(side, qty) * price)
         = IF up THEN after - before - paid ELSE -(after - before - paid)
  BY <1>1, <1>8, <1>9, <1>10, <1>11 DEF Lost
<1>13. Magnitude(Lost(p, r, Signed(side, qty) * price)) = Magnitude(after - before - paid)
  BY <1>12 DEF Magnitude
<1>14. 2 * Magnitude(after - before - paid) <= n
  BY <1>1, <1>5, <1>6 DEF Magnitude
<1> QED
  BY <1>8, <1>13, <1>14

(* Reducing, closing and flipping a position lose nothing.                  *)
LEMMA ReducedCost ==
  ASSUME NEW p \in Holding, NEW side \in Sides, NEW qty \in Nat \ {0}, NEW price \in Int,
         p.qty # 0, ~((p.qty >= 0) <=> side = "BUY")
  PROVE  Lost(p, ApplyToPosition(p, side, qty, price), Signed(side, qty) * price) = 0
<1> DEFINE held == Magnitude(p.qty)
           long == p.qty >= 0
           r == ApplyToPosition(p, side, qty, price)
           closed == SmallerOf(qty, held)
           left == p.qty + Signed(side, qty)
<1>1. /\ p.qty \in Int /\ p.avg \in Int /\ p.realized \in Int /\ held \in Nat \ {0}
      /\ AvgScale \in Int /\ closed \in Nat
      /\ p.qty = (IF long THEN held ELSE -held)
      /\ left = (IF long THEN held - qty ELSE qty - held)
      /\ Signed(side, qty) = (IF long THEN -qty ELSE qty)
      /\ ~(p.qty = 0 \/ ((p.qty >= 0) <=> (Signed(side, qty) >= 0)))
  BY PriceAssumption DEF Holding, Magnitude, Sides, Signed, SmallerOf
<1>2. PICK unit \in Int : unit = price * AvgScale
  BY <1>1, ProductInt
<1>3. PICK sold \in Int : sold = unit * qty
  BY ProductInt
<1>4. PICK before \in Int : before = p.avg * held
  BY <1>1, ProductInt
<1>5. PICK gone \in Int : gone = p.avg * closed
  BY <1>1, ProductInt
<1>6. PICK got \in Int : got = unit * closed
  BY <1>1, ProductInt
<1>7. /\ r.qty = left
      /\ r.realized = p.realized + (unit - p.avg) * closed * (IF long THEN 1 ELSE -1)
      /\ r.avg = IF left = 0 THEN 0 ELSE IF (left >= 0) # long THEN unit ELSE p.avg
  BY <1>1, <1>2 DEF ApplyToPosition, Signed
<1>8. r.realized = p.realized + (IF long THEN got - gone ELSE gone - got)
  <2>1. (unit - p.avg) * closed = got - gone
    BY <1>1, <1>5, <1>6, Distributes
  <2> QED
    BY <1>1, <1>7, <2>1
<1>9. Cost(p) = IF long THEN before ELSE -before
  BY <1>1, <1>4, Distributes DEF Cost
<1>10. (Signed(side, qty) * price) * AvgScale = IF long THEN -sold ELSE sold
  <2>1. (qty * price) * AvgScale = sold
    BY <1>1, <1>2, <1>3, SMT
  <2>2. PICK m \in Int : m = qty * price
    BY ProductInt
  <2>3. Signed(side, qty) * price = IF long THEN -m ELSE m
    BY <1>1, <2>2, Distributes
  <2> QED
    BY <1>1, <2>1, <2>2, <2>3, Distributes
<1>11. Cost(r) = IF long THEN before - gone - sold + got ELSE -(before - gone - sold + got)
  <2>1. CASE qty < held
    <3>1. closed = qty /\ left # 0 /\ ((left >= 0) <=> long)
      BY <1>1, <2>1 DEF SmallerOf
    <3>2. r.avg = p.avg /\ got = sold
      BY <1>1, <1>3, <1>6, <1>7, <3>1
    <3>3. p.avg * left = IF long THEN before - gone ELSE gone - before
      BY <1>1, <1>4, <1>5, <3>1, Distributes
    <3> QED
      BY <1>7, <3>2, <3>3 DEF Cost
  <2>2. CASE qty = held
    <3>1. closed = qty /\ left = 0 /\ got = sold /\ gone = before
      BY <1>1, <1>3, <1>4, <1>5, <1>6, <2>2 DEF SmallerOf
    <3> QED
      BY <1>7, <3>1 DEF Cost
  <2>3. CASE held < qty
    <3>1. closed = held /\ left # 0 /\ ~((left >= 0) <=> long)
      BY <1>1, <2>3 DEF SmallerOf
    <3>2. r.avg = unit /\ gone = before
      BY <1>1, <1>4, <1>5, <1>7, <3>1
    <3>3. unit * left = IF long THEN got - sold ELSE sold - got
      BY <1>1, <1>3, <1>6, <3>1, Distributes
    <3> QED
      BY <1>7, <3>2, <3>3 DEF Cost
  <2> QED
    BY <1>1, <2>1, <2>2, <2>3
<1> QED
  BY <1>1, <1>8, <1>9, <1>10, <1>11 DEF Lost

LEMMA AppliedCost ==
  ASSUME NEW p \in Holding, NEW side \in Sides, NEW qty \in Nat \ {0}, NEW price \in Int
  PROVE  LET r == ApplyToPosition(p, side, qty, price) IN
         2 * Magnitude(Lost(p, r, Signed(side, qty) * price)) <= Magnitude(r.qty)
<1> DEFINE r == ApplyToPosition(p, side, qty, price)
<1>1. Magnitude(r.qty) \in Nat
  <2>1. r \in Holding
    BY ApplyToPositionTyped
  <2> HIDE DEF r
  <2>2. r.qty \in Int
    BY <2>1 DEF Holding
  <2> QED
    BY <2>2 DEF Magnitude
<1>2. CASE p.qty = 0 \/ ((p.qty >= 0) <=> side = "BUY")
  BY <1>2, AddedCost
<1>3. CASE ~(p.qty = 0 \/ ((p.qty >= 0) <=> side = "BUY"))
  <2>1. Lost(p, r, Signed(side, qty) * price) = 0
    BY <1>3, ReducedCost
  <2> QED
    BY <1>1, <2>1 DEF Magnitude
<1> QED
  BY <1>2, <1>3

LEMMA DriftBound ==
  ASSUME NEW d \in Int, NEW l \in Int, NEW e \in Nat, NEW t \in Nat, NEW q \in Nat,
         2 * Magnitude(d) <= e * t, 2 * Magnitude(l) <= t + q
  PROVE  2 * Magnitude(d + l) <= (e + 1) * (t + q)
<1>1. PICK m \in Nat : m = e * t
  BY ProductNat
<1>2. PICK k \in Nat : k = e * q
  BY ProductNat
<1>3. (e + 1) * (t + q) = m + k + t + q
  <2>1. (e + 1) * (t + q) = e * (t + q) + (t + q)
    BY SMT
  <2>2. e * (t + q) = m + k
    BY <1>1, <1>2, Distributes
  <2> QED
    BY <2>1, <2>2
<1> QED
  BY <1>1, <1>2, <1>3 DEF Magnitude

(* The totals over the positions, and what the property bounds.             *)
BasisOf(pos)  == SumFunction([s \in Symbols |-> Cost(pos[s])])
ProfitOf(pos) == SumFunction([s \in Symbols |-> pos[s].realized])

Drift(table, c, pos) ==
  BasisOf(pos) - (StartingCash - c - ChargesOf(table)) * AvgScale - ProfitOf(pos)

(* The inductive invariant: the bound is kept by an addition only because   *)
(* no position is larger than everything traded so far.                     *)
CostBooks(table, c, pos) ==
  /\ VolumeOf(table) \in Nat /\ CountOf(table) \in Nat
  /\ 2 * Magnitude(Drift(table, c, pos)) <= CountOf(table) * VolumeOf(table)
  /\ \A s \in Symbols : Magnitude(pos[s].qty) <= VolumeOf(table)

BooksInv == CostBooks(orders, cash, position)

LEMMA CostOfTheBooks == BooksInv => CostBasisReconciles
<1>1. /\ Basis = BasisOf(position) /\ Profit = ProfitOf(position)
      /\ Spent = StartingCash - cash - ChargesOf(orders)
      /\ Traded = VolumeOf(orders) /\ Executions = CountOf(orders)
  BY TotalsOfTheTable DEF Basis, Profit, Spent, BasisOf, ProfitOf, Cost, SumOver
<1> QED
  BY <1>1 DEF BooksInv, CostBooks, Drift, CostBasisReconciles

LEMMA HoldingsTyped ==
  ASSUME NEW pos \in [Symbols -> Holding]
  PROVE  /\ BasisOf(pos) \in Int /\ ProfitOf(pos) \in Int
         /\ \A s \in Symbols : Cost(pos[s]) \in Int /\ pos[s].realized \in Int
<1>1. ASSUME NEW s \in Symbols PROVE Cost(pos[s]) \in Int /\ pos[s].realized \in Int
  <2>1. pos[s].avg \in Int /\ pos[s].qty \in Int /\ pos[s].realized \in Int
    BY DEF Holding
  <2> QED
    BY <2>1, ProductInt DEF Cost
<1>2. IsFiniteSet(Symbols)
  BY VenueAssumption
<1>3. BasisOf(pos) \in Int
  BY <1>1, <1>2, SumIsInt DEF BasisOf
<1>4. ProfitOf(pos) \in Int
  BY <1>1, <1>2, SumIsInt DEF ProfitOf
<1> QED
  BY <1>1, <1>3, <1>4

LEMMA DriftTyped ==
  ASSUME NEW t \in Table, NEW c \in Int, NEW pos \in [Symbols -> Holding]
  PROVE  Drift(t, c, pos) \in Int
<1>1. BasisOf(pos) \in Int /\ ProfitOf(pos) \in Int /\ ChargesOf(t) \in Int
  BY HoldingsTyped, TotalsTyped
<1>2. StartingCash - c - ChargesOf(t) \in Int /\ AvgScale \in Int
  BY <1>1, VenueAssumption, PriceAssumption
<1>3. (StartingCash - c - ChargesOf(t)) * AvgScale \in Int
  BY <1>2, ProductInt
<1> QED
  BY <1>1, <1>3 DEF Drift

(* Books without executions.                                                *)
LEMMA EmptyBooks ==
  ASSUME NEW t, NEW pos, pos = [s \in Symbols |-> Flat],
         VolumeOf(t) = 0, CountOf(t) = 0, ChargesOf(t) = 0
  PROVE  CostBooks(t, StartingCash, pos)
<1>1. IsFiniteSet(Symbols) /\ StartingCash \in Nat /\ AvgScale \in Nat
  BY VenueAssumption, PriceAssumption
<1>2. \A s \in Symbols : Cost(pos[s]) = 0 /\ pos[s].realized = 0 /\ pos[s].qty = 0
  BY DEF Cost, Flat
<1>3. BasisOf(pos) = 0
  BY <1>1, <1>2, SumOfZeros DEF BasisOf
<1>4. ProfitOf(pos) = 0
  BY <1>1, <1>2, SumOfZeros DEF ProfitOf
<1>5. Drift(t, StartingCash, pos) = 0
  BY <1>1, <1>3, <1>4 DEF Drift
<1> QED
  BY <1>2, <1>5 DEF CostBooks, Magnitude

LEMMA BooksInit == Init => BooksInv
<1> SUFFICES ASSUME Init PROVE CostBooks(orders, cash, position)
  BY DEF BooksInv
<1>1. \A o \in OrderIds : orders[o].fills = <<>>
  BY DEF Init, NoOrder
<1>2. VolumeOf(orders) = 0 /\ CountOf(orders) = 0 /\ ChargesOf(orders) = 0
  BY <1>1, EmptyTotals
<1>3. cash = StartingCash /\ position = [s \in Symbols |-> Flat]
  BY DEF Init
<1> QED
  BY <1>2, <1>3, EmptyBooks

(* One execution moves the totals over the positions as it moves one of     *)
(* them.                                                                    *)
LEMMA HoldingsMoved ==
  ASSUME NEW pos \in [Symbols -> Holding], NEW new \in [Symbols -> Holding],
         NEW s \in Symbols, \A x \in Symbols \ {s} : new[x] = pos[x]
  PROVE  /\ BasisOf(new) = BasisOf(pos) - Cost(pos[s]) + Cost(new[s])
         /\ ProfitOf(new) = ProfitOf(pos) - pos[s].realized + new[s].realized
<1>1. IsFiniteSet(Symbols)
  BY VenueAssumption
<1>2. \A x \in Symbols :
        /\ Cost(pos[x]) \in Int /\ pos[x].realized \in Int
        /\ Cost(new[x]) \in Int /\ new[x].realized \in Int
  BY HoldingsTyped
<1>3. BasisOf(new) = BasisOf(pos) - Cost(pos[s]) + Cost(new[s])
  <2> DEFINE a == [x \in Symbols |-> Cost(pos[x])]
             b == [x \in Symbols |-> Cost(new[x])]
  <2>1. BasisOf(pos) = SumFunction(a) /\ BasisOf(new) = SumFunction(b)
    BY DEF BasisOf
  <2>2. /\ DOMAIN a = Symbols /\ DOMAIN b = Symbols /\ \A x \in Symbols : a[x] \in Int
        /\ b[s] \in Int /\ a[s] = Cost(pos[s]) /\ b[s] = Cost(new[s])
        /\ \A x \in Symbols \ {s} : b[x] = a[x]
    BY <1>2
  <2> HIDE DEF a, b
  <2>3. SumFunction(b) = SumFunction(a) - a[s] + b[s]
    BY <1>1, <2>2, SumChanges
  <2> QED
    BY <2>1, <2>2, <2>3
<1>4. ProfitOf(new) = ProfitOf(pos) - pos[s].realized + new[s].realized
  <2> DEFINE a == [x \in Symbols |-> pos[x].realized]
             b == [x \in Symbols |-> new[x].realized]
  <2>1. ProfitOf(pos) = SumFunction(a) /\ ProfitOf(new) = SumFunction(b)
    BY DEF ProfitOf
  <2>2. /\ DOMAIN a = Symbols /\ DOMAIN b = Symbols /\ \A x \in Symbols : a[x] \in Int
        /\ b[s] \in Int /\ a[s] = pos[s].realized /\ b[s] = new[s].realized
        /\ \A x \in Symbols \ {s} : b[x] = a[x]
    BY <1>2
  <2> HIDE DEF a, b
  <2>3. SumFunction(b) = SumFunction(a) - a[s] + b[s]
    BY <1>1, <2>2, SumChanges
  <2> QED
    BY <2>1, <2>2, <2>3
<1> QED
  BY <1>3, <1>4

LEMMA DriftMoved ==
  ASSUME NEW t \in Table, NEW u, NEW c \in Int, NEW spent \in Int, NEW fees \in Int,
         NEW pos \in [Symbols -> Holding], NEW new \in [Symbols -> Holding],
         NEW s \in Symbols, \A x \in Symbols \ {s} : new[x] = pos[x],
         ChargesOf(u) = ChargesOf(t) + fees
  PROVE  Drift(u, c - spent - fees, new) = Drift(t, c, pos) + Lost(pos[s], new[s], spent)
<1>1. /\ BasisOf(new) = BasisOf(pos) - Cost(pos[s]) + Cost(new[s])
      /\ ProfitOf(new) = ProfitOf(pos) - pos[s].realized + new[s].realized
  BY HoldingsMoved
<1>2. /\ BasisOf(pos) \in Int /\ ProfitOf(pos) \in Int /\ ChargesOf(t) \in Int
      /\ Cost(pos[s]) \in Int /\ pos[s].realized \in Int
      /\ Cost(new[s]) \in Int /\ new[s].realized \in Int
      /\ StartingCash \in Int /\ AvgScale \in Int
  BY HoldingsTyped, TotalsTyped, VenueAssumption, PriceAssumption
<1>3. PICK w \in Int : w = StartingCash - c - ChargesOf(t)
  BY <1>2
<1>4. StartingCash - (c - spent - fees) - ChargesOf(u) = w + spent
  BY <1>2, <1>3
<1>5. PICK a \in Int : a = w * AvgScale
  BY <1>2, ProductInt
<1>6. PICK b \in Int : b = spent * AvgScale
  BY <1>2, ProductInt
<1>7. (w + spent) * AvgScale = a + b
  BY <1>2, <1>5, <1>6, Distributes
<1>8. Drift(t, c, pos) = BasisOf(pos) - a - ProfitOf(pos)
  BY <1>3, <1>5 DEF Drift
<1>9. Drift(u, c - spent - fees, new) = BasisOf(new) - (a + b) - ProfitOf(new)
  BY <1>4, <1>7 DEF Drift
<1> QED
  BY <1>1, <1>2, <1>6, <1>8, <1>9 DEF Lost

LEMMA BooksFill ==
  ASSUME IInv, BooksInv, FillCompletes \/ FillPartially
  PROVE  CostBooks(orders', cash', position')
<1> DEFINE buy == Current.req.side = "BUY"
           spent == Signed(Current.req.side, SliceQty) * Price
<1>1. /\ ChargesOf(orders') = ChargesOf(orders) + Fees
      /\ VolumeOf(orders') = VolumeOf(orders) + SliceQty
      /\ CountOf(orders') = CountOf(orders) + 1
  BY FillTotalsNow
<1>2. /\ cash \in Int /\ Notional \in Int /\ Fees \in Int
      /\ cash' = IF buy THEN cash - Notional - Fees ELSE cash + Notional - Fees
      /\ position \in [Symbols -> Holding] /\ position' \in [Symbols -> Holding]
      /\ position'[Symbol]
           = ApplyToPosition(position[Symbol], Current.req.side, SliceQty, Price)
      /\ \A s \in Symbols \ {Symbol} : position'[s] = position[s]
  BY FillAccount
<1>3. /\ Symbol \in Symbols /\ Current.req.side \in Sides
      /\ SliceQty \in Nat \ {0} /\ Price \in Int
  BY FillStep
<1>4. spent \in Int /\ cash' = cash - spent - Fees
  <2>1. spent = IF buy THEN Notional ELSE -Notional
    BY <1>3, Distributes DEF Notional, Signed
  <2> HIDE DEF spent
  <2> QED
    BY <1>2, <2>1
<1> HIDE DEF spent
<1>5. orders \in Table /\ Drift(orders, cash, position) \in Int
  BY <1>2, DriftTyped DEF IInv, TypeOK, Table
<1>6. Drift(orders', cash', position')
        = Drift(orders, cash, position)
            + Lost(position[Symbol], position'[Symbol], spent)
  <2>1. PICK t \in Table : t = orders
    BY <1>5
  <2>2. PICK c \in Int : c = cash
    BY <1>2
  <2>3. PICK pos \in [Symbols -> Holding] : pos = position
    BY <1>2
  <2>4. PICK new \in [Symbols -> Holding] : new = position'
    BY <1>2
  <2>5. PICK u : u = orders'
    OBVIOUS
  <2>6. \A s \in Symbols \ {Symbol} : new[s] = pos[s]
    BY <1>2, <2>3, <2>4
  <2>7. ChargesOf(u) = ChargesOf(t) + Fees
    BY <1>1, <2>1, <2>5
  <2>8. Drift(u, c - spent - Fees, new) = Drift(t, c, pos) + Lost(pos[Symbol], new[Symbol], spent)
    BY <1>2, <1>3, <1>4, <2>6, <2>7, DriftMoved
  <2> QED
    BY <1>4, <2>1, <2>2, <2>3, <2>4, <2>5, <2>8
<1>7. /\ VolumeOf(orders) \in Nat /\ CountOf(orders) \in Nat
      /\ 2 * Magnitude(Drift(orders, cash, position)) <= CountOf(orders) * VolumeOf(orders)
      /\ \A s \in Symbols : Magnitude(position[s].qty) <= VolumeOf(orders)
  BY DEF BooksInv, CostBooks
<1>8. \A s \in Symbols : Magnitude(position'[s].qty) <= VolumeOf(orders) + SliceQty
  <2>1. \A s \in Symbols : position[s].qty \in Int
    BY <1>2 DEF Holding
  <2>2. position'[Symbol].qty
          = position[Symbol].qty + (IF buy THEN SliceQty ELSE -SliceQty)
    BY <1>2, <1>3, AppliedQty
  <2> QED
    BY <1>2, <1>3, <1>7, <2>1, <2>2 DEF Magnitude
<1>9. /\ Lost(position[Symbol], position'[Symbol], spent) \in Int
      /\ 2 * Magnitude(Lost(position[Symbol], position'[Symbol], spent))
           <= VolumeOf(orders) + SliceQty
  <2>1. PICK p \in Holding : p = position[Symbol]
    BY <1>2, <1>3
  <2>2. PICK r \in Holding : r = position'[Symbol]
    BY <1>2, <1>3
  <2>3. 2 * Magnitude(Lost(p, r, spent)) <= Magnitude(r.qty)
    BY <1>2, <1>3, <2>1, <2>2, AppliedCost DEF spent
  <2>4. Magnitude(r.qty) <= VolumeOf(orders) + SliceQty /\ Magnitude(r.qty) \in Nat
    <3>1. r.qty \in Int
      BY DEF Holding
    <3> QED
      BY <1>3, <1>8, <2>2, <3>1 DEF Magnitude
  <2>5. Lost(p, r, spent) \in Int
    <3>1. /\ p.avg \in Int /\ p.qty \in Int /\ p.realized \in Int
          /\ r.avg \in Int /\ r.qty \in Int /\ r.realized \in Int /\ AvgScale \in Int
      BY PriceAssumption DEF Holding
    <3>2. Cost(p) \in Int /\ Cost(r) \in Int /\ spent * AvgScale \in Int
      BY <1>4, <3>1, ProductInt DEF Cost
    <3> QED
      BY <3>1, <3>2 DEF Lost
  <2>6. Magnitude(Lost(p, r, spent)) \in Nat
    BY <2>5 DEF Magnitude
  <2> QED
    BY <1>3, <1>7, <2>1, <2>2, <2>3, <2>4, <2>5, <2>6
<1>10. PICK d \in Int, l \in Int : /\ d = Drift(orders, cash, position)
                                   /\ l = Lost(position[Symbol], position'[Symbol], spent)
  BY <1>5, <1>9
<1>11. 2 * Magnitude(d + l) <= (CountOf(orders) + 1) * (VolumeOf(orders) + SliceQty)
  BY <1>3, <1>7, <1>9, <1>10, DriftBound
<1>12. VolumeOf(orders') \in Nat /\ CountOf(orders') \in Nat
  BY <1>1, <1>3, <1>7
<1>13. 2 * Magnitude(Drift(orders', cash', position')) <= CountOf(orders') * VolumeOf(orders')
  BY <1>1, <1>6, <1>10, <1>11
<1> QED
  BY <1>1, <1>8, <1>12, <1>13 DEF CostBooks

LEMMA BooksStep == ASSUME IInv, IInv', BooksInv, [Next]_vars PROVE BooksInv'
<1> SUFFICES CostBooks(orders', cash', position')
  BY DEF BooksInv
<1>1. CASE FillCompletes \/ FillPartially
  BY <1>1, BooksFill
<1>2. CASE Reset
  <2>1. /\ cash' = StartingCash /\ position' = [s \in Symbols |-> Flat]
        /\ VolumeOf(orders') = 0 /\ CountOf(orders') = 0 /\ ChargesOf(orders') = 0
    BY <1>2, ResetEmpties
  <2>2. PICK t, pos : t = orders' /\ pos = position'
    OBVIOUS
  <2>3. CostBooks(t, StartingCash, pos)
    BY <2>1, <2>2, EmptyBooks
  <2> QED
    BY <2>1, <2>2, <2>3
<1>3. CASE ~(FillCompletes \/ FillPartially) /\ ~Reset
  <2>1. UNCHANGED account /\ \E n \in OrderIds : QuietTable(n)
    BY <1>3, QuietStep
  <2>2. PICK n \in OrderIds : QuietTable(n)
    BY <2>1
  <2>3. /\ ChargesOf(orders') = ChargesOf(orders) /\ VolumeOf(orders') = VolumeOf(orders)
        /\ CountOf(orders') = CountOf(orders)
    BY <2>2, QuietTotals
  <2> QED
    BY <2>1, <2>3 DEF BooksInv, CostBooks, Drift, account
<1> QED
  BY <1>1, <1>2, <1>3

(* CostBasisReconciles: cost basis and realised profit account for all the  *)
(* cash that moved, up to half a rounding step per share for every          *)
(* execution, whatever the sequence of adding, reducing and flipping.       *)
THEOREM CostBasisAlwaysReconciles == Spec => []CostBasisReconciles
<1>1. IInv /\ IInv' /\ BooksInv /\ [Next]_vars => BooksInv'
  BY BooksStep
<1> QED
  BY <1>1, BooksInit, AlwaysSound, CostOfTheBooks, PTL DEF Spec
-----------------------------------------------------------------------------
(* Limit prices.  Executable looks at the quote, applyFill books the quote  *)
(* moved by the impact of the slice: a limit order executes outside its     *)
(* limit by that impact and half a rounding step, and by nothing more.      *)

(* How much worse than its limit an execution f of request r may be.        *)
NearLimit(r, f) ==
  LET worse == IF r.side = "BUY" THEN f.price - r.limit ELSE r.limit - f.price
  IN  r.type \in {"LIMIT", "STOP_LIMIT"} =>
        2 * (ImpactScale * worse) <= 2 * (ImpactBps * r.limit) + ImpactScale

(* Whatever the quote does between two slices, no execution of a limit      *)
(* order is further from its limit than one slice's impact and rounding.    *)
LimitWithinImpact ==
  \A o \in OrderIds : \A i \in DOMAIN orders[o].fills :
    NearLimit(orders[o].req, orders[o].fills[i])

LEMMA Cancels ==
  ASSUME NEW a \in Int, NEW b \in Int, NEW c \in Nat \ {0}, a * c <= b * c
  PROVE  a <= b
<1> SUFFICES ASSUME b + 1 <= a PROVE FALSE
  OBVIOUS
<1>1. (b + 1) * c <= a * c
  BY ProductMonotone
<1>2. (b + 1) * c = b * c + c
  BY SMT
<1>3. a * c \in Int /\ b * c \in Int
  BY ProductInt
<1> QED
  BY <1>1, <1>2, <1>3

(* The share of the liquidity a slice takes is one at most.                 *)
LEMMA ImpactShare ==
  ASSUME NEW qty \in Nat \ {0}, NEW available \in Nat \ {0}, qty <= available
  PROVE  LET w == ImpactScale * available
             i == ImpactBps * qty
         IN  /\ w \in Nat \ {0} /\ i \in Nat
             /\ w + i <= (ImpactScale + ImpactBps) * available
             /\ (ImpactScale - ImpactBps) * available <= w - i
<1> DEFINE w == ImpactScale * available
           i == ImpactBps * qty
           m == ImpactBps * available
<1>1. ImpactScale \in Nat \ {0} /\ ImpactBps \in Nat
  BY PriceAssumption
<1>2. w \in Nat \ {0} /\ i \in Nat /\ m \in Nat
  BY <1>1, ProductPositive, ProductNat
<1>3. i <= m
  <2>1. qty * ImpactBps <= available * ImpactBps
    BY <1>1, ProductMonotone
  <2>2. qty * ImpactBps = i /\ available * ImpactBps = m
    BY <1>1, SMT
  <2> QED
    BY <2>1, <2>2
<1>4. /\ (ImpactScale + ImpactBps) * available = w + m
      /\ (ImpactScale - ImpactBps) * available = w - m
  BY <1>1, SMT
<1> HIDE DEF w, i, m
<1>5. w + i <= w + m /\ w - m <= w - i
  BY <1>2, <1>3
<1> QED
  BY <1>2, <1>4, <1>5 DEF w, i

LEMMA BuyNearLimit ==
  ASSUME NEW ask \in Nat, NEW limit \in Int, ask <= limit,
         NEW qty \in Nat \ {0}, NEW available \in Nat \ {0}, qty <= available
  PROVE  LET p == FillPrice("BUY", ask, qty, available) IN
         2 * (ImpactScale * (p - limit)) <= 2 * (ImpactBps * limit) + ImpactScale
<1> DEFINE w == ImpactScale * available
           i == ImpactBps * qty
           n == ask * (w + i)
           p == DivHalfEven(n, w)
           k == ImpactScale + ImpactBps
<1>1. FillPrice("BUY", ask, qty, available) = p
  BY DEF FillPrice
<1>2. ImpactScale \in Nat \ {0} /\ ImpactBps \in Nat /\ k \in Nat
  BY PriceAssumption
<1>3. w \in Nat \ {0} /\ i \in Nat /\ w + i <= k * available
  BY ImpactShare
<1>4. n \in Nat /\ n <= (limit * k) * available
  <2>1. k * available \in Nat /\ limit \in Nat
    BY <1>2, ProductNat
  <2>2. (w + i) * ask <= (k * available) * ask
    BY <1>3, <2>1, ProductMonotone
  <2>3. ask * (k * available) <= limit * (k * available)
    BY <2>1, ProductMonotone
  <2>4. PICK s \in Nat : s = w + i
    BY <1>3
  <2>5. PICK t \in Nat : t = k * available
    BY <2>1
  <2>6. s * ask = ask * s /\ t * ask = ask * t
    BY SMT
  <2>7. limit * t = (limit * k) * available
    BY <1>2, <2>1, <2>5, SMT
  <2>8. ask * s \in Nat /\ ask * t \in Nat /\ limit * t \in Nat
    BY <2>1, ProductNat
  <2> HIDE DEF w, i, k
  <2> QED
    BY <2>2, <2>3, <2>4, <2>5, <2>6, <2>7, <2>8
<1> HIDE DEF n
<1>5. p \in Int /\ 2 * (w * p) <= 2 * n + w
  <2>1. n \in Int
    BY <1>4
  <2> HIDE DEF w
  <2>2. p \in Int /\ 2 * n - w <= 2 * (w * p) /\ 2 * (w * p) <= 2 * n + w
    BY <1>3, <2>1, HalfEvenBounds
  <2> QED
    BY <2>2
<1> HIDE DEF p
<1>6. (2 * (ImpactScale * p)) * available <= (2 * (limit * k) + ImpactScale) * available
  <2>1. (2 * (ImpactScale * p)) * available = 2 * (w * p)
    BY <1>2, <1>5, SMT
  <2>2. PICK l \in Int : l = limit * k
    BY <1>2, ProductInt
  <2>3. (2 * l + ImpactScale) * available = 2 * (l * available) + w
    BY <1>2, SMT
  <2>4. l * available \in Int /\ w * p \in Int
    BY <1>3, <1>5, ProductInt
  <2> HIDE DEF w, k
  <2> QED
    BY <1>3, <1>4, <1>5, <2>1, <2>2, <2>3, <2>4
<1>7. 2 * (ImpactScale * p) <= 2 * (limit * k) + ImpactScale
  <2>1. ImpactScale * p \in Int /\ limit * k \in Int
    BY <1>2, <1>5, ProductInt
  <2>2. 2 * (ImpactScale * p) \in Int /\ 2 * (limit * k) + ImpactScale \in Int
    BY <1>2, <2>1
  <2> HIDE DEF k
  <2> QED
    BY <1>6, <2>2, Cancels
<1>8. /\ limit * k = limit * ImpactScale + limit * ImpactBps
      /\ ImpactScale * (p - limit) = ImpactScale * p - limit * ImpactScale
      /\ limit * ImpactBps = ImpactBps * limit
  BY <1>2, <1>5, SMT
<1>9. /\ ImpactScale * p \in Int /\ limit * ImpactScale \in Int /\ ImpactBps * limit \in Int
  BY <1>2, <1>5, ProductInt
<1> HIDE DEF k
<1> QED
  BY <1>1, <1>2, <1>7, <1>8, <1>9

LEMMA SellNearLimit ==
  ASSUME NEW bid \in Nat, NEW limit \in Int, limit <= bid,
         NEW qty \in Nat \ {0}, NEW available \in Nat \ {0}, qty <= available
  PROVE  LET p == FillPrice("SELL", bid, qty, available) IN
         2 * (ImpactScale * (limit - p)) <= 2 * (ImpactBps * limit) + ImpactScale
<1> DEFINE w == ImpactScale * available
           i == ImpactBps * qty
           n == bid * (w - i)
           p == DivHalfEven(n, w)
           k == ImpactScale - ImpactBps
<1>1. FillPrice("SELL", bid, qty, available) = p
  BY DEF FillPrice
<1>2. ImpactScale \in Nat \ {0} /\ ImpactBps \in Nat /\ k \in Nat
  BY PriceAssumption, SaleAssumption
<1>3. w \in Nat \ {0} /\ i \in Nat /\ k * available <= w - i
  BY ImpactShare
<1>4. n \in Int /\ (limit * k) * available <= n
  <2>1. k * available \in Nat
    BY <1>2, ProductNat
  <2>2. PICK s \in Int : s = w - i
    BY <1>3
  <2>3. PICK t \in Nat : t = k * available
    BY <2>1
  <2>4. t * bid <= s * bid
    BY <1>3, <2>2, <2>3, ProductMonotone
  <2>5. limit * t <= bid * t
    BY ProductMonotone
  <2>6. s * bid = bid * s /\ t * bid = bid * t
    BY SMT
  <2>7. limit * t = (limit * k) * available
    BY <1>2, <2>3, SMT
  <2>8. bid * s \in Int /\ bid * t \in Int /\ limit * t \in Int
    BY ProductInt
  <2> HIDE DEF w, i, k
  <2> QED
    BY <2>2, <2>4, <2>5, <2>6, <2>7, <2>8
<1> HIDE DEF n
<1>5. p \in Int /\ 2 * n - w <= 2 * (w * p)
  BY <1>3, <1>4, HalfEvenBounds
<1> HIDE DEF p
<1>6. (2 * (limit * k) - ImpactScale) * available <= (2 * (ImpactScale * p)) * available
  <2>1. (2 * (ImpactScale * p)) * available = 2 * (w * p)
    BY <1>2, <1>5, SMT
  <2>2. PICK l \in Int : l = limit * k
    BY <1>2, ProductInt
  <2>3. (2 * l - ImpactScale) * available = 2 * (l * available) - w
    BY <1>2, SMT
  <2>4. l * available \in Int /\ w * p \in Int
    BY <1>3, <1>5, ProductInt
  <2> HIDE DEF w, k
  <2> QED
    BY <1>3, <1>4, <1>5, <2>1, <2>2, <2>3, <2>4
<1>7. 2 * (limit * k) - ImpactScale <= 2 * (ImpactScale * p)
  <2>1. ImpactScale * p \in Int /\ limit * k \in Int
    BY <1>2, <1>5, ProductInt
  <2>2. 2 * (ImpactScale * p) \in Int /\ 2 * (limit * k) - ImpactScale \in Int
    BY <1>2, <2>1
  <2> HIDE DEF k
  <2> QED
    BY <1>6, <2>2, Cancels
<1>8. /\ limit * k = limit * ImpactScale - limit * ImpactBps
      /\ ImpactScale * (limit - p) = limit * ImpactScale - ImpactScale * p
      /\ limit * ImpactBps = ImpactBps * limit
  BY <1>2, <1>5, SMT
<1>9. /\ ImpactScale * p \in Int /\ limit * ImpactScale \in Int /\ ImpactBps * limit \in Int
  BY <1>2, <1>5, ProductInt
<1> HIDE DEF k
<1> QED
  BY <1>1, <1>2, <1>7, <1>8, <1>9

(* The slice being booked is near the limit it was executable at.           *)
LEMMA FillNearLimit ==
  ASSUME IInv, BookFill, NEW f \in Execution, f.price = Price
  PROVE  NearLimit(Current.req, f)
<1> SUFFICES ASSUME Current.req.type \in {"LIMIT", "STOP_LIMIT"}
             PROVE  NearLimit(Current.req, f)
  BY DEF NearLimit
<1>1. /\ SliceQty > 0 /\ SliceQty \in Int /\ pc = "match" /\ At <= now /\ Executable
  BY SliceFacts DEF BookFill, Tradable, Live, InLoop
<1>2. Current \in Order /\ At \in 0 .. now
  BY <1>1, InProgress
<1>3. /\ Symbol \in Symbols /\ Liquidity[Symbol] \in Nat \ {0}
      /\ Current.req.side \in {"BUY", "SELL"} /\ Current.req.limit \in Int
  BY <1>2, RequestAssumption, VenueAssumption DEF Order, Symbol, Sides
<1>4. Quote.bid \in Nat /\ Quote.ask \in Nat
  <2>1. Quote \in Quotes
    BY <1>2, <1>3 DEF IInv, TypeOK, Quote
  <2> QED
    BY <2>1, PriceAssumption
<1>5. SliceQty \in Nat \ {0} /\ SliceQty <= Liquidity[Symbol]
  <2>1. Remaining \in Int
    BY <1>2 DEF Remaining, Order
  <2> QED
    BY <1>1, <1>3, <2>1 DEF SliceQty, SmallerOf
<1>6. CASE Current.req.side = "BUY"
  <2>1. Quote.ask <= Current.req.limit /\ Touch = Quote.ask
    BY <1>1, <1>6 DEF Executable, Touch
  <2> QED
    BY <1>3, <1>4, <1>5, <1>6, <2>1, BuyNearLimit DEF NearLimit, Price
<1>7. CASE Current.req.side = "SELL"
  <2>1. Current.req.limit <= Quote.bid /\ Touch = Quote.bid
    BY <1>1, <1>3, <1>4, <1>7 DEF Executable, Touch
  <2> QED
    BY <1>3, <1>4, <1>5, <1>7, <2>1, SellNearLimit DEF NearLimit, Price
<1> QED
  BY <1>3, <1>6, <1>7

LEMMA LimitStep == IInv /\ LimitWithinImpact /\ [Next]_vars => LimitWithinImpact'
<1> SUFFICES ASSUME IInv, LimitWithinImpact, [Next]_vars,
                    NEW o \in OrderIds, NEW i \in DOMAIN orders'[o].fills
             PROVE  NearLimit(orders'[o].req, orders'[o].fills[i])
  BY DEF LimitWithinImpact
<1>1. /\ orders \in [OrderIds -> Order]
      /\ \A j \in DOMAIN orders[o].fills : NearLimit(orders[o].req, orders[o].fills[j])
  BY DEF LimitWithinImpact, IInv, TypeOK
<1>2. CASE FillCompletes \/ FillPartially
  <2>1. /\ cur \in OrderIds /\ Current \in Order /\ BookFill
        /\ \E f \in Execution : \E y :
             /\ f.price = Price
             /\ orders' = [orders EXCEPT ![cur] = y]
             /\ y.req = Current.req /\ y.fills = Append(Current.fills, f)
    BY <1>2, FillStep
  <2>2. PICK f \in Execution : \E y :
          /\ f.price = Price /\ orders' = [orders EXCEPT ![cur] = y]
          /\ y.req = Current.req /\ y.fills = Append(Current.fills, f)
    BY <2>1
  <2>3. PICK y : /\ f.price = Price /\ orders' = [orders EXCEPT ![cur] = y]
                 /\ y.req = Current.req /\ y.fills = Append(Current.fills, f)
    BY <2>2
  <2>4. CASE o # cur
    BY <1>1, <2>3, <2>4
  <2>5. CASE o = cur
    <3>1. orders'[o] = y /\ Current = orders[o]
      BY <1>1, <2>1, <2>3, <2>5 DEF Current
    <3>2. Current.fills \in Seq(Execution)
      BY <2>1 DEF Order, Execution
    <3>3. i \in 1 .. Len(Current.fills) + 1 /\ i \in DOMAIN Append(Current.fills, f)
      BY <2>3, <3>1, <3>2
    <3>4. CASE i = Len(Current.fills) + 1
      <4>1. orders'[o].fills[i] = f
        BY <2>3, <3>1, <3>2, <3>4
      <4> QED
        BY <2>1, <2>3, <3>1, <4>1, FillNearLimit
    <3>5. CASE i # Len(Current.fills) + 1
      <4>1. i \in DOMAIN Current.fills /\ orders'[o].fills[i] = Current.fills[i]
        BY <2>3, <3>1, <3>2, <3>3, <3>5
      <4> QED
        BY <1>1, <2>3, <3>1, <4>1
    <3> QED
      BY <3>4, <3>5
  <2> QED
    BY <2>4, <2>5
<1>3. CASE Reset
  BY <1>3 DEF Reset, NoOrder
<1>4. CASE ~(FillCompletes \/ FillPartially) /\ ~Reset
  <2>1. PICK n \in OrderIds : QuietTable(n)
    BY <1>4, QuietStep
  <2>2. /\ orders'[o].fills = orders[o].fills
        /\ orders'[o].req = orders[o].req \/ orders[o].fills = <<>>
    BY <2>1 DEF QuietTable
  <2> QED
    BY <1>1, <2>2
<1> QED
  BY <1>2, <1>3, <1>4

(* LimitWithinImpact: a limit order never executes further outside its      *)
(* limit than the impact of one slice and half a rounding step, for every   *)
(* price path, however late it is matched.                                  *)
THEOREM LimitsHoldUpToImpact == Spec => []LimitWithinImpact
<1>1. Init => LimitWithinImpact
  BY DEF Init, LimitWithinImpact, NoOrder
<1> QED
  BY <1>1, LimitStep, AlwaysSound, PTL DEF Spec
-----------------------------------------------------------------------------
(* Calls end.  What is left to do in a call: passes through the matching    *)
(* loop, the step after it, the steps of a cancellation; and, in a sweep,   *)
(* the whole of it again for every order still to come.                     *)

Passes ==
  CASE pc = "idle"     -> 0
    [] pc = "settle"   -> MaxSlices + 5
    [] pc = "match"    -> MaxSlices - slices + 4
    [] pc = "unfilled" -> 3
    [] pc = "cancel"   -> IF Current.status = "CANCEL_REQUESTED" THEN 1 ELSE 2

Work == Passes + (IF task = "sweep" THEN (placed - cur) * (MaxSlices + 6) ELSE 0)

(* Every step of a running call leaves less to do, whatever the order and   *)
(* the prices: no call of the venue runs for ever, and the longest takes    *)
(* MaxSlices + 6 steps for each order of the book.                          *)
CallsEnd == [][Settle => Work' < Work]_vars

LEMMA WorkNat == IInv => Work \in Nat /\ (pc # "idle" => Passes \in Nat \ {0})
<1> SUFFICES ASSUME IInv PROVE Work \in Nat /\ (pc # "idle" => Passes \in Nat \ {0})
  OBVIOUS
<1>1. /\ pc \in {"idle", "settle", "match", "unfilled", "cancel"}
      /\ cur \in 0 .. placed /\ placed \in Nat
      /\ MaxSlices \in Nat /\ slices \in 0 .. MaxSlices
  BY VenueAssumption DEF IInv, TypeOK
<1>2. Passes \in Nat /\ (pc # "idle" => Passes # 0)
  BY <1>1 DEF Passes
<1>3. (placed - cur) * (MaxSlices + 6) \in Nat
  <2>1. placed - cur \in Nat /\ MaxSlices + 6 \in Nat
    BY <1>1
  <2> QED
    BY <2>1, ProductNat
<1> QED
  BY <1>2, <1>3 DEF Work

(* A call that returns from an order has less to do: nothing, the two steps *)
(* of a cancellation, or the rest of the sweep.                             *)
LEMMA ReturnWorks ==
  ASSUME IInv, pc # "idle", NEW s, Return(s), placed' = placed,
         ~IsTerminalOrderStatus(s) => Passes > 2
  PROVE  Work' < Work
<1>1. /\ Passes \in Nat \ {0} /\ Work \in Nat /\ MaxSlices \in Nat
      /\ cur \in 0 .. placed /\ placed \in Nat
  BY WorkNat, VenueAssumption DEF IInv, TypeOK
<1>2. CASE pc' = "idle"
  <2>1. Passes' = 0 /\ task' # "sweep"
    BY <1>2 DEF Passes, Return
  <2>2. PICK r \in Nat : r = (placed - cur) * (MaxSlices + 6)
    <3>1. placed - cur \in Nat /\ MaxSlices + 6 \in Nat
      BY <1>1
    <3> QED
      BY <3>1, ProductNat
  <2>3. PICK a \in Nat \ {0} : a = Passes
    BY <1>1
  <2>4. Work' = 0
    BY <2>1 DEF Work
  <2>5. PICK w \in Nat : w = IF task = "sweep" THEN (placed - cur) * (MaxSlices + 6) ELSE 0
    BY <2>2
  <2>6. Work = a + w
    BY <2>3, <2>5 DEF Work
  <2> QED
    BY <2>4, <2>6
<1>3. CASE pc' = "cancel"
  <2>1. task = "cancel" /\ task' = "cancel" /\ ~IsTerminalOrderStatus(s)
    BY <1>3 DEF Return
  <2>2. Passes' \in 1 .. 2
    BY <1>3 DEF Passes
  <2>3. PICK a \in Nat : a = Passes
    BY <1>1
  <2>4. PICK b \in 1 .. 2 : b = Passes'
    BY <2>2
  <2>5. Work = a + 0 /\ Work' = b + 0
    BY <2>1, <2>3, <2>4 DEF Work
  <2>6. a > 2
    BY <2>1, <2>3
  <2>7. a \in Nat /\ b \in Nat /\ b <= 2
    BY <2>3, <2>4
  <2> QED
    BY <2>5, <2>6, <2>7
<1>4. CASE pc' = "settle"
  <2>1. /\ task = "sweep" /\ task' = "sweep" /\ cur' = cur + 1 /\ cur < placed
    BY <1>4 DEF Return
  <2>2. Passes' = MaxSlices + 5
    BY <1>4 DEF Passes
  <2>3. PICK m \in Nat : m = MaxSlices + 6
    BY <1>1
  <2>4. PICK k \in Nat : placed - cur = k + 1 /\ placed' - cur' = k
    <3>1. placed - cur - 1 \in Nat
      BY <1>1, <2>1
    <3> QED
      BY <1>1, <2>1, <3>1
  <2>5. (k + 1) * m = k * m + m /\ k * m \in Nat
    BY ProductNat, SMT
  <2>6. Work = Passes + (k + 1) * m /\ Work' = Passes' + k * m
    BY <2>1, <2>3, <2>4 DEF Work
  <2> QED
    BY <1>1, <2>2, <2>3, <2>5, <2>6
<1> QED
  BY <1>2, <1>3, <1>4 DEF Return

(* A call that goes on with its order has less to do on it.                 *)
LEMMA GoesOn ==
  ASSUME IInv, pc # "idle", UNCHANGED <<placed, task, cur>>,
         Passes' \in Nat, Passes' < Passes
  PROVE  Work' < Work
<1>1. Passes \in Nat /\ MaxSlices \in Nat /\ cur \in 0 .. placed /\ placed \in Nat
  BY WorkNat, VenueAssumption DEF IInv, TypeOK
<1>2. PICK w \in Nat : w = IF task = "sweep" THEN (placed - cur) * (MaxSlices + 6) ELSE 0
  <2>1. placed - cur \in Nat /\ MaxSlices + 6 \in Nat
    BY <1>1
  <2> QED
    BY <2>1, ProductNat
<1>3. PICK a \in Nat, b \in Nat : a = Passes /\ b = Passes'
  BY <1>1
<1>4. Work = a + w /\ Work' = b + w /\ b < a
  BY <1>2, <1>3 DEF Work
<1> QED
  BY <1>4

LEMMA SettleWorks == ASSUME IInv, Settle PROVE Work' < Work
<1>1. /\ MaxSlices \in Nat /\ slices \in 0 .. MaxSlices
      /\ orders \in [OrderIds -> Order]
  BY VenueAssumption DEF IInv, TypeOK
<1>2. \A s \in {"FILLED", "CANCELLED", "REJECTED", "EXPIRED"} : IsTerminalOrderStatus(s)
  BY DEF IsTerminalOrderStatus, TerminalOrderStatuses
<1>3. /\ pc = "settle" => Passes = MaxSlices + 5
      /\ pc = "match" => Passes = MaxSlices - slices + 4
      /\ pc = "unfilled" => Passes = 3
  BY DEF Passes
<1>4. ASSUME InLoop, NEW x, NextSlice(x) PROVE Work' < Work
  <2>1. /\ pc = "match" /\ pc' = "match" /\ slices < MaxSlices /\ slices' = slices + 1
        /\ UNCHANGED <<placed, task, cur>>
    BY <1>4 DEF InLoop, NextSlice, Become
  <2>2. Passes' = MaxSlices - slices' + 4
    BY <2>1 DEF Passes
  <2> QED
    BY <1>1, <1>3, <2>1, <2>2, GoesOn
<1>5. ASSUME InLoop, pc' = "unfilled", UNCHANGED <<placed, task, cur>> PROVE Work' < Work
  <2>1. pc = "match" /\ slices < MaxSlices
    BY <1>5 DEF InLoop
  <2>2. Passes' = 3
    BY <1>5 DEF Passes
  <2> QED
    BY <1>1, <1>3, <1>5, <2>1, <2>2, GoesOn
<1>6. CASE SettleNothing
  <2>1. pc = "settle" /\ Return(Current.status) /\ placed' = placed
    BY <1>6 DEF SettleNothing, book
  <2> QED
    BY <1>1, <1>3, <2>1, ReturnWorks
<1>7. CASE StartMatching
  <2>1. pc = "settle" /\ pc' = "match" /\ UNCHANGED <<placed, task, cur, slices>>
    BY <1>7 DEF StartMatching, Become
  <2>2. Passes' = MaxSlices - slices + 4
    BY <2>1 DEF Passes
  <2> QED
    BY <1>1, <1>3, <2>1, <2>2, GoesOn
<1>8. CASE SliceClosed \/ SliceUntriggered \/ SliceNotExecutable \/ SliceNothingLeft
  BY <1>4, <1>8 DEF SliceClosed, SliceUntriggered, SliceNotExecutable, SliceNothingLeft,
                    Tradable, Live
<1>9. CASE SliceGivesUp
  BY <1>5, <1>9 DEF SliceGivesUp, Live, Become
<1>10. CASE SliceUnaffordable
  <2>1. PICK s \in {"CANCELLED", "REJECTED"} : Return(s) /\ placed' = placed /\ pc = "match"
    BY <1>10 DEF SliceUnaffordable, Become, Tradable, Live, InLoop
  <2> QED
    BY <1>2, <2>1, ReturnWorks
<1>11. CASE FillCompletes
  <2>1. Return("FILLED") /\ placed' = placed /\ pc = "match"
    BY <1>11 DEF FillCompletes, Become, BookFill, Tradable, Live, InLoop
  <2> QED
    BY <1>2, <2>1, ReturnWorks
<1>12. CASE FillPartially
  <2>1. InLoop
    BY <1>12 DEF FillPartially, BookFill, Tradable, Live
  <2>2. CASE Current.req.tif = "IOC"
    BY <1>5, <1>12, <2>1, <2>2 DEF FillPartially, Become
  <2>3. CASE Current.req.tif # "IOC"
    BY <1>4, <1>12, <2>1, <2>3 DEF FillPartially
  <2> QED
    BY <2>2, <2>3
<1>13. CASE FinishUnfilled
  <2>1. Return("CANCELLED") /\ placed' = placed /\ pc = "unfilled"
    BY <1>13 DEF FinishUnfilled, Become
  <2> QED
    BY <1>2, <2>1, ReturnWorks
<1>14. CASE LeaveLoop
  <2>1. \E s : Return(s) /\ placed' = placed /\ pc = "match"
    BY <1>14 DEF LeaveLoop, Become
  <2> QED
    BY <1>1, <1>3, <2>1, ReturnWorks
<1>15. CASE RequestCancel
  <2>1. /\ pc = "cancel" /\ pc' = "cancel" /\ Current.status # "CANCEL_REQUESTED"
        /\ UNCHANGED <<placed, task, cur>>
        /\ orders' = [orders EXCEPT ![cur] = [Current EXCEPT !.status = "CANCEL_REQUESTED"]]
    BY <1>15 DEF RequestCancel, Become, control
  <2>2. Current' = [Current EXCEPT !.status = "CANCEL_REQUESTED"] /\ Current \in Order
    BY <1>1, <2>1, InProgress DEF Current
  <2>3. Current'.status = "CANCEL_REQUESTED"
    BY <2>2 DEF Order
  <2>4. Passes = 2 /\ Passes' = 1
    BY <2>1, <2>3 DEF Passes
  <2> QED
    BY <2>1, <2>4, GoesOn
<1>16. CASE ConfirmCancel
  <2>1. Return("CANCELLED") /\ placed' = placed /\ pc = "cancel"
    BY <1>16 DEF ConfirmCancel, Become
  <2> QED
    BY <1>2, <2>1, ReturnWorks
<1> QED
  BY <1>6, <1>7, <1>8, <1>9, <1>10, <1>11, <1>12, <1>13, <1>14, <1>15, <1>16 DEF Settle

(* CallsEnd: the work left is a number that every step of a running call    *)
(* makes smaller, so a call returns whatever it meets.                      *)
THEOREM EveryCallEnds == Spec => [](Work \in Nat) /\ CallsEnd
<1>1. IInv => Work \in Nat
  BY WorkNat
<1>2. IInv /\ [Next]_vars => [Settle => Work' < Work]_vars
  BY SettleWorks
<1> QED
  BY <1>1, <1>2, AlwaysSound, PTL DEF Spec, CallsEnd
=============================================================================
