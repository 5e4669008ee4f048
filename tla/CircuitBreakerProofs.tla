------------------------ MODULE CircuitBreakerProofs ------------------------
(* Theorems about CircuitBreaker, for any number of concurrent calls and    *)
(* any thresholds.                                                          *)
EXTENDS CircuitBreaker, TLAPS

(* The strengthening: what each state says about the counters and about     *)
(* what really happened.  While CLOSED the failure counter is the current   *)
(* run of failures; while HALF_OPEN the success counter counts exactly the  *)
(* successes of this half-open phase; while OPEN the cool-down has not run  *)
(* longer than the breaker has been open.                                   *)
ClosedCounts   == state = "CLOSED" => failures = streak /\ streak < FailureThreshold
HalfOpenCounts == state = "HALF_OPEN" => successes = wins /\ wins < SuccessThreshold
OpenCounts     == state = "OPEN" => elapsed <= sinceOpened

IInv == TypeOK /\ ClosedCounts /\ HalfOpenCounts /\ OpenCounts

LEMMA SaturateBound ==
  ASSUME NEW top \in Nat, NEW n \in Nat
  PROVE  /\ Saturate(n, top) \in 0 .. top
         /\ n <= top => Saturate(n, top) = n
         /\ n >= top => Saturate(n, top) = top
BY SMT DEF Saturate

LEMMA InitEstablishes == Init => IInv
BY BreakerAssumption, SMT
  DEF Init, IInv, TypeOK, States, ClosedCounts, HalfOpenCounts, OpenCounts

(* currentState() leaves everything but the half-open transition alone.     *)
LEMMA ObserveKeeps ==
  ASSUME IInv, Observe
  PROVE  /\ state' \in States /\ successes' \in 0 .. SuccessThreshold
         /\ wins' \in 0 .. SuccessThreshold
         /\ ClosedCounts' /\ HalfOpenCounts' /\ OpenCounts'
BY BreakerAssumption, SMT
  DEF Observe, CurrentState, Cooled, IInv, TypeOK, States,
      ClosedCounts, HalfOpenCounts, OpenCounts

LEMMA StepKeeps == IInv /\ [Next]_vars => IInv'
<1> SUFFICES ASSUME IInv, [Next]_vars PROVE IInv'
  OBVIOUS
<1> USE BreakerAssumption
<1>1. ASSUME NEW c \in Calls, Start(c) PROVE IInv'
  <2>1. Observe
    BY <1>1 DEF Start
  <2>2. UNCHANGED <<failures, elapsed, streak, sinceOpened, healthy>>
    BY <1>1 DEF Start, Observe
  <2>3. running' \subseteq Calls /\ trials' \subseteq running' /\ doomed' \subseteq running'
    BY <1>1 DEF Start, IInv, TypeOK
  <2> QED
    BY <2>1, <2>2, <2>3, ObserveKeeps DEF IInv, TypeOK
<1>2. ASSUME NEW c \in Calls, Succeed(c) PROVE IInv'
  <2>1. running' \subseteq Calls /\ trials' \subseteq running' /\ doomed' \subseteq running'
    BY <1>2 DEF Succeed, Leave, IInv, TypeOK
  <2>2. wins' \in 0 .. SuccessThreshold
        /\ (wins < SuccessThreshold => wins' = wins + 1)
    BY <1>2, SMT DEF Succeed, Saturate, IInv, TypeOK
  <2>3. CASE state = "HALF_OPEN"
    BY <1>2, <2>1, <2>2, <2>3, SMT
      DEF Succeed, IInv, TypeOK, States, ClosedCounts, HalfOpenCounts, OpenCounts
  <2>4. CASE state # "HALF_OPEN"
    BY <1>2, <2>1, <2>2, <2>4, SMT
      DEF Succeed, IInv, TypeOK, States, ClosedCounts, HalfOpenCounts, OpenCounts
  <2> QED
    BY <2>3, <2>4
<1>3. ASSUME NEW c \in Calls, Fail(c) PROVE IInv'
  <2>1. running' \subseteq Calls /\ trials' \subseteq running' /\ doomed' \subseteq running'
    BY <1>3 DEF Fail, Leave, IInv, TypeOK
  <2>2. /\ failures' \in 0 .. FailureCap /\ streak' \in 0 .. FailureCap
        /\ failures < FailureCap => failures' = failures + 1
        /\ streak < FailureCap => streak' = streak + 1
    BY <1>3, SMT DEF Fail, Saturate, IInv, TypeOK
  <2>3. CASE state = "HALF_OPEN" \/ failures + 1 >= FailureThreshold
    BY <1>3, <2>1, <2>2, <2>3, SMT
      DEF Fail, IInv, TypeOK, States, ClosedCounts, HalfOpenCounts, OpenCounts
  <2>4. CASE ~(state = "HALF_OPEN" \/ failures + 1 >= FailureThreshold)
    BY <1>3, <2>1, <2>2, <2>4, SMT
      DEF Fail, IInv, TypeOK, States, ClosedCounts, HalfOpenCounts, OpenCounts
  <2> QED
    BY <2>3, <2>4
<1>4. CASE ReadStatus
  <2>1. Observe /\ UNCHANGED <<failures, elapsed, streak, sinceOpened, calls, healthy>>
    BY <1>4 DEF ReadStatus, Observe
  <2> QED
    BY <2>1, ObserveKeeps DEF IInv, TypeOK, calls
<1>5. CASE Reset
  BY <1>5, SMT DEF Reset, calls, IInv, TypeOK, States, ClosedCounts, HalfOpenCounts, OpenCounts
<1>6. CASE Tick
  BY <1>6, SMT DEF Tick, Saturate, calls, IInv, TypeOK, States,
                   ClosedCounts, HalfOpenCounts, OpenCounts
<1>7. CASE Outage
  BY <1>7 DEF Outage, counters, history, IInv, TypeOK,
              ClosedCounts, HalfOpenCounts, OpenCounts
<1>8. CASE Repair
  BY <1>8 DEF Repair, counters, calls, history, IInv, TypeOK,
              ClosedCounts, HalfOpenCounts, OpenCounts
<1>9. CASE UNCHANGED vars
  BY <1>9 DEF vars, counters, calls, history, IInv, TypeOK,
              ClosedCounts, HalfOpenCounts, OpenCounts
<1> QED
  BY <1>1, <1>2, <1>3, <1>4, <1>5, <1>6, <1>7, <1>8, <1>9 DEF Next

LEMMA Invariance == Spec => []IInv
<1>1. QED
  BY InitEstablishes, StepKeeps, PTL DEF Spec

(* Type correctness of the breaker.                                         *)
THEOREM BreakerTypeOK == Spec => []TypeOK
<1>1. IInv => TypeOK
  BY DEF IInv
<1> QED
  BY <1>1, Invariance, PTL

(* The breaker never rests CLOSED after FailureThreshold failures in a row. *)
THEOREM NeverClosedOverThreshold == Spec => []ClosedWhileTolerable
<1>1. IInv => ClosedWhileTolerable
  BY DEF IInv, ClosedCounts, ClosedWhileTolerable
<1> QED
  BY <1>1, Invariance, PTL

(* It trips from CLOSED exactly on the FailureThreshold-th failure in a row.*)
THEOREM TripsExactlyAtThreshold == Spec => TripsAtThreshold
<1>1. ASSUME IInv, [Next]_vars, state = "CLOSED", state' = "OPEN"
      PROVE  streak' = FailureThreshold
  <2>1. PICK c \in Calls : Fail(c)
    BY <1>1, SMT DEF Next, Start, Succeed, ReadStatus, Reset, Tick, Outage, Repair, Observe,
                CurrentState, vars, counters, history
  <2> QED
    BY <1>1, <2>1, BreakerAssumption, SMT
      DEF Fail, Saturate, IInv, TypeOK, ClosedCounts
<1>2. IInv /\ [Next]_vars => [state = "CLOSED" /\ state' = "OPEN" => streak' = FailureThreshold]_vars
  BY <1>1
<1> QED
  BY <1>2, Invariance, PTL DEF Spec, TripsAtThreshold

(* It closes from HALF_OPEN only after SuccessThreshold consecutive         *)
(* successes of that half-open phase, or on an explicit reset().            *)
THEOREM ClosesOnlyAfterSuccesses == Spec => ClosesAfterSuccesses
<1>1. ASSUME IInv, [Next]_vars, state = "HALF_OPEN", state' = "CLOSED", ~Reset
      PROVE  wins' = SuccessThreshold
  <2>1. PICK c \in Calls : Succeed(c)
    BY <1>1, SMT DEF Next, Start, Fail, ReadStatus, Tick, Outage, Repair, Observe,
                CurrentState, vars, counters, history
  <2> QED
    BY <1>1, <2>1, BreakerAssumption, SMT
      DEF Succeed, Saturate, IInv, TypeOK, HalfOpenCounts
<1>2. IInv /\ [Next]_vars => [state = "HALF_OPEN" /\ state' = "CLOSED" => wins' = SuccessThreshold \/ Reset]_vars
  BY <1>1
<1> QED
  BY <1>2, Invariance, PTL DEF Spec, ClosesAfterSuccesses

(* An OPEN breaker lets no call through, and does not half-open, before the *)
(* whole reset timeout has passed since it opened.                          *)
THEOREM StaysOpenForTimeout == Spec => StaysOpen
<1>1. ASSUME IInv, [Next]_vars, state = "OPEN",
             state' = "HALF_OPEN" \/ running' \ running # {}
      PROVE  sinceOpened = ResetTimeout
  <2>1. Cooled
    BY <1>1, SMT DEF Next, Start, Succeed, Fail, Leave, ReadStatus, Reset, Tick, Outage,
                Repair, Observe, CurrentState, vars, counters, calls, history
  <2> QED
    BY <1>1, <2>1, BreakerAssumption, SMT DEF Cooled, IInv, TypeOK, OpenCounts
<1>2. IInv /\ [Next]_vars
        => [state = "OPEN" /\ (state' = "HALF_OPEN" \/ running' \ running # {})
              => sinceOpened = ResetTimeout]_vars
  BY <1>1
<1> QED
  BY <1>2, Invariance, PTL DEF Spec, StaysOpen
=============================================================================
