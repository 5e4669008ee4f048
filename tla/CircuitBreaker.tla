--------------------------- MODULE CircuitBreaker ---------------------------
(***************************************************************************)
(* apps/api/src/lib/circuit-breaker.ts, as HealthService uses it: several   *)
(* concurrent requests run the same probe through one breaker, so between   *)
(* the start of a call and its result the breaker may trip, cool down,      *)
(* half-open or close on the results of other calls.                        *)
(*                                                                         *)
(* Only now() - openedAt matters, compared with resetTimeoutMs: `elapsed`   *)
(* is that difference in ticks, and stops counting once it has reached      *)
(* ResetTimeout.                                                           *)
(***************************************************************************)
EXTENDS Integers, FiniteSets

CONSTANTS
  Calls,              \* concurrent users of the breaker
  FailureThreshold,   \* failureThreshold
  ResetTimeout,       \* resetTimeoutMs, in ticks
  SuccessThreshold,   \* successThreshold
  FailureCap          \* bound: the failure counter saturates here

ASSUME BreakerAssumption ==
  /\ FailureThreshold \in Nat \ {0}
  /\ ResetTimeout \in Nat \ {0}
  /\ SuccessThreshold \in Nat \ {0}
  /\ FailureCap \in Nat /\ FailureCap >= FailureThreshold

VARIABLES
  state, failures, successes,
  elapsed,       \* now() - openedAt, saturated
  running,       \* calls awaiting fn()
  trials,        \* those of them that started in HALF_OPEN
  healthy,       \* whether the dependency works
  doomed,        \* running calls that overlapped an outage, so may fail
  streak,        \* history: failed results since the last success or reset
  wins,          \* history: successes since HALF_OPEN was entered
  sinceOpened    \* history: ticks since the breaker last became OPEN

counters == <<state, failures, successes, elapsed>>
calls    == <<running, trials, doomed>>
history  == <<streak, wins, sinceOpened>>
vars     == <<counters, calls, healthy, history>>

Saturate(n, top) == IF n > top THEN top ELSE n
-----------------------------------------------------------------------------
(* Mutant of Cooled: the cool-down ends a tick early.                       *)
CooledEarly == elapsed + 1 >= ResetTimeout

Cooled == elapsed >= ResetTimeout

(* currentState(): reading the state may itself move OPEN to HALF_OPEN.     *)
CurrentState == IF state = "OPEN" /\ Cooled THEN "HALF_OPEN" ELSE state

(* Mutant of Observe: successes is not reset on half-opening.               *)
ObserveKeepsSuccesses ==
  /\ state' = CurrentState
  /\ wins' = IF state = "OPEN" /\ Cooled THEN 0 ELSE wins
  /\ UNCHANGED <<failures, successes, elapsed, streak, sinceOpened>>

Observe ==
  /\ state' = CurrentState
  /\ successes' = IF state = "OPEN" /\ Cooled THEN 0 ELSE successes
  /\ wins' = IF state = "OPEN" /\ Cooled THEN 0 ELSE wins
  /\ UNCHANGED <<failures, elapsed, streak, sinceOpened>>

(* The status getter. *)
ReadStatus == Observe /\ UNCHANGED <<calls, healthy>>

(* Mutant of Start: execute() reads this.state, not currentState().         *)
StartOnStoredState(c) ==
  /\ c \notin running /\ state # "OPEN"
  /\ running' = running \cup {c}
  /\ trials' = IF state = "HALF_OPEN" THEN trials \cup {c} ELSE trials
  /\ doomed' = IF healthy THEN doomed ELSE doomed \cup {c}
  /\ UNCHANGED <<counters, history, healthy>>

(* execute() up to `await fn()`; while OPEN it throws and changes nothing.  *)
Start(c) ==
  /\ c \notin running
  /\ CurrentState # "OPEN"
  /\ Observe
  /\ running' = running \cup {c}
  /\ trials' = IF CurrentState = "HALF_OPEN" THEN trials \cup {c} ELSE trials
  /\ doomed' = IF healthy THEN doomed ELSE doomed \cup {c}
  /\ UNCHANGED healthy

Leave(c) ==
  /\ c \in running
  /\ running' = running \ {c} /\ trials' = trials \ {c} /\ doomed' = doomed \ {c}

(* Mutant of Succeed: a success while CLOSED leaves failures alone.         *)
SucceedKeepsFailures(c) ==
  /\ Leave(c)
  /\ IF state = "HALF_OPEN"
     THEN LET closes == successes + 1 >= SuccessThreshold
          IN  /\ successes' = successes + 1
              /\ state' = IF closes THEN "CLOSED" ELSE state
              /\ failures' = IF closes THEN 0 ELSE failures
     ELSE UNCHANGED <<state, failures, successes>>
  /\ streak' = 0
  /\ wins' = Saturate(wins + 1, SuccessThreshold)
  /\ UNCHANGED <<elapsed, sinceOpened, healthy>>

(* onSuccess(): state is read as it is, the cool-down is not consulted.     *)
Succeed(c) ==
  /\ Leave(c)
  /\ IF state = "HALF_OPEN"
     THEN LET closes == successes + 1 >= SuccessThreshold
          IN  /\ successes' = successes + 1
              /\ state' = IF closes THEN "CLOSED" ELSE state
              /\ failures' = IF closes THEN 0 ELSE failures
     ELSE failures' = 0 /\ UNCHANGED <<state, successes>>
  /\ streak' = 0
  /\ wins' = Saturate(wins + 1, SuccessThreshold)
  /\ UNCHANGED <<elapsed, sinceOpened, healthy>>

(* Mutant of Fail: the threshold is compared with >.                        *)
FailOffByOne(c) ==
  /\ Leave(c) /\ c \in doomed
  /\ failures' = Saturate(failures + 1, FailureCap)
  /\ LET trips == state = "HALF_OPEN" \/ failures + 1 > FailureThreshold
     IN  /\ state' = IF trips THEN "OPEN" ELSE state
         /\ elapsed' = IF trips THEN 0 ELSE elapsed
         /\ sinceOpened' = IF trips /\ state # "OPEN" THEN 0 ELSE sinceOpened
  /\ streak' = Saturate(streak + 1, FailureCap)
  /\ wins' = 0
  /\ UNCHANGED <<successes, healthy>>

(* onFailure() *)
Fail(c) ==
  /\ Leave(c) /\ c \in doomed
  /\ failures' = Saturate(failures + 1, FailureCap)
  /\ LET trips == state = "HALF_OPEN" \/ failures + 1 >= FailureThreshold
     IN  /\ state' = IF trips THEN "OPEN" ELSE state
         /\ elapsed' = IF trips THEN 0 ELSE elapsed
         /\ sinceOpened' = IF trips /\ state # "OPEN" THEN 0 ELSE sinceOpened
  /\ streak' = Saturate(streak + 1, FailureCap)
  /\ wins' = 0
  /\ UNCHANGED <<successes, healthy>>

Reset ==
  /\ state' = "CLOSED" /\ failures' = 0 /\ successes' = 0
  /\ streak' = 0
  /\ UNCHANGED <<elapsed, calls, healthy, wins, sinceOpened>>

Tick ==
  /\ elapsed < ResetTimeout \/ sinceOpened < ResetTimeout
  /\ elapsed' = Saturate(elapsed + 1, ResetTimeout)
  /\ sinceOpened' = Saturate(sinceOpened + 1, ResetTimeout)
  /\ UNCHANGED <<state, failures, successes, calls, healthy, streak, wins>>

(* The dependency goes down, taking the calls in flight with it, and comes  *)
(* back.                                                                   *)
Outage ==
  /\ healthy
  /\ healthy' = FALSE /\ doomed' = running
  /\ UNCHANGED <<counters, running, trials, history>>

Repair ==
  /\ ~healthy
  /\ healthy' = TRUE
  /\ UNCHANGED <<counters, calls, history>>

Init ==
  /\ state = "CLOSED" /\ failures = 0 /\ successes = 0
  /\ elapsed = ResetTimeout
  /\ running = {} /\ trials = {} /\ doomed = {} /\ healthy = TRUE
  /\ streak = 0 /\ wins = 0 /\ sinceOpened = ResetTimeout

Next ==
  \/ \E c \in Calls : Start(c) \/ Succeed(c) \/ Fail(c)
  \/ ReadStatus \/ Reset \/ Tick \/ Outage \/ Repair

Spec == Init /\ [][Next]_vars
-----------------------------------------------------------------------------
States == {"CLOSED", "OPEN", "HALF_OPEN"}

(* Counters stay within their thresholds' range, and only running calls     *)
(* count as trials or as doomed.                                            *)
TypeOK ==
  /\ state \in States
  /\ failures \in 0 .. FailureCap
  /\ successes \in 0 .. SuccessThreshold
  /\ elapsed \in 0 .. ResetTimeout
  /\ running \subseteq Calls /\ trials \subseteq running
  /\ doomed \subseteq running
  /\ healthy \in BOOLEAN
  /\ streak \in 0 .. FailureCap
  /\ wins \in 0 .. SuccessThreshold
  /\ sinceOpened \in 0 .. ResetTimeout

(* A CLOSED breaker has not just seen FailureThreshold failures in a row,   *)
(* in whatever order the results of concurrent and stale calls came back.   *)
ClosedWhileTolerable == state = "CLOSED" => streak < FailureThreshold

(* It leaves CLOSED for OPEN on exactly the failure that completes a run of *)
(* FailureThreshold: results of calls that began before an earlier trip do  *)
(* not make it trip early, nor let it overlook a failure.                   *)
TripsAtThreshold ==
  [][state = "CLOSED" /\ state' = "OPEN" => streak' = FailureThreshold]_vars

(* From HALF_OPEN it closes only after SuccessThreshold successes since the *)
(* cool-down ended, with no failure between them.                           *)
ClosesAfterSuccesses ==
  [][state = "HALF_OPEN" /\ state' = "CLOSED"
       => wins' = SuccessThreshold \/ Reset]_vars

(* Having opened it refuses calls for the whole reset timeout; late results *)
(* may prolong the cool-down, never shorten it.                             *)
StaysOpen ==
  [][state = "OPEN" /\ (state' = "HALF_OPEN" \/ running' \ running # {})
       => sinceOpened = ResetTimeout]_vars

(* Once the dependency works again for good the breaker closes for good:    *)
(* stale failures and restarted cool-downs cannot keep it open.             *)
Recovers == <>[]healthy => <>[](state = "CLOSED")

(* "A single trial call is allowed once the cool-down elapses"              *)
(* (circuit-breaker.ts).                                                    *)
SingleTrial == state = "HALF_OPEN" => Cardinality(trials) <= 1
=============================================================================
