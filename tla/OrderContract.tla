---------------------------- MODULE OrderContract ----------------------------
(***************************************************************************)
(* What a venue promises about the orders it accepted, whatever its         *)
(* matching engine does: the BrokerOrder a caller polls (broker/types.ts)   *)
(* reports statuses that follow the shared transition table, its filled     *)
(* quantity only grows and never passes the requested one, and once it is   *)
(* terminal nothing about it changes again.  A simulated venue may lose     *)
(* every order at once (restart), never one of them.                        *)
(***************************************************************************)
EXTENDS Integers, OrderLifecycle

CONSTANT Orders            \* identities of broker orders

VARIABLES status,          \* "NONE" until the venue knows the order
          requested,       \* requestedQty
          filled           \* filledQty

vars == <<status, requested, filled>>

Unknown == [o \in Orders |-> "NONE"]
Zero    == [o \in Orders |-> 0]

TypeOK ==
  /\ status \in [Orders -> OrderStatuses \cup {"NONE"}]
  /\ requested \in [Orders -> Nat]
  /\ filled \in [Orders -> Nat]

Init == status = Unknown /\ requested = Zero /\ filled = Zero

(* The venue takes an order in: resting, or refused by a pre-trade check. *)
Accept(o) ==
  /\ status[o] = "NONE"
  /\ requested'[o] \in Nat
  /\ requested' = [requested EXCEPT ![o] = requested'[o]]
  /\ \E s \in {"SUBMITTED", "REJECTED"} : status' = [status EXCEPT ![o] = s]
  /\ filled' = [filled EXCEPT ![o] = 0]

(* What the new status says about the quantity done so far. *)
Consistent(s, done, wanted) ==
  /\ s = "FILLED"           => done = wanted
  /\ s = "REJECTED"         => done = 0
  /\ s = "PARTIALLY_FILLED" => 0 < done /\ done < wanted

(* A new report: status along the table, quantity upwards. *)
Report(o) ==
  /\ status[o] # "NONE"
  /\ filled'[o] \in filled[o] .. requested[o]
  /\ filled' = [filled EXCEPT ![o] = filled'[o]]
  /\ \E s \in OrderTransitions[status[o]] :
       /\ Consistent(s, filled'[o], requested[o])
       /\ status' = [status EXCEPT ![o] = s]
  /\ UNCHANGED requested

(* The process restarts: the book is empty again. *)
Forget == status' = Unknown /\ requested' = Zero /\ filled' = Zero

Next == Forget \/ \E o \in Orders : Accept(o) \/ Report(o)

Spec == Init /\ [][Next]_vars
=============================================================================
