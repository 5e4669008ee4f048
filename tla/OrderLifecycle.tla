--------------------------- MODULE OrderLifecycle ---------------------------
(***************************************************************************)
(* The order state machine every component shares:                         *)
(* packages/shared/src/lifecycle.ts and the OrderStatus enumeration of      *)
(* packages/shared/src/enums.ts.  Constant-level operators only, so that    *)
(* any module can extend it.                                               *)
(***************************************************************************)

OrderStatuses ==
  {"CREATED", "SUBMITTED", "ACKNOWLEDGED", "PARTIALLY_FILLED", "FILLED",
   "CANCEL_REQUESTED", "CANCELLED", "REJECTED", "EXPIRED", "UNKNOWN"}

TerminalOrderStatuses == {"FILLED", "CANCELLED", "REJECTED", "EXPIRED"}

IsTerminalOrderStatus(s) == s \in TerminalOrderStatuses

OrderTransitions ==
  [s \in OrderStatuses |->
     CASE s = "CREATED"          -> {"SUBMITTED", "REJECTED", "CANCELLED"}
       [] s = "SUBMITTED"        -> OrderStatuses \ {"CREATED", "SUBMITTED"}
       [] s = "ACKNOWLEDGED"     -> OrderStatuses \ {"CREATED", "SUBMITTED",
                                                     "ACKNOWLEDGED"}
       [] s = "PARTIALLY_FILLED" -> {"PARTIALLY_FILLED", "FILLED", "UNKNOWN",
                                     "CANCEL_REQUESTED", "CANCELLED", "EXPIRED"}
       [] s = "CANCEL_REQUESTED" -> {"CANCELLED", "FILLED", "PARTIALLY_FILLED",
                                     "REJECTED", "UNKNOWN"}
       [] s = "UNKNOWN"          -> {"ACKNOWLEDGED", "PARTIALLY_FILLED"}
                                      \cup TerminalOrderStatuses
       [] OTHER                  -> {}]

CanTransitionOrder(from, to) == to \in OrderTransitions[from]
=============================================================================
