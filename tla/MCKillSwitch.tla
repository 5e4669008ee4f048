---------------------------- MODULE MCKillSwitch ----------------------------
(* Small instances of KillSwitch: p1 trades on the demo broker, p2 has no   *)
(* adapter; the administrator reaches both, the manager p1.                 *)
EXTENDS KillSwitch

CONSTANTS p1, p2, admin, manager, g1, o1

MCScope == [e \in Operators |-> IF e = admin THEN Portfolios ELSE {p1}]
MCPortfolioOf == [o \in Orders |-> p1]
=============================================================================
