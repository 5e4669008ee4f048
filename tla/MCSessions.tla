----------------------------- MODULE MCSessions -----------------------------
(* One tab, two tabs of one browser, two browsers.                          *)
EXTENDS Sessions, TLC

CONSTANTS c1, c2, p1, p2, j1, j2

MCLayouts ==
  {[pageOf |-> c1 :> p1 @@ c2 :> p1, jarOf |-> p1 :> j1 @@ p2 :> j2],
   [pageOf |-> c1 :> p1 @@ c2 :> p2, jarOf |-> p1 :> j1 @@ p2 :> j1],
   [pageOf |-> c1 :> p1 @@ c2 :> p2, jarOf |-> p1 :> j1 @@ p2 :> j2]}

OneTab == {[pageOf |-> c1 :> p1, jarOf |-> p1 :> j1]}
=============================================================================
