---------------------------- MODULE MCDemoBroker ----------------------------
(* Small instances of DemoBroker for TLC.                                   *)
EXTENDS DemoBroker

Request(side, type, tif, qty, limit, stop) ==
  [symbol |-> "AAPL", side |-> side, type |-> type, tif |-> tif,
   qty |-> qty, limit |-> limit, stop |-> stop]

(* Two quotes: the cheap one is below the limits and stops used, the dear   *)
(* one above.                                                               *)
Cheap == [bid |-> 9990, ask |-> 10000]
Dear  == [bid |-> 12000, ask |-> 12011]
MCQuotes    == {Cheap, Dear}
MCLiquidity == [s \in {"AAPL"} |-> 2]

(* One order of every side, type and time in force, three lots where one    *)
(* slice offers two; and one too small to survive rounding.                 *)
EveryKind ==
  {Request(side, type, tif, 6, 10000, 11000) :
     side \in Sides, type \in OrderTypes, tif \in TimesInForce}
  \cup {Request("BUY", "MARKET", "GTC", 1, 0, 0)}

(* One buy of three lots and sells of two: buys compete for the cash, and   *)
(* both sells can rest at once.                                             *)
Competing ==
  {Request("BUY", "MARKET", "GTC", 6, 0, 0),
   Request("SELL", "LIMIT", "GTC", 4, 9995, 0)}

(* DAY orders that rest, trade or wait for their stop.                      *)
Resting ==
  {Request("BUY", "LIMIT", "DAY", 6, 10000, 0),
   Request("BUY", "STOP", "DAY", 2, 0, 11000),
   Request("BUY", "LIMIT", "GTC", 2, 10000, 0)}

KeySymmetry == Permutations(Keys)
=============================================================================
