----------------------------- MODULE MCPlatform -----------------------------
(***************************************************************************)
(* Small instances of the components that share no state with one another:  *)
(* a behaviour picks one of them and moves that one only, so the states are *)
(* the sum of theirs, not the product.                                      *)
(***************************************************************************)
EXTENDS MCSessions, Records, Valuation, Access, Seed

CONSTANTS r1, r2

VARIABLE part

partVars == <<sessionsVars, recordsVars, valuationVars, accessVars, seedVars, part>>

(* Two fields at once, and names that are taken, free or the row's own; one *)
(* of the patches writes what another also writes.                          *)
MCPatches ==
  {[executionMode |-> "FULL_AUTO", isActive |-> "no"],
   [name |-> "n1"], [name |-> "n2", isActive |-> "yes"]}

(* Fewer rows than seed.ts has.                                             *)
MCRows == [compliance |-> 3, instruments |-> 3, client |-> 1, users |-> 4, portfolio |-> 4,
           access |-> 2, positions |-> 3, history |-> 3, watchlist |-> 3,
           strategy1 |-> 2, strategy2 |-> 2, strategy3 |-> 2]

(* One initial state for each part that does not move.                      *)
Still(p) ==
  \/ part = p
  \/ CASE p = "sessions"  -> /\ mandatory
                             /\ [pageOf |-> pageOf, jarOf |-> jarOf] = CHOOSE l \in Layouts : TRUE
       [] p = "records"   -> part = "locks" \/ portfolio = [i \in Portfolios |-> NoRecord]
       [] p = "locks"     -> part # "records" \/ portfolio["p2"] = NoRecord
       [] p = "valuation" -> quoted /\ price = CHOOSE q \in Prices : TRUE
       [] p = "access"    -> \A u \in Users : role[u] = "ADMIN" /\ memberOf[u] = NoClient
       [] p = "seed"      -> TRUE

Components == {"sessions", "records", "locks", "valuation", "access", "seed"}

PlatformInit ==
  /\ part \in Components
  /\ SessionsInit /\ RecordsInit /\ ValuationInit /\ AccessInit /\ SeedInit
  /\ \A p \in Components : Still(p)

SessionsMove ==
  /\ part = "sessions" /\ SessionsNext
  /\ UNCHANGED <<recordsVars, valuationVars, accessVars, seedVars, part>>

(* One portfolio and a log that outgrows the horizon, or two portfolios and *)
(* a short log.                                                             *)
Within ==
  IF part = "records" THEN \A r \in Requests : tx[r].id # "p2"
  ELSE Len(auditLog) + Cardinality(Open) < MaxLog

RecordsMove ==
  /\ part \in {"records", "locks"} /\ RecordsNext
  /\ UNCHANGED <<sessionsVars, valuationVars, accessVars, seedVars, part>> /\ Within'

ValuationMove ==
  /\ part = "valuation" /\ ValuationNext
  /\ UNCHANGED <<sessionsVars, recordsVars, accessVars, seedVars, part>>

AccessMove ==
  /\ part = "access" /\ AccessNext
  /\ UNCHANGED <<sessionsVars, recordsVars, valuationVars, seedVars, part>>

SeedMove ==
  /\ part = "seed" /\ SeedNext
  /\ UNCHANGED <<sessionsVars, recordsVars, valuationVars, accessVars, part>>

PlatformNext ==
  SessionsMove \/ RecordsMove \/ ValuationMove \/ AccessMove \/ SeedMove

PlatformSpec == PlatformInit /\ [][PlatformNext]_partVars
=============================================================================
