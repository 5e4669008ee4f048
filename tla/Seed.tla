-------------------------------- MODULE Seed --------------------------------
(***************************************************************************)
(* apps/api/prisma/seed.ts, which may be interrupted at any await and run   *)
(* again.  Each part of the demo data is a number of rows written one by    *)
(* one: "keyed" parts upsert every row; a "checked" part is skipped as a    *)
(* whole when its look at the database finds its first row.                 *)
(***************************************************************************)
EXTENDS Integers, Sequences

CONSTANTS
  Rows,    \* how many rows each part has
  MaxRuns  \* bound: runs of the seed

(* The parts, in the order main() seeds them.  The audit entry at the end   *)
(* of every run is an append of its own (Records).                          *)
Parts ==
  <<"compliance", "instruments", "client", "users", "portfolio", "access",
    "positions", "history", "watchlist", "strategy1", "strategy2", "strategy3">>

(* Those written with upsert only.                                          *)
Keyed == {"compliance", "instruments", "client", "users", "access"}
Names == {Parts[i] : i \in DOMAIN Parts}

ASSUME SeedAssumption == Rows \in [Names -> Nat \ {0}] /\ MaxRuns \in Nat

VARIABLES
  stored,   \* rows of each part in the database
  at,       \* the part the running seed is at; 0 when none runs
  next,     \* the row of it to write, 0 before the part's check
  runs,
  finished, \* history: a run came to its end
  cut       \* history: parts inside which a run was interrupted

seedVars == <<stored, at, next, runs, finished, cut>>
Part     == Parts[at]
-----------------------------------------------------------------------------
StartSeed ==
  /\ at = 0 /\ runs < MaxRuns
  /\ runs' = runs + 1 /\ at' = 1 /\ next' = 0
  /\ UNCHANGED <<stored, finished, cut>>

GoOn ==
  /\ at' = IF at = Len(Parts) THEN 0 ELSE at + 1
  /\ next' = 0
  /\ finished' = (finished \/ at = Len(Parts))

(* Mutant of Present: snapshots are looked for among the positions.         *)
PresentIfPositions(p) ==
  p \notin Keyed /\ stored[IF p = "history" THEN "positions" ELSE p] > 0

(* seedPortfolio, seedPositions, seedHistory, seedWatchlist, seedStrategies *)
Present(p) == p \notin Keyed /\ stored[p] > 0

CheckPart ==
  /\ at # 0 /\ next = 0
  /\ IF Present(Part) THEN GoOn ELSE next' = 1 /\ UNCHANGED <<at, finished>>
  /\ UNCHANGED <<stored, runs, cut>>

(* One upsert or create; rows are written in the same order by every run.   *)
SeedRow ==
  /\ at # 0 /\ next # 0
  /\ stored' = [stored EXCEPT ![Part] = IF Part \in Keyed /\ @ >= next THEN @ ELSE @ + 1]
  /\ IF next = Rows[Part] THEN GoOn ELSE next' = next + 1 /\ UNCHANGED <<at, finished>>
  /\ UNCHANGED <<runs, cut>>

(* The process ends, or a statement throws: `Seed failed`.                  *)
Interrupted ==
  /\ at # 0
  /\ at' = 0 /\ next' = 0
  /\ cut' = IF next > 1 THEN cut \cup {Part} ELSE cut
  /\ UNCHANGED <<stored, runs, finished>>

SeedInit ==
  /\ stored = [p \in Names |-> 0]
  /\ at = 0 /\ next = 0 /\ runs = 0 /\ finished = FALSE /\ cut = {}

SeedNext == StartSeed \/ CheckPart \/ SeedRow \/ Interrupted
SeedSpec == SeedInit /\ [][SeedNext]_seedVars
-----------------------------------------------------------------------------
(* "Safe to re-run": whatever was interrupted and run again, a run that     *)
(* ends leaves every part written once - except a checked part inside which *)
(* an earlier run was interrupted, which no later run completes.            *)
CompleteUnlessCut ==
  /\ \A p \in Names : stored[p] <= Rows[p]
  /\ finished => \A p \in Names : stored[p] = Rows[p] \/ (p \in cut /\ p \notin Keyed)
=============================================================================
