---------------------------- MODULE MCMonitoring ----------------------------
(***************************************************************************)
(* Small instances of what operators watch the platform by: the health      *)
(* snapshots and the live dashboard.  They share no state: a behaviour is   *)
(* one of the one or one of the other.                                      *)
(***************************************************************************)
EXTENDS Health, LiveEvents

VARIABLE part

MonitoringInit ==
  /\ part \in {"health", "live"}
  /\ HealthInit /\ (part = "health" \/ redis = "unset")
  /\ LiveInit /\ (part = "live" \/ (admin /\ granted))

HealthMoves == part = "health" /\ HealthNext /\ UNCHANGED <<liveVars, part>>
LiveMoves   == part = "live" /\ LiveNext /\ UNCHANGED <<healthVars, part>>

MonitoringSpec ==
  /\ MonitoringInit
  /\ [][HealthMoves \/ LiveMoves]_<<healthVars, liveVars, part>>
  /\ part = "live" \/ HealthFairness
  /\ LiveFairness   \* disabled while no page is mounted
=============================================================================
