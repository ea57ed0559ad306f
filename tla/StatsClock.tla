----------------------------- MODULE StatsClock -----------------------------
(***************************************************************************)
(* Health together with the clocks HealthTracker::dueStats keeps to push   *)
(* the statistics of each device at an interval (src/hlt/health.cc).  They *)
(* are a table of their own, which only dueStats and clear change.         *)
(***************************************************************************)
EXTENDS Health

CONSTANT StatsInterval  \* statsPushIntervalMs, above 0

VARIABLE lastStatsAt    \* lastStatsAt_

StatsInit == Init /\ lastStatsAt = <<>>

(* The clock of a device seen for the first time only starts; the others'   *)
(* stay or, when their stats are due, start again.                          *)
Restamped ==
  [d \in DOMAIN lastStatsAt \cup DOMAIN devices |->
     IF /\ d \in DOMAIN lastStatsAt
        /\ (d \notin DOMAIN devices \/ tickNow - lastStatsAt[d] < StatsInterval)
     THEN lastStatsAt[d]
     ELSE tickNow]

StatsNext ==
  \/ DueStats /\ lastStatsAt' = Restamped
  \/ Clear /\ lastStatsAt' = <<>>
  \/ LeavesStats /\ UNCHANGED lastStatsAt

StatsSpec == StatsInit /\ [][StatsNext]_<<vars, lastStatsAt>>

(* The table of stats times is bounded like the ledger (ING-NFR-05).        *)
StatsClockBounded ==
  (ledgerLimit > 0 /\ ~reloading) => Cardinality(DOMAIN lastStatsAt) <= ledgerLimit

=============================================================================
