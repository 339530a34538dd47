-------------------------- MODULE ScheduledCheckinMC --------------------------
(* ScheduledCheckin for TLC.  Its run has a liveness property, so it takes no  *)
(* symmetry.                                                                 *)
EXTENDS ScheduledCheckin

AllFaults == {"fetch", "failed", "database", "redis", "crash"}

=============================================================================
