---------------------------- MODULE MCScheduler ----------------------------
(* Instances of Scheduler for TLC.                                         *)
EXTENDS Scheduler

CONSTANTS j1, j2

\* j1 retries once, like ServerHealthCheckJob; j2 does not, like LogCleanupJob.
Attempts == [j \in Jobs |-> IF j = j1 THEN 2 ELSE 1]
=============================================================================
