---------------------------- MODULE MCScheduler -----------------------------
(* Scheduler with the values its configurations give.                       *)
EXTENDS Scheduler
=============================================================================
