---------------------------- MODULE MCScheduler ----------------------------
(* Scheduler.tla on small thread tables.                                   *)
EXTENDS SchedulerProps

Yielding == {"worker", "returning"}
Hogging  == {"busy"}
=============================================================================
