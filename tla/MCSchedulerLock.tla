--------------------------- MODULE MCSchedulerLock ---------------------------
(* Small instances of SchedulerLock: three daemons.                         *)
EXTENDS SchedulerLock

CONSTANTS d1, d2, d3

Three == {d1, d2, d3}
=============================================================================
