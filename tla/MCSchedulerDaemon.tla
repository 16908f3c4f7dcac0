------------------------- MODULE MCSchedulerDaemon -------------------------
(* Small instances of SchedulerDaemon: values for its constants. *)
EXTENDS SchedulerDaemon

CONSTANTS s1, s2

Two == {s1, s2}
One == {s1}
NoneSeeded == {}

\* s1 sorts before s2.
Keyed == [s \in Schedules |-> IF s = s1 THEN 1 ELSE 2]
SameKey == [s \in Schedules |-> 0]

NoRetries == [s \in Schedules |-> 0]
OneRetry == [s \in Schedules |-> IF s = s1 THEN 1 ELSE 0]

Budget(fire, stop, crash, fault, edit, manual) ==
  [e \in EnvEvents |->
     CASE e = "fire" -> fire [] e = "stop" -> stop [] e = "crash" -> crash
       [] e = "fault" -> fault [] e = "edit" -> edit [] e = "manual" -> manual]

\* Two schedules: a firing, a manual trigger, a shutdown and a fault, in any order.
Faults == Budget(1, 1, 0, 1, 0, 1)
\* One schedule that is created, edited and deleted around a crash and a fault.
Restarts == Budget(1, 0, 1, 1, 2, 1)
\* Two firings and a shutdown, for what must eventually happen.
Progress == Budget(2, 1, 0, 0, 0, 0)

\* One schedule that is created while the daemon is up.
EditOnly == Budget(0, 0, 0, 0, 1, 0)
=============================================================================
