---------------------------- MODULE PlanLifecycle ----------------------------
(***************************************************************************)
(* What a work plan promises: "Lifecycle: draft -> approved -> running ->  *)
(* completed | failed | cancelled" (class WorkPlan), where a plan may be   *)
(* cancelled before it runs as well.  A status leaves the life cycle only  *)
(* when a writer overwrites one it has not read.                           *)
(***************************************************************************)
CONSTANT Plans

VARIABLES
  status,  \* status of each plan
  raced    \* a writer has overwritten a status it had not read

vars == <<status, raced>>

Status == {"none", "draft", "approved", "running", "completed", "failed", "cancelled"}

Lifecycle ==
  {<<"none", "draft">>, <<"draft", "approved">>, <<"approved", "running">>}
  \cup {"running"} \X {"completed", "failed", "cancelled"}
  \cup {"draft", "approved"} \X {"cancelled"}

Init ==
  /\ status = [p \in Plans |-> "none"]
  /\ raced = FALSE

\* The plan moves on in its life.
Move(p) ==
  /\ \E s \in Status : <<status[p], s>> \in Lifecycle /\ status' = [status EXCEPT ![p] = s]
  /\ UNCHANGED raced

\* A writer sets the status it decided on before another writer set the present one.
Overwrite(p) ==
  /\ raced' = TRUE
  /\ \E s \in {"approved", "running", "cancelled"} : status' = [status EXCEPT ![p] = s]

Next == \E p \in Plans : Move(p) \/ Overwrite(p)

Spec == Init /\ [][Next]_vars
=============================================================================
