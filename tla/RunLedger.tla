----------------------------- MODULE RunLedger -----------------------------
(***************************************************************************)
(* What schedule_runs promises its readers (the run history and the queue  *)
(* of the admin API): one row per attempt, which starts once, is closed    *)
(* once with an outcome, and is never reopened or rewritten afterwards;    *)
(* only deleting its schedule removes it.                                  *)
(***************************************************************************)
EXTENDS Integers, Sequences

VARIABLE row   \* status of the row of each attempt, "none" before the insert

Init == row = <<>>

Plan ==
  /\ Len(row') > Len(row)
  /\ \A i \in DOMAIN row : row'[i] = row[i]
  /\ \A i \in Len(row) + 1 .. Len(row') : row'[i] = "none"

Begin(i) ==
  /\ row[i] = "none"
  /\ row' = [row EXCEPT ![i] = "running"]

Close(i) ==
  /\ row[i] = "running"
  /\ \E outcome \in {"completed", "failed"} : row' = [row EXCEPT ![i] = outcome]

Purge ==
  /\ DOMAIN row' = DOMAIN row
  /\ \A i \in DOMAIN row :
       row'[i] # row[i] => row[i] # "none" /\ row'[i] = "deleted"

Next == Plan \/ Purge \/ \E i \in DOMAIN row : Begin(i) \/ Close(i)

Spec == Init /\ [][Next]_row
=============================================================================
