--------------------------- MODULE SupervisorProofs ---------------------------
(***************************************************************************)
(* Proofs about Supervisor: every override in force is accounted for in    *)
(* the log, and a repair logged as applied is in force as long as no two   *)
(* writers of the overrides have overlapped (RepairInv); the cost of a day *)
(* passes its cap only by the diagnoses in flight together, and the types  *)
(* (BudgetInv, which rests on RepairInv for the tasks); a row that stays   *)
(* running is paid for by a failure that no handler could see (LeftInv).   *)
(***************************************************************************)
EXTENDS Supervisor, SequenceTheorems, FiniteSetTheorems, WellFoundedInduction, TLAPS

Places == {"idle", "checked", "measured", "diagnosing", "deciding", "merging", "storing",
           "closing", "failing", "skipped", "done", "lost"}
Statuses == {"queued", "auto_applied", "manually_applied", "rejected"}
Applied == {"auto_applied", "manually_applied"}

\* Where a diagnosis has logged nothing yet.
Before == {"idle", "checked", "measured", "diagnosing", "deciding", "merging", "storing"}

Types ==
  /\ log \in [Diags -> Seq(Repair)]
  /\ overrides \in Overrides /\ selectors \in Overrides
  /\ lock \in Diags \cup {None}
  /\ task \in [Diags -> Task]
  /\ request \in [Requests -> Request]
  /\ stale \in BOOLEAN

\* Accounted, for the log l; every override of o has its row in l.
In(l, d, f) ==
  \E i \in DOMAIN l[d] :
    /\ l[d][i].field = f
    /\ l[d][i].selector
    /\ l[d][i].status \in {"auto_applied", "manually_applied", "rejected"}

AllIn(l, o) == \A f \in Fields : o[f] # None => In(l, o[f], f)

\* Only repairs of selectors are applied without asking, and none by hand.
Ready(repairs) ==
  \A i \in DOMAIN repairs : /\ IsAuto(repairs[i]) => repairs[i].selector
                            /\ repairs[i].status # "manually_applied"

AutoIn(repairs) == \E i \in DOMAIN repairs : IsAuto(repairs[i])

NothingLogged == \A d \in Diags : task[d].pc \in Before => log[d] = <<>>

\* What a diagnosis holds is fit to be written.
TasksReady == \A d \in Diags : Ready(task[d].repairs) /\ AllIn(log, task[d].snap)

\* So is what a request holds, and the repair it is about is there.
RequestsReady ==
  \A q \in Requests :
    /\ AllIn(log, request[q].snap)
    /\ request[q].pc \in {"queued", "merging"} =>
         request[q].diag \in Diags /\ request[q].index \in DOMAIN log[request[q].diag]

\* A diagnosis about to commit an applied repair has flushed it and holds the row's lock.
FlushedBeforeCommit ==
  \A d \in Diags :
    task[d].pc = "storing" /\ ~task[d].broken /\ AutoIn(task[d].repairs) => lock = d

\* The inductive invariant.
RepairInv ==
  /\ Types
  /\ NothingLogged /\ TasksReady /\ RequestsReady /\ FlushedBeforeCommit
  /\ OverridesAccounted
  /\ AppliedIsInForce

\* OverridesAccounted, now and after a step.
LEMMA AccountedIn ==
  /\ OverridesAccounted <=> AllIn(log, overrides) /\ AllIn(log, selectors)
  /\ OverridesAccounted' <=> AllIn(log', overrides') /\ AllIn(log', selectors')
  BY DEF OverridesAccounted, Accounted, AllIn, In

-----------------------------------------------------------------------------
(* Records *)

LEMMA GotoRecord ==
  ASSUME NEW t \in Task, NEW p \in Places
  PROVE  /\ [t EXCEPT !.pc = p] \in Task
         /\ [t EXCEPT !.pc = p].pc = p
         /\ [t EXCEPT !.pc = p].repairs = t.repairs
         /\ [t EXCEPT !.pc = p].snap = t.snap
         /\ [t EXCEPT !.pc = p].broken = t.broken
  BY DEF Task, Places

LEMMA StatusRecord ==
  ASSUME NEW r \in Repair, NEW s \in Statuses, NEW u,
         u = [r EXCEPT !.status = s]
  PROVE  u \in Repair /\ u.status = s /\ u.field = r.field /\ u.selector = r.selector
  BY DEF Repair, Statuses

-----------------------------------------------------------------------------
(* Steps of a diagnosis that log nothing *)

\* t, the next state of d, is fit to be written, and d gives or takes no lock but its own.
Fit(d, t) ==
  /\ t \in Task
  /\ t.pc \in Before => task[d].pc \in Before
  /\ Ready(t.repairs)
  /\ t.snap \in {task[d].snap, overrides}
  /\ t.pc = "storing" /\ ~t.broken /\ AutoIn(t.repairs) => lock' = d
  /\ lock' \in Diags \cup {None}
  /\ \A e \in Diags \ {d} : lock = e => lock' = e

Writes == <<log, overrides, selectors, request, stale>>

LEMMA TaskMoves ==
  ASSUME RepairInv, NEW d \in Diags, NEW t, Fit(d, t), task' = [task EXCEPT ![d] = t],
         UNCHANGED Writes
  PROVE  RepairInv'
<1>1. Types'
  BY DEF RepairInv, Types, Fit, Writes
<1>2. \A e \in Diags : task'[e] = IF e = d THEN t ELSE task[e]
  BY DEF RepairInv, Types
<1>3. NothingLogged'
  BY <1>2 DEF RepairInv, NothingLogged, Fit, Writes
<1>4. AllIn(log, overrides) /\ AllIn(log, task[d].snap) /\ log' = log
  BY AccountedIn DEF RepairInv, TasksReady, Writes
<1>5. TasksReady'
  BY <1>2, <1>4 DEF RepairInv, TasksReady, Fit
<1>6. RequestsReady'
  BY DEF RepairInv, RequestsReady, Writes
<1>7. FlushedBeforeCommit'
  BY <1>2 DEF RepairInv, FlushedBeforeCommit, Fit
<1>8. OverridesAccounted' /\ AppliedIsInForce'
  BY DEF RepairInv, OverridesAccounted, Accounted, AppliedIsInForce, Writes
<1> QED BY <1>1, <1>3, <1>5, <1>6, <1>7, <1>8 DEF RepairInv

\* A task that only goes to p.
LEMMA GotoMoves ==
  ASSUME RepairInv, NEW d \in Diags, NEW p \in Places, Goto(d, p), UNCHANGED Writes,
         p \in Before => task[d].pc \in Before,
         p = "storing" /\ ~task[d].broken /\ AutoIn(task[d].repairs) => lock' = d,
         lock' \in Diags \cup {None},
         \A e \in Diags \ {d} : lock = e => lock' = e
  PROVE  RepairInv'
<1>1. PICK t : t = [task[d] EXCEPT !.pc = p]
  OBVIOUS
<1>2. task[d] \in Task /\ Ready(task[d].repairs)
  BY DEF RepairInv, Types, TasksReady
<1>3. t \in Task /\ t.pc = p /\ t.repairs = task[d].repairs /\ t.snap = task[d].snap
      /\ t.broken = task[d].broken
  BY <1>1, <1>2, GotoRecord
<1>4. task' = [task EXCEPT ![d] = t]
  BY <1>1 DEF Goto
<1>5. Fit(d, t)
  BY <1>2, <1>3 DEF Fit
<1> QED BY <1>4, <1>5, TaskMoves

\* A task that goes to a place before or after the commit and leaves the lock alone.
LEMMA GotoElsewhere ==
  ASSUME RepairInv, NEW d \in Diags, NEW p \in Places \ {"storing"}, Goto(d, p),
         UNCHANGED <<Writes, lock>>, p \in Before => task[d].pc \in Before
  PROVE  RepairInv'
<1>1. lock' \in Diags \cup {None} /\ lock' = lock /\ UNCHANGED Writes
  BY DEF RepairInv, Types
<1>2. p # "storing" /\ p \in Places
  OBVIOUS
<1> QED BY <1>1, <1>2, GotoMoves

LEMMA CheckKeeps == ASSUME RepairInv, NEW d \in Diags, Check(d) PROVE RepairInv'
<1>1. PICK p \in {"checked", "skipped"} : Goto(d, p)
  BY DEF Check
<1>2. task[d].pc \in Before /\ UNCHANGED <<Writes, lock>>
  BY DEF Check, Before, Writes
<1>3. p \in Places \ {"storing"}
  BY DEF Places
<1> QED BY <1>1, <1>2, <1>3, GotoElsewhere

LEMMA CheckQualityKeeps == ASSUME RepairInv, NEW d \in Diags, CheckQuality(d) PROVE RepairInv'
<1>1. PICK b \in BOOLEAN, p \in {"measured"} :
        task' = [task EXCEPT ![d] = [task[d] EXCEPT !.pc = p, !.degraded = b]]
  BY DEF CheckQuality
<1>2. PICK t : t = [task[d] EXCEPT !.pc = p, !.degraded = b]
  OBVIOUS
<1>3. task[d] \in Task /\ Ready(task[d].repairs) /\ p \in Places /\ p # "storing"
  BY DEF RepairInv, Types, TasksReady, Places
<1>4. t \in Task /\ t.pc = p /\ t.repairs = task[d].repairs /\ t.snap = task[d].snap
  BY <1>2, <1>3 DEF Task, Places
<1>5. task[d].pc \in Before /\ UNCHANGED <<Writes, lock>> /\ lock' \in Diags \cup {None}
  BY DEF CheckQuality, Before, Writes, RepairInv, Types
<1>6. Fit(d, t)
  BY <1>3, <1>4, <1>5 DEF Fit
<1> QED BY <1>1, <1>2, <1>5, <1>6, TaskMoves

LEMMA SimpleStepsKeep ==
  ASSUME RepairInv, NEW d \in Diags,
         \/ OpenRun(d) \/ OpenRunFails(d) \/ QualityIsFine(d) \/ CaptureFails(d)
         \/ CloseRun(d) \/ CloseFails(d) \/ FailRun(d) \/ FailRunFails(d)
  PROVE  RepairInv'
<1>1. UNCHANGED <<Writes, lock>>
  BY DEF OpenRun, OpenRunFails, QualityIsFine, CaptureFails, CloseRun, CloseFails, FailRun,
         FailRunFails, Writes
<1>2. \/ Goto(d, "diagnosing") /\ task[d].pc \in Before
      \/ Goto(d, "closing") \/ Goto(d, "done") \/ Goto(d, "failing") \/ Goto(d, "lost")
  BY DEF OpenRun, OpenRunFails, QualityIsFine, CaptureFails, CloseRun, CloseFails, FailRun,
         FailRunFails, Before
<1>3. PICK p \in {"diagnosing", "closing", "done", "failing", "lost"} :
        Goto(d, p) /\ (p = "diagnosing" => task[d].pc \in Before)
  BY <1>2
<1>4. p \in Places \ {"storing"} /\ (p \in Before => task[d].pc \in Before)
  BY <1>3 DEF Places, Before
<1> QED BY <1>1, <1>3, <1>4, GotoElsewhere

LEMMA AnalysisFailsKeeps == ASSUME RepairInv, NEW d \in Diags, AnalysisFails(d) PROVE RepairInv'
<1>1. PICK b \in BOOLEAN, p \in {"failing"} :
        task' = [task EXCEPT ![d] = [task[d] EXCEPT !.pc = p, !.called = b]]
  BY DEF AnalysisFails
<1>2. PICK t : t = [task[d] EXCEPT !.pc = p, !.called = b]
  OBVIOUS
<1>3. task[d] \in Task /\ Ready(task[d].repairs) /\ p \in Places /\ p # "storing" /\ p \notin Before
  BY DEF RepairInv, Types, TasksReady, Places, Before
<1>4. t \in Task /\ t.pc = p /\ t.repairs = task[d].repairs /\ t.snap = task[d].snap
  BY <1>2, <1>3 DEF Task, Places
<1>5. UNCHANGED <<Writes, lock>> /\ lock' \in Diags \cup {None}
  BY DEF AnalysisFails, Writes, RepairInv, Types
<1>6. Fit(d, t)
  BY <1>3, <1>4, <1>5 DEF Fit
<1> QED BY <1>1, <1>2, <1>5, <1>6, TaskMoves

Verdicts(s) ==
  [i \in DOMAIN s |-> [field |-> s[i].field, selector |-> s[i].selector, status |-> Verdict(s[i])]]

\* The repairs made of a list of suggestions are repairs, and applied only for a selector.
LEMMA VerdictsReady ==
  ASSUME NEW s \in Suggestions
  PROVE  Verdicts(s) \in Seq(Repair) /\ Ready(Verdicts(s))
<1> DEFINE r == Verdicts(s)
<1> DEFINE S == [field : Fields, confidence : Nat, selector : BOOLEAN]
<1>1. s \in Seq(S)
  BY SuggestionsAssumption
<1>2. \A i \in DOMAIN s : s[i] \in S
  <2> HIDE DEF S, r
  <2> QED BY <1>1, ElementOfSeq
<1>3. \A i \in DOMAIN s : /\ Verdict(s[i]) \in {"auto_applied", "queued", "rejected"}
                          /\ Verdict(s[i]) = "auto_applied" => s[i].selector
  BY DEF Verdict
<1>4. \A i \in DOMAIN s : r[i] \in Repair
  BY <1>2, <1>3 DEF Repair, Verdicts
<1>5. Len(s) \in Nat /\ DOMAIN s = 1 .. Len(s)
  BY <1>1
<1>6. r \in [1 .. Len(s) -> Repair]
  BY <1>4, <1>5 DEF Verdicts
<1>7. r \in Seq(Repair)
  BY <1>5, <1>6
<1>8. Ready(r)
  BY <1>3 DEF Ready, IsAuto, Verdicts
<1> QED BY <1>7, <1>8

LEMMA AnalyseKeeps == ASSUME RepairInv, NEW d \in Diags, Analyse(d) PROVE RepairInv'
<1>1. PICK s \in Suggestions, b \in {TRUE}, p \in {"closing", "deciding"} :
        task' = [task EXCEPT ![d] = [task[d] EXCEPT !.called = b, !.repairs = Verdicts(s), !.pc = p]]
  BY DEF Analyse, Verdicts
<1>2. PICK r, t : r = Verdicts(s) /\ t = [task[d] EXCEPT !.called = b, !.repairs = r, !.pc = p]
  OBVIOUS
<1>3. r \in Seq(Repair) /\ Ready(r)
  BY <1>2, VerdictsReady
<1>4. task[d] \in Task /\ p \in Places /\ p # "storing" /\ b \in BOOLEAN
  BY DEF RepairInv, Types, Places
<1>5. t \in Task /\ t.pc = p /\ t.repairs = r /\ t.snap = task[d].snap
  BY <1>2, <1>3, <1>4 DEF Task, Places
<1>6. task[d].pc \in Before /\ UNCHANGED <<Writes, lock>> /\ lock' \in Diags \cup {None}
  BY DEF Analyse, Before, Writes, RepairInv, Types
<1>7. Fit(d, t)
  BY <1>3, <1>4, <1>5, <1>6 DEF Fit
<1> QED BY <1>1, <1>2, <1>6, <1>7, TaskMoves

LEMMA ReadPortalKeeps == ASSUME RepairInv, NEW d \in Diags, ReadPortal(d) PROVE RepairInv'
<1>1. task[d].pc \in Before /\ UNCHANGED <<Writes, lock>> /\ lock' \in Diags \cup {None}
  BY DEF ReadPortal, Before, Writes, RepairInv, Types
<1>2. CASE HasAuto(d)
  <2>1. PICK p \in {"merging"} :
          task' = [task EXCEPT ![d] = [task[d] EXCEPT !.pc = p, !.snap = overrides]]
    BY <1>2 DEF ReadPortal
  <2>2. PICK t : t = [task[d] EXCEPT !.pc = p, !.snap = overrides]
    OBVIOUS
  <2>3. task[d] \in Task /\ overrides \in Overrides /\ Ready(task[d].repairs)
        /\ p \in Places /\ p # "storing"
    BY DEF RepairInv, Types, TasksReady, Places
  <2>4. t \in Task /\ t.pc = p /\ t.repairs = task[d].repairs /\ t.snap = overrides
    BY <2>2, <2>3 DEF Task, Places
  <2>5. Fit(d, t)
    BY <1>1, <2>3, <2>4 DEF Fit
  <2> QED BY <1>1, <2>1, <2>2, <2>5, TaskMoves
<1>3. CASE ~HasAuto(d)
  <2>1. PICK p \in {"storing"} : Goto(d, p)
    BY <1>3 DEF ReadPortal, Goto
  <2>2. p \in Places /\ ~AutoIn(task[d].repairs)
    BY <1>3 DEF Places, HasAuto, AutoIn
  <2>3. lock' = lock /\ UNCHANGED Writes
    BY <1>1
  <2> QED BY <1>1, <2>1, <2>2, <2>3, GotoMoves
<1> QED BY <1>2, <1>3

LEMMA FlushKeeps == ASSUME RepairInv, NEW d \in Diags, Flush(d) PROVE RepairInv'
<1>1. PICK p \in {"storing"} : Goto(d, p)
  BY DEF Flush
<1>2. p \in Places /\ task[d].pc \in Before /\ UNCHANGED Writes
  BY DEF Flush, Places, Before, Writes
<1>3. lock' = d /\ lock' \in Diags \cup {None} /\ \A e \in Diags : lock # e
  BY NoneAssumption DEF Flush
<1> QED BY <1>1, <1>2, <1>3, GotoMoves

LEMMA ApplyFailsKeeps == ASSUME RepairInv, NEW d \in Diags, ApplyFails(d) PROVE RepairInv'
<1>1. PICK b \in {TRUE}, p \in {"storing"} :
        task' = [task EXCEPT ![d] = [task[d] EXCEPT !.pc = p, !.broken = b]]
  BY DEF ApplyFails
<1>2. PICK t : t = [task[d] EXCEPT !.pc = p, !.broken = b]
  OBVIOUS
<1>3. task[d] \in Task /\ Ready(task[d].repairs) /\ p \in Places /\ b \in BOOLEAN
  BY DEF RepairInv, Types, TasksReady, Places
<1>4. t \in Task /\ t.pc = p /\ t.repairs = task[d].repairs /\ t.snap = task[d].snap /\ t.broken = b
  BY <1>2, <1>3 DEF Task, Places
<1>5. task[d].pc \in Before /\ UNCHANGED <<Writes, lock>> /\ lock' \in Diags \cup {None}
  BY DEF ApplyFails, Before, Writes, RepairInv, Types
<1>6. Fit(d, t)
  BY <1>3, <1>4, <1>5 DEF Fit
<1> QED BY <1>1, <1>2, <1>5, <1>6, TaskMoves

LEMMA CommitFailsKeeps == ASSUME RepairInv, NEW d \in Diags, CommitFails(d) PROVE RepairInv'
<1>1. PICK p \in {"failing"} : Goto(d, p)
  BY DEF CommitFails
<1>2. p \in Places /\ p # "storing" /\ p \notin Before /\ UNCHANGED Writes
  BY DEF CommitFails, Places, Before, Writes
<1>3. lock' \in Diags \cup {None} /\ \A e \in Diags \ {d} : lock = e => lock' = e
  BY DEF CommitFails, Unlock, RepairInv, Types
<1> QED BY <1>1, <1>2, <1>3, GotoMoves

-----------------------------------------------------------------------------
(* The commit of a diagnosis *)

LEMMA CommitRepairsKeeps == ASSUME RepairInv, NEW d \in Diags, CommitRepairs(d) PROVE RepairInv'
<1> DEFINE r == task[d].repairs
<1>1. /\ task[d].pc = "storing" /\ ~task[d].broken
      /\ log' = [log EXCEPT ![d] = r]
      /\ UNCHANGED <<selectors, request>>
  BY DEF CommitRepairs
<1>2. PICK p \in {"closing"} : Goto(d, p)
  BY DEF CommitRepairs
<1>3. PICK t : t = [task[d] EXCEPT !.pc = p] /\ task' = [task EXCEPT ![d] = t]
  BY <1>2 DEF Goto
<1>4. task[d] \in Task /\ Ready(r) /\ AllIn(log, task[d].snap) /\ task[d].snap \in Overrides
      /\ r \in Seq(Repair)
  BY DEF RepairInv, Types, TasksReady, Task
<1>5. t \in Task /\ t.pc = p /\ t.repairs = r /\ t.snap = task[d].snap /\ p \notin Before /\ p # "storing"
  <2>1. p \in Places /\ p \notin Before /\ p # "storing"
    BY DEF Places, Before
  <2> QED BY <1>3, <1>4, <2>1, GotoRecord
<1>6. \A e \in Diags : /\ task'[e] = IF e = d THEN t ELSE task[e]
                       /\ log'[e] = IF e = d THEN r ELSE log[e]
  BY <1>1, <1>3 DEF RepairInv, Types
<1>7. log[d] = <<>>
  BY <1>1 DEF RepairInv, NothingLogged, Before
<1>8. \A o \in Overrides : AllIn(log, o) => AllIn(log', o)
  <2>1. \A e \in Diags, f \in Fields : In(log, e, f) => In(log', e, f)
    BY <1>6, <1>7 DEF In
  <2> QED BY <2>1 DEF AllIn, Overrides
<1>9. AllIn(log', task[d].snap) /\ AllIn(log', overrides) /\ AllIn(log', selectors)
  BY <1>4, <1>8, AccountedIn DEF RepairInv, Types
<1>10. \A q \in Requests : AllIn(log', request[q].snap)
  BY <1>8 DEF RepairInv, Types, Request, RequestsReady
<1>11. \A e \in Diags : AllIn(log', task[e].snap)
  BY <1>8 DEF RepairInv, Types, Task, TasksReady
<1>12. \A i \in DOMAIN r : IsAuto(r[i]) => In(log', d, r[i].field)
  <2> SUFFICES ASSUME NEW i \in DOMAIN r, IsAuto(r[i]) PROVE In(log', d, r[i].field)
    OBVIOUS
  <2>1. log'[d] = r
    BY <1>6
  <2>2. r[i].selector /\ r[i].status \in {"auto_applied", "manually_applied", "rejected"}
    BY <1>4 DEF Ready, IsAuto
  <2> HIDE DEF r
  <2> QED BY <2>1, <2>2 DEF In
<1>13. AutoIn(r) => lock = d
  BY <1>1 DEF RepairInv, FlushedBeforeCommit
<1>14. /\ overrides' \in Overrides
       /\ AllIn(log', overrides')
       /\ \A f \in Fields : ~stale' /\ overrides[f] # None => overrides'[f] # None
       /\ \A i \in DOMAIN r : IsAuto(r[i]) => overrides'[r[i].field] # None
       /\ stale' \in BOOLEAN /\ (~stale' => ~stale)
       /\ lock' \in Diags \cup {None} /\ \A e \in Diags \ {d} : lock = e => lock' = e
  <2>1. CASE lock = d
    <3>1. /\ overrides' = Merge(task[d].snap, d, r)
          /\ stale' = (stale \/ overrides # task[d].snap)
          /\ lock' = None
      BY <2>1 DEF CommitRepairs
    <3>2. \A f \in Fields :
            overrides'[f] = IF \E i \in DOMAIN r : IsAuto(r[i]) /\ r[i].field = f THEN d
                            ELSE task[d].snap[f]
      BY <3>1 DEF Merge
    <3>3. overrides' \in Overrides
      BY <1>4, <3>1 DEF Merge, Overrides
    <3>4. AllIn(log', overrides')
      <4> SUFFICES ASSUME NEW f \in Fields, overrides'[f] # None PROVE In(log', overrides'[f], f)
        BY DEF AllIn
      <4>1. CASE \E i \in DOMAIN r : IsAuto(r[i]) /\ r[i].field = f
        BY <1>12, <3>2, <4>1
      <4>2. CASE ~ \E i \in DOMAIN r : IsAuto(r[i]) /\ r[i].field = f
        BY <1>9, <3>2, <4>2 DEF AllIn
      <4> QED BY <4>1, <4>2
    <3>5. \A f \in Fields : ~stale' /\ overrides[f] # None => overrides'[f] # None
      BY <3>1, <3>2, NoneAssumption
    <3>6. \A i \in DOMAIN r : IsAuto(r[i]) => overrides'[r[i].field] # None
      <4>1. \A i \in DOMAIN r : r[i] \in Repair
        <5> HIDE DEF r
        <5> QED BY <1>4, ElementOfSeq
      <4>2. \A i \in DOMAIN r : r[i].field \in Fields
        BY <4>1 DEF Repair
      <4> QED BY <3>2, <4>2, NoneAssumption
    <3> QED BY <2>1, <3>1, <3>3, <3>4, <3>5, <3>6 DEF RepairInv, Types
  <2>2. CASE lock # d
    <3>1. overrides' = overrides /\ stale' = stale /\ lock' = lock
      BY <2>2 DEF CommitRepairs
    <3>2. AllIn(log', overrides')
      BY <1>9, <3>1
    <3>3. \A i \in DOMAIN r : ~IsAuto(r[i])
      BY <1>13, <2>2 DEF AutoIn
    <3> QED BY <3>1, <3>2, <3>3 DEF RepairInv, Types
  <2> QED BY <2>1, <2>2
<1>15. Types'
  <2> HIDE DEF r
  <2> QED BY <1>1, <1>3, <1>4, <1>5, <1>14 DEF RepairInv, Types
<1>16. NothingLogged'
  BY <1>5, <1>6 DEF RepairInv, NothingLogged
<1>17. TasksReady'
  <2>1. \A e \in Diags : Ready(task'[e].repairs) /\ task'[e].snap = task[e].snap
    BY <1>4, <1>5, <1>6 DEF RepairInv, TasksReady
  <2> QED BY <1>11, <2>1 DEF TasksReady
<1>18. RequestsReady'
  <2>1. DOMAIN log[d] = {}
    BY <1>7
  <2>2. \A q \in Requests : request[q].pc \in {"queued", "merging"} =>
          request[q].diag \in Diags /\ request[q].index \in DOMAIN log'[request[q].diag]
    <3> HIDE DEF r
    <3> QED BY <1>6, <2>1 DEF RepairInv, RequestsReady
  <2> QED BY <1>1, <1>10, <2>2 DEF RequestsReady
<1>19. FlushedBeforeCommit'
  BY <1>5, <1>6, <1>14 DEF RepairInv, FlushedBeforeCommit
<1>20. OverridesAccounted'
  BY <1>1, <1>9, <1>14, AccountedIn
<1>21. AppliedIsInForce'
  <2> SUFFICES ASSUME NEW e \in Diags, NEW i \in DOMAIN log'[e], ~stale', log'[e][i].selector,
                      log'[e][i].status \in Applied
               PROVE  overrides'[log'[e][i].field] # None
    BY DEF AppliedIsInForce, Applied
  <2>1. CASE e = d
    <3>1. log'[e] = r /\ IsAuto(r[i])
      BY <1>4, <1>6, <2>1 DEF Ready, Applied, IsAuto
    <3> QED BY <1>14, <3>1
  <2>2. CASE e # d
    <3>1. log'[e] = log[e] /\ log[e] \in Seq(Repair) /\ i \in DOMAIN log[e]
      BY <1>6, <2>2 DEF RepairInv, Types
    <3>2. log[e][i] \in Repair
      BY <3>1, ElementOfSeq
    <3>3. overrides[log[e][i].field] # None
      BY <1>14, <3>1 DEF RepairInv, AppliedIsInForce, Applied
    <3>4. log[e][i].field \in Fields
      BY <3>2 DEF Repair
    <3> QED BY <1>14, <3>1, <3>3, <3>4
  <2> QED BY <2>1, <2>2
<1> QED BY <1>15, <1>16, <1>17, <1>18, <1>19, <1>20, <1>21 DEF RepairInv

-----------------------------------------------------------------------------
(* The status of a repair *)

\* The i-th repair of d gets status s.
StatusSet(d, i, s) == log' = [log EXCEPT ![d][i].status = s]

LEMMA StatusMoves ==
  ASSUME log \in [Diags -> Seq(Repair)],
         NEW d \in Diags, NEW i \in DOMAIN log[d], NEW s \in Statuses, StatusSet(d, i, s)
  PROVE  /\ log' \in [Diags -> Seq(Repair)]
         /\ \A e \in Diags : DOMAIN log'[e] = DOMAIN log[e] /\ (e # d => log'[e] = log[e])
         /\ \A e \in Diags : \A j \in DOMAIN log[e] :
              /\ log'[e][j].field = log[e][j].field
              /\ log'[e][j].selector = log[e][j].selector
              /\ log'[e][j].status = IF e = d /\ j = i THEN s ELSE log[e][j].status
<1>1. log[d] \in Seq(Repair) /\ log[d][i] \in Repair
  BY ElementOfSeq
<1>2. PICK u : u = [log[d][i] EXCEPT !.status = s]
  OBVIOUS
<1>3. u \in Repair /\ u.status = s /\ u.field = log[d][i].field /\ u.selector = log[d][i].selector
  BY <1>1, <1>2, StatusRecord
<1>4. PICK l : l = [log[d] EXCEPT ![i] = u]
  OBVIOUS
<1>5. l \in Seq(Repair) /\ DOMAIN l = DOMAIN log[d]
      /\ \A j \in DOMAIN log[d] : l[j] = IF j = i THEN u ELSE log[d][j]
  BY <1>1, <1>3, <1>4
<1>6. log' = [log EXCEPT ![d] = l]
  BY <1>2, <1>4 DEF StatusSet
<1>7. log' \in [Diags -> Seq(Repair)] /\ \A e \in Diags : log'[e] = IF e = d THEN l ELSE log[e]
  BY <1>5, <1>6
<1> QED BY <1>3, <1>5, <1>7

\* A status that does not take an override from its row.
LEMMA StatusKeepsRows ==
  ASSUME RepairInv,
         NEW d \in Diags, NEW i \in DOMAIN log[d], NEW s \in Applied \cup {"rejected"}, StatusSet(d, i, s)
  PROVE  \A o \in Overrides : AllIn(log, o) => AllIn(log', o)
<1>1. s \in Statuses /\ log \in [Diags -> Seq(Repair)]
  BY DEF Applied, Statuses, RepairInv, Types
<1>2. \A e \in Diags : DOMAIN log'[e] = DOMAIN log[e]
  BY <1>1, StatusMoves
<1>3. \A e \in Diags : \A j \in DOMAIN log[e] :
        /\ log'[e][j].field = log[e][j].field
        /\ log'[e][j].selector = log[e][j].selector
        /\ log'[e][j].status = IF e = d /\ j = i THEN s ELSE log[e][j].status
  BY <1>1, StatusMoves
<1>4. ASSUME NEW e \in Diags, NEW f \in Fields, In(log, e, f) PROVE In(log', e, f)
  <2>1. PICK j \in DOMAIN log[e] :
          /\ log[e][j].field = f /\ log[e][j].selector
          /\ log[e][j].status \in {"auto_applied", "manually_applied", "rejected"}
    BY <1>4 DEF In
  <2>2. j \in DOMAIN log'[e] /\ log'[e][j].field = f /\ log'[e][j].selector = log[e][j].selector
        /\ log'[e][j].status \in {"auto_applied", "manually_applied", "rejected"}
    BY <1>2, <1>3, <2>1 DEF Applied
  <2> QED BY <2>1, <2>2 DEF In
<1> QED BY <1>4 DEF AllIn, Overrides

\* What a request is about, and has read, stays there.
LEMMA StatusKeepsTheRest ==
  ASSUME RepairInv, UNCHANGED <<task, lock>>,
         NEW d \in Diags, NEW i \in DOMAIN log[d], NEW s \in Applied \cup {"rejected"}, StatusSet(d, i, s)
  PROVE  /\ log' \in [Diags -> Seq(Repair)]
         /\ NothingLogged' /\ TasksReady' /\ FlushedBeforeCommit'
         /\ \A q \in Requests : AllIn(log', request[q].snap)
         /\ \A q \in Requests : request[q].pc \in {"queued", "merging"} =>
              request[q].diag \in Diags /\ request[q].index \in DOMAIN log'[request[q].diag]
<1>1. s \in Statuses /\ log \in [Diags -> Seq(Repair)]
  BY DEF Applied, Statuses, RepairInv, Types
<1>2. /\ log' \in [Diags -> Seq(Repair)]
      /\ \A e \in Diags : DOMAIN log'[e] = DOMAIN log[e] /\ (e # d => log'[e] = log[e])
  BY <1>1, StatusMoves
<1>3. NothingLogged'
  <2>1. log[d] # <<>>
    OBVIOUS
  <2> QED BY <1>2, <2>1 DEF RepairInv, NothingLogged
<1>4. TasksReady'
  BY StatusKeepsRows DEF RepairInv, Types, Task, TasksReady
<1>5. FlushedBeforeCommit'
  BY DEF RepairInv, FlushedBeforeCommit
<1>6. \A q \in Requests : AllIn(log', request[q].snap)
  BY StatusKeepsRows DEF RepairInv, Types, Request, RequestsReady
<1> QED BY <1>2, <1>3, <1>4, <1>5, <1>6 DEF RepairInv, RequestsReady

LEMMA RejectRepairKeeps == ASSUME RepairInv, RejectRepair PROVE RepairInv'
<1>1. PICK d \in Diags : \E i \in DOMAIN log[d] : StatusSet(d, i, "rejected")
  BY DEF RejectRepair, StatusSet
<1>2. PICK i \in DOMAIN log[d], s \in {"rejected"} : StatusSet(d, i, s)
  BY <1>1
<1>3. UNCHANGED <<overrides, selectors, lock, task, request, stale>>
  BY DEF RejectRepair
<1>4. s \in Applied \cup {"rejected"} /\ s \in Statuses /\ s \notin Applied
  BY DEF Applied, Statuses
<1>5. /\ log' \in [Diags -> Seq(Repair)]
      /\ NothingLogged' /\ TasksReady' /\ FlushedBeforeCommit'
  BY <1>2, <1>3, <1>4, StatusKeepsTheRest
<1>6. Types'
  BY <1>3, <1>5 DEF RepairInv, Types
<1>7. RequestsReady'
  BY <1>2, <1>3, <1>4, StatusKeepsTheRest DEF RequestsReady
<1>8. OverridesAccounted'
  BY <1>2, <1>3, <1>4, StatusKeepsRows, AccountedIn DEF RepairInv, Types
<1>9. AppliedIsInForce'
  <2> SUFFICES ASSUME NEW e \in Diags, NEW j \in DOMAIN log'[e], ~stale', log'[e][j].selector,
                      log'[e][j].status \in Applied
               PROVE  overrides'[log'[e][j].field] # None
    BY DEF AppliedIsInForce, Applied
  <2>1. log \in [Diags -> Seq(Repair)]
    BY DEF RepairInv, Types
  <2>2. /\ DOMAIN log'[e] = DOMAIN log[e]
        /\ \A k \in DOMAIN log[e] :
             /\ log'[e][k].field = log[e][k].field
             /\ log'[e][k].selector = log[e][k].selector
             /\ log'[e][k].status = IF e = d /\ k = i THEN s ELSE log[e][k].status
    BY <1>2, <1>4, <2>1, StatusMoves
  <2>3. j \in DOMAIN log[e] /\ log'[e][j].field = log[e][j].field /\ log[e][j].selector
        /\ log[e][j].status \in Applied
    BY <1>4, <2>2
  <2> QED BY <1>3, <2>3 DEF RepairInv, AppliedIsInForce, Applied
<1> QED BY <1>5, <1>6, <1>7, <1>8, <1>9 DEF RepairInv

LEMMA ApplyRepairKeeps == ASSUME RepairInv, NEW q \in Requests, ApplyRepair(q) PROVE RepairInv'
<1> DEFINE d == request[q].diag
           i == request[q].index
           r == log[d][i]
           o == request[q].snap
<1>1. /\ request[q].pc = "merging"
      /\ UNCHANGED <<selectors, lock, task>>
      /\ stale' = (stale \/ overrides # o)
      /\ overrides' = IF r.selector THEN [o EXCEPT ![r.field] = d] ELSE o
  BY DEF ApplyRepair
<1>2. d \in Diags /\ i \in DOMAIN log[d] /\ AllIn(log, o) /\ o \in Overrides
  BY <1>1 DEF RepairInv, RequestsReady, Types, Request
<1>3. PICK s \in {"manually_applied"} : StatusSet(d, i, s)
  BY DEF ApplyRepair, StatusSet
<1>4. s \in Applied \cup {"rejected"} /\ s \in Statuses /\ s \in Applied
  BY DEF Applied, Statuses
<1>5. log \in [Diags -> Seq(Repair)] /\ r \in Repair
  BY <1>2, ElementOfSeq DEF RepairInv, Types
<1>6. /\ log' \in [Diags -> Seq(Repair)]
      /\ NothingLogged' /\ TasksReady' /\ FlushedBeforeCommit'
      /\ \A p \in Requests : AllIn(log', request[p].snap)
      /\ \A p \in Requests : request[p].pc \in {"queued", "merging"} =>
           request[p].diag \in Diags /\ request[p].index \in DOMAIN log'[request[p].diag]
  <2> HIDE DEF d, i
  <2> QED BY <1>1, <1>2, <1>3, <1>4, StatusKeepsTheRest
<1>7. /\ \A e \in Diags : DOMAIN log'[e] = DOMAIN log[e]
      /\ \A e \in Diags : \A j \in DOMAIN log[e] :
           /\ log'[e][j].field = log[e][j].field
           /\ log'[e][j].selector = log[e][j].selector
           /\ log'[e][j].status = IF e = d /\ j = i THEN s ELSE log[e][j].status
  <2> HIDE DEF d, i
  <2> QED BY <1>2, <1>3, <1>4, <1>5, StatusMoves
<1>8. AllIn(log', o) /\ AllIn(log', selectors)
  <2> HIDE DEF d, i
  <2>1. \A x \in Overrides : AllIn(log, x) => AllIn(log', x)
    BY <1>2, <1>3, <1>4, StatusKeepsRows
  <2> QED BY <1>2, <2>1, AccountedIn DEF RepairInv, Types
<1> HIDE DEF d, i, o
<1>9. \A f \in Fields : overrides'[f] = IF r.selector /\ f = r.field THEN d ELSE o[f]
  BY <1>1, <1>2, <1>5 DEF Overrides, Repair
<1>10. overrides' \in Overrides
  BY <1>1, <1>2, <1>5 DEF Overrides, Repair
<1>11. AllIn(log', overrides')
  <2> SUFFICES ASSUME NEW f \in Fields, overrides'[f] # None PROVE In(log', overrides'[f], f)
    BY DEF AllIn
  <2>1. CASE r.selector /\ f = r.field
    <3>1. i \in DOMAIN log'[d] /\ log'[d][i].field = f /\ log'[d][i].selector /\ log'[d][i].status = s
      BY <1>2, <1>7, <2>1
    <3>2. overrides'[f] = d /\ s \in {"auto_applied", "manually_applied", "rejected"}
      BY <1>9, <2>1
    <3> QED BY <3>1, <3>2 DEF In
  <2>2. CASE ~(r.selector /\ f = r.field)
    BY <1>8, <1>9, <2>2 DEF AllIn
  <2> QED BY <2>1, <2>2
<1>12. PICK p \in {"done"} : request' = [request EXCEPT ![q].pc = p]
  BY DEF ApplyRepair
<1>13. PICK u : u = [request[q] EXCEPT !.pc = p]
  OBVIOUS
<1>14. u \in Request /\ u.pc = p /\ u.snap = request[q].snap /\ p \notin {"queued", "merging"}
  BY <1>13 DEF RepairInv, Types, Request
<1>15. request' = [request EXCEPT ![q] = u]
  BY <1>12, <1>13
<1>16. request' \in [Requests -> Request] /\ \A x \in Requests : request'[x] = IF x = q THEN u ELSE request[x]
  BY <1>14, <1>15 DEF RepairInv, Types
<1>17. Types'
  BY <1>1, <1>6, <1>10, <1>16 DEF RepairInv, Types
<1>18. RequestsReady'
  BY <1>6, <1>14, <1>16 DEF RequestsReady
<1>19. OverridesAccounted'
  BY <1>1, <1>8, <1>11, AccountedIn
<1>20. AppliedIsInForce'
  <2> SUFFICES ASSUME NEW e \in Diags, NEW j \in DOMAIN log'[e], ~stale', log'[e][j].selector,
                      log'[e][j].status \in Applied
               PROVE  overrides'[log'[e][j].field] # None
    BY DEF AppliedIsInForce, Applied
  <2>1. j \in DOMAIN log[e] /\ log'[e][j].field = log[e][j].field /\ log[e][j].selector
    BY <1>7
  <2>2. log[e] \in Seq(Repair)
    BY <1>5
  <2>3. log[e][j].field \in Fields
    <3>1. log[e][j] \in Repair
      BY <2>1, <2>2, ElementOfSeq
    <3> QED BY <3>1 DEF Repair
  <2>4. CASE e = d /\ j = i
    BY <1>9, <2>1, <2>3, <2>4, <1>2, NoneAssumption
  <2>5. CASE ~(e = d /\ j = i)
    <3>1. log[e][j].status \in Applied
      BY <1>7, <2>1, <2>5
    <3>2. overrides[log[e][j].field] # None /\ overrides = o
      BY <1>1, <2>1, <3>1 DEF RepairInv, AppliedIsInForce, Applied
    <3> QED BY <1>2, <1>9, <2>1, <2>3, <3>2, NoneAssumption
  <2> QED BY <2>4, <2>5
<1> QED BY <1>6, <1>17, <1>18, <1>19, <1>20 DEF RepairInv

-----------------------------------------------------------------------------
(* The other steps *)

\* A request that reads: u, its next state, is ready.
LEMMA RequestMoves ==
  ASSUME RepairInv, NEW q \in Requests, NEW u \in Request, request' = [request EXCEPT ![q] = u],
         u.snap \in {request[q].snap, overrides},
         u.pc \in {"queued", "merging"} => u.diag \in Diags /\ u.index \in DOMAIN log[u.diag],
         UNCHANGED <<log, overrides, selectors, lock, task, stale>>
  PROVE  RepairInv'
<1>1. request' \in [Requests -> Request] /\ \A x \in Requests : request'[x] = IF x = q THEN u ELSE request[x]
  BY DEF RepairInv, Types
<1>2. AllIn(log, overrides)
  BY AccountedIn DEF RepairInv
<1>3. RequestsReady'
  BY <1>1, <1>2 DEF RepairInv, RequestsReady
<1>4. Types' /\ NothingLogged' /\ TasksReady' /\ FlushedBeforeCommit'
  BY <1>1 DEF RepairInv, Types, NothingLogged, TasksReady, FlushedBeforeCommit
<1>5. OverridesAccounted' /\ AppliedIsInForce'
  BY DEF RepairInv, OverridesAccounted, Accounted, AppliedIsInForce
<1> QED BY <1>3, <1>4, <1>5 DEF RepairInv

LEMMA ReadRepairKeeps == ASSUME RepairInv, NEW q \in Requests, ReadRepair(q) PROVE RepairInv'
<1>1. UNCHANGED <<log, overrides, selectors, lock, task, stale>>
  BY DEF ReadRepair
<1>2. request[q] \in Request
  BY DEF RepairInv, Types
<1>3. PICK d \in Diags : \E i \in DOMAIN log[d] :
        request' = [request EXCEPT ![q] =
          IF log[d][i].status = "queued" THEN [@ EXCEPT !.pc = "queued", !.diag = d, !.index = i]
          ELSE [@ EXCEPT !.pc = "done"]]
  BY DEF ReadRepair
<1>4. PICK i \in DOMAIN log[d] :
        request' = [request EXCEPT ![q] =
          IF log[d][i].status = "queued" THEN [@ EXCEPT !.pc = "queued", !.diag = d, !.index = i]
          ELSE [@ EXCEPT !.pc = "done"]]
  BY <1>3
<1>5. i \in Nat
  BY DEF RepairInv, Types
<1>6. CASE log[d][i].status = "queued"
  <2>1. PICK p \in {"queued"} : request' = [request EXCEPT ![q] = [request[q] EXCEPT !.pc = p, !.diag = d, !.index = i]]
    BY <1>4, <1>6
  <2>2. PICK u : u = [request[q] EXCEPT !.pc = p, !.diag = d, !.index = i]
    OBVIOUS
  <2>3. u \in Request /\ u.snap = request[q].snap /\ u.diag = d /\ u.index = i
    BY <1>2, <1>5, <2>2 DEF Request
  <2> QED BY <1>1, <2>1, <2>2, <2>3, RequestMoves
<1>7. CASE log[d][i].status # "queued"
  <2>1. PICK p \in {"done"} : request' = [request EXCEPT ![q] = [request[q] EXCEPT !.pc = p]]
    BY <1>4, <1>7
  <2>2. PICK u : u = [request[q] EXCEPT !.pc = p]
    OBVIOUS
  <2>3. u \in Request /\ u.snap = request[q].snap /\ u.pc = p /\ p \notin {"queued", "merging"}
    BY <1>2, <2>2 DEF Request
  <2> QED BY <1>1, <2>1, <2>2, <2>3, RequestMoves
<1> QED BY <1>6, <1>7

LEMMA ReadOverridesKeeps == ASSUME RepairInv, NEW q \in Requests, ReadOverrides(q) PROVE RepairInv'
<1>1. UNCHANGED <<log, overrides, selectors, lock, task, stale>> /\ request[q].pc = "queued"
  BY DEF ReadOverrides
<1>2. request[q] \in Request /\ overrides \in Overrides
  BY DEF RepairInv, Types
<1>3. PICK p \in {"merging"} : request' = [request EXCEPT ![q] = [request[q] EXCEPT !.pc = p, !.snap = overrides]]
  BY DEF ReadOverrides
<1>4. PICK u : u = [request[q] EXCEPT !.pc = p, !.snap = overrides]
  OBVIOUS
<1>5. u \in Request /\ u.snap = overrides /\ u.diag = request[q].diag /\ u.index = request[q].index
  BY <1>2, <1>4 DEF Request
<1>6. u.diag \in Diags /\ u.index \in DOMAIN log[u.diag]
  BY <1>1, <1>5 DEF RepairInv, RequestsReady
<1> QED BY <1>1, <1>3, <1>4, <1>5, <1>6, RequestMoves

LEMMA StartScrapeKeeps == ASSUME RepairInv, StartScrape PROVE RepairInv'
<1>1. UNCHANGED <<log, overrides, lock, task, request, stale>>
  BY DEF StartScrape
<1>2. overrides \in Overrides /\ selectors \in Overrides /\ AllIn(log, overrides) /\ AllIn(log, selectors)
  BY AccountedIn DEF RepairInv, Types
<1>3. selectors' \in Overrides /\ AllIn(log, selectors')
  BY <1>2 DEF StartScrape, Overrides, AllIn
<1>4. OverridesAccounted'
  BY <1>1, <1>2, <1>3, AccountedIn
<1> QED BY <1>1, <1>3, <1>4
        DEF RepairInv, Types, NothingLogged, TasksReady, RequestsReady, FlushedBeforeCommit, AppliedIsInForce

LEMMA CrashKeeps == ASSUME RepairInv, Crash PROVE RepairInv'
<1>1. UNCHANGED <<log, overrides, request, stale>> /\ lock' = None /\ selectors' = NoOverride
  BY DEF Crash
<1>2. PICK p \in {"lost"} :
        task' = [d \in Diags |-> IF d \in InFlight THEN [task[d] EXCEPT !.pc = p] ELSE task[d]]
  BY DEF Crash
<1>3. \A d \in Diags : task[d] \in Task
  BY DEF RepairInv, Types
<1>4. p \in Places /\ p \notin Before /\ p # "storing"
  BY DEF Places, Before
<1>5. ASSUME NEW d \in Diags
      PROVE  /\ task'[d] \in Task /\ task'[d].pc \in {p, task[d].pc} /\ task'[d].pc # "storing"
             /\ task'[d].repairs = task[d].repairs /\ task'[d].snap = task[d].snap
  <2>1. CASE d \in InFlight
    <3>1. task'[d] = [task[d] EXCEPT !.pc = p]
      BY <1>2, <2>1
    <3> QED BY <1>3, <1>4, <3>1, GotoRecord
  <2>2. CASE d \notin InFlight
    BY <1>2, <1>3, <2>2 DEF InFlight
  <2> QED BY <2>1, <2>2
<1>6. Types'
  <2>1. task' \in [Diags -> Task]
    BY <1>2, <1>5
  <2>2. NoOverride \in Overrides
    BY DEF NoOverride, Overrides
  <2> QED BY <1>1, <2>1, <2>2 DEF RepairInv, Types
<1>7. NothingLogged' /\ TasksReady' /\ FlushedBeforeCommit'
  BY <1>1, <1>4, <1>5 DEF RepairInv, NothingLogged, TasksReady, FlushedBeforeCommit
<1>8. RequestsReady'
  BY <1>1 DEF RepairInv, RequestsReady
<1>9. AllIn(log, selectors')
  BY <1>1 DEF AllIn, NoOverride
<1>10. OverridesAccounted' /\ AppliedIsInForce'
  BY <1>1, <1>9, AccountedIn DEF RepairInv, AppliedIsInForce
<1> QED BY <1>6, <1>7, <1>8, <1>10 DEF RepairInv

LEMMA QuietKeeps ==
  ASSUME RepairInv, UNCHANGED <<log, overrides, selectors, lock, task, request, stale>>
  PROVE  RepairInv'
  BY DEF RepairInv, Types, NothingLogged, TasksReady, RequestsReady, FlushedBeforeCommit,
         OverridesAccounted, Accounted, AppliedIsInForce

-----------------------------------------------------------------------------
(* The invariant and the theorems *)

LEMMA InitRepairs == Init => RepairInv
<1> SUFFICES ASSUME Init PROVE RepairInv
  OBVIOUS
<1>1. NoOverride \in Overrides
  BY DEF NoOverride, Overrides
<1>2. /\ overrides = NoOverride /\ selectors = NoOverride /\ lock = None /\ stale = FALSE
      /\ log = [d \in Diags |-> <<>>]
      /\ \A d \in Diags : task[d].pc = "idle" /\ task[d].repairs = <<>> /\ task[d].snap = NoOverride
      /\ \A q \in Requests : request[q].pc = "idle" /\ request[q].snap = NoOverride
  BY DEF Init
<1>3. task \in [Diags -> Task]
  BY <1>1 DEF Init, Task
<1>4. request \in [Requests -> Request]
  BY <1>1 DEF Init, Request
<1>5. Types
  <2>1. <<>> \in Seq(Repair)
    BY EmptySeq
  <2>2. log \in [Diags -> Seq(Repair)]
    BY <1>2, <2>1
  <2> QED BY <1>1, <1>2, <1>3, <1>4, <2>2 DEF Types
<1>6. AllIn(log, NoOverride)
  BY DEF AllIn, NoOverride
<1>7. NothingLogged /\ RequestsReady /\ FlushedBeforeCommit
  BY <1>2, <1>6 DEF NothingLogged, RequestsReady, FlushedBeforeCommit
<1>8. TasksReady
  BY <1>2, <1>6 DEF TasksReady, Ready
<1>9. OverridesAccounted
  BY <1>2, <1>6, AccountedIn
<1>10. AppliedIsInForce
  BY <1>2 DEF AppliedIsInForce
<1> QED BY <1>5, <1>7, <1>8, <1>9, <1>10 DEF RepairInv

LEMMA StepKeepsRepairs == RepairInv /\ [Next]_vars => RepairInv'
<1> SUFFICES ASSUME RepairInv, [Next]_vars PROVE RepairInv'
  OBVIOUS
<1>1. ASSUME NEW d \in Diags, Check(d) \/ DiagStep(d) PROVE RepairInv'
  BY <1>1, CheckKeeps, CheckQualityKeeps, SimpleStepsKeep, AnalyseKeeps, ReadPortalKeeps, FlushKeeps,
     CommitRepairsKeeps, CommitFailsKeeps DEF DiagStep
<1>2. ASSUME NEW d \in Diags, Fault(d) PROVE RepairInv'
  BY <1>2, AnalysisFailsKeeps, ApplyFailsKeeps, SimpleStepsKeep DEF Fault
<1>3. ASSUME Dashboard \/ RejectRepair PROVE RepairInv'
  BY <1>3, ReadRepairKeeps, ReadOverridesKeeps, ApplyRepairKeeps, RejectRepairKeeps DEF Dashboard
<1>4. ASSUME Midnight \/ \E c \in Configs : UpdateConfig(c) PROVE RepairInv'
  BY <1>4, QuietKeeps DEF Midnight, UpdateConfig
<1>5. ASSUME StartScrape \/ Crash PROVE RepairInv'
  BY <1>5, StartScrapeKeeps, CrashKeeps
<1>6. ASSUME UNCHANGED vars PROVE RepairInv'
  BY <1>6, QuietKeeps DEF vars
<1> QED BY <1>1, <1>2, <1>3, <1>4, <1>5, <1>6 DEF Next

LEMMA RepairsInvariant == Spec => []RepairInv
  BY InitRepairs, StepKeepsRepairs, PTL DEF Spec

\* No override is in force, in the database or in a scraping process, without a row of
\* repair_logs that accounts for it: the two are written in one transaction (run_diagnostic,
\* applyRepair).
THEOREM OverridesAccountedCorrect == Spec => []OverridesAccounted
<1>1. RepairInv => OverridesAccounted
  BY DEF RepairInv
<1> QED BY <1>1, RepairsInvariant, PTL

\* As long as no two writers of a portal's overrides have overlapped, a repair logged as
\* applied has its field overridden, although nobody reads the result of
\* apply_selector_override.
THEOREM AppliedIsInForceCorrect == Spec => []AppliedIsInForce
<1>1. RepairInv => AppliedIsInForce
  BY DEF RepairInv
<1> QED BY <1>1, RepairsInvariant, PTL

-----------------------------------------------------------------------------
(* Types and the budget *)

\* Where a diagnosis has passed the check of the budget but has no row yet, and where
\* its row is open.
Unopened == {"checked", "measured"}
Opened == {"diagnosing", "deciding", "merging", "storing", "closing", "failing"}

\* d has cost something on day k, or may yet: its row is of that day or would be.
Counts(d, k) ==
  \/ row[d].cost = 1 /\ row[d].day = k
  \/ task[d].pc \in Opened /\ row[d].day = k
  \/ task[d].pc \in Unopened /\ day = k

May(k) == {d \in Diags : Counts(d, k)}

BudgetTypes ==
  /\ config \in Configs \cup {InitialConfig}
  /\ used \in [EnvEvents -> Nat] /\ \A e \in EnvEvents : used[e] \in 0 .. Bound[e]
  /\ day = used["midnight"]
  /\ row \in [Diags -> Row]
  /\ peak \in 0 .. Cardinality(Diags)

\* A cost stands in the rows of finished diagnoses only, and no row is of a day to come.
CostsAreFinal == \A d \in Diags : /\ row[d].cost = 1 => task[d].pc = "done"
                                  /\ row[d].day =< day

PeakCounts == Cardinality(InFlight) =< peak /\ (peak > 0 => MaxCap > 0)

\* Whatever those in flight still come to, the day's cost passes the cap by less than
\* their peak.
OvershootInv == \A k \in 0 .. day : May(k) = {} \/ Cardinality(May(k)) < MaxCap + peak

\* The inductive invariant of the budget, beside RepairInv.
BudgetInv == BudgetTypes /\ CostsAreFinal /\ PeakCounts /\ OvershootInv

\* A finite set of numbers that is not empty has a highest one.
LEMMA HighestExists ==
  ASSUME NEW S, IsFiniteSet(S), S \subseteq Nat, S # {}
  PROVE  \E n \in S : \A m \in S : m =< n
<1> DEFINE Bad == {X \in SUBSET S : X # {} /\ ~ \E n \in X : \A m \in X : m =< n}
<1> DEFINE R == StrictSubsetOrdering(S)
<1>1. SUFFICES Bad = {}
  OBVIOUS
<1>2. SUFFICES ASSUME Bad # {} PROVE FALSE
  OBVIOUS
<1>3. \A X \in SUBSET S : IsFiniteSet(X)
  BY FS_Subset
<1>4. Bad \subseteq FiniteSubsetsOf(S)
  BY <1>3 DEF FiniteSubsetsOf
<1>5. IsWellFoundedOn(R, FiniteSubsetsOf(S))
  BY FS_StrictSubsetOrderingWellFounded
<1>6. PICK X \in Bad : \A Y \in Bad : <<Y, X>> \notin R
  <2> HIDE DEF Bad, R
  <2> QED BY <1>2, <1>4, <1>5, WFMin
<1>7. PICK x \in X : TRUE
  BY <1>6
<1>8. X \ {x} \notin Bad
  BY <1>6, <1>7 DEF StrictSubsetOrdering
<1>9. CASE X \ {x} = {}
  <2>1. \A m \in X : m = x
    BY <1>9
  <2> QED BY <1>6, <1>7, <2>1
<1>10. CASE X \ {x} # {}
  <2>1. PICK n \in X \ {x} : \A m \in X \ {x} : m =< n
    BY <1>6, <1>8, <1>10
  <2>2. n \in Nat /\ x \in Nat /\ X \subseteq Nat
    BY <1>6, <1>7
  <2>3. CASE n =< x
    BY <1>6, <1>7, <2>1, <2>2, <2>3
  <2>4. CASE x =< n
    BY <1>6, <1>7, <2>1, <2>2, <2>4
  <2> QED BY <2>2, <2>3, <2>4
<1> QED BY <1>9, <1>10

LEMMA MaxCapIsHighest ==
  MaxCap \in Nat /\ \A c \in Configs \cup {InitialConfig} : c \in Config /\ c.cap =< MaxCap
<1> DEFINE C == Configs \cup {InitialConfig}
<1> DEFINE caps == {c.cap : c \in C}
<1> DEFINE f == [c \in C |-> c.cap]
<1>1. IsFiniteSet(C)
  BY ConfigsAssumption, FS_AddElement
<1>2. f \in Surjection(C, caps)
  BY DEF Surjection
<1>3. IsFiniteSet(caps)
  <2> HIDE DEF C, caps, f
  <2> QED BY <1>1, <1>2, FS_Surjection
<1>4. \A c \in C : c \in Config /\ c.cap \in Nat
  BY ConfigsAssumption DEF Config
<1>5. caps \subseteq Nat /\ caps # {}
  BY <1>4
<1>6. PICK n \in caps : \A m \in caps : m =< n
  <2> HIDE DEF caps
  <2> QED BY <1>3, <1>5, HighestExists
<1>7. \A c \in C : c.cap =< n
  BY <1>6
<1>8. MaxCap \in caps /\ \A c \in C : c.cap =< MaxCap
  BY <1>6, <1>7 DEF MaxCap
<1> QED BY <1>4, <1>5, <1>8

LEMMA Counted ==
  ASSUME NEW S \in SUBSET Diags
  PROVE  IsFiniteSet(S) /\ Cardinality(S) \in Nat /\ Cardinality(S) =< Cardinality(Diags)
         /\ \A T \in SUBSET S : Cardinality(T) =< Cardinality(S)
<1>1. IsFiniteSet(S) /\ Cardinality(S) =< Cardinality(Diags)
  BY DiagsAssumption, FS_Subset
<1> QED BY <1>1, FS_CardinalityType, FS_Subset

-----------------------------------------------------------------------------
(* A step after which no more may be counted than before *)

LEMMA Shrinks ==
  ASSUME BudgetInv, day' = day, peak' = peak,
         config' \in Configs \cup {InitialConfig},
         used' \in [EnvEvents -> Nat], \A e \in EnvEvents : used'[e] \in 0 .. Bound[e],
         day = used'["midnight"],
         row' \in [Diags -> Row], CostsAreFinal',
         \A d \in Diags : d \in InFlight' => d \in InFlight,
         \A d \in Diags : \A k \in 0 .. day : Counts(d, k)' => Counts(d, k)
  PROVE  BudgetInv'
<1>1. BudgetTypes'
  BY DEF BudgetInv, BudgetTypes
<1>2. PeakCounts'
  <2>1. InFlight' \in SUBSET InFlight /\ InFlight \in SUBSET Diags /\ InFlight' \in SUBSET Diags
    BY DEF InFlight
  <2>2. Cardinality(InFlight') =< Cardinality(InFlight) /\ Cardinality(InFlight') \in Nat
        /\ Cardinality(InFlight) \in Nat
    BY <2>1, Counted
  <2>3. peak \in Nat
    BY DEF BudgetInv, BudgetTypes
  <2>4. MaxCap' = MaxCap
    BY DEF MaxCap
  <2> QED BY <2>2, <2>3, <2>4 DEF BudgetInv, PeakCounts
<1>3. OvershootInv'
  <2> SUFFICES ASSUME NEW k \in 0 .. day
               PROVE  May(k)' = {} \/ Cardinality(May(k)') < MaxCap + peak
    BY DEF OvershootInv, MaxCap
  <2>1. May(k)' \in SUBSET May(k) /\ May(k) \in SUBSET Diags /\ May(k)' \in SUBSET Diags
    BY DEF May
  <2>2. Cardinality(May(k)') =< Cardinality(May(k)) /\ Cardinality(May(k)') \in Nat
        /\ Cardinality(May(k)) \in Nat
    BY <2>1, Counted
  <2>3. May(k) = {} \/ Cardinality(May(k)) < MaxCap + peak
    BY DEF BudgetInv, OvershootInv
  <2>4. peak \in Nat /\ MaxCap \in Nat
    BY MaxCapIsHighest DEF BudgetInv, BudgetTypes
  <2> QED BY <2>1, <2>2, <2>3, <2>4
<1> QED BY <1>1, <1>2, <1>3 DEF BudgetInv

\* The bounds on the environment.
SpentOK ==
  /\ used' \in [EnvEvents -> Nat]
  /\ \A e \in EnvEvents : used'[e] \in 0 .. Bound[e]
  /\ day = used'["midnight"]

LEMMA SpendKeeps ==
  ASSUME BudgetInv, NEW e \in EnvEvents \ {"midnight"}, Spend(e) \/ used' = used
  PROVE  SpentOK
<1>1. used \in [EnvEvents -> Nat] /\ Bound \in [EnvEvents -> Nat] /\ "midnight" \in EnvEvents
      /\ \A x \in EnvEvents : used[x] \in 0 .. Bound[x]
  BY BoundAssumption DEF BudgetInv, BudgetTypes, EnvEvents
<1>2. CASE used' = used
  BY <1>1, <1>2 DEF SpentOK, BudgetInv, BudgetTypes
<1>3. CASE Spend(e)
  <2>1. used' = [used EXCEPT ![e] = used[e] + 1] /\ used[e] < Bound[e]
    BY <1>3 DEF Spend
  <2>2. \A x \in EnvEvents : used'[x] = IF x = e THEN used[e] + 1 ELSE used[x]
    BY <1>1, <2>1
  <2>3. used' \in [EnvEvents -> Nat]
    BY <1>1, <2>1
  <2> QED BY <1>1, <2>1, <2>2, <2>3 DEF SpentOK, BudgetInv, BudgetTypes
<1> QED BY <1>2, <1>3

\* Steps that touch neither rows, diagnoses nor days.
LEMMA BudgetQuiet ==
  ASSUME BudgetInv, day' = day, peak' = peak, row' = row, task' = task, SpentOK,
         config' \in Configs \cup {InitialConfig}
  PROVE  BudgetInv'
<1>1. CostsAreFinal' /\ row' \in [Diags -> Row]
  BY DEF BudgetInv, BudgetTypes, CostsAreFinal
<1>2. InFlight' = InFlight /\ \A d \in Diags : \A k \in 0 .. day : Counts(d, k)' => Counts(d, k)
  BY DEF InFlight, Counts
<1> QED BY <1>1, <1>2, Shrinks DEF SpentOK

\* Places in the order of run_diagnostic: from a place in flight to one that comes later.
Later(p, q) ==
  \/ p \in Unopened /\ q \in Unopened
  \/ p \in Opened /\ q \in Opened
  \/ p \in Unopened \cup Opened /\ q \in {"skipped", "done", "lost"}

\* A diagnosis goes on and leaves its row.
LEMMA Proceeds ==
  ASSUME RepairInv, BudgetInv, NEW d \in Diags, NEW t, t \in Task, Later(task[d].pc, t.pc),
         task' = [task EXCEPT ![d] = t], UNCHANGED <<config, day, row, peak>>, SpentOK
  PROVE  BudgetInv'
<1>1. \A e \in Diags : task'[e] = IF e = d THEN t ELSE task[e]
  BY DEF RepairInv, Types
<1>2. CostsAreFinal' /\ row' \in [Diags -> Row]
  <2>1. row[d].cost # 1
    BY DEF Later, BudgetInv, CostsAreFinal, Unopened, Opened
  <2> QED BY <1>1, <2>1 DEF BudgetInv, BudgetTypes, CostsAreFinal
<1>3. \A e \in Diags : e \in InFlight' => e \in InFlight
  BY <1>1 DEF InFlight, Later, Unopened, Opened
<1>4. \A e \in Diags : \A k \in 0 .. day : Counts(e, k)' => Counts(e, k)
  BY <1>1 DEF Counts, Later, Unopened, Opened
<1>5. config' \in Configs \cup {InitialConfig}
  BY DEF BudgetInv, BudgetTypes
<1> QED BY <1>2, <1>3, <1>4, <1>5, Shrinks DEF SpentOK

LEMMA GotoProceeds ==
  ASSUME RepairInv, BudgetInv, NEW d \in Diags, NEW p \in Places, Later(task[d].pc, p), Goto(d, p),
         UNCHANGED <<config, day, row, peak>>, SpentOK
  PROVE  BudgetInv'
<1>1. PICK t : t = [task[d] EXCEPT !.pc = p]
  OBVIOUS
<1>2. task[d] \in Task
  BY DEF RepairInv, Types
<1>3. t \in Task /\ t.pc = p
  BY <1>1, <1>2, GotoRecord
<1>4. task' = [task EXCEPT ![d] = t]
  BY <1>1 DEF Goto
<1> QED BY <1>3, <1>4, Proceeds

\* A diagnosis goes on and rewrites its row for the day it has, if it had one.
LEMMA RowProceeds ==
  ASSUME RepairInv, BudgetInv, NEW d \in Diags, NEW p \in Places, NEW r \in Row,
         Goto(d, p), row' = [row EXCEPT ![d] = r],
         UNCHANGED <<config, day, peak>>, SpentOK,
         \/ /\ task[d].pc \in Unopened /\ p \in Opened \cup {"lost"}
            /\ r.day = day /\ r.cost = 0
         \/ /\ task[d].pc \in Opened /\ p = "done"
            /\ r.day = row[d].day
  PROVE  BudgetInv'
<1>1. PICK t : t = [task[d] EXCEPT !.pc = p]
  OBVIOUS
<1>2. task[d] \in Task
  BY DEF RepairInv, Types
<1>3. t \in Task /\ t.pc = p
  BY <1>1, <1>2, GotoRecord
<1>4. task' = [task EXCEPT ![d] = t]
  BY <1>1 DEF Goto
<1>5. \A e \in Diags : /\ task'[e] = IF e = d THEN t ELSE task[e]
                       /\ row'[e] = IF e = d THEN r ELSE row[e]
  BY <1>4 DEF RepairInv, Types, BudgetInv, BudgetTypes
<1>6. day \in Nat
  BY DEF BudgetInv, BudgetTypes, EnvEvents
<1>7. CostsAreFinal' /\ row' \in [Diags -> Row]
  BY <1>3, <1>5, <1>6 DEF BudgetInv, BudgetTypes, CostsAreFinal
<1>8. \A e \in Diags : e \in InFlight' => e \in InFlight
  BY <1>3, <1>5 DEF InFlight, Unopened, Opened
<1>9. \A e \in Diags : \A k \in 0 .. day : Counts(e, k)' => Counts(e, k)
  BY <1>3, <1>5 DEF Counts, Unopened, Opened
<1>10. config' \in Configs \cup {InitialConfig}
  BY DEF BudgetInv, BudgetTypes
<1> QED BY <1>7, <1>8, <1>9, <1>10, Shrinks DEF SpentOK

-----------------------------------------------------------------------------
(* The actions *)

\* The environment spends at most one event that is not midnight.
LEMMA SpentByStep ==
  ASSUME BudgetInv, \/ Spend("error") \/ Spend("crash") \/ Spend("config")
                    \/ Spend("reject") \/ Spend("scrape") \/ used' = used
  PROVE  SpentOK
<1>1. /\ "error" \in EnvEvents \ {"midnight"} /\ "crash" \in EnvEvents \ {"midnight"}
      /\ "config" \in EnvEvents \ {"midnight"} /\ "reject" \in EnvEvents \ {"midnight"}
      /\ "scrape" \in EnvEvents \ {"midnight"}
  BY DEF EnvEvents
<1> QED BY <1>1, SpendKeeps

\* The steps of a diagnosis that leave its row.
LEMMA GoingOnKeepsBudget ==
  ASSUME RepairInv, RepairInv', BudgetInv, NEW d \in Diags,
         \/ CheckQuality(d) \/ QualityIsFine(d) \/ CaptureFails(d) \/ Analyse(d) \/ AnalysisFails(d)
         \/ ReadPortal(d) \/ Flush(d) \/ ApplyFails(d) \/ CommitRepairs(d) \/ CommitFails(d)
         \/ CloseFails(d) \/ FailRunFails(d)
  PROVE  BudgetInv'
<1>1. UNCHANGED <<config, day, row, peak>>
  BY DEF CheckQuality, QualityIsFine, CaptureFails, Analyse, AnalysisFails, ReadPortal, Flush,
         ApplyFails, CommitRepairs, CommitFails, CloseFails, FailRunFails
<1>2. SpentOK
  <2>1. Spend("error") \/ used' = used
    BY DEF CheckQuality, QualityIsFine, CaptureFails, Analyse, AnalysisFails, ReadPortal, Flush,
           ApplyFails, CommitRepairs, CommitFails, CloseFails, FailRunFails
  <2> QED BY <2>1, SpentByStep
<1>3. task[d] \in Task /\ task' \in [Diags -> Task] /\ task \in [Diags -> Task]
  BY DEF RepairInv, Types
<1>4. \E t : task' = [task EXCEPT ![d] = t] /\ Later(task[d].pc, t.pc)
  <2>1. CASE CheckQuality(d)
    <3>1. PICK b \in BOOLEAN : task' = [task EXCEPT ![d] = [task[d] EXCEPT !.pc = "measured", !.degraded = b]]
      BY <2>1 DEF CheckQuality
    <3>2. [task[d] EXCEPT !.pc = "measured", !.degraded = b].pc = "measured"
      BY <1>3 DEF Task
    <3> QED BY <2>1, <3>1, <3>2 DEF CheckQuality, Later, Unopened
  <2>2. CASE QualityIsFine(d) \/ CaptureFails(d) \/ Flush(d) \/ CommitRepairs(d) \/ CommitFails(d)
             \/ CloseFails(d) \/ FailRunFails(d)
    <3>1. PICK p \in Places : Goto(d, p) /\ Later(task[d].pc, p)
      BY <2>2 DEF QualityIsFine, CaptureFails, Flush, CommitRepairs, CommitFails, CloseFails,
                  FailRunFails, Later, Opened, Places
    <3>2. [task[d] EXCEPT !.pc = p].pc = p
      BY <1>3, GotoRecord
    <3> QED BY <3>1, <3>2 DEF Goto
  <2>3. CASE Analyse(d)
    <3>1. PICK s \in Suggestions, p \in {"closing", "deciding"} :
            task' = [task EXCEPT ![d] = [task[d] EXCEPT !.called = TRUE, !.repairs = Verdicts(s), !.pc = p]]
      BY <2>3 DEF Analyse, Verdicts
    <3>2. [task[d] EXCEPT !.called = TRUE, !.repairs = Verdicts(s), !.pc = p].pc = p
      BY <1>3 DEF Task
    <3> QED BY <2>3, <3>1, <3>2 DEF Analyse, Later, Opened
  <2>4. CASE AnalysisFails(d)
    <3>1. task' = [task EXCEPT ![d] = [task[d] EXCEPT !.pc = "failing", !.called = TRUE]]
      BY <2>4 DEF AnalysisFails
    <3>2. [task[d] EXCEPT !.pc = "failing", !.called = TRUE].pc = "failing"
      BY <1>3 DEF Task
    <3> QED BY <2>4, <3>1, <3>2 DEF AnalysisFails, Later, Opened
  <2>5. CASE ReadPortal(d)
    <3>1. PICK t : /\ task' = [task EXCEPT ![d] = t]
                   /\ \/ t = [task[d] EXCEPT !.pc = "merging", !.snap = overrides]
                      \/ t = [task[d] EXCEPT !.pc = "storing"]
      BY <2>5 DEF ReadPortal
    <3>2. t.pc \in {"merging", "storing"}
      BY <1>3, <3>1 DEF Task
    <3> QED BY <2>5, <3>1, <3>2 DEF ReadPortal, Later, Opened
  <2>6. CASE ApplyFails(d)
    <3>1. task' = [task EXCEPT ![d] = [task[d] EXCEPT !.pc = "storing", !.broken = TRUE]]
      BY <2>6 DEF ApplyFails
    <3>2. [task[d] EXCEPT !.pc = "storing", !.broken = TRUE].pc = "storing"
      BY <1>3 DEF Task
    <3> QED BY <2>6, <3>1, <3>2 DEF ApplyFails, Later, Opened
  <2> QED BY <2>1, <2>2, <2>3, <2>4, <2>5, <2>6
<1>5. PICK t : task' = [task EXCEPT ![d] = t] /\ Later(task[d].pc, t.pc)
  BY <1>4
<1>6. t \in Task
  <2>1. task'[d] = t /\ task'[d] \in Task
    BY <1>3, <1>5
  <2> QED BY <2>1
<1> QED BY <1>1, <1>2, <1>5, <1>6, Proceeds

LEMMA RowRecord ==
  ASSUME NEW r \in Row, NEW s \in {"completed", "failed"}, NEW c \in {0, 1}
  PROVE  /\ [r EXCEPT !.status = s, !.cost = c] \in Row
         /\ [r EXCEPT !.status = s, !.cost = c].day = r.day
         /\ [r EXCEPT !.status = s] \in Row
         /\ [r EXCEPT !.status = s].day = r.day
  BY DEF Row

\* The steps that write the row of a diagnosis.
LEMMA RowWritesKeepBudget ==
  ASSUME RepairInv, BudgetInv, NEW d \in Diags,
         OpenRun(d) \/ OpenRunFails(d) \/ CloseRun(d) \/ FailRun(d)
  PROVE  BudgetInv'
<1>1. row \in [Diags -> Row] /\ row[d] \in Row /\ day \in Nat
  BY DEF BudgetInv, BudgetTypes, EnvEvents
<1>2. SpentOK
  <2>1. Spend("error") \/ used' = used
    BY DEF OpenRun, OpenRunFails, CloseRun, FailRun
  <2> QED BY <2>1, SpentByStep
<1>3. CASE OpenRun(d)
  <2>1. PICK p \in {"diagnosing"} : Goto(d, p)
    BY <1>3 DEF OpenRun
  <2>2. PICK r : r = [status |-> "running", cost |-> 0, day |-> day]
    OBVIOUS
  <2>3. r \in Row /\ r.day = day /\ r.cost = 0 /\ p \in Places /\ p \in Opened
    BY <1>1, <2>2 DEF Row, Places, Opened
  <2>4. row' = [row EXCEPT ![d] = r] /\ task[d].pc \in Unopened /\ UNCHANGED <<config, day, peak>>
    BY <1>3, <2>2 DEF OpenRun, Unopened
  <2> QED BY <2>1, <2>3, <2>4, <1>2, RowProceeds
<1>4. CASE CloseRun(d)
  <2>1. PICK c \in {0, 1} : row' = [row EXCEPT ![d] = [row[d] EXCEPT !.status = "completed", !.cost = c]]
    <3>1. CASE task[d].called
      BY <1>1, <1>4, <3>1 DEF CloseRun, Row
    <3>2. CASE ~task[d].called
      BY <1>1, <1>4, <3>2 DEF CloseRun, Row
    <3> QED BY <3>1, <3>2
  <2>2. PICK r : r = [row[d] EXCEPT !.status = "completed", !.cost = c]
    OBVIOUS
  <2>3. r \in Row /\ r.day = row[d].day
    BY <1>1, <2>2, RowRecord
  <2>4. "done" \in Places /\ task[d].pc \in Opened /\ Goto(d, "done") /\ UNCHANGED <<config, day, peak>>
    BY <1>4 DEF CloseRun, Places, Opened
  <2> QED BY <2>1, <2>2, <2>3, <2>4, <1>2, RowProceeds
<1>5. CASE FailRun(d)
  <2>1. row' = [row EXCEPT ![d] = [row[d] EXCEPT !.status = "failed"]]
    BY <1>5 DEF FailRun
  <2>2. PICK r : r = [row[d] EXCEPT !.status = "failed"]
    OBVIOUS
  <2>3. r \in Row /\ r.day = row[d].day
    BY <1>1, <2>2, RowRecord
  <2>4. "done" \in Places /\ task[d].pc \in Opened /\ Goto(d, "done") /\ UNCHANGED <<config, day, peak>>
    BY <1>5 DEF FailRun, Places, Opened
  <2> QED BY <2>1, <2>2, <2>3, <2>4, <1>2, RowProceeds
<1>6. CASE OpenRunFails(d)
  <2>1. PICK p \in {"lost"} : Goto(d, p)
    BY <1>6 DEF OpenRunFails
  <2>2. task[d].pc \in Unopened /\ p \in Places /\ UNCHANGED <<config, day, peak>>
    BY <1>6 DEF OpenRunFails, Unopened, Places
  <2>3. CASE row' = row
    <3>1. Later(task[d].pc, p)
      BY <2>2 DEF Later
    <3> QED BY <1>2, <2>1, <2>2, <2>3, <3>1, GotoProceeds
  <2>4. CASE row' # row
    <3>1. PICK r : r = [status |-> "running", cost |-> 0, day |-> day]
      OBVIOUS
    <3>2. row' = [row EXCEPT ![d] = r]
      BY <1>6, <2>4, <3>1 DEF OpenRunFails
    <3>3. r \in Row /\ r.day = day /\ r.cost = 0
      BY <1>1, <3>1 DEF Row
    <3> QED BY <1>2, <2>1, <2>2, <3>2, <3>3, RowProceeds
  <2> QED BY <2>3, <2>4
<1> QED BY <1>3, <1>4, <1>5, <1>6

\* A check that lets the diagnosis go on counts it among those in flight, of which the
\* day's recorded costs are the rest.
LEMMA CheckKeepsBudget ==
  ASSUME RepairInv, BudgetInv, NEW d \in Diags, Check(d)
  PROVE  BudgetInv'
<1> DEFINE n == Cardinality(InFlight) + 1
<1>1. UNCHANGED <<config, day, row, used>> /\ task[d].pc = "idle"
  BY DEF Check
<1>2. SpentOK /\ config \in Configs \cup {InitialConfig}
  BY <1>1, SpentByStep DEF BudgetInv, BudgetTypes
<1>3. row[d].cost # 1 /\ d \notin InFlight
  BY <1>1 DEF BudgetInv, CostsAreFinal, InFlight
<1>4. PICK p \in {"checked", "skipped"} :
        /\ Goto(d, p)
        /\ p = "checked" => config.enabled /\ Recorded(day) < config.cap /\ peak' = IF n > peak THEN n ELSE peak
        /\ p = "skipped" => peak' = peak
  BY DEF Check
<1>5. task[d] \in Task /\ p \in Places
  BY DEF RepairInv, Types, Places
<1>6. \A e \in Diags : task'[e].pc = IF e = d THEN p ELSE task[e].pc
  BY <1>4, <1>5, GotoRecord DEF Goto, RepairInv, Types
<1>7. CostsAreFinal' /\ row' \in [Diags -> Row]
  BY <1>1, <1>3, <1>6 DEF BudgetInv, BudgetTypes, CostsAreFinal
<1>8. CASE p = "skipped"
  <2>1. \A e \in Diags : e \in InFlight' => e \in InFlight
    BY <1>6, <1>8 DEF InFlight
  <2>2. \A e \in Diags : \A k \in 0 .. day : Counts(e, k)' => Counts(e, k)
    BY <1>1, <1>6, <1>8 DEF Counts, Unopened, Opened
  <2> QED BY <1>1, <1>2, <1>4, <1>7, <1>8, <2>1, <2>2, Shrinks DEF SpentOK
<1>9. CASE p = "checked"
  <2>1. InFlight' = InFlight \cup {d}
    BY <1>6, <1>9 DEF InFlight
  <2>2. InFlight \in SUBSET Diags /\ InFlight' \in SUBSET Diags
    BY DEF InFlight
  <2>3. IsFiniteSet(InFlight) /\ Cardinality(InFlight) \in Nat
    BY <2>2, Counted
  <2>4. Cardinality(InFlight') = n
    BY <1>3, <2>1, <2>3, FS_AddElement
  <2>5. n =< Cardinality(Diags) /\ n \in Nat /\ Cardinality(Diags) \in Nat
    BY <2>2, <2>4, Counted, DiagsAssumption, FS_CardinalityType
  <2>6. peak \in Nat /\ peak =< Cardinality(Diags) /\ MaxCap \in Nat
    BY <2>5, MaxCapIsHighest DEF BudgetInv, BudgetTypes
  <2>7. peak' \in 0 .. Cardinality(Diags) /\ peak =< peak' /\ n =< peak'
    BY <1>4, <1>9, <2>3, <2>5, <2>6
  <2>8. Recorded(day) < config.cap /\ config.cap =< MaxCap /\ config.cap \in Nat
    BY <1>2, <1>4, <1>9, MaxCapIsHighest DEF Config
  <2>9. {x \in Diags : row[x].day = day /\ row[x].cost = 1} \in SUBSET Diags
    OBVIOUS
  <2>10. Recorded(day) \in Nat
    BY <2>9, Counted DEF Recorded
  <2>11. PeakCounts'
    BY <2>4, <2>6, <2>7, <2>8, <2>10 DEF PeakCounts, MaxCap
  <2>12. BudgetTypes'
    BY <1>1, <1>2, <1>7, <2>7 DEF BudgetInv, BudgetTypes
  <2>13. ASSUME NEW k \in 0 .. day
         PROVE  May(k)' = {} \/ Cardinality(May(k)') < MaxCap + peak'
    <3>1. May(k)' \in SUBSET Diags /\ May(k) \in SUBSET Diags
      BY DEF May
    <3>2. Cardinality(May(k)') \in Nat /\ Cardinality(May(k)) \in Nat
      BY <3>1, Counted
    <3>3. CASE k = day
      <4> DEFINE Paid == {x \in Diags : row[x].day = day /\ row[x].cost = 1}
      <4>1. May(k)' \subseteq Paid \cup InFlight'
        BY <1>1, <3>3 DEF May, Counts, InFlight, Unopened, Opened
      <4>2. IsFiniteSet(Paid) /\ IsFiniteSet(InFlight')
        BY <2>2, <2>9, Counted
      <4>3. /\ Cardinality(Paid \cup InFlight') =
                 Cardinality(Paid) + Cardinality(InFlight') - Cardinality(Paid \cap InFlight')
            /\ Paid \cup InFlight' \in SUBSET Diags /\ Paid \cap InFlight' \in SUBSET Diags
        BY <2>2, <4>2, FS_Union
      <4>4. /\ Cardinality(May(k)') =< Cardinality(Paid \cup InFlight')
            /\ Cardinality(Paid \cap InFlight') \in Nat /\ Cardinality(Paid \cup InFlight') \in Nat
        BY <4>1, <4>3, Counted
      <4>5. Cardinality(Paid) = Recorded(day)
        BY DEF Recorded
      <4> HIDE DEF Paid, n
      <4>6. Cardinality(Paid \cup InFlight') =< Recorded(day) + n
        BY <2>4, <2>5, <2>10, <4>3, <4>4, <4>5
      <4> QED BY <2>5, <2>6, <2>7, <2>8, <2>10, <3>2, <4>4, <4>6
    <3>4. CASE k # day
      <4>1. May(k)' \in SUBSET May(k)
        BY <1>1, <1>3, <1>6, <1>9, <3>4 DEF May, Counts, Unopened, Opened
      <4>2. Cardinality(May(k)') =< Cardinality(May(k))
        BY <3>1, <4>1, Counted
      <4>3. May(k) = {} \/ Cardinality(May(k)) < MaxCap + peak
        BY DEF BudgetInv, OvershootInv
      <4>4. peak' \in Nat
        BY <2>5, <2>7
      <4> QED BY <2>6, <2>7, <3>2, <4>1, <4>2, <4>3, <4>4
    <3> QED BY <3>3, <3>4
  <2>14. OvershootInv'
    BY <1>1, <2>13 DEF OvershootInv, MaxCap
  <2> QED BY <1>7, <2>11, <2>12, <2>14 DEF BudgetInv
<1> QED BY <1>8, <1>9

\* At midnight only those without a row are carried into the new day.
LEMMA MidnightKeepsBudget == ASSUME RepairInv, BudgetInv, Midnight PROVE BudgetInv'
<1>1. UNCHANGED <<config, row, task, peak>> /\ day' = day + 1
  BY DEF Midnight
<1>2. used \in [EnvEvents -> Nat] /\ "midnight" \in EnvEvents /\ Bound \in [EnvEvents -> Nat]
      /\ (\A e \in EnvEvents : used[e] \in 0 .. Bound[e]) /\ day = used["midnight"] /\ day \in Nat
  BY BoundAssumption DEF BudgetInv, BudgetTypes, EnvEvents
<1>3. used' = [used EXCEPT !["midnight"] = used["midnight"] + 1] /\ used["midnight"] < Bound["midnight"]
  BY DEF Midnight, Spend
<1>4. \A e \in EnvEvents : used'[e] = IF e = "midnight" THEN used[e] + 1 ELSE used[e]
  BY <1>2, <1>3
<1>5. used' \in [EnvEvents -> Nat]
  BY <1>2, <1>3
<1>6. BudgetTypes'
  <2>1. \A e \in EnvEvents : used'[e] \in 0 .. Bound[e]
    <3> SUFFICES ASSUME NEW e \in EnvEvents PROVE used'[e] \in 0 .. Bound[e]
      OBVIOUS
    <3>1. Bound[e] \in Nat /\ used[e] \in 0 .. Bound[e]
      BY <1>2
    <3> QED BY <1>3, <1>4, <3>1
  <2>2. day' = used'["midnight"]
    BY <1>1, <1>2, <1>4
  <2>3. row \in [Diags -> Row] /\ peak \in 0 .. Cardinality(Diags) /\ config \in Configs \cup {InitialConfig}
    BY DEF BudgetInv, BudgetTypes
  <2> QED BY <1>1, <1>5, <2>1, <2>2, <2>3 DEF BudgetTypes
<1>7. CostsAreFinal'
  <2>1. \A d \in Diags : row[d].day \in Nat
    BY DEF BudgetInv, BudgetTypes, Row
  <2> QED BY <1>1, <1>2, <2>1 DEF BudgetInv, CostsAreFinal
<1>8. PeakCounts'
  <2>1. InFlight' = InFlight
    BY <1>1 DEF InFlight
  <2> QED BY <1>1, <2>1 DEF BudgetInv, PeakCounts, MaxCap
<1>9. peak \in Nat /\ MaxCap \in Nat
  <2>1. Cardinality(Diags) \in Nat
    BY DiagsAssumption, FS_CardinalityType
  <2> QED BY <2>1, MaxCapIsHighest DEF BudgetInv, BudgetTypes
<1>10. ASSUME NEW k \in 0 .. day + 1
       PROVE  May(k)' = {} \/ Cardinality(May(k)') < MaxCap + peak
  <2>1. May(k) \in SUBSET Diags /\ May(k)' \in SUBSET Diags
    BY DEF May
  <2>2. CASE k = day + 1
    <3>1. May(k)' \in SUBSET InFlight
      BY <1>1, <1>2, <2>2 DEF May, Counts, BudgetInv, BudgetTypes, CostsAreFinal, Row, InFlight,
                              Unopened, Opened
    <3>2. InFlight \in SUBSET Diags
      BY DEF InFlight
    <3>3. Cardinality(May(k)') =< Cardinality(InFlight) /\ Cardinality(InFlight) \in Nat
          /\ Cardinality(May(k)') \in Nat
      BY <2>1, <3>1, <3>2, Counted
    <3>4. Cardinality(InFlight) =< peak /\ (peak > 0 => MaxCap > 0)
      BY DEF BudgetInv, PeakCounts
    <3>5. CASE Cardinality(May(k)') = 0
      BY <2>1, <3>5, Counted, FS_EmptySet
    <3>6. CASE Cardinality(May(k)') > 0
      BY <1>9, <3>3, <3>4, <3>6
    <3> QED BY <3>3, <3>5, <3>6
  <2>3. CASE k # day + 1
    <3>1. k \in 0 .. day
      BY <1>2, <2>3
    <3>2. May(k)' \in SUBSET May(k)
      BY <1>1, <1>2, <3>1 DEF May, Counts
    <3>3. Cardinality(May(k)') =< Cardinality(May(k)) /\ Cardinality(May(k)) \in Nat
          /\ Cardinality(May(k)') \in Nat
      BY <2>1, <3>2, Counted
    <3>4. May(k) = {} \/ Cardinality(May(k)) < MaxCap + peak
      BY <3>1 DEF BudgetInv, OvershootInv
    <3> QED BY <1>9, <3>2, <3>3, <3>4
  <2> QED BY <2>2, <2>3
<1>11. OvershootInv'
  BY <1>1, <1>10 DEF OvershootInv, MaxCap
<1> QED BY <1>6, <1>7, <1>8, <1>11 DEF BudgetInv

LEMMA CrashKeepsBudget == ASSUME RepairInv, RepairInv', BudgetInv, Crash PROVE BudgetInv'
<1>1. UNCHANGED <<config, day, row, peak>>
  BY DEF Crash
<1>2. SpentOK
  BY SpentByStep DEF Crash
<1>3. \A d \in Diags : task[d] \in Task
  BY DEF RepairInv, Types
<1>4. \A d \in Diags : task'[d].pc = IF d \in InFlight THEN "lost" ELSE task[d].pc
  BY <1>3 DEF Crash, Task
<1>5. CostsAreFinal' /\ row' \in [Diags -> Row]
  BY <1>1, <1>4 DEF BudgetInv, BudgetTypes, CostsAreFinal, InFlight
<1>6. \A e \in Diags : e \in InFlight' => e \in InFlight
  BY <1>4 DEF InFlight
<1>7. \A e \in Diags : \A k \in 0 .. day : Counts(e, k)' => Counts(e, k)
  BY <1>1, <1>4 DEF Counts, InFlight, Unopened, Opened
<1>8. config' \in Configs \cup {InitialConfig}
  BY <1>1 DEF BudgetInv, BudgetTypes
<1> QED BY <1>1, <1>2, <1>5, <1>6, <1>7, <1>8, Shrinks DEF SpentOK

LEMMA InitBudget == Init => BudgetInv
<1> SUFFICES ASSUME Init PROVE BudgetInv
  OBVIOUS
<1>1. /\ config = InitialConfig /\ day = 0 /\ peak = 0
      /\ used = [e \in EnvEvents |-> 0] /\ row \in [Diags -> Row]
      /\ \A d \in Diags : task[d].pc = "idle" /\ row[d].cost = 0 /\ row[d].day = 0
  BY DEF Init, Row
<1>2. Cardinality(Diags) \in Nat
  BY DiagsAssumption, FS_CardinalityType
<1>3. BudgetTypes
  BY <1>1, <1>2, BoundAssumption DEF BudgetTypes, EnvEvents
<1>4. InFlight = {} /\ \A k \in 0 .. day : May(k) = {}
  BY <1>1 DEF InFlight, May, Counts, Unopened, Opened
<1>5. PeakCounts
  BY <1>1, <1>4, FS_EmptySet DEF PeakCounts
<1> QED BY <1>1, <1>3, <1>4, <1>5 DEF BudgetInv, CostsAreFinal, OvershootInv

LEMMA StepKeepsBudget == RepairInv /\ RepairInv' /\ BudgetInv /\ [Next]_vars => BudgetInv'
<1> SUFFICES ASSUME RepairInv, RepairInv', BudgetInv, [Next]_vars PROVE BudgetInv'
  OBVIOUS
<1>1. ASSUME NEW d \in Diags, Check(d) \/ DiagStep(d) \/ Fault(d) PROVE BudgetInv'
  BY <1>1, CheckKeepsBudget, GoingOnKeepsBudget, RowWritesKeepBudget DEF DiagStep, Fault
<1>2. config \in Configs \cup {InitialConfig}
  BY DEF BudgetInv, BudgetTypes
<1>3. ASSUME Dashboard \/ RejectRepair \/ StartScrape \/ UNCHANGED vars PROVE BudgetInv'
  <2>1. UNCHANGED <<config, day, row, task, peak>>
    BY <1>3 DEF Dashboard, ReadRepair, ReadOverrides, ApplyRepair, RejectRepair, StartScrape, vars
  <2>2. Spend("reject") \/ Spend("scrape") \/ used' = used
    BY <1>3 DEF Dashboard, ReadRepair, ReadOverrides, ApplyRepair, RejectRepair, StartScrape, vars
  <2> QED BY <1>2, <2>1, <2>2, SpentByStep, BudgetQuiet
<1>4. ASSUME NEW c \in Configs, UpdateConfig(c) PROVE BudgetInv'
  <2>1. UNCHANGED <<day, row, task, peak>> /\ config' = c /\ Spend("config")
    BY <1>4 DEF UpdateConfig
  <2> QED BY <2>1, SpentByStep, BudgetQuiet
<1>5. ASSUME Midnight \/ Crash PROVE BudgetInv'
  BY <1>5, MidnightKeepsBudget, CrashKeepsBudget
<1> QED BY <1>1, <1>3, <1>4, <1>5 DEF Next

LEMMA BudgetInvariant == Spec => []BudgetInv
  BY InitBudget, StepKeepsBudget, RepairsInvariant, PTL DEF Spec

\* Every row, task and counter has one of its values.
THEOREM TypeCorrect == Spec => []TypeOK
<1>1. BudgetInv /\ RepairInv => TypeOK
  <2> SUFFICES ASSUME BudgetInv, RepairInv PROVE TypeOK
    OBVIOUS
  <2>1. config \in Config
    BY ConfigsAssumption DEF BudgetInv, BudgetTypes
  <2> QED BY <2>1 DEF BudgetInv, BudgetTypes, RepairInv, Types, TypeOK
<1> QED BY <1>1, BudgetInvariant, RepairsInvariant, PTL

\* The recorded cost of a day passes the highest cap by less than the number of diagnoses
\* that were in flight together, although _check_daily_budget reads the sum long before
\* the cost it lets through is recorded.
THEOREM BudgetOvershootCorrect == Spec => []BudgetOvershoot
<1>1. BudgetInv => BudgetOvershoot
  <2> SUFFICES ASSUME BudgetInv, NEW k \in 0 .. day
               PROVE  Recorded(k) = 0 \/ Recorded(k) < MaxCap + peak
    BY DEF BudgetOvershoot
  <2> DEFINE Paid == {d \in Diags : row[d].day = k /\ row[d].cost = 1}
  <2>1. Paid \in SUBSET May(k) /\ May(k) \in SUBSET Diags /\ Paid \in SUBSET Diags
    BY DEF May, Counts
  <2>2. Recorded(k) =< Cardinality(May(k)) /\ Recorded(k) \in Nat /\ Cardinality(May(k)) \in Nat
    BY <2>1, Counted DEF Recorded
  <2>3. CASE May(k) = {}
    BY <2>1, <2>3, FS_EmptySet DEF Recorded
  <2>4. CASE Cardinality(May(k)) < MaxCap + peak
    <3>1. peak \in Nat /\ MaxCap \in Nat
      BY MaxCapIsHighest, DiagsAssumption, FS_CardinalityType DEF BudgetInv, BudgetTypes
    <3> QED BY <2>2, <2>4, <3>1
  <2> QED BY <2>3, <2>4 DEF BudgetInv, OvershootInv
<1> QED BY <1>1, BudgetInvariant, PTL

-----------------------------------------------------------------------------
(* The rows left running *)

\* A diagnosis has no row before it opens one, and has closed it when it is done.
RowFollows(d) ==
  /\ task[d].pc \in {"idle", "skipped"} \cup Unopened => row[d].status = "none"
  /\ task[d].pc = "done" => row[d].status # "running"

LeftInv == (\A d \in Diags : RowFollows(d)) /\ LeftRunningAccounted

\* A step of d alone: either it leaves no further row running, or it is a fault.
LEMMA LeftByStep ==
  ASSUME BudgetInv, LeftInv, NEW d \in Diags,
         \A e \in Diags \ {d} : row'[e] = row[e] /\ task'[e].pc = task[e].pc,
         RowFollows(d)',
         \/ d \notin LeftRunning' /\ (Spend("error") \/ used' = used)
         \/ Spend("error")
  PROVE  LeftInv'
<1>1. used \in [EnvEvents -> Nat] /\ "crash" \in EnvEvents /\ "error" \in EnvEvents
  BY DEF BudgetInv, BudgetTypes, EnvEvents
<1>2. /\ used'["crash"] = used["crash"]
      /\ used'["error"] \in {used["error"], used["error"] + 1}
      /\ Spend("error") => used'["error"] = used["error"] + 1
  BY <1>1 DEF Spend
<1>3. \A e \in Diags : RowFollows(e)'
  BY DEF LeftInv, RowFollows
<1>4. /\ LeftRunning \in SUBSET Diags /\ LeftRunning' \in SUBSET Diags
      /\ LeftRunning' \subseteq LeftRunning \cup {d}
      /\ d \notin LeftRunning' => LeftRunning' \subseteq LeftRunning
  BY DEF LeftRunning, InFlight
<1>5. Cardinality(LeftRunning) \in Nat /\ Cardinality(LeftRunning') \in Nat
      /\ IsFiniteSet(LeftRunning) /\ LeftRunning \cup {d} \in SUBSET Diags
  BY <1>4, Counted
<1>6. /\ Cardinality(LeftRunning') =< Cardinality(LeftRunning) + 1
      /\ d \notin LeftRunning' => Cardinality(LeftRunning') =< Cardinality(LeftRunning)
  <2>1. Cardinality(LeftRunning') =< Cardinality(LeftRunning \cup {d})
    BY <1>4, <1>5, Counted
  <2>2. Cardinality(LeftRunning \cup {d}) \in {Cardinality(LeftRunning), Cardinality(LeftRunning) + 1}
    BY <1>5, FS_AddElement
  <2>3. d \notin LeftRunning' => Cardinality(LeftRunning') =< Cardinality(LeftRunning)
    BY <1>4, Counted
  <2> QED BY <1>5, <2>1, <2>2, <2>3
<1>7. LeftRunningAccounted'
  BY <1>1, <1>2, <1>5, <1>6 DEF LeftInv, LeftRunningAccounted
<1> QED BY <1>3, <1>7 DEF LeftInv

LEMMA DiagStepKeepsLeft ==
  ASSUME RepairInv, RepairInv', BudgetInv, BudgetInv', LeftInv, NEW d \in Diags,
         Check(d) \/ DiagStep(d) \/ Fault(d)
  PROVE  LeftInv'
<1> USE DEF DiagStep, Fault
<1>1. /\ task \in [Diags -> Task] /\ task' \in [Diags -> Task]
      /\ row \in [Diags -> Row] /\ row' \in [Diags -> Row]
  BY DEF RepairInv, Types, BudgetInv, BudgetTypes
<1>2. \A e \in Diags \ {d} : row'[e] = row[e] /\ task'[e].pc = task[e].pc
  BY <1>1 DEF Check, CheckQuality, OpenRun, QualityIsFine, CaptureFails, Analyse, ReadPortal, Flush,
              CommitRepairs, CloseRun, FailRun, CommitFails, OpenRunFails, AnalysisFails, ApplyFails,
              CloseFails, FailRunFails, Goto
<1>3. RowFollows(d)
  BY DEF LeftInv
<1>4. CASE Check(d) \/ CheckQuality(d)
  <2>1. task'[d].pc \in {"checked", "skipped", "measured"} /\ row' = row /\ used' = used
    <3>1. CASE Check(d)
      BY <1>1, <3>1 DEF Check, Goto, Task
    <3>2. CASE CheckQuality(d)
      <4>1. PICK b \in BOOLEAN : task' = [task EXCEPT ![d] = [task[d] EXCEPT !.pc = "measured", !.degraded = b]]
        BY <3>2 DEF CheckQuality
      <4>2. [task[d] EXCEPT !.pc = "measured", !.degraded = b].pc = "measured"
        BY <1>1 DEF Task
      <4> QED BY <1>1, <3>2, <4>1, <4>2 DEF CheckQuality
    <3> QED BY <1>4, <3>1, <3>2
  <2>2. row'[d].status = "none"
    BY <1>3, <1>4, <2>1 DEF RowFollows, Check, CheckQuality, Unopened
  <2>3. RowFollows(d)' /\ d \notin LeftRunning'
    BY <2>2 DEF RowFollows, LeftRunning
  <2> QED BY <1>2, <2>1, <2>3, LeftByStep
<1>5. CASE \/ OpenRun(d) \/ QualityIsFine(d) \/ CaptureFails(d) \/ Flush(d) \/ CommitRepairs(d)
           \/ CommitFails(d) \/ CloseFails(d)
           \/ Analyse(d) \/ AnalysisFails(d) \/ ReadPortal(d) \/ ApplyFails(d)
  <2>1. task'[d].pc \in Opened
    <3>1. CASE \/ OpenRun(d) \/ QualityIsFine(d) \/ CaptureFails(d) \/ Flush(d) \/ CommitRepairs(d)
               \/ CommitFails(d) \/ CloseFails(d)
      BY <1>1, <3>1 DEF OpenRun, QualityIsFine, CaptureFails, Flush, CommitRepairs, CommitFails,
                        CloseFails, Goto, Task, Opened
    <3>2. CASE Analyse(d)
      <4>1. PICK s \in Suggestions, p \in {"closing", "deciding"} :
              task' = [task EXCEPT ![d] = [task[d] EXCEPT !.called = TRUE, !.repairs = Verdicts(s), !.pc = p]]
        BY <3>2 DEF Analyse, Verdicts
      <4>2. [task[d] EXCEPT !.called = TRUE, !.repairs = Verdicts(s), !.pc = p].pc = p
        BY <1>1 DEF Task
      <4> QED BY <1>1, <4>1, <4>2 DEF Opened
    <3>3. CASE AnalysisFails(d)
      <4>1. [task[d] EXCEPT !.pc = "failing", !.called = TRUE].pc = "failing"
        BY <1>1 DEF Task
      <4> QED BY <1>1, <3>3, <4>1 DEF AnalysisFails, Opened
    <3>4. CASE ReadPortal(d)
      <4>1. PICK t : /\ task' = [task EXCEPT ![d] = t]
                     /\ \/ t = [task[d] EXCEPT !.pc = "merging", !.snap = overrides]
                        \/ t = [task[d] EXCEPT !.pc = "storing"]
        BY <3>4 DEF ReadPortal
      <4>2. t.pc \in {"merging", "storing"}
        BY <1>1, <4>1 DEF Task
      <4> QED BY <1>1, <4>1, <4>2 DEF Opened
    <3>5. CASE ApplyFails(d)
      <4>1. [task[d] EXCEPT !.pc = "storing", !.broken = TRUE].pc = "storing"
        BY <1>1 DEF Task
      <4> QED BY <1>1, <3>5, <4>1 DEF ApplyFails, Opened
    <3> QED BY <1>5, <3>1, <3>2, <3>3, <3>4, <3>5
  <2>2. RowFollows(d)' /\ d \notin LeftRunning'
    BY <2>1 DEF RowFollows, LeftRunning, InFlight, Opened, Unopened
  <2>3. Spend("error") \/ used' = used
    BY <1>5 DEF OpenRun, QualityIsFine, CaptureFails, Flush, CommitRepairs, CommitFails, CloseFails,
                Analyse, AnalysisFails, ReadPortal, ApplyFails
  <2> QED BY <1>2, <2>2, <2>3, LeftByStep
<1>6. CASE CloseRun(d) \/ FailRun(d)
  <2>1. task'[d].pc = "done" /\ row'[d].status \in {"completed", "failed"} /\ used' = used
    BY <1>1, <1>6 DEF CloseRun, FailRun, Goto, Task, Row
  <2>2. RowFollows(d)' /\ d \notin LeftRunning'
    BY <2>1 DEF RowFollows, LeftRunning, Unopened
  <2> QED BY <1>2, <2>1, <2>2, LeftByStep
<1>7. CASE OpenRunFails(d) \/ FailRunFails(d)
  <2>1. task'[d].pc = "lost" /\ Spend("error")
    BY <1>1, <1>7 DEF OpenRunFails, FailRunFails, Goto, Task
  <2>2. RowFollows(d)'
    BY <2>1 DEF RowFollows, Unopened
  <2> QED BY <1>2, <2>1, <2>2, LeftByStep
<1> QED BY <1>4, <1>5, <1>6, <1>7

\* Steps that touch neither rows nor diagnoses.
LEMMA LeftQuiet ==
  ASSUME BudgetInv, LeftInv, task' = task, row' = row,
         used' = used \/ \E e \in EnvEvents : Spend(e)
  PROVE  LeftInv'
<1>1. used \in [EnvEvents -> Nat] /\ "crash" \in EnvEvents /\ "error" \in EnvEvents
  BY DEF BudgetInv, BudgetTypes, EnvEvents
<1>2. used["crash"] =< used'["crash"] /\ used["error"] =< used'["error"]
      /\ used'["crash"] \in Nat /\ used'["error"] \in Nat
  <2>1. CASE used' = used
    BY <1>1, <2>1
  <2>2. CASE used' # used
    <3>1. PICK e \in EnvEvents : Spend(e)
      BY <2>2
    <3>2. \A x \in EnvEvents : used'[x] = IF x = e THEN used[e] + 1 ELSE used[x]
      BY <1>1, <3>1 DEF Spend
    <3> QED BY <1>1, <3>2
  <2> QED BY <2>1, <2>2
<1>3. LeftRunning' = LeftRunning /\ \A d \in Diags : RowFollows(d)'
  BY DEF LeftInv, RowFollows, LeftRunning, InFlight
<1>4. LeftRunning \in SUBSET Diags
  BY DEF LeftRunning
<1>5. Cardinality(LeftRunning) \in Nat
  BY <1>4, Counted
<1>6. LeftRunningAccounted'
  BY <1>1, <1>2, <1>3, <1>5 DEF LeftInv, LeftRunningAccounted
<1> QED BY <1>3, <1>6 DEF LeftInv

\* A crash is allowed to leave every row in flight.
LEMMA CrashKeepsLeft == ASSUME RepairInv, BudgetInv, LeftInv, Crash PROVE LeftInv'
<1>1. used \in [EnvEvents -> Nat] /\ "crash" \in EnvEvents
  BY DEF BudgetInv, BudgetTypes, EnvEvents
<1>2. used'["crash"] = used["crash"] + 1
  BY <1>1 DEF Crash, Spend
<1>3. \A d \in Diags : task'[d].pc \in {"lost", task[d].pc}
  BY DEF Crash, RepairInv, Types, Task
<1>4. row' = row
  BY DEF Crash
<1>5. \A d \in Diags : RowFollows(d)'
  BY <1>3, <1>4 DEF LeftInv, RowFollows, Unopened
<1> QED BY <1>1, <1>2, <1>5 DEF LeftInv, LeftRunningAccounted

LEMMA InitLeft == Init => LeftInv
<1> SUFFICES ASSUME Init PROVE LeftInv
  OBVIOUS
<1>1. LeftRunning = {}
  BY DEF Init, LeftRunning
<1>2. Cardinality(LeftRunning) = 0 /\ used["error"] = 0
  BY <1>1, FS_EmptySet DEF Init, EnvEvents
<1> QED BY <1>2 DEF Init, LeftInv, RowFollows, LeftRunningAccounted

LEMMA StepKeepsLeft ==
  RepairInv /\ RepairInv' /\ BudgetInv /\ BudgetInv' /\ LeftInv /\ [Next]_vars => LeftInv'
<1> SUFFICES ASSUME RepairInv, RepairInv', BudgetInv, BudgetInv', LeftInv, [Next]_vars PROVE LeftInv'
  OBVIOUS
<1>1. ASSUME NEW d \in Diags, Check(d) \/ DiagStep(d) \/ Fault(d) PROVE LeftInv'
  BY <1>1, DiagStepKeepsLeft
<1>2. ASSUME \/ Dashboard \/ RejectRepair \/ StartScrape \/ Midnight \/ UNCHANGED vars
             \/ \E c \in Configs : UpdateConfig(c)
      PROVE  LeftInv'
  <2>1. task' = task /\ row' = row
    BY <1>2 DEF Dashboard, ReadRepair, ReadOverrides, ApplyRepair, RejectRepair, StartScrape, Midnight,
                UpdateConfig, vars
  <2>2. used' = used \/ Spend("reject") \/ Spend("scrape") \/ Spend("midnight") \/ Spend("config")
    BY <1>2 DEF Dashboard, ReadRepair, ReadOverrides, ApplyRepair, RejectRepair, StartScrape, Midnight,
                UpdateConfig, vars
  <2>3. /\ "reject" \in EnvEvents /\ "scrape" \in EnvEvents
        /\ "midnight" \in EnvEvents /\ "config" \in EnvEvents
    BY DEF EnvEvents
  <2> QED BY <2>1, <2>2, <2>3, LeftQuiet
<1>3. ASSUME Crash PROVE LeftInv'
  BY <1>3, CrashKeepsLeft
<1> QED BY <1>1, <1>2, <1>3 DEF Next

\* As long as the process lives, a run row stays running only where the database failed with
\* no handler left to close it: one row for one failure.
THEOREM LeftRunningCorrect == Spec => []LeftRunningAccounted
<1>1. LeftInv => LeftRunningAccounted
  BY DEF LeftInv
<1>2. Spec => []LeftInv
  BY InitLeft, StepKeepsLeft, RepairsInvariant, BudgetInvariant, PTL DEF Spec
<1> QED BY <1>1, <1>2, PTL
===============================================================================
