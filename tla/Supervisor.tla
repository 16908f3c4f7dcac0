------------------------------ MODULE Supervisor ------------------------------
(***************************************************************************)
(* The supervision of one portal: diagnoses that the listener starts as    *)
(* tasks of the daemon (run_diagnostic), each of which may ask the model   *)
(* for new selectors, log them as repairs and write the confident ones     *)
(* into portals.selector_overrides; the dashboard's requests that apply or *)
(* reject a queued repair; and the scrapes that merge the overrides into   *)
(* the SELECTORS of their process.                                         *)
(*                                                                         *)
(* A selector is named by the diagnosis that proposed it.  Costs count     *)
(* analyses (0.025 dollars each).  Left out: prompts, screenshots, the     *)
(* audit rows' wording, quality figures.                                   *)
(***************************************************************************)
EXTENDS Naturals, Sequences, FiniteSets

CONSTANTS
  Diags,        \* diagnoses (tasks of run_diagnostic)
  Requests,     \* requests of the dashboard to apply a repair
  Fields,       \* fields with a threshold
  None,         \* no override
  Configs,      \* the values supervisor_configs may be given
  InitialConfig,
  Suggestions,  \* the lists of repairs an analysis may return
  Bound,        \* [EnvEvents -> Nat]: how often the environment may act
  EnvKinds      \* in how many of these ways it may act in one behaviour

EnvEvents == {"error", "crash", "config", "reject", "scrape", "midnight"}

ASSUME NoneAssumption == None \notin Diags
ASSUME DiagsAssumption == IsFiniteSet(Diags)
ASSUME BoundAssumption == Bound \in [EnvEvents -> Nat]
ASSUME SuggestionsAssumption ==
  Suggestions \subseteq Seq([field : Fields, confidence : Nat, selector : BOOLEAN])

VARIABLES
  config,     \* the supervisor_configs row of the portal
  day,        \* the current day
  row,        \* supervisor_runs, one row per diagnosis
  log,        \* repair_logs, the rows of each diagnosis in order
  overrides,  \* portals.selector_overrides
  selectors,  \* the overrides merged into config.SELECTORS of the scraping process
  lock,       \* the diagnosis whose transaction has written the portal's row
  task,       \* the diagnoses
  request,    \* the dashboard's requests
  used,       \* how often each environment event has happened
  peak,       \* history: most diagnoses in flight at once
  stale       \* history: some write replaced overrides newer than those it read

vars == <<config, day, row, log, overrides, selectors, lock, task, request, used,
          peak, stale>>

-----------------------------------------------------------------------------

Config == [enabled : BOOLEAN, cap : Nat, auto : Nat, review : Nat]

ASSUME ConfigsAssumption == IsFiniteSet(Configs) /\ Configs \cup {InitialConfig} \subseteq Config

Row == [status : {"none", "running", "completed", "failed"}, cost : {0, 1}, day : Nat]
Repair == [field : Fields, selector : BOOLEAN,
           status : {"queued", "auto_applied", "manually_applied", "rejected"}]

Overrides == [Fields -> Diags \cup {None}]

\* degraded: some field is below its threshold; called: the model was asked; repairs: the rows to be logged; snap: the overrides
\* read for the first repair applied; broken: the session has seen a failed flush.
Task ==
  [pc : {"idle", "checked", "measured", "diagnosing", "deciding", "merging", "storing",
         "closing", "failing", "skipped", "done", "lost"},
   degraded : BOOLEAN, called : BOOLEAN, repairs : Seq(Repair), snap : Overrides, broken : BOOLEAN]

Request ==
  [pc : {"idle", "queued", "merging", "done"}, diag : Diags \cup {None}, index : Nat,
   snap : Overrides]

NoOverride == [f \in Fields |-> None]

Spend(e) ==
  /\ used[e] < Bound[e]
  /\ Cardinality({x \in EnvEvents : used[x] > 0} \cup {e}) =< EnvKinds
  /\ used' = [used EXCEPT ![e] = @ + 1]

InFlight == {d \in Diags : task[d].pc \notin {"idle", "skipped", "done", "lost"}}

\* The sum of ai_cost_usd over the rows created on day k.
Recorded(k) == Cardinality({d \in Diags : row[d].day = k /\ row[d].cost = 1})

\* r is applied by the diagnosis itself.
IsAuto(r) == r.status = "auto_applied"

\* Overrides o with the applied ones among the repairs of d on top.
Merge(o, d, repairs) ==
  [f \in Fields |->
     IF \E i \in DOMAIN repairs : IsAuto(repairs[i]) /\ repairs[i].field = f THEN d ELSE o[f]]

Init ==
  /\ config = InitialConfig
  /\ day = 0
  /\ row = [d \in Diags |-> [status |-> "none", cost |-> 0, day |-> 0]]
  /\ log = [d \in Diags |-> <<>>]
  /\ overrides = NoOverride
  /\ selectors = NoOverride
  /\ lock = None
  /\ task = [d \in Diags |-> [pc |-> "idle", degraded |-> FALSE, called |-> FALSE, repairs |-> <<>>,
                              snap |-> NoOverride, broken |-> FALSE]]
  /\ request = [q \in Requests |-> [pc |-> "idle", diag |-> None, index |-> 0,
                                    snap |-> NoOverride]]
  /\ used = [e \in EnvEvents |-> 0]
  /\ peak = 0
  /\ stale = FALSE

Goto(d, pc) == task' = [task EXCEPT ![d].pc = pc]

-----------------------------------------------------------------------------
(* A diagnosis: run_diagnostic, with check_and_repair and apply_selector_override *)

\* Mutant: the cap may be reached before the check.
CheckAtCap(d) ==
  /\ task[d].pc = "idle"
  /\ LET goes == config.enabled /\ Recorded(day) <= config.cap
         n == Cardinality(InFlight) + 1
     IN /\ Goto(d, IF goes THEN "checked" ELSE "skipped")
        /\ peak' = IF goes /\ n > peak THEN n ELSE peak
  /\ UNCHANGED <<config, day, row, log, overrides, selectors, lock, request, used, stale>>

\* The listener starts a task for each message; it reads the configuration and the
\* day's cost, and goes on only when enabled and below the cap.
Check(d) ==
  /\ task[d].pc = "idle"
  /\ LET goes == config.enabled /\ Recorded(day) < config.cap
         n == Cardinality(InFlight) + 1
     IN /\ Goto(d, IF goes THEN "checked" ELSE "skipped")
        /\ peak' = IF goes /\ n > peak THEN n ELSE peak
  /\ UNCHANGED <<config, day, row, log, overrides, selectors, lock, request, used, stale>>

\* The fill rates of the portal's listings are measured; without listings there are none
\* and no field counts as degraded.
CheckQuality(d) ==
  /\ task[d].pc = "checked"
  /\ \E b \in BOOLEAN :
       task' = [task EXCEPT ![d] = [@ EXCEPT !.pc = "measured", !.degraded = b]]
  /\ UNCHANGED <<config, day, row, log, overrides, selectors, lock, request, used, peak, stale>>

\* The run row is committed.
OpenRun(d) ==
  /\ task[d].pc = "measured"
  /\ row' = [row EXCEPT ![d] = [status |-> "running", cost |-> 0, day |-> day]]
  /\ Goto(d, "diagnosing")
  /\ UNCHANGED <<config, day, log, overrides, selectors, lock, request, used, peak, stale>>

\* The commit, or its acknowledgement, or the refresh after it fails, outside the try: the
\* task ends, and the row may have been written.
OpenRunFails(d) ==
  /\ task[d].pc = "measured"
  /\ Spend("error")
  /\ \/ row' = [row EXCEPT ![d] = [status |-> "running", cost |-> 0, day |-> day]]
     \/ UNCHANGED row
  /\ Goto(d, "lost")
  /\ UNCHANGED <<config, day, log, overrides, selectors, lock, request, peak, stale>>

\* Mutant: an early return that leaves the row.
QualityIsFineReturns(d) ==
  /\ task[d].pc = "diagnosing"
  /\ ~task[d].degraded
  /\ Goto(d, "done")
  /\ UNCHANGED <<config, day, row, log, overrides, selectors, lock, request, used, peak, stale>>

QualityIsFine(d) ==
  /\ task[d].pc = "diagnosing"
  /\ ~task[d].degraded
  /\ Goto(d, "closing")
  /\ UNCHANGED <<config, day, row, log, overrides, selectors, lock, request, used, peak, stale>>

\* The portal has no capture address, or its page or its screenshot fails: no analysis.
CaptureFails(d) ==
  /\ task[d].pc = "diagnosing"
  /\ task[d].degraded
  /\ Goto(d, "closing")
  /\ UNCHANGED <<config, day, row, log, overrides, selectors, lock, request, used, peak, stale>>

\* Mutant: a suggestion below both thresholds keeps the default status.
VerdictDefault(s) ==
  IF s.confidence >= config.auto /\ s.selector THEN "auto_applied"
  ELSE IF s.confidence >= config.review THEN "queued" ELSE "suggested"

\* What the confidence of a suggestion makes of it under the thresholds.
Verdict(s) ==
  IF s.confidence >= config.auto /\ s.selector THEN "auto_applied"
  ELSE IF s.confidence >= config.review THEN "queued" ELSE "rejected"

\* The analysis returns a list of repairs; with an empty one nothing is logged.
Analyse(d) ==
  /\ task[d].pc = "diagnosing"
  /\ task[d].degraded
  /\ \E s \in Suggestions :
       task' = [task EXCEPT ![d] =
         [@ EXCEPT !.called = TRUE,
                   !.repairs = [i \in DOMAIN s |-> [field |-> s[i].field,
                                                    selector |-> s[i].selector,
                                                    status |-> Verdict(s[i])]],
                   !.pc = IF s = <<>> THEN "closing" ELSE "deciding"]]
  /\ UNCHANGED <<config, day, row, log, overrides, selectors, lock, request, used, peak, stale>>

\* The call to the model, or what follows it, raises.
AnalysisFails(d) ==
  /\ task[d].pc = "diagnosing"
  /\ task[d].degraded
  /\ Spend("error")
  /\ task' = [task EXCEPT ![d] = [@ EXCEPT !.pc = "failing", !.called = TRUE]]
  /\ UNCHANGED <<config, day, row, log, overrides, selectors, lock, request, peak, stale>>

HasAuto(d) == \E i \in DOMAIN task[d].repairs : IsAuto(task[d].repairs[i])

\* The portal is read once: later repairs of the session find it in the identity map.
ReadPortal(d) ==
  /\ task[d].pc = "deciding"
  /\ task' = [task EXCEPT ![d] =
       IF HasAuto(d) THEN [@ EXCEPT !.pc = "merging", !.snap = overrides]
       ELSE [@ EXCEPT !.pc = "storing"]]
  /\ UNCHANGED <<config, day, row, log, overrides, selectors, lock, request, used, peak, stale>>

\* The merged overrides are flushed, which waits for the lock of the portal's row and
\* keeps it.
Flush(d) ==
  /\ task[d].pc = "merging"
  /\ lock = None
  /\ lock' = d
  /\ Goto(d, "storing")
  /\ UNCHANGED <<config, day, row, log, overrides, selectors, request, used, peak, stale>>

\* Mutant: apply_selector_override rolls its own statements back.
ApplyFailsCleanly(d) ==
  /\ task[d].pc = "merging"
  /\ Spend("error")
  /\ Goto(d, "storing")
  /\ UNCHANGED <<config, day, row, log, overrides, selectors, lock, request, peak, stale>>

\* A statement of apply_selector_override raises: it answers FALSE, which nobody reads,
\* and its session can no longer commit.
ApplyFails(d) ==
  /\ task[d].pc = "merging"
  /\ Spend("error")
  /\ task' = [task EXCEPT ![d] = [@ EXCEPT !.pc = "storing", !.broken = TRUE]]
  /\ UNCHANGED <<config, day, row, log, overrides, selectors, lock, request, peak, stale>>

\* The repair rows and the overrides are committed.
CommitRepairs(d) ==
  /\ task[d].pc = "storing"
  /\ ~task[d].broken
  /\ log' = [log EXCEPT ![d] = task[d].repairs]
  /\ IF lock = d
     THEN /\ overrides' = Merge(task[d].snap, d, task[d].repairs)
          /\ stale' = (stale \/ overrides # task[d].snap)
          /\ lock' = None
     ELSE UNCHANGED <<overrides, stale, lock>>
  /\ Goto(d, "closing")
  /\ UNCHANGED <<config, day, row, selectors, request, used, peak>>

Unlock(d) == lock' = IF lock = d THEN None ELSE lock

\* Mutant: the overrides were committed on their own, before the log.
CommitFailsHalfway(d) ==
  /\ task[d].pc = "storing"
  /\ IF task[d].broken THEN UNCHANGED used ELSE Spend("error")
  /\ overrides' = IF lock = d THEN Merge(task[d].snap, d, task[d].repairs) ELSE overrides
  /\ Unlock(d)
  /\ Goto(d, "failing")
  /\ UNCHANGED <<config, day, row, log, selectors, request, peak, stale>>

\* Mutant: the transaction of a failed commit stays open.
CommitFailsLocked(d) ==
  /\ task[d].pc = "storing"
  /\ IF task[d].broken THEN UNCHANGED used ELSE Spend("error")
  /\ Goto(d, "failing")
  /\ UNCHANGED <<config, day, row, log, overrides, selectors, lock, request, peak, stale>>

\* The commit raises, as it must when the session is broken: everything is rolled back.
CommitFails(d) ==
  /\ task[d].pc = "storing"
  /\ IF task[d].broken THEN UNCHANGED used ELSE Spend("error")
  /\ Unlock(d)
  /\ Goto(d, "failing")
  /\ UNCHANGED <<config, day, row, log, overrides, selectors, request, peak, stale>>

\* The row is completed, with the cost of the analysis if there was one.
CloseRun(d) ==
  /\ task[d].pc = "closing"
  /\ row' = [row EXCEPT ![d].status = "completed",
                        ![d].cost = IF task[d].called THEN 1 ELSE 0]
  /\ Goto(d, "done")
  /\ UNCHANGED <<config, day, log, overrides, selectors, lock, request, used, peak, stale>>

CloseFails(d) ==
  /\ task[d].pc = "closing"
  /\ Spend("error")
  /\ Goto(d, "failing")
  /\ UNCHANGED <<config, day, row, log, overrides, selectors, lock, request, peak, stale>>

\* The handler marks the row as failed; the cost is not recorded.
FailRun(d) ==
  /\ task[d].pc = "failing"
  /\ row' = [row EXCEPT ![d].status = "failed"]
  /\ Goto(d, "done")
  /\ UNCHANGED <<config, day, log, overrides, selectors, lock, request, used, peak, stale>>

\* The handler's own commit raises: the task ends and the row stays as it is.
FailRunFails(d) ==
  /\ task[d].pc = "failing"
  /\ Spend("error")
  /\ Goto(d, "lost")
  /\ UNCHANGED <<config, day, row, log, overrides, selectors, lock, request, peak, stale>>

-----------------------------------------------------------------------------
(* The dashboard *)

\* applyRepair, first read: the repair's row, which must be queued.
ReadRepair(q) ==
  /\ request[q].pc = "idle"
  /\ \E d \in Diags : \E i \in DOMAIN log[d] :
       request' = [request EXCEPT ![q] =
         IF log[d][i].status = "queued" THEN [@ EXCEPT !.pc = "queued", !.diag = d, !.index = i]
         ELSE [@ EXCEPT !.pc = "done"]]
  /\ UNCHANGED <<config, day, row, log, overrides, selectors, lock, task, used, peak, stale>>

\* Second read: the portal's overrides.
ReadOverrides(q) ==
  /\ request[q].pc = "queued"
  /\ request' = [request EXCEPT ![q] = [@ EXCEPT !.pc = "merging", !.snap = overrides]]
  /\ UNCHANGED <<config, day, row, log, overrides, selectors, lock, task, used, peak, stale>>

\* The transaction writes the merged overrides and the repair's status.
ApplyRepair(q) ==
  /\ request[q].pc = "merging"
  /\ lock = None
  /\ LET d == request[q].diag
         i == request[q].index
         r == log[d][i]
     IN /\ overrides' = IF r.selector THEN [request[q].snap EXCEPT ![r.field] = d]
                        ELSE request[q].snap
        /\ log' = [log EXCEPT ![d][i].status = "manually_applied"]
  /\ stale' = (stale \/ overrides # request[q].snap)
  /\ request' = [request EXCEPT ![q].pc = "done"]
  /\ UNCHANGED <<config, day, row, selectors, lock, task, used, peak>>

\* rejectRepair looks at no status.
RejectRepair ==
  /\ Spend("reject")
  /\ \E d \in Diags : \E i \in DOMAIN log[d] :
       log' = [log EXCEPT ![d][i].status = "rejected"]
  /\ UNCHANGED <<config, day, row, overrides, selectors, lock, task, request, peak, stale>>

UpdateConfig(c) ==
  /\ Spend("config")
  /\ config' = c
  /\ UNCHANGED <<day, row, log, overrides, selectors, lock, task, request, peak, stale>>

-----------------------------------------------------------------------------
(* The scrapes, the clock and the process *)

\* _apply_selector_overrides: the overrides are merged into the module of the process.
StartScrape ==
  /\ Spend("scrape")
  /\ selectors' = [f \in Fields |-> IF overrides[f] = None THEN selectors[f] ELSE overrides[f]]
  /\ UNCHANGED <<config, day, row, log, overrides, lock, task, request, peak, stale>>

Midnight ==
  /\ Spend("midnight")
  /\ day' = day + 1
  /\ UNCHANGED <<config, row, log, overrides, selectors, lock, task, request, peak, stale>>

\* The daemon's process is lost, with its tasks, its transactions and its modules.
Crash ==
  /\ Spend("crash")
  /\ task' = [d \in Diags |-> IF d \in InFlight THEN [task[d] EXCEPT !.pc = "lost"] ELSE task[d]]
  /\ lock' = None
  /\ selectors' = NoOverride
  /\ UNCHANGED <<config, day, row, log, overrides, request, peak, stale>>

-----------------------------------------------------------------------------

DiagStep(d) ==
  \/ CheckQuality(d) \/ OpenRun(d) \/ QualityIsFine(d) \/ CaptureFails(d) \/ Analyse(d)
  \/ ReadPortal(d) \/ Flush(d)
  \/ CommitRepairs(d) \/ CloseRun(d) \/ FailRun(d) \/ CommitFails(d)

Fault(d) == OpenRunFails(d) \/ AnalysisFails(d) \/ ApplyFails(d) \/ CloseFails(d) \/ FailRunFails(d)

Dashboard == \E q \in Requests : ReadRepair(q) \/ ReadOverrides(q) \/ ApplyRepair(q)

Next ==
  \/ \E d \in Diags : Check(d) \/ DiagStep(d) \/ Fault(d)
  \/ Dashboard \/ RejectRepair
  \/ \E c \in Configs : UpdateConfig(c)
  \/ StartScrape \/ Midnight \/ Crash

Spec == Init /\ [][Next]_vars

\* A diagnosis that has begun goes on as long as its process lives; nothing is assumed
\* of the dashboard, the clock and the faults.
FairSpec == Spec /\ \A d \in Diags : WF_vars(DiagStep(d))

-----------------------------------------------------------------------------
(* Properties *)

\* Every row and every task has one of its states.
TypeOK ==
  /\ config \in Config
  /\ day = used["midnight"]
  /\ row \in [Diags -> Row]
  /\ log \in [Diags -> Seq(Repair)]
  /\ overrides \in Overrides /\ selectors \in Overrides
  /\ lock \in Diags \cup {None}
  /\ task \in [Diags -> Task]
  /\ request \in [Requests -> Request]
  /\ \A e \in EnvEvents : used[e] \in 0 .. Bound[e]
  /\ peak \in 0 .. Cardinality(Diags)
  /\ stale \in BOOLEAN

\* The highest daily cap there has been.
MaxCap == CHOOSE n \in {c.cap : c \in Configs \cup {InitialConfig}} :
            \A c \in Configs \cup {InitialConfig} : c.cap =< n

\* "Check if today's AI spend is within budget" (_check_daily_budget): the check and the
\* cost it waits for are far apart, so the recorded cost of a day may pass the cap, but
\* only by the diagnoses that were in flight together, and never by one alone.
BudgetOvershoot ==
  \A k \in 0 .. day : Recorded(k) = 0 \/ Recorded(k) < MaxCap + peak

\* The selector that diagnosis d proposed for f is in force or was: it is in the log as
\* applied, or was rejected afterwards.
Accounted(d, f) ==
  \E i \in DOMAIN log[d] :
    /\ log[d][i].field = f
    /\ log[d][i].selector
    /\ log[d][i].status \in {"auto_applied", "manually_applied", "rejected"}

\* No override is in force, in the database or in a scraping process, without a row of
\* repair_logs that accounts for it, whatever fails between the two writes.
OverridesAccounted ==
  \A f \in Fields : /\ overrides[f] # None => Accounted(overrides[f], f)
                    /\ selectors[f] # None => Accounted(selectors[f], f)

\* A repair logged as applied has its field overridden, by itself or by a later repair;
\* the result of apply_selector_override that nobody reads does not matter.  Only two
\* overlapping writers of the portal's overrides lose one.
AppliedIsInForce ==
  \A d \in Diags : \A i \in DOMAIN log[d] :
    /\ log[d][i].status \in {"auto_applied", "manually_applied"}
    /\ log[d][i].selector
    /\ ~stale
    => overrides[log[d][i].field] # None

\* The rows that nobody will close any more.
LeftRunning == {d \in Diags : row[d].status = "running" /\ d \notin InFlight}

\* A diagnosis that ends leaves its row running only when its process has died or the
\* database has failed where no handler is left to close it, in the refresh after the row
\* was committed or in the handler itself: one row for one such failure, and none for the
\* failures of the analysis, the repairs and the closing.
LeftRunningAccounted == used["crash"] = 0 => Cardinality(LeftRunning) =< used["error"]

\* A run that was opened is completed or failed in the end, unless its task was lost: with
\* its process, between the commit that opened the row and the try that would close it, or
\* in the handler of a failure.
RunCloses ==
  \A d \in Diags :
    row[d].status = "running" ~> (row[d].status # "running" \/ task[d].pc = "lost")
=============================================================================
