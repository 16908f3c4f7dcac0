------------------------------ MODULE WorkPlans ------------------------------
(***************************************************************************)
(* Work plans: the full cycle, which for each portal scouts, creates a     *)
(* plan, approves a harmless one, launches its workers through the         *)
(* Dramatiq queue and then runs ETL, export and synchronisation; the       *)
(* dashboard's requests to approve or cancel a plan; and the workers.      *)
(*                                                                         *)
(* The cycle uses one session throughout: it sees its own copy of a plan's *)
(* status (expire_on_commit=False), and a failed statement leaves it       *)
(* unusable.  complete_plan and cancel_plan have no caller.                *)
(***************************************************************************)
EXTENDS Scout

CONSTANTS
  NumPlans,    \* portals and operations of the cycle; plan i is the i-th
  Reports,     \* what the scouts may find: functions from states to visits
  Requests,    \* requests of the dashboard
  MaxRetries,  \* max_retries of the actor: 1
  Bound,       \* [EnvEvents -> Nat]: how often the environment may act
  EnvKinds     \* in how many of these ways it may act in one behaviour

EnvEvents == {"request", "error", "raise", "timeLimit", "crash"}
Plans == 1 .. NumPlans
Workers == 1 .. (Len(Volumes) + 1)
Phases == <<"etl", "export", "supabase">>

ASSUME ReportsAssumption == Reports \subseteq [StateSet -> Visit]
ASSUME NumPlansAssumption == NumPlans \in Nat \ {0}
ASSUME BoundAssumption == Bound \in [EnvEvents -> Nat]

VARIABLES
  cycle,    \* the process of run_full_cycle
  plan,     \* work_plans
  request,  \* the dashboard's requests
  task,     \* the message and the worker of each assignment
  raced,    \* history: a writer has overwritten a status it had not read
  used      \* how often each environment event has happened

vars == <<cycle, plan, request, task, raced, used>>

-----------------------------------------------------------------------------

Status == {"none", "draft", "approved", "running", "completed", "failed", "cancelled"}

\* Bounds of the automatic approval.
Safe(r) == SelectorsHealthy(r) /\ AntiBotLevel(r) \in {"none", "low", "medium"}

\* The report and the plan of each outcome of the visits.
Scouted ==
  [visits \in Reports |->
     LET r == [s \in StateSet |-> StateReport(visits[s])]
     IN [report |-> r, assignments |-> Assign(r), safe |-> Safe(r)]]

\* report: scout_report; assignments: worker_assignments, a sequence of sets of states.
Plan == [status : Status, report : {Scouted[v].report : v \in Reports} \cup {<<>>},
         assignments : Seq(SUBSET StateSet)]

\* next: the assignment to send; broken: the session needs a rollback nobody does;
\* done: the phases that succeeded.
Cycle ==
  [pc : {"scout", "create", "approve", "execute", "send", "phases", "done"},
   plan : 1 .. (NumPlans + 1), visits : Reports \cup {<<>>}, next : Nat,
   broken : BOOLEAN, phase : Nat, done : SUBSET {Phases[i] : i \in DOMAIN Phases}]

Request == [pc : {"idle", "approve", "cancel", "done"}, plan : Nat, seen : Status]

\* rows: the scrape_jobs rows of the attempts made; covered: the states scraped.
Task ==
  [pc : {"none", "queued", "working", "closing", "acked", "dead"},
   tries : Nat, outcome : {"none", "completed", "failed"},
   rows : Seq({"running", "completed", "failed"}), covered : SUBSET StateSet]

Spend(e) ==
  /\ used[e] < Bound[e]
  /\ Cardinality({x \in EnvEvents : used[x] > 0} \cup {e}) =< EnvKinds
  /\ used' = [used EXCEPT ![e] = @ + 1]

Init ==
  /\ cycle = [pc |-> "scout", plan |-> 1, visits |-> <<>>, next |-> 1, broken |-> FALSE,
              phase |-> 1, done |-> {}]
  /\ plan = [p \in Plans |-> [status |-> "none", report |-> <<>>, assignments |-> <<>>]]
  /\ request = [q \in Requests |-> [pc |-> "idle", plan |-> 0, seen |-> "none"]]
  /\ task = [p \in Plans |-> [w \in Workers |->
               [pc |-> "none", tries |-> 0, outcome |-> "none", rows |-> <<>>, covered |-> {}]]]
  /\ raced = FALSE
  /\ used = [e \in EnvEvents |-> 0]

-----------------------------------------------------------------------------
(* The cycle: run_full_cycle, create_work_plan, approve_plan, execute_plan *)

\* The cycle c at its next plan, or at the phases after the last one.
NextPlan(c) ==
  [c EXCEPT !.plan = @ + 1, !.pc = IF c.plan = NumPlans THEN "phases" ELSE "scout", !.visits = <<>>]

ScoutPortal ==
  /\ cycle.pc = "scout"
  /\ \E v \in Reports : cycle' = [cycle EXCEPT !.pc = "create", !.visits = v]
  /\ UNCHANGED <<plan, request, task, raced, used>>

\* The browser cannot be started: the portal is passed over.
ScoutFails ==
  /\ cycle.pc = "scout"
  /\ Spend("raise")
  /\ cycle' = NextPlan(cycle)
  /\ UNCHANGED <<plan, request, task, raced>>

\* Enabled for a statement of the cycle at pc.
AtStatement(pc) == cycle.pc = pc /\ ~cycle.broken

\* The plan of the cycle is added as a draft.
DraftWritten ==
  LET found == Scouted[cycle.visits]
  IN plan' = [plan EXCEPT ![cycle.plan] =
       [status |-> "draft", report |-> found.report, assignments |-> found.assignments]]

CreatePlan ==
  /\ AtStatement("create")
  /\ DraftWritten
  /\ cycle' = IF Scouted[cycle.visits].safe THEN [cycle EXCEPT !.pc = "approve"] ELSE NextPlan(cycle)
  /\ UNCHANGED <<request, task, raced, used>>

\* The cycle writes a status over the one the row has, which it takes to be seen.
CycleWrites(seen, status) ==
  /\ raced' = (raced \/ plan[cycle.plan].status # seen)
  /\ plan' = [plan EXCEPT ![cycle.plan].status = status]

ApprovePlan ==
  /\ AtStatement("approve")
  /\ CycleWrites("draft", "approved")
  /\ cycle' = [cycle EXCEPT !.pc = "execute"]
  /\ UNCHANGED <<request, task, used>>

ExecutePlan ==
  /\ AtStatement("execute")
  /\ CycleWrites("approved", "running")
  /\ cycle' = [cycle EXCEPT !.pc = "send", !.next = 1]
  /\ UNCHANGED <<request, task, used>>

\* One message for each assignment, an empty one included.
SendTask ==
  /\ cycle.pc = "send"
  /\ cycle.next \in DOMAIN plan[cycle.plan].assignments
  /\ task' = [task EXCEPT ![cycle.plan][cycle.next].pc = "queued"]
  /\ cycle' = IF cycle.next = Len(plan[cycle.plan].assignments) THEN NextPlan(cycle)
              ELSE [cycle EXCEPT !.next = @ + 1]
  /\ UNCHANGED <<plan, request, raced, used>>

\* The broker refuses a message: the plan keeps its status, the rest is not sent.
SendFails ==
  /\ cycle.pc = "send"
  /\ Spend("raise")
  /\ cycle' = NextPlan(cycle)
  /\ UNCHANGED <<plan, request, task, raced>>

\* Mutant: the statement is tried again, on the session as it is.
StatementFailsForever ==
  /\ cycle.pc \in {"create", "approve", "execute"}
  /\ IF cycle.broken THEN UNCHANGED used ELSE Spend("error")
  /\ cycle' = [cycle EXCEPT !.broken = TRUE]
  /\ UNCHANGED <<plan, request, task, raced>>

\* A statement fails; the exception is logged, the session is not rolled back.
StatementFails ==
  /\ cycle.pc \in {"create", "approve", "execute"}
  /\ IF cycle.broken THEN UNCHANGED used ELSE Spend("error")
  /\ cycle' = [NextPlan(cycle) EXCEPT !.broken = TRUE]
  /\ UNCHANGED <<plan, request, task, raced>>

\* A commit is done, but its answer is lost or the refresh of the new plan fails: the plan
\* is left as it was written, a draft, approved or running, and the portal is given up.
StatementFailsLate ==
  /\ \/ AtStatement("create") /\ DraftWritten /\ UNCHANGED raced
     \/ AtStatement("approve") /\ CycleWrites("draft", "approved")
     \/ AtStatement("execute") /\ CycleWrites("approved", "running")
  /\ Spend("error")
  /\ cycle' = [NextPlan(cycle) EXCEPT !.broken = TRUE]
  /\ UNCHANGED <<request, task>>

\* c with its phase over.
PhaseOver(c) ==
  [c EXCEPT !.phase = @ + 1, !.pc = IF c.phase = Len(Phases) THEN "done" ELSE "phases"]

\* ETL, export (to a file when S3 fails) and synchronisation, one after the other.
RunPhase ==
  /\ AtStatement("phases")
  /\ cycle' = PhaseOver([cycle EXCEPT !.done = @ \cup {Phases[cycle.phase]}])
  /\ UNCHANGED <<plan, request, task, raced, used>>

\* A phase fails, as it must on a broken session; the next one is tried all the same.
PhaseFails ==
  /\ cycle.pc = "phases"
  /\ IF cycle.broken THEN UNCHANGED used ELSE Spend("error")
  /\ cycle' = PhaseOver([cycle EXCEPT !.broken = TRUE])
  /\ UNCHANGED <<plan, request, task, raced>>

-----------------------------------------------------------------------------
(* The dashboard *)

\* Mutant: the status is not tested.
ReadPlanUntested(q, op) ==
  /\ request[q].pc = "idle"
  /\ Spend("request")
  /\ \E p \in Plans :
       /\ plan[p].status # "none"
       /\ request' = [request EXCEPT ![q] = [pc |-> op, plan |-> p, seen |-> plan[p].status]]
  /\ UNCHANGED <<cycle, plan, task, raced>>

\* findUnique and the test of the status.
ReadPlan(q, op) ==
  /\ request[q].pc = "idle"
  /\ Spend("request")
  /\ \E p \in Plans :
       /\ plan[p].status # "none"
       /\ LET s == plan[p].status
              goes == IF op = "approve" THEN s = "draft" ELSE s \notin {"cancelled", "running"}
          IN request' = [request EXCEPT ![q] =
               [pc |-> IF goes THEN op ELSE "done", plan |-> p, seen |-> s]]
  /\ UNCHANGED <<cycle, plan, task, raced>>

\* update, by the id alone.
WritePlan(q) ==
  /\ request[q].pc \in {"approve", "cancel"}
  /\ LET p == request[q].plan
     IN /\ raced' = (raced \/ plan[p].status # request[q].seen)
        /\ plan' = [plan EXCEPT ![p].status =
             IF request[q].pc = "approve" THEN "approved" ELSE "cancelled"]
  /\ request' = [request EXCEPT ![q].pc = "done"]
  /\ UNCHANGED <<cycle, task, used>>

-----------------------------------------------------------------------------
(* The workers: run_worker_task and _run_worker *)

SetTask(p, w, t) == task' = [task EXCEPT ![p][w] = t]

\* A worker process takes the message and commits the row of its job.
OpenJob(p, w) ==
  /\ task[p][w].pc = "queued"
  /\ SetTask(p, w, [task[p][w] EXCEPT !.pc = "working", !.outcome = "none",
                                      !.rows = Append(@, "running")])
  /\ UNCHANGED <<cycle, plan, request, raced, used>>

\* Mutant: the scraper is not told its states.
AllStates(p, w) == StateSet

\* The states a scraper visits: states or STATES.
StatesOf(p, w) ==
  IF plan[p].assignments[w] = {} THEN StateSet ELSE plan[p].assignments[w]

\* The scraper returns and its items are stored.
Scrape(p, w) ==
  /\ task[p][w].pc = "working"
  /\ SetTask(p, w, [task[p][w] EXCEPT !.pc = "closing", !.outcome = "completed",
                                      !.covered = @ \cup StatesOf(p, w)])
  /\ UNCHANGED <<cycle, plan, request, raced, used>>

\* The message goes back to the queue while it has retries left.
Retried(t) ==
  IF t.tries < MaxRetries THEN [t EXCEPT !.pc = "queued", !.tries = @ + 1]
  ELSE [t EXCEPT !.pc = "dead"]

\* Mutant: the exception leaves the actor.
ScrapeFailsOpen(p, w) ==
  /\ task[p][w].pc = "working"
  /\ Spend("raise")
  /\ SetTask(p, w, Retried(task[p][w]))
  /\ UNCHANGED <<cycle, plan, request, raced>>

\* The scraper or the storing raises: that is the outcome of the job, and no retry.
ScrapeFails(p, w) ==
  /\ task[p][w].pc = "working"
  /\ Spend("raise")
  /\ SetTask(p, w, [task[p][w] EXCEPT !.pc = "closing", !.outcome = "failed"])
  /\ UNCHANGED <<cycle, plan, request, raced>>

\* Mutant: a status no job has.
CloseJobAsDone(p, w) ==
  /\ task[p][w].pc = "closing"
  /\ SetTask(p, w, [task[p][w] EXCEPT !.pc = "acked", !.rows[Len(task[p][w].rows)] = "done"])
  /\ UNCHANGED <<cycle, plan, request, raced, used>>

CloseJob(p, w) ==
  /\ task[p][w].pc = "closing"
  /\ SetTask(p, w, [task[p][w] EXCEPT !.pc = "acked", !.rows[Len(task[p][w].rows)] = task[p][w].outcome])
  /\ UNCHANGED <<cycle, plan, request, raced, used>>

\* The rows after an attempt t whose first or last commit raises: as they were, or with
\* the commit done, when its answer is lost or the refresh of the new row fails.
RowsLeft(t) ==
  {t.rows, IF t.pc = "queued" THEN Append(t.rows, "running")
           ELSE [t.rows EXCEPT ![Len(t.rows)] = t.outcome]}

\* The first or the last commit, or the refresh of the new row, all outside the try, raises.
ActorRaises(p, w) ==
  /\ task[p][w].pc \in {"queued", "closing"}
  /\ Spend("error")
  /\ \E rows \in RowsLeft(task[p][w]) : SetTask(p, w, Retried([task[p][w] EXCEPT !.rows = rows]))
  /\ UNCHANGED <<cycle, plan, request, raced>>

\* time_limit interrupts the actor with an exception that except Exception lets pass.
TimeLimit(p, w) ==
  /\ task[p][w].pc \in {"working", "closing"}
  /\ Spend("timeLimit")
  /\ SetTask(p, w, Retried(task[p][w]))
  /\ UNCHANGED <<cycle, plan, request, raced>>

\* The worker process dies: the broker hands the message out again.
WorkerCrash(p, w) ==
  /\ task[p][w].pc \in {"working", "closing"}
  /\ Spend("crash")
  /\ SetTask(p, w, [task[p][w] EXCEPT !.pc = "queued"])
  /\ UNCHANGED <<cycle, plan, request, raced>>

-----------------------------------------------------------------------------

CycleStep ==
  \/ ScoutPortal \/ CreatePlan \/ ApprovePlan \/ ExecutePlan \/ SendTask
  \/ StatementFails \/ RunPhase \/ PhaseFails

WorkerStep(p, w) == OpenJob(p, w) \/ Scrape(p, w) \/ CloseJob(p, w)

WorkerFault(p, w) ==
  ScrapeFails(p, w) \/ ActorRaises(p, w) \/ TimeLimit(p, w) \/ WorkerCrash(p, w)

Dashboard ==
  \E q \in Requests : WritePlan(q) \/ \E op \in {"approve", "cancel"} : ReadPlan(q, op)

Next ==
  \/ CycleStep \/ ScoutFails \/ SendFails \/ StatementFailsLate
  \/ Dashboard
  \/ \E p \in Plans, w \in Workers : WorkerStep(p, w) \/ WorkerFault(p, w)

Spec == Init /\ [][Next]_vars

\* The cycle and the workers go on; the dashboard and the faults need not.
FairSpec ==
  /\ Spec
  /\ WF_vars(CycleStep)
  /\ \A p \in Plans, w \in Workers : WF_vars(WorkerStep(p, w))
-----------------------------------------------------------------------------
(* Properties *)

\* Every plan, message and job has one of its states.
TypeOK ==
  /\ cycle \in Cycle
  /\ plan \in [Plans -> Plan]
  /\ request \in [Requests -> Request]
  /\ task \in [Plans -> [Workers -> Task]]
  /\ raced \in BOOLEAN
  /\ \A e \in EnvEvents : used[e] \in 0 .. Bound[e]

Abstract == INSTANCE PlanLifecycle WITH status <- [p \in Plans |-> plan[p].status]

\* "Lifecycle: draft -> approved -> running -> completed | failed | cancelled": every
\* write of a status follows it, except one that overwrites a status its writer, the
\* dashboard or the cycle with its own copy of the plan, has not read.
LifecycleKept == Abstract!Spec

\* "Partition states across workers, balancing by listing count" (_assign_workers): each
\* state worth a visit goes to one worker, and without one of its states no worker has
\* more to do than any other.
AssignmentIsFair ==
  \A p \in Plans : plan[p].status # "none" =>
    LET r == plan[p].report
        a == plan[p].assignments
    IN /\ UNION {a[w] : w \in DOMAIN a} = Worthwhile(r)
       /\ \A w, v \in DOMAIN a : w # v =>
            /\ a[w] \cap a[v] = {}
            /\ a[w] = {} \/ \E s \in a[w] : Load(r, a[w] \ {s}) =< Load(r, a[v])

\* No state is scraped by two workers of a plan, however often their messages are handed
\* out, unless a worker was given no state: that one scrapes them all.
StatesCoveredOnce ==
  \A p \in Plans :
    (\A w \in DOMAIN plan[p].assignments : plan[p].assignments[w] # {}) =>
      \A w, v \in Workers : w # v => task[p][w].covered \cap task[p][v].covered = {}

\* The rows of a task that say running although their attempt is over.
Abandoned(p, w) ==
  {i \in DOMAIN task[p][w].rows :
     /\ task[p][w].rows[i] = "running"
     /\ ~(i = Len(task[p][w].rows) /\ task[p][w].pc \in {"working", "closing"})}

\* A job is left running only by a failed statement, a time limit or a lost worker, each of
\* which leaves one; a scraper that raises leaves none.
RunningJobsAccounted ==
  Cardinality(UNION {{p} \X {w} \X Abandoned(p, w) : p \in Plans, w \in Workers})
    =< used["error"] + used["timeLimit"] + used["crash"]

\* The cycle comes to its end, whatever fails in it, and every message is settled.
CycleAndTasksEnd ==
  <>[](/\ cycle.pc = "done"
       /\ \A p \in Plans, w \in Workers : task[p][w].pc \in {"none", "acked", "dead"})
=============================================================================
