-------------------------- MODULE SchedulerDaemon --------------------------
(***************************************************************************)
(* The scheduler daemon: one asyncio process that polls schedule_configs,  *)
(* launches a task per due schedule under a semaphore, retries failures,   *)
(* accepts manual triggers from Redis pub/sub and drains on SIGTERM.       *)
(*                                                                         *)
(* A step is what happens between two awaits of the event loop, or one     *)
(* committed database transaction.  Wall-clock time is reduced to what the *)
(* code asks of it: whether next_run_at has passed (nextRun) and whether   *)
(* last_run_at lies within rate_limit_s (recent).                          *)
(* Single-instance locking is the subject of SchedulerLock; here at most   *)
(* one process exists at a time.                                           *)
(***************************************************************************)
EXTENDS Integers, Sequences, FiniteSets

CONSTANTS
  Schedules,       \* ids of schedule_configs rows that can ever exist
  Seeded,          \* the rows present and enabled when the daemon first starts
  SortKey,         \* [Schedules -> Int]: rank under (-priority, portal_slug)
  RateLimited,     \* schedules with rate_limit_s > 0
  MaxRetries,      \* [Schedules -> Nat]: max_retries
  MaxConcurrent,   \* SCHEDULER_MAX_CONCURRENT
  NoSchedule,      \* "no message is being handled"
  Bound            \* [EnvEvents -> Nat]: how often the environment may act

\* What the environment does; each is bounded so that the state space is finite.
EnvEvents == {"fire", "stop", "crash", "fault", "edit", "manual"}

ASSUME SchedulesAssumption == IsFiniteSet(Schedules)
ASSUME SeededAssumption == Seeded \subseteq Schedules
ASSUME SortKeyAssumption == SortKey \in [Schedules -> Int]
ASSUME MaxRetriesAssumption == MaxRetries \in [Schedules -> Nat]
ASSUME MaxConcurrentAssumption == MaxConcurrent \in Nat \ {0}
ASSUME NoScheduleAssumption == NoSchedule \notin Schedules
ASSUME BoundAssumption == Bound \in [EnvEvents -> Nat]

VARIABLES
  \* PostgreSQL
  cfg,         \* state of each schedule_configs row and of its portal
  nextRun,     \* next_run_at: NULL, later than now, or already passed
  recent,      \* last_run_at is less than rate_limit_s ago
  queued,      \* number of schedule_runs rows the API left in status "queued"
  \* Redis
  triggers,    \* messages on scheduler:trigger the subscriber has not yet read
  \* the daemon process
  phase,       \* no process, main loop, or the finally block of start()
  shutdown,    \* self._shutdown
  selected,    \* rows _tick selected and has not yet turned into tasks
  registry,    \* self._running_tasks: key -> task, 0 when the key is absent
  gathered,    \* the tasks start() awaits in its finally block
  permits,     \* value of self._semaphore
  listener,    \* the _redis_listener coroutine
  loading,     \* the schedule whose trigger message is being handled
  \* every task ever created, with the schedule_runs row it wrote
  task,
  used         \* how often each environment event has happened

dbVars == <<cfg, nextRun, recent, queued>>
daemonVars == <<phase, shutdown, selected, registry, gathered, permits>>
listenerVars == <<triggers, listener, loading>>
vars == <<dbVars, daemonVars, listenerVars, task, used>>

-----------------------------------------------------------------------------

CfgStates == {"absent", "enabled", "inactive", "disabled", "deleted"}
RunStatus == {"none", "running", "completed", "failed", "deleted"}
Triggers == {"cron", "manual", "retry"}

\* Where a task is in _execute / _run_schedule.
Holding == {"starting", "scraping", "saving", "notifying", "failing", "backoff"}
Pc == {"waiting", "done", "gone"} \cup Holding

Task == [sched : Schedules, trigger : Triggers, retry : Nat, pc : Pc, row : RunStatus]

TaskIds == DOMAIN task
Live(t) == task[t].pc \notin {"done", "gone"}
Holders == {t \in TaskIds : task[t].pc \in Holding}

\* Keys of _running_tasks: <<s, 0>> is schedule_id, <<s, n>> is "{id}_retry_{n}".
Keys == UNION {{s} \X (0 .. MaxRetries[s]) : s \in Schedules}
Id(s) == <<s, 0>>

NewTask(s, trigger, retry) ==
  [sched |-> s, trigger |-> trigger, retry |-> retry, pc |-> "waiting", row |-> "none"]

Exists(s) == cfg[s] \in {"enabled", "inactive", "disabled"}

Spend(e) == /\ used[e] < Bound[e]
            /\ used' = [used EXCEPT ![e] = @ + 1]

Init ==
  /\ cfg = [s \in Schedules |-> IF s \in Seeded THEN "enabled" ELSE "absent"]
  /\ nextRun = [s \in Schedules |-> "null"]
  /\ recent = [s \in Schedules |-> FALSE]
  /\ queued = [s \in Schedules |-> 0]
  /\ triggers = <<>>
  /\ phase = "down"
  /\ shutdown = FALSE
  /\ selected = {}
  /\ registry = [k \in Keys |-> 0]
  /\ gathered = {}
  /\ permits = MaxConcurrent
  /\ listener = "off"
  /\ loading = NoSchedule
  /\ task = <<>>
  /\ used = [e \in EnvEvents |-> 0]

-----------------------------------------------------------------------------
(* The passing of time *)

\* next_run_at passes.
CronFires(s) ==
  /\ nextRun[s] = "future"
  /\ Spend("fire")
  /\ nextRun' = [nextRun EXCEPT ![s] = "due"]
  /\ UNCHANGED <<cfg, recent, queued, daemonVars, listenerVars, task>>

\* rate_limit_s seconds have passed since last_run_at.
RateWindowEnds(s) ==
  /\ recent[s]
  /\ recent' = [recent EXCEPT ![s] = FALSE]
  /\ UNCHANGED <<cfg, nextRun, queued, daemonVars, listenerVars, task, used>>

-----------------------------------------------------------------------------
(* The API: schedules.controller.ts *)

\* POST /schedules inserts a row without next_run_at.
CreateSchedule(s) ==
  /\ cfg[s] = "absent"
  /\ Spend("edit")
  /\ cfg' = [cfg EXCEPT ![s] = "enabled"]
  /\ UNCHANGED <<nextRun, recent, queued, daemonVars, listenerVars, task>>

\* PATCH /schedules/:id/toggle, or the portal's is_active flips ("inactive" is an
\* enabled schedule of an inactive portal).
Reconfigure(s, c) ==
  /\ Exists(s)
  /\ c \in {"enabled", "inactive", "disabled"} \ {cfg[s]}
  /\ Spend("edit")
  /\ cfg' = [cfg EXCEPT ![s] = c]
  /\ UNCHANGED <<nextRun, recent, queued, daemonVars, listenerVars, task>>

\* DELETE /schedules/:id; the foreign key of schedule_runs cascades.
DeleteSchedule(s) ==
  /\ Exists(s)
  /\ Spend("edit")
  /\ cfg' = [cfg EXCEPT ![s] = "deleted"]
  /\ queued' = [queued EXCEPT ![s] = 0]
  /\ task' = [t \in TaskIds |->
                IF task[t].sched = s /\ task[t].row # "none"
                THEN [task[t] EXCEPT !.row = "deleted"]
                ELSE task[t]]
  /\ UNCHANGED <<nextRun, recent, daemonVars, listenerVars>>

\* POST /schedules/:id/run-now: a "queued" row, then a message whose run_id
\* names it.  Pub/sub drops the message when nobody is subscribed.
RunNow(s) ==
  /\ Exists(s)
  /\ Spend("manual")
  /\ queued' = [queued EXCEPT ![s] = @ + 1]
  /\ triggers' = IF listener = "subscribed" THEN Append(triggers, s) ELSE triggers
  /\ UNCHANGED <<cfg, nextRun, recent, daemonVars, listener, loading, task>>

-----------------------------------------------------------------------------
(* start(), the main loop and shutdown *)

\* Lock taken, _init_schedules committed, listener tasks created.
Start ==
  /\ phase = "down"
  /\ phase' = "running"
  /\ shutdown' = FALSE
  /\ nextRun' = [s \in Schedules |->
                   IF cfg[s] \in {"enabled", "inactive"} /\ nextRun[s] = "null"
                   THEN "future" ELSE nextRun[s]]
  /\ listener' = "starting"
  /\ UNCHANGED <<cfg, recent, queued, selected, registry, gathered, permits,
                 triggers, loading, task, used>>

\* SIGTERM or SIGINT.
HandleShutdown ==
  /\ phase # "down"
  /\ ~shutdown
  /\ Spend("stop")
  /\ shutdown' = TRUE
  /\ UNCHANGED <<dbVars, phase, selected, registry, gathered, permits, listenerVars, task>>

\* The query of _tick joined with its rate-limit test, which uses the row as read.
Due == {s \in Schedules : cfg[s] = "enabled" /\ nextRun[s] = "due" /\ ~recent[s]}

TickSelect ==
  /\ phase = "running"
  /\ ~shutdown
  /\ selected = {}
  /\ selected' = Due
  /\ UNCHANGED <<dbVars, phase, shutdown, registry, gathered, permits, listenerVars, task, used>>

\* The orders sort_by_priority can return (rows with equal keys come as the
\* database delivers them).
SortByPriority(C) ==
  {q \in [1 .. Cardinality(C) -> C] :
     \A i, j \in 1 .. Cardinality(C) :
       i < j => q[i] # q[j] /\ SortKey[q[i]] =< SortKey[q[j]]}

\* Mutant: the registration is not looked at.
CandidatesUnchecked == selected

\* Mutant: a schedule is "running" while any key of it is registered.
CandidatesByAnyKey ==
  {s \in selected : \A n \in 0 .. MaxRetries[s] : registry[<<s, n>>] = 0}

Candidates == {s \in selected : registry[Id(s)] = 0}

\* The rest of _tick, after the session is closed: skip what is already running,
\* sort, and create the tasks without awaiting anything in between.
TickLaunch ==
  /\ phase = "running"
  /\ selected # {}
  /\ selected' = {}
  /\ \E queue \in SortByPriority(IF shutdown THEN {} ELSE Candidates) :
       /\ task' = task \o [i \in DOMAIN queue |-> NewTask(queue[i], "cron", 0)]
       /\ registry' = [k \in Keys |->
                         IF \E i \in DOMAIN queue : k = Id(queue[i])
                         THEN Len(task) + (CHOOSE i \in DOMAIN queue : k = Id(queue[i]))
                         ELSE registry[k]]
  /\ UNCHANGED <<dbVars, phase, shutdown, gathered, permits, listenerVars, used>>

\* Mutant: the running tasks are not awaited.
DrainAwaitsNothing ==
  /\ phase' = "draining"
  /\ selected' = {}
  /\ gathered' = {}

\* Leaving the main loop: the finally block takes the values of _running_tasks
\* once and awaits those.
Drain ==
  /\ phase' = "draining"
  /\ selected' = {}
  /\ gathered' = {registry[k] : k \in {kk \in Keys : registry[kk] # 0}}

LeaveLoop ==
  /\ phase = "running"
  /\ shutdown
  /\ selected = {}
  /\ Drain
  /\ UNCHANGED <<dbVars, shutdown, registry, permits, listenerVars, task, used>>

\* A database or Redis error inside _tick also leaves the loop, _shutdown unset.
TickFails ==
  /\ phase = "running"
  /\ Spend("fault")
  /\ Drain
  /\ UNCHANGED <<dbVars, shutdown, registry, permits, listenerVars, task>>

\* The process is gone, and with it every task that had not ended.
ProcessEnds ==
  /\ phase' = "down"
  /\ shutdown' = FALSE
  /\ selected' = {}
  /\ registry' = [k \in Keys |-> 0]
  /\ gathered' = {}
  /\ permits' = MaxConcurrent
  /\ listener' = "off"
  /\ loading' = NoSchedule
  /\ triggers' = <<>>
  /\ task' = [t \in TaskIds |-> IF Live(t) THEN [task[t] EXCEPT !.pc = "gone"] ELSE task[t]]
  /\ UNCHANGED dbVars

\* start() returns once the gathered tasks have ended; asyncio.run cancels the rest.
Stop ==
  /\ phase = "draining"
  /\ \A t \in gathered : ~Live(t)
  /\ ProcessEnds
  /\ UNCHANGED used

\* SIGKILL, out of memory, host restart.
Crash ==
  /\ phase # "down"
  /\ Spend("crash")
  /\ ProcessEnds

-----------------------------------------------------------------------------
(* _redis_listener *)

ListenerSubscribes ==
  /\ listener = "starting"
  /\ listener' = "subscribed"
  /\ UNCHANGED <<dbVars, daemonVars, triggers, loading, task, used>>

\* A message is read; after a shutdown signal it ends the loop instead.
ListenerReceives ==
  /\ listener = "subscribed"
  /\ loading = NoSchedule
  /\ triggers # <<>>
  /\ IF shutdown
     THEN /\ listener' = "off"
          /\ triggers' = <<>>
          /\ UNCHANGED loading
     ELSE /\ loading' = Head(triggers)
          /\ triggers' = Tail(triggers)
          /\ UNCHANGED listener
  /\ UNCHANGED <<dbVars, daemonVars, task, used>>

\* The schedule was loaded: whatever its state, and whatever is registered under
\* its id, a task is created and replaces the registration.
ListenerLaunches ==
  /\ loading # NoSchedule
  /\ IF Exists(loading)
     THEN /\ task' = Append(task, NewTask(loading, "manual", 0))
          /\ registry' = [registry EXCEPT ![Id(loading)] = Len(task) + 1]
     ELSE UNCHANGED <<task, registry>>
  /\ loading' = NoSchedule
  /\ UNCHANGED <<dbVars, phase, shutdown, selected, gathered, permits, triggers, listener, used>>

\* Loading the schedule fails (logged, the message is dropped), or the connection
\* to Redis does (the coroutine ends and nothing restarts it).
ListenerFails ==
  /\ listener # "off"
  /\ Spend("fault")
  /\ loading' = NoSchedule
  /\ \/ /\ loading # NoSchedule
        /\ UNCHANGED <<triggers, listener>>
     \/ /\ listener' = "off"
        /\ triggers' = <<>>
  /\ UNCHANGED <<dbVars, daemonVars, task>>

-----------------------------------------------------------------------------
(* _execute and _run_schedule *)

Goto(t, pc) == task' = [task EXCEPT ![t].pc = pc]

\* Mutant: the semaphore is not waited for.
AcquireUnguarded(t) ==
  /\ task[t].pc = "waiting"
  /\ permits' = permits - 1
  /\ Goto(t, "starting")
  /\ UNCHANGED <<dbVars, phase, shutdown, selected, registry, gathered, listenerVars, used>>

\* asyncio.Semaphore serves its waiters in the order they arrived.
Acquire(t) ==
  /\ task[t].pc = "waiting"
  /\ permits > 0
  /\ \A u \in 1 .. t - 1 : task[u].pc # "waiting"
  /\ permits' = permits - 1
  /\ Goto(t, "starting")
  /\ UNCHANGED <<dbVars, phase, shutdown, selected, registry, gathered, listenerVars, used>>

\* The schedule_runs row is inserted as "running".
StartRun(t) ==
  /\ task[t].pc = "starting"
  /\ Exists(task[t].sched)
  /\ task' = [task EXCEPT ![t].row = "running", ![t].pc = "scraping"]
  /\ UNCHANGED <<dbVars, daemonVars, listenerVars, used>>

\* The insert fails: the schedule is gone, or the database is in trouble.
StartRunFails(t) ==
  /\ task[t].pc = "starting"
  /\ \/ ~Exists(task[t].sched) /\ UNCHANGED used
     \/ Spend("fault")
  /\ Goto(t, "failing")
  /\ UNCHANGED <<dbVars, daemonVars, listenerVars>>

\* run_scraper / run_enrichment returns (a job or None), or raises.
Scrape(t) ==
  /\ task[t].pc = "scraping"
  /\ \E pc \in {"saving", "failing"} : Goto(t, pc)
  /\ UNCHANGED <<dbVars, daemonVars, listenerVars, used>>

\* Mutant: the row is written without having been found.
RecordBlind(t, status, pc) ==
  LET s == task[t].sched IN
  /\ task' = [task EXCEPT ![t].row = status, ![t].pc = pc]
  /\ nextRun' = [nextRun EXCEPT ![s] = "future"]
  /\ recent' = [recent EXCEPT ![s] = s \in RateLimited]
  /\ UNCHANGED <<cfg, queued>>

\* One commit records the outcome and moves the schedule to its next run.
Record(t, status, pc) ==
  LET s == task[t].sched IN
  /\ task[t].row = "running"
  /\ task' = [task EXCEPT ![t].row = status, ![t].pc = pc]
  /\ nextRun' = [nextRun EXCEPT ![s] = "future"]
  /\ recent' = [recent EXCEPT ![s] = s \in RateLimited]
  /\ UNCHANGED <<cfg, queued>>

SaveRun(t) ==
  /\ task[t].pc = "saving"
  /\ Record(t, "completed", "notifying")
  /\ UNCHANGED <<daemonVars, listenerVars, used>>

\* The row has been deleted under the run, or the commit fails.
SaveRunFails(t) ==
  /\ task[t].pc = "saving"
  /\ \/ task[t].row # "running" /\ UNCHANGED used
     \/ Spend("fault")
  /\ Goto(t, "failing")
  /\ UNCHANGED <<dbVars, daemonVars, listenerVars>>

\* Mutant: the key is left behind.
LeaveKeepsKey(t) ==
  /\ permits' = permits + 1
  /\ UNCHANGED <<phase, shutdown, selected, registry, gathered>>

\* finally: pop the schedule's key, whoever registered it; then the semaphore.
Leave(t) ==
  /\ registry' = [registry EXCEPT ![Id(task[t].sched)] = 0]
  /\ permits' = permits + 1
  /\ UNCHANGED <<phase, shutdown, selected, gathered>>

\* The supervisor has been notified (or the publish failed, which is logged).
Finish(t) ==
  /\ task[t].pc = "notifying"
  /\ Goto(t, "done")
  /\ Leave(t)
  /\ UNCHANGED <<dbVars, listenerVars, used>>

\* Mutant: off by one.
MayRetryOnceMore(t) == task[t].retry =< MaxRetries[task[t].sched]

MayRetry(t) == task[t].retry < MaxRetries[task[t].sched]

\* Mutant: the permit is given back before the backoff, and again at the end.
MarkFailedReleasesEarly(t) ==
  /\ task[t].pc = "failing"
  /\ IF MayRetry(t)
     THEN /\ Record(t, "failed", "backoff")
          /\ permits' = permits + 1
          /\ UNCHANGED <<phase, shutdown, selected, registry, gathered>>
     ELSE Record(t, "failed", "done") /\ Leave(t)
  /\ UNCHANGED <<listenerVars, used>>

\* Mutant: only an attempt that will be retried is marked failed.
MarkFailedIfRetried(t) ==
  /\ task[t].pc = "failing"
  /\ IF MayRetry(t)
     THEN Record(t, "failed", "backoff") /\ UNCHANGED daemonVars
     ELSE Goto(t, "done") /\ Leave(t) /\ UNCHANGED dbVars
  /\ UNCHANGED <<listenerVars, used>>

\* The except block: the run is marked failed, then the backoff is slept inside
\* "async with self._semaphore".
MarkFailed(t) ==
  /\ task[t].pc = "failing"
  /\ IF MayRetry(t)
     THEN Record(t, "failed", "backoff") /\ UNCHANGED daemonVars
     ELSE Record(t, "failed", "done") /\ Leave(t)
  /\ UNCHANGED <<listenerVars, used>>

\* The except block fails itself: its row is missing, or its commit fails.  No retry.
MarkFailedRaises(t) ==
  /\ task[t].pc = "failing"
  /\ \/ task[t].row # "running" /\ UNCHANGED used
     \/ Spend("fault")
  /\ Goto(t, "done")
  /\ Leave(t)
  /\ UNCHANGED <<dbVars, listenerVars>>

\* Mutant: the attempt keeps its permit.
RetryKeepsPermit(t) ==
  LET s == task[t].sched
      n == task[t].retry + 1 IN
  /\ task[t].pc = "backoff"
  /\ task' = Append([task EXCEPT ![t].pc = "done"], NewTask(s, "retry", n))
  /\ registry' = [registry EXCEPT ![<<s, n>>] = Len(task) + 1, ![Id(s)] = 0]
  /\ UNCHANGED <<dbVars, phase, shutdown, selected, gathered, permits, listenerVars, used>>

\* After the backoff: a new task under a key of its own, then finally.
Retry(t) ==
  LET s == task[t].sched
      n == task[t].retry + 1 IN
  /\ task[t].pc = "backoff"
  /\ task' = Append([task EXCEPT ![t].pc = "done"], NewTask(s, "retry", n))
  /\ registry' = [registry EXCEPT ![<<s, n>>] = Len(task) + 1, ![Id(s)] = 0]
  /\ permits' = permits + 1
  /\ UNCHANGED <<dbVars, phase, shutdown, selected, gathered, listenerVars, used>>

-----------------------------------------------------------------------------

TaskStep(t) ==
  \/ Acquire(t) \/ StartRun(t) \/ StartRunFails(t) \/ Scrape(t)
  \/ SaveRun(t) \/ SaveRunFails(t) \/ Finish(t)
  \/ MarkFailed(t) \/ MarkFailedRaises(t) \/ Retry(t)

Listener ==
  ListenerSubscribes \/ ListenerReceives \/ ListenerLaunches \/ ListenerFails

MainLoop == TickSelect \/ TickLaunch \/ LeaveLoop \/ TickFails \/ Stop

Api ==
  \E s \in Schedules :
    \/ CreateSchedule(s) \/ DeleteSchedule(s) \/ RunNow(s)
    \/ \E c \in CfgStates : Reconfigure(s, c)

Time == \E s \in Schedules : CronFires(s) \/ RateWindowEnds(s)

Next ==
  \/ Start \/ HandleShutdown \/ Crash
  \/ MainLoop \/ Listener \/ Api \/ Time
  \/ \E t \in TaskIds : TaskStep(t)

Spec == Init /\ [][Next]_vars

\* Steps the event loop and its libraries promise to make: ready coroutines run,
\* scrapes and sleeps end, a stopped container is restarted, clocks advance past a
\* rate limit.  Signals, faults, edits and triggers are never owed.
Fairness ==
  /\ WF_vars(Start) /\ WF_vars(TickSelect) /\ WF_vars(TickLaunch)
  /\ WF_vars(LeaveLoop) /\ WF_vars(Stop)
  /\ WF_vars(ListenerSubscribes) /\ WF_vars(ListenerReceives) /\ WF_vars(ListenerLaunches)
  /\ WF_vars(\E t \in TaskIds : TaskStep(t))

FairSpec == Spec /\ Fairness

-----------------------------------------------------------------------------
(* Properties *)

TypeOK ==
  /\ cfg \in [Schedules -> CfgStates]
  /\ nextRun \in [Schedules -> {"null", "future", "due"}]
  /\ recent \in [Schedules -> BOOLEAN]
  /\ queued \in [Schedules -> Nat]
  /\ triggers \in Seq(Schedules)
  /\ phase \in {"down", "running", "draining"}
  /\ shutdown \in BOOLEAN
  /\ selected \subseteq Schedules
  /\ registry \in [Keys -> 0 .. Len(task)]
  /\ gathered \subseteq TaskIds
  /\ permits \in 0 .. MaxConcurrent
  /\ listener \in {"off", "starting", "subscribed"}
  /\ loading \in Schedules \cup {NoSchedule}
  /\ task \in Seq(Task)
  /\ used \in [EnvEvents -> Nat]

\* The semaphore of _execute neither loses nor gains a permit on any path out of
\* _run_schedule: success, failure, a failing except block, the retry, a restart.
SemaphoreAccounting == permits + Cardinality(Holders) = MaxConcurrent

\* _running_tasks never blocks a schedule for good: what is registered under a
\* schedule's id is a task of that schedule that will still reach its finally
\* block, even though manual triggers overwrite the entry and retries pop it.
RegistryNeverStale ==
  \A s \in Schedules :
    LET t == registry[Id(s)] IN
    t # 0 => Live(t) /\ task[t].sched = s /\ task[t].trigger # "retry"

\* A schedule_runs row left in "running" belongs to a task that will still close it,
\* to a process that is gone, or to an except block whose own commit failed.
RunningRowsOwned ==
  \A t \in TaskIds :
    task[t].row = "running" =>
      \/ task[t].pc \in {"scraping", "saving", "failing", "gone"}
      \/ task[t].pc = "done" /\ used["fault"] > 0

\* A retry exists only because the previous attempt of the same schedule was recorded
\* as failed and has left the semaphore, and attempts stay within max_retries.
RetryFollowsFailure ==
  \A t \in TaskIds :
    /\ task[t].retry =< MaxRetries[task[t].sched]
    /\ task[t].trigger = "retry" =>
         \E p \in 1 .. t - 1 :
           /\ task[p].sched = task[t].sched
           /\ task[p].retry = task[t].retry - 1
           /\ task[p].row \in {"failed", "deleted"}
           /\ task[p].pc = "done"

\* The run history is append-only: SchedulerDaemon implements RunLedger.
Ledger == INSTANCE RunLedger WITH row <- [t \in TaskIds |-> task[t].row]
LedgerSpec == Ledger!Spec

LiveOf(s) == {t \in TaskIds : task[t].sched = s /\ Live(t)}
\* The tasks _tick did not create, and the scrapes that a process left in the middle.
Unplanned(s) == {t \in TaskIds : task[t].sched = s /\ task[t].trigger # "cron"}
CutShort(s) == {t \in TaskIds : task[t].sched = s /\ task[t].pc = "gone" /\ task[t].row = "running"}

\* "Skip if already running" (_tick): not always, since a manual trigger overwrites the
\* entry it looks for, a retry has another key, and whoever ends pops the entry.  But each
\* of these lets one task more run beside the one of a schedule, and nothing else does,
\* however they overwrite and pop each other's entries.
OverlapsAccounted ==
  \A s \in Schedules : Cardinality(LiveOf(s)) =< 1 + Cardinality(Unplanned(s))

\* "Wait for in-progress scrapes" (start): the gather misses what was overwritten and what
\* is created during the drain, one scrape for each manual trigger or retry.  Cron alone
\* is drained completely.
CutsAccounted ==
  used["crash"] = 0 =>
    \A s \in Schedules : Cardinality(CutShort(s)) =< Cardinality(Unplanned(s))

\* "Reads schedule_configs from DB, computes next_run_at" (module docstring): an enabled
\* schedule gets a next run while the daemon is up.
EnabledGetsNextRun ==
  \A s \in Schedules :
    (cfg[s] = "enabled" /\ nextRun[s] = "null" /\ phase = "running")
      ~> (nextRun[s] # "null" \/ cfg[s] # "enabled" \/ phase # "running")

\* A schedule that is due, enabled and outside its rate limit does not stay so
\* unlaunched while the main loop runs.
Launchable(s) == phase = "running" /\ ~shutdown /\ s \in Due

DueIsLaunched ==
  \A s \in Schedules : Launchable(s) ~> (registry[Id(s)] # 0 \/ ~Launchable(s))

\* SIGTERM ends the process: the drain never waits for a task that cannot end, such
\* as one queued behind a permit nobody will give back.
ShutdownCompletes == shutdown ~> phase = "down"

=============================================================================
