----------------------- MODULE SchedulerLedgerProofs -----------------------
(* SchedulerDaemon implements RunLedger: the run history is append-only. *)
EXTENDS SchedulerDaemonProofs

Rows0 == [t \in TaskIds |-> task[t].row]

LEMMA RowsType ==
  ASSUME task \in Seq(Task)
  PROVE  /\ Rows0 \in Seq(RunStatus) /\ Len(Rows0) = Len(task)
         /\ TaskIds = 1 .. Len(task) /\ Len(task) \in Nat /\ DOMAIN Rows0 = TaskIds
         /\ \A t \in TaskIds : Rows0[t] = task[t].row
  <1>1. TaskIds = 1 .. Len(task) /\ Len(task) \in Nat
    BY DEF TaskIds
  <1>2. \A t \in TaskIds : task[t].row \in RunStatus
    BY TaskRecord
  <1>3. Rows0 \in [1 .. Len(task) -> RunStatus]
    BY <1>1, <1>2 DEF Rows0
  <1> QED BY <1>1, <1>3 DEF Rows0

\* Steps that keep every row and add none.
LEMMA RowsKept ==
  ASSUME TaskIds' = TaskIds, \A t \in TaskIds : task'[t].row = task[t].row
  PROVE  Rows0' = Rows0
  BY DEF Rows0

\* Steps that add attempts without rows.
LEMMA RowsPlanned ==
  ASSUME task \in Seq(Task), task' \in Seq(Task), Len(task') >= Len(task),
         \A t \in TaskIds : task'[t].row = task[t].row,
         \A t \in TaskIds' \ TaskIds : task'[t].row = "none"
  PROVE  Ledger!Plan \/ Rows0' = Rows0
  <1>1. /\ Len(Rows0) = Len(task) /\ DOMAIN Rows0 = TaskIds
        /\ TaskIds = 1 .. Len(task) /\ Len(task) \in Nat
        /\ \A t \in TaskIds : Rows0[t] = task[t].row
    BY RowsType
  <1>2. TaskIds' = 1 .. Len(task') /\ Len(task') \in Nat
    BY DEF TaskIds
  <1>3. \A t \in TaskIds' : task'[t].row \in RunStatus
    <2> TAKE t \in TaskIds'
    <2>1. task'[t] \in Task
      BY <1>2
    <2> QED BY <2>1 DEF Task
  <1>4. Rows0' \in [1 .. Len(task') -> RunStatus] /\ Len(Rows0') = Len(task')
        /\ \A t \in TaskIds' : Rows0'[t] = task'[t].row
    <2>1. Rows0' = [t \in TaskIds' |-> task'[t].row]
      BY DEF Rows0
    <2> QED BY <1>2, <1>3, <2>1
  <1>5. CASE Len(task') = Len(task)
    BY <1>1, <1>2, <1>5, RowsKept
  <1>6. CASE Len(task') > Len(task)
    <2>1. \A t \in TaskIds : Rows0'[t] = Rows0[t]
      BY <1>1, <1>2, <1>4, <1>6
    <2>2. \A t \in Len(Rows0) + 1 .. Len(Rows0') : Rows0'[t] = "none"
      BY <1>1, <1>2, <1>4, <1>6
    <2> QED BY <1>1, <1>4, <1>6, <2>1, <2>2 DEF Ledger!Plan, Rows0
  <1> QED BY <1>1, <1>2, <1>5, <1>6

\* Steps of one task: its row begins, is closed, or stays.
LEMMA RowMoved ==
  ASSUME IInv, NEW t \in TaskIds, NEW pc \in Pc, NEW row \in RunStatus, Moved(t, pc, row),
         \/ row = task[t].row
         \/ task[t].row = "none" /\ row = "running"
         \/ task[t].row = "running" /\ row \in {"completed", "failed"}
  PROVE  [Ledger!Next]_Rows0
  <1>1. task \in Seq(Task) /\ TaskIds' = TaskIds
    BY DEF IInv, TypeOK, Moved, TaskIds
  <1>2. DOMAIN Rows0 = TaskIds /\ \A u \in TaskIds : Rows0[u] = task[u].row
    BY <1>1, RowsType
  <1>3. Rows0' = [Rows0 EXCEPT ![t] = row]
    <2>1. Rows0' = [u \in TaskIds |-> task'[u].row]
      BY <1>1 DEF Rows0
    <2>2. \A u \in TaskIds : task'[u].row = IF u = t THEN row ELSE task[u].row
      BY DEF Moved
    <2> QED BY <2>1, <2>2 DEF Rows0
  <1>4. CASE row = task[t].row
    BY <1>1, <1>4, RowsKept DEF Moved
  <1>5. CASE task[t].row = "none" /\ row = "running"
    BY <1>2, <1>3, <1>5 DEF Ledger!Next, Ledger!Begin, Rows0
  <1>6. CASE task[t].row = "running" /\ row \in {"completed", "failed"}
    <2>1. Ledger!Close(t)
      BY <1>2, <1>3, <1>6 DEF Ledger!Close, Rows0
    <2> QED BY <1>2, <2>1 DEF Ledger!Next, Rows0
  <1> QED BY <1>4, <1>5, <1>6

LEMMA RecordMoved ==
  ASSUME IInv, NEW t \in TaskIds, NEW status \in {"completed", "failed"}, NEW pc \in Pc,
         Record(t, status, pc)
  PROVE  [Ledger!Next]_Rows0
  <1>1. status \in RunStatus /\ task[t].row = "running"
    BY DEF RunStatus, Record
  <1>2. Moved(t, pc, status)
    BY <1>1, RecordMoves
  <1> QED BY <1>1, <1>2, RowMoved

LEMMA GotoMoved ==
  ASSUME IInv, NEW t \in TaskIds, NEW pc \in Pc, Goto(t, pc)
  PROVE  [Ledger!Next]_Rows0
  <1>1. task[t].row \in RunStatus /\ Moved(t, pc, task[t].row)
    BY TaskRecord, GotoMoves DEF IInv, TypeOK
  <1> QED BY <1>1, RowMoved

LEMMA AppendOne ==
  ASSUME NEW mid \in Seq(Task), NEW x \in Task, NEW new, new = Append(mid, x)
  PROVE  /\ new \in Seq(Task) /\ Len(new) = Len(mid) + 1 /\ new[Len(mid) + 1] = x
         /\ \A u \in 1 .. Len(mid) : new[u] = mid[u]
  BY AppendProperties

LEMMA TaskLedger ==
  ASSUME IInv, NEW t \in TaskIds, TaskStep(t)
  PROVE  [Ledger!Next]_Rows0
  <1>1. \A pc \in Holding : pc \in Pc
    BY DEF Pc
  <1>2. CASE Acquire(t) \/ StartRunFails(t) \/ Scrape(t) \/ SaveRunFails(t)
    <2>1. PICK pc \in {"starting", "failing", "saving"} : Goto(t, pc)
      BY <1>2 DEF Acquire, StartRunFails, Scrape, SaveRunFails
    <2> QED BY <1>1, <2>1, GotoMoved DEF Holding
  <1>3. CASE Finish(t) \/ MarkFailedRaises(t)
    <2>1. Goto(t, "done")
      BY <1>3 DEF Finish, MarkFailedRaises
    <2> QED BY <2>1, GotoMoved DEF Pc
  <1>4. CASE StartRun(t)
    <2>1. /\ task' = [task EXCEPT ![t].row = "running", ![t].pc = "scraping"]
          /\ task[t].pc = "starting"
      BY <1>4 DEF StartRun
    <2>2. Moved(t, "scraping", "running")
      BY <2>1, RowMoves DEF IInv, TypeOK, Pc, Holding, RunStatus
    <2>3. task[t].row = "none"
      BY <2>1 DEF IInv, PcTellsRow
    <2> QED BY <2>2, <2>3, RowMoved DEF Pc, Holding, RunStatus
  <1>5. CASE SaveRun(t)
    <2>1. Record(t, "completed", "notifying")
      BY <1>5 DEF SaveRun
    <2> QED BY <2>1, RecordMoved DEF Pc, Holding
  <1>6. CASE MarkFailed(t)
    <2>1. Record(t, "failed", "backoff") \/ Record(t, "failed", "done")
      BY <1>6 DEF MarkFailed
    <2> QED BY <2>1, RecordMoved DEF Pc, Holding
  <1>7. CASE Retry(t)
    <2>1. PICK x : /\ task' = Append([task EXCEPT ![t].pc = "done"], x) /\ x \in Task /\ x.row = "none"
      <3>1. task[t].sched \in Schedules /\ task[t].retry + 1 \in Nat
        BY TaskRecord DEF IInv, TypeOK
      <3>2. NewTask(task[t].sched, "retry", task[t].retry + 1) \in Task
        BY <3>1, NewTaskType DEF Triggers
      <3> QED BY <1>7, <3>2 DEF Retry, NewTask
    <2> DEFINE mid == [task EXCEPT ![t].pc = "done"]
               r == [task[t] EXCEPT !.pc = "done"]
    <2>2. task \in Seq(Task) /\ Len(task) \in Nat /\ TaskIds = 1 .. Len(task) /\ task[t] \in Task
      BY DEF IInv, TypeOK, TaskIds
    <2>3. r \in Task /\ r.row = task[t].row
      BY <2>2 DEF Task, Pc
    <2>4. mid = [task EXCEPT ![t] = r]
      OBVIOUS
    <2> HIDE DEF mid, r
    <2>5. mid \in Seq(Task) /\ Len(mid) = Len(task) /\ \A u \in TaskIds : mid[u].row = task[u].row
      <3>1. t \in DOMAIN task /\ task \in Seq(Task)
        BY <2>2 DEF TaskIds
      <3>2. mid \in Seq(Task) /\ Len(mid) = Len(task) /\ mid[t] = r
            /\ \A u \in DOMAIN task : u # t => mid[u] = task[u]
        BY ONLY <2>3, <2>4, <3>1, Update
      <3> QED BY <2>3, <3>2 DEF TaskIds
    <2>6. /\ task' \in Seq(Task) /\ Len(task') = Len(task) + 1 /\ TaskIds' = 1 .. Len(task) + 1
          /\ \A u \in TaskIds : task'[u].row = task[u].row
          /\ task'[Len(task) + 1].row = "none"
      <3>1. task' = Append(mid, x)
        BY <2>1 DEF mid
      <3>2. x \in Task /\ mid \in Seq(Task) /\ Len(mid) = Len(task)
        BY <2>1, <2>5
      <3>3. /\ task' \in Seq(Task) /\ Len(task') = Len(mid) + 1 /\ task'[Len(mid) + 1] = x
            /\ \A u \in 1 .. Len(mid) : task'[u] = mid[u]
        BY ONLY <3>1, <3>2, AppendOne
      <3> QED BY <2>1, <2>2, <2>5, <3>2, <3>3 DEF TaskIds
    <2>7. TaskIds' \ TaskIds = {Len(task) + 1}
      BY <2>2, <2>6
    <2> QED BY <2>2, <2>6, <2>7, RowsPlanned DEF Ledger!Next, Rows0
  <1> QED BY <1>2, <1>3, <1>4, <1>5, <1>6, <1>7 DEF TaskStep

\* Deleting a schedule purges the rows of its attempts and nothing else.
LEMMA PurgeLedger ==
  ASSUME IInv, NEW s \in Schedules, DeleteSchedule(s)
  PROVE  [Ledger!Next]_Rows0
  <1> DEFINE r(t) == IF task[t].sched = s /\ task[t].row # "none"
                     THEN [task[t] EXCEPT !.row = "deleted"]
                     ELSE task[t]
  <1>1. task \in Seq(Task) /\ task' = [t \in TaskIds |-> r(t)]
    BY DEF IInv, TypeOK, DeleteSchedule
  <1>2. ASSUME NEW t \in TaskIds
        PROVE  r(t).row # task[t].row => task[t].row # "none" /\ r(t).row = "deleted"
    <2>1. task[t] \in Task
      BY <1>1 DEF TaskIds
    <2> QED BY <2>1 DEF Task
  <1> HIDE DEF r
  <1>3. TaskIds' = TaskIds /\ \A t \in TaskIds : task'[t] = r(t)
    BY <1>1 DEF TaskIds
  <1>4. Rows0' = [t \in TaskIds |-> task'[t].row]
    BY <1>3 DEF Rows0
  <1>5. DOMAIN Rows0' = DOMAIN Rows0
    BY <1>4 DEF Rows0
  <1>6. \A t \in DOMAIN Rows0 :
          Rows0'[t] # Rows0[t] => Rows0[t] # "none" /\ Rows0'[t] = "deleted"
    BY <1>2, <1>3, <1>4 DEF Rows0
  <1> QED BY <1>5, <1>6 DEF Ledger!Next, Ledger!Purge, Rows0

\* The end of a process leaves every row as it is.
LEMMA EndLedger ==
  ASSUME IInv, ProcessEnds
  PROVE  Rows0' = Rows0
  <1> DEFINE r(t) == IF Live(t) THEN [task[t] EXCEPT !.pc = "gone"] ELSE task[t]
  <1>1. task \in Seq(Task) /\ task' = [t \in TaskIds |-> r(t)]
    BY DEF IInv, TypeOK, ProcessEnds
  <1>2. ASSUME NEW t \in TaskIds
        PROVE  r(t).row = task[t].row
    <2>1. task[t] \in Task
      BY <1>1 DEF TaskIds
    <2> QED BY <2>1 DEF Task
  <1> HIDE DEF r
  <1>3. TaskIds' = TaskIds /\ \A t \in TaskIds : task'[t] = r(t)
    BY <1>1 DEF TaskIds
  <1> QED BY <1>2, <1>3, RowsKept

\* New tasks are attempts without rows.
LEMMA AppendedLedger ==
  ASSUME task \in Seq(Task), NEW more \in Seq(Task), task' = task \o more,
         \A i \in 1 .. Len(more) : more[i].row = "none"
  PROVE  [Ledger!Next]_Rows0
  <1> DEFINE n == Len(task)
             m == Len(more)
  <1>1. n \in Nat /\ m \in Nat /\ TaskIds = 1 .. n
    BY DEF TaskIds
  <1>2. /\ task' \in Seq(Task) /\ Len(task') = n + m
        /\ \A u \in 1 .. n + m : task'[u] = IF u =< n THEN task[u] ELSE more[u - n]
    BY <1>1, ConcatProperties
  <1>3. TaskIds' = 1 .. n + m
    BY <1>2 DEF TaskIds
  <1>4. \A u \in TaskIds : task'[u] = task[u]
    BY <1>1, <1>2
  <1>5. \A u \in TaskIds' \ TaskIds : task'[u].row = "none"
    <2> TAKE u \in TaskIds' \ TaskIds
    <2>1. u \in 1 .. n + m /\ ~(u =< n) /\ u - n \in 1 .. m
      BY <1>1, <1>3
    <2>2. task'[u] = more[u - n]
      BY <1>2, <2>1
    <2> QED BY <2>1, <2>2
  <1>6. Len(task') >= Len(task)
    BY <1>1, <1>2
  <1> QED BY <1>2, <1>4, <1>5, <1>6, RowsPlanned DEF Ledger!Next, Rows0

LEMMA TickLaunchLedger ==
  ASSUME IInv, TickLaunch
  PROVE  [Ledger!Next]_Rows0
  <1> DEFINE C == IF shutdown THEN {} ELSE Candidates
             n == Cardinality(C)
  <1>1. PICK queue \in SortByPriority(C) :
          task' = task \o [i \in DOMAIN queue |-> NewTask(queue[i], "cron", 0)]
    BY DEF TickLaunch
  <1> DEFINE more == [i \in DOMAIN queue |-> NewTask(queue[i], "cron", 0)]
  <1>2. C \subseteq Schedules
    BY DEF Candidates, IInv, TypeOK
  <1>3. n \in Nat
    BY <1>2, SchedulesAssumption, FS_Subset, FS_CardinalityType
  <1>4. queue \in [1 .. n -> C]
    BY DEF SortByPriority
  <1> HIDE DEF C, n
  <1>5. \A i \in 1 .. n : NewTask(queue[i], "cron", 0) \in Task
    <2> TAKE i \in 1 .. n
    <2>1. queue[i] \in Schedules
      BY <1>2, <1>4
    <2> QED BY <2>1, NewTaskType DEF Triggers
  <1>6. DOMAIN queue = 1 .. n
    BY <1>4
  <1>7. more \in Seq(Task) /\ Len(more) = n
    <2>1. more \in [1 .. n -> Task]
      BY <1>5, <1>6
    <2> QED BY <1>3, <2>1
  <1>8. \A i \in 1 .. Len(more) : more[i].row = "none"
    BY <1>6, <1>7 DEF NewTask
  <1>9. task' = task \o more
    BY <1>1
  <1> HIDE DEF more
  <1> QED BY <1>7, <1>8, <1>9, AppendedLedger DEF IInv, TypeOK

LEMMA ListenerLaunchesLedger ==
  ASSUME IInv, ListenerLaunches
  PROVE  [Ledger!Next]_Rows0
  <1>1. loading \in Schedules
    BY DEF ListenerLaunches, IInv, TypeOK
  <1>2. CASE Exists(loading)
    <2> DEFINE x == NewTask(loading, "manual", 0)
               more == <<x>>
    <2>1. task' = Append(task, x)
      BY <1>2 DEF ListenerLaunches
    <2>2. x \in Task /\ x.row = "none"
      BY <1>1, NewTaskType DEF NewTask, Triggers
    <2> HIDE DEF x
    <2>3. more \in Seq(Task) /\ Len(more) = 1 /\ more[1] = x
      BY <2>2
    <2>4. task \in Seq(Task) /\ task' = task \o more
      BY <2>1, <2>2 DEF IInv, TypeOK
    <2>5. \A i \in 1 .. Len(more) : more[i].row = "none"
      BY <2>2, <2>3
    <2> HIDE DEF more
    <2> QED BY <2>3, <2>4, <2>5, AppendedLedger
  <1>3. CASE ~Exists(loading)
    BY <1>3 DEF ListenerLaunches, Rows0, TaskIds
  <1> QED BY <1>2, <1>3

\* A step of the daemon is a step of the ledger or leaves it alone.
LEMMA StepLedger == IInv /\ [Next]_vars => [Ledger!Next]_Rows0
  <1> SUFFICES ASSUME IInv, [Next]_vars PROVE [Ledger!Next]_Rows0
    OBVIOUS
  <1>1. ASSUME UNCHANGED task PROVE [Ledger!Next]_Rows0
    BY <1>1 DEF Rows0, TaskIds
  <1>2. CASE Start \/ HandleShutdown
    BY <1>1, <1>2 DEF Start, HandleShutdown
  <1>3. CASE Crash \/ Stop
    BY <1>3, EndLedger DEF Crash, Stop
  <1>4. CASE TickSelect \/ LeaveLoop \/ TickFails
    BY <1>1, <1>4 DEF TickSelect, LeaveLoop, TickFails
  <1>5. CASE TickLaunch
    BY <1>5, TickLaunchLedger
  <1>6. CASE ListenerSubscribes \/ ListenerReceives \/ ListenerFails
    BY <1>1, <1>6 DEF ListenerSubscribes, ListenerReceives, ListenerFails
  <1>7. CASE ListenerLaunches
    BY <1>7, ListenerLaunchesLedger
  <1>8. CASE Api
    <2>1. PICK s \in Schedules : \/ CreateSchedule(s) \/ DeleteSchedule(s) \/ RunNow(s)
                               \/ \E c \in CfgStates : Reconfigure(s, c)
      BY <1>8 DEF Api
    <2>2. CASE DeleteSchedule(s)
      BY <2>2, PurgeLedger
    <2>3. CASE CreateSchedule(s) \/ RunNow(s) \/ \E c \in CfgStates : Reconfigure(s, c)
      BY <1>1, <2>3 DEF CreateSchedule, RunNow, Reconfigure
    <2> QED BY <2>1, <2>2, <2>3
  <1>9. CASE Time
    BY <1>1, <1>9 DEF Time, CronFires, RateWindowEnds
  <1>10. CASE \E t \in TaskIds : TaskStep(t)
    BY <1>10, TaskLedger
  <1>11. CASE UNCHANGED vars
    BY <1>1, <1>11 DEF vars
  <1> QED BY <1>2, <1>3, <1>4, <1>5, <1>6, <1>7, <1>8, <1>9, <1>10, <1>11
          DEF Next, MainLoop, Listener

\* The run history is append-only: the daemon, its crashes and the deletion of schedules
\* implement RunLedger.
THEOREM LedgerImplemented == Spec => LedgerSpec
  <1>1. Init => Ledger!Init
    BY DEF Init, Ledger!Init, TaskIds
  <1> QED BY <1>1, StepLedger, Invariant, PTL DEF Spec, LedgerSpec, Ledger!Spec, Rows0
=============================================================================
