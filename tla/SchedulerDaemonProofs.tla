----------------------- MODULE SchedulerDaemonProofs -----------------------
(* Proofs about SchedulerDaemon for every value of its constants. *)
EXTENDS SchedulerDaemon, FiniteSetTheorems, SequenceTheorems, TLAPS

-----------------------------------------------------------------------------
(* Lemmas about the data the daemon is built from *)

LEMMA KeysType == \A s \in Schedules, n \in Nat : n =< MaxRetries[s] => <<s, n>> \in Keys
  BY MaxRetriesAssumption DEF Keys

LEMMA IdType == \A s \in Schedules : Id(s) \in Keys
  BY KeysType, MaxRetriesAssumption DEF Id

LEMMA NewTaskType ==
  ASSUME NEW s \in Schedules, NEW tr \in Triggers, NEW n \in Nat
  PROVE  NewTask(s, tr, n) \in Task
  BY DEF NewTask, Task, Pc, RunStatus

\* A task table in which some records are replaced is still one.
LEMMA MapType ==
  ASSUME task \in Seq(Task), NEW f, f = [t \in DOMAIN task |-> f[t]],
         \A t \in DOMAIN task : f[t] \in Task
  PROVE  f \in Seq(Task) /\ Len(f) = Len(task)
  <1>1. DOMAIN task = 1 .. Len(task) /\ Len(task) \in Nat
    OBVIOUS
  <1>2. f \in [1 .. Len(task) -> Task]
    BY <1>1
  <1> QED BY <1>1, <1>2

\* Every step leaves the counters of environment events alone or spends one.
Budgeted == UNCHANGED used \/ \E e \in EnvEvents : Spend(e)

LEMMA BudgetedUse ==
  ASSUME TypeOK, Budgeted
  PROVE  /\ used' \in [EnvEvents -> Nat]
         /\ used["fault"] \in Nat /\ used'["fault"] \in Nat
         /\ used'["fault"] >= used["fault"]
         /\ used'["crash"] = 0 => used["crash"] = 0
  <1>1. used \in [EnvEvents -> Nat] /\ "fault" \in EnvEvents /\ "crash" \in EnvEvents
    BY DEF TypeOK, EnvEvents
  <1>2. CASE UNCHANGED used
    BY <1>1, <1>2
  <1>3. ASSUME NEW e \in EnvEvents, Spend(e)
        PROVE  /\ used' \in [EnvEvents -> Nat]
               /\ used'["fault"] \in Nat /\ used'["fault"] >= used["fault"]
               /\ used'["crash"] = 0 => used["crash"] = 0
    BY <1>1, <1>3 DEF Spend
  <1> QED BY <1>1, <1>2, <1>3 DEF Budgeted

LEMMA FaultUse ==
  ASSUME TypeOK, Spend("fault")
  PROVE  Budgeted /\ used'["fault"] > 0
  BY DEF TypeOK, Budgeted, Spend, EnvEvents

\* Replacing one record of a task table.
LEMMA Update ==
  ASSUME NEW old \in Seq(Task), NEW t \in DOMAIN old, NEW r \in Task,
         NEW new, new = [old EXCEPT ![t] = r]
  PROVE  /\ new \in Seq(Task) /\ Len(new) = Len(old) /\ DOMAIN new = DOMAIN old
         /\ new[t] = r
         /\ \A u \in DOMAIN old : u # t => new[u] = old[u]
  <1>1. t \in 1 .. Len(old) /\ DOMAIN old = 1 .. Len(old)
    OBVIOUS
  <1> QED BY <1>1, ExceptSeq

LEMMA TaskRecord ==
  ASSUME task \in Seq(Task), NEW t \in TaskIds
  PROVE  /\ task[t] \in Task /\ task[t].sched \in Schedules
         /\ task[t].retry \in Nat /\ task[t].trigger \in Triggers
         /\ task[t].pc \in Pc /\ task[t].row \in RunStatus
  <1>1. task[t] \in Task
    BY DEF TaskIds
  <1> QED BY <1>1 DEF Task

\* What a step that only moves one task does to the table.
Moved(t, pc, row) ==
  /\ task' \in Seq(Task) /\ Len(task') = Len(task)
  /\ task'[t].pc = pc /\ task'[t].row = row
  /\ task'[t].sched = task[t].sched
  /\ task'[t].trigger = task[t].trigger
  /\ task'[t].retry = task[t].retry
  /\ \A u \in TaskIds : u # t => task'[u] = task[u]

LEMMA RowMoves ==
  ASSUME task \in Seq(Task), NEW t \in TaskIds, NEW pc \in Pc, NEW row \in RunStatus,
         task' = [task EXCEPT ![t].row = row, ![t].pc = pc]
  PROVE  Moved(t, pc, row)
  <1> DEFINE q == [task[t] EXCEPT !.row = row]
             r == [q EXCEPT !.pc = pc]
             mid == [task EXCEPT ![t].row = row]
  <1>1. task[t] \in Task
    BY DEF TaskIds
  <1>2. /\ q \in Task /\ q.pc = task[t].pc /\ q.row = row /\ q.sched = task[t].sched
        /\ q.trigger = task[t].trigger /\ q.retry = task[t].retry
    BY <1>1 DEF Task
  <1>3. mid = [task EXCEPT ![t] = q]
    OBVIOUS
  <1>4. task' = [mid EXCEPT ![t].pc = pc]
    OBVIOUS
  <1> HIDE DEF q
  <1>5. /\ mid \in Seq(Task) /\ Len(mid) = Len(task) /\ mid[t] = q
        /\ DOMAIN mid = TaskIds
        /\ \A u \in TaskIds : u # t => mid[u] = task[u]
    <2>1. t \in DOMAIN task /\ q \in Task
      BY <1>2 DEF TaskIds
    <2> HIDE DEF mid
    <2> QED BY ONLY task \in Seq(Task), <2>1, <1>3, Update DEF TaskIds
  <1> HIDE DEF mid
  <1>6. /\ r \in Task /\ r.pc = pc /\ r.row = q.row /\ r.sched = q.sched
        /\ r.trigger = q.trigger /\ r.retry = q.retry
    BY <1>2 DEF Task
  <1>7. task' = [mid EXCEPT ![t] = r]
    BY <1>4, <1>5
  <1> HIDE DEF r
  <1>9. /\ task' \in Seq(Task) /\ Len(task') = Len(task) /\ task'[t] = r
        /\ \A u \in TaskIds : u # t => task'[u] = task[u]
    BY ONLY t \in TaskIds, <1>5, <1>6, <1>7, Update
  <1> QED BY <1>2, <1>6, <1>9 DEF Moved

LEMMA GotoMoves ==
  ASSUME task \in Seq(Task), NEW t \in TaskIds, NEW pc \in Pc, Goto(t, pc)
  PROVE  Moved(t, pc, task[t].row)
  <1> DEFINE r == [task[t] EXCEPT !.pc = pc]
  <1>1. task[t] \in Task
    BY DEF TaskIds
  <1>2. /\ r \in Task /\ r.pc = pc /\ r.row = task[t].row /\ r.sched = task[t].sched
        /\ r.trigger = task[t].trigger /\ r.retry = task[t].retry
    BY <1>1 DEF Task
  <1>3. task' = [task EXCEPT ![t] = r]
    BY DEF Goto
  <1> HIDE DEF r
  <1>4. /\ task' \in Seq(Task) /\ Len(task') = Len(task) /\ task'[t] = r
        /\ \A u \in TaskIds : u # t => task'[u] = task[u]
    BY <1>2, <1>3, Update DEF TaskIds
  <1> QED BY <1>2, <1>4 DEF Moved

-----------------------------------------------------------------------------
(* The inductive invariant *)

\* A task that has not inserted its row has none; one that sleeps its backoff was
\* recorded as failed and has a retry left.
PcTellsRow ==
  \A t \in TaskIds :
    /\ task[t].pc \in {"waiting", "starting"} => task[t].row = "none"
    /\ task[t].pc = "backoff" => task[t].row \in {"failed", "deleted"} /\ MayRetry(t)

\* What a schedule has to account for: its live tasks, and its scrapes that a drain left.
Pending(s) == LiveOf(s) \cup (IF used["crash"] = 0 THEN CutShort(s) ELSE {})
Registered(s) == IF registry[Id(s)] # 0 THEN 1 ELSE 0

\* Each is the registered one, or there is a manual trigger or a retry to answer for it; the
\* drain awaits the registered one, and nothing registered or awaited has been left.
OverlapInv ==
  /\ \A s \in Schedules :
       /\ Cardinality(Pending(s)) =< Registered(s) + Cardinality(Unplanned(s))
       /\ phase = "draining" => Cardinality(Pending(s) \ gathered) =< Cardinality(Unplanned(s))
  /\ \A k \in Keys : registry[k] # 0 => task[registry[k]].pc # "gone"
  /\ \A t \in gathered : task[t].pc # "gone"

IInv ==
  /\ TypeOK
  /\ SemaphoreAccounting
  /\ RegistryNeverStale
  /\ RunningRowsOwned
  /\ RetryFollowsFailure
  /\ PcTellsRow
  /\ OverlapInv

\* The parts that speak of the task table alone.
Rows == RunningRowsOwned /\ RetryFollowsFailure /\ PcTellsRow

LEMMA HoldersFinite ==
  ASSUME TypeOK
  PROVE  IsFiniteSet(Holders) /\ Cardinality(Holders) \in Nat
  <1>1. Len(task) \in Nat /\ TaskIds = 1 .. Len(task)
    BY DEF TypeOK, TaskIds
  <1>2. IsFiniteSet(1 .. Len(task))
    BY <1>1, FS_Interval
  <1>3. Holders \in SUBSET (1 .. Len(task))
    BY <1>1 DEF Holders
  <1> QED BY <1>2, <1>3, FS_Subset, FS_CardinalityType

\* The sets of tasks counted are finite.
LEMMA TasksCounted ==
  ASSUME task \in Seq(Task), NEW A \in SUBSET TaskIds
  PROVE  /\ IsFiniteSet(A) /\ Cardinality(A) \in Nat
         /\ \A B \in SUBSET A : IsFiniteSet(B) /\ Cardinality(B) \in Nat
                                /\ Cardinality(B) =< Cardinality(A)
  <1>1. Len(task) \in Nat /\ TaskIds = 1 .. Len(task) /\ IsFiniteSet(1 .. Len(task))
    BY FS_Interval DEF TaskIds
  <1>2. IsFiniteSet(A)
    BY <1>1, FS_Subset
  <1> QED BY <1>2, FS_Subset, FS_CardinalityType

\* One more task is counted, or one fewer.
LEMMA OneMore ==
  ASSUME NEW A, NEW x, IsFiniteSet(A)
  PROVE  /\ IsFiniteSet(A \cup {x}) /\ IsFiniteSet(A \ {x})
         /\ Cardinality(A) \in Nat /\ Cardinality(A \cup {x}) \in Nat /\ Cardinality(A \ {x}) \in Nat
         /\ Cardinality(A \cup {x}) =< Cardinality(A) + 1
         /\ x \notin A => Cardinality(A \cup {x}) = Cardinality(A) + 1
         /\ x \in A => Cardinality(A \ {x}) = Cardinality(A) - 1
  BY FS_AddElement, FS_RemoveElement, FS_CardinalityType

LEMMA Grown ==
  ASSUME NEW A, NEW B, NEW x, IsFiniteSet(A), B \subseteq A \cup {x}
  PROVE  /\ IsFiniteSet(B) /\ Cardinality(B) \in Nat
         /\ Cardinality(B) =< Cardinality(A) + 1
  <1>1. IsFiniteSet(A \cup {x}) /\ Cardinality(A \cup {x}) \in Nat /\ Cardinality(A) \in Nat
        /\ Cardinality(A \cup {x}) =< Cardinality(A) + 1
    BY OneMore
  <1>2. IsFiniteSet(B) /\ Cardinality(B) =< Cardinality(A \cup {x}) /\ Cardinality(B) \in Nat
    BY <1>1, FS_Subset, FS_CardinalityType
  <1> QED BY <1>1, <1>2

\* The account of one schedule, as the invariant keeps it.
Counted(s) ==
  /\ Cardinality(Pending(s)) \in Nat /\ Cardinality(Unplanned(s)) \in Nat
  /\ Cardinality(Pending(s) \ gathered) \in Nat /\ Registered(s) \in {0, 1}
  /\ Cardinality(Pending(s)) =< Registered(s) + Cardinality(Unplanned(s))
  /\ phase = "draining" => Cardinality(Pending(s) \ gathered) =< Cardinality(Unplanned(s))

LEMMA PendingCounted ==
  ASSUME IInv, NEW s \in Schedules
  PROVE  /\ Pending(s) \in SUBSET TaskIds /\ Unplanned(s) \in SUBSET TaskIds
         /\ IsFiniteSet(Pending(s)) /\ IsFiniteSet(Unplanned(s))
         /\ IsFiniteSet(Pending(s) \ gathered)
         /\ Counted(s)
  <1>1. Pending(s) \in SUBSET TaskIds /\ Unplanned(s) \in SUBSET TaskIds
        /\ Pending(s) \ gathered \in SUBSET Pending(s)
    BY DEF Pending, LiveOf, CutShort, Unplanned
  <1>2. Registered(s) \in {0, 1}
    BY DEF Registered
  <1>3. /\ Cardinality(Pending(s)) =< Registered(s) + Cardinality(Unplanned(s))
        /\ phase = "draining" => Cardinality(Pending(s) \ gathered) =< Cardinality(Unplanned(s))
    BY DEF IInv, OverlapInv
  <1>4. task \in Seq(Task)
    BY DEF IInv, TypeOK
  <1>5. /\ IsFiniteSet(Pending(s)) /\ Cardinality(Pending(s)) \in Nat
        /\ IsFiniteSet(Unplanned(s)) /\ Cardinality(Unplanned(s)) \in Nat
        /\ IsFiniteSet(Pending(s) \ gathered) /\ Cardinality(Pending(s) \ gathered) \in Nat
    BY <1>1, <1>4, TasksCounted
  <1> QED BY <1>1, <1>2, <1>3, <1>5 DEF Counted

\* A schedule of which no more is pending than before, with as many unplanned tasks.
LEMMA PendingShrinks ==
  ASSUME IInv, NEW s \in Schedules, Pending(s)' \subseteq Pending(s), Unplanned(s)' = Unplanned(s),
         registry'[Id(s)] = registry[Id(s)]
  PROVE  /\ Cardinality(Pending(s)') =< Registered(s)' + Cardinality(Unplanned(s)')
         /\ phase = "draining" => Cardinality(Pending(s)' \ gathered) =< Cardinality(Unplanned(s)')
  <1>1. Cardinality(Pending(s)') \in Nat /\ Cardinality(Pending(s)') =< Cardinality(Pending(s))
    BY PendingCounted, TasksCounted DEF IInv, TypeOK
  <1>2. /\ Cardinality(Pending(s)' \ gathered) \in Nat
        /\ Cardinality(Pending(s)' \ gathered) =< Cardinality(Pending(s) \ gathered)
    <2>1. Pending(s)' \ gathered \in SUBSET (Pending(s) \ gathered)
          /\ Pending(s) \ gathered \in SUBSET TaskIds
      BY PendingCounted
    <2> QED BY <2>1, TasksCounted DEF IInv, TypeOK
  <1>3. Registered(s)' = Registered(s)
    BY DEF Registered
  <1>4. Counted(s)
    BY PendingCounted
  <1>5. Cardinality(Pending(s)') =< Registered(s)' + Cardinality(Unplanned(s)')
    BY <1>1, <1>3, <1>4 DEF Counted
  <1>6. phase = "draining" => Cardinality(Pending(s)' \ gathered) =< Cardinality(Unplanned(s)')
    BY <1>2, <1>4 DEF Counted
  <1> QED BY <1>5, <1>6

\* How the semaphore's users change when one task moves.
LEMMA HoldersMove ==
  ASSUME TypeOK, NEW t \in TaskIds, NEW pc \in Pc, NEW row \in RunStatus, Moved(t, pc, row)
  PROVE  /\ pc \in Holding => Holders' = Holders \cup {t}
         /\ pc \notin Holding => Holders' = Holders \ {t}
  <1>1. TaskIds' = TaskIds
    BY DEF Moved, TypeOK, TaskIds
  <1> QED BY <1>1 DEF Moved, Holders

\* Taking a permit, keeping it and giving it back keep the account balanced.
LEMMA AccountMove ==
  ASSUME IInv, NEW t \in TaskIds, NEW pc \in Pc, NEW row \in RunStatus, Moved(t, pc, row),
         \/ task[t].pc \in Holding /\ pc \in Holding /\ permits' = permits
         \/ task[t].pc \notin Holding /\ pc \in Holding /\ permits > 0 /\ permits' = permits - 1
         \/ task[t].pc \in Holding /\ pc \notin Holding /\ permits' = permits + 1
  PROVE  SemaphoreAccounting' /\ permits' \in 0 .. MaxConcurrent
  <1> DEFINE n == Cardinality(Holders)
  <1>1. IsFiniteSet(Holders) /\ n \in Nat /\ permits + n = MaxConcurrent /\ permits \in Nat
    BY HoldersFinite, MaxConcurrentAssumption DEF IInv, TypeOK, SemaphoreAccounting
  <1>2. t \in Holders <=> task[t].pc \in Holding
    BY DEF Holders
  <1>3. Cardinality(Holders \cup {t}) = (IF t \in Holders THEN n ELSE n + 1)
    BY <1>1, FS_AddElement
  <1>4. Cardinality(Holders \ {t}) = (IF t \in Holders THEN n - 1 ELSE n)
    BY <1>1, FS_RemoveElement
  <1>5. /\ pc \in Holding => Holders' = Holders \cup {t}
        /\ pc \notin Holding => Holders' = Holders \ {t}
    BY HoldersMove DEF IInv
  <1>6. t \in Holders => n >= 1
    BY <1>1, FS_EmptySet
  <1> DEFINE m == Cardinality(Holders')
  <1>7. SemaphoreAccounting' <=> permits' + m = MaxConcurrent
    BY DEF SemaphoreAccounting
  <1>8. CASE task[t].pc \in Holding /\ pc \in Holding /\ permits' = permits
    <2>1. m = n
      BY <1>2, <1>3, <1>5, <1>8
    <2> QED BY <1>1, <1>7, <1>8, <2>1 DEF IInv, TypeOK
  <1>9. CASE task[t].pc \notin Holding /\ pc \in Holding /\ permits > 0 /\ permits' = permits - 1
    <2>1. m = n + 1
      BY <1>2, <1>3, <1>5, <1>9
    <2> HIDE DEF m, n
    <2> QED BY <1>1, <1>7, <1>9, <2>1, MaxConcurrentAssumption
  <1>10. CASE task[t].pc \in Holding /\ pc \notin Holding /\ permits' = permits + 1
    <2>1. m = n - 1
      BY <1>2, <1>4, <1>5, <1>10
    <2> HIDE DEF m, n
    <2> QED BY <1>1, <1>2, <1>6, <1>7, <1>10, <2>1, MaxConcurrentAssumption
  <1> QED BY <1>8, <1>9, <1>10

\* What a step owes the chain of retries: attempts are not rewritten, recorded failures
\* stand, and a new attempt that is a retry has its failed parent.
LEMMA HistoryKept ==
  ASSUME IInv, TaskIds \subseteq TaskIds',
         \A u \in TaskIds :
           /\ task'[u].sched = task[u].sched
           /\ task'[u].trigger = task[u].trigger
           /\ task'[u].retry = task[u].retry
           /\ task[u].pc = "done" => task'[u].pc = "done"
           /\ task[u].pc = "done" /\ task[u].row \in {"failed", "deleted"}
                => task'[u].row \in {"failed", "deleted"},
         \A u \in TaskIds' \ TaskIds :
           /\ task'[u].retry =< MaxRetries[task'[u].sched]
           /\ task'[u].trigger = "retry" =>
                \E p \in 1 .. u - 1 :
                  /\ task'[p].sched = task'[u].sched
                  /\ task'[p].retry = task'[u].retry - 1
                  /\ task'[p].row \in {"failed", "deleted"}
                  /\ task'[p].pc = "done"
  PROVE  RetryFollowsFailure'
  <1> SUFFICES ASSUME NEW u \in TaskIds
               PROVE  /\ task'[u].retry =< MaxRetries[task'[u].sched]
                      /\ task'[u].trigger = "retry" =>
                           \E p \in 1 .. u - 1 :
                             /\ task'[p].sched = task'[u].sched
                             /\ task'[p].retry = task'[u].retry - 1
                             /\ task'[p].row \in {"failed", "deleted"}
                             /\ task'[p].pc = "done"
    BY DEF RetryFollowsFailure
  <1>1. TaskIds = 1 .. Len(task) /\ Len(task) \in Nat
    BY DEF IInv, TypeOK, TaskIds
  <1>2. task[u].retry =< MaxRetries[task[u].sched]
    BY DEF IInv, RetryFollowsFailure
  <1>3. ASSUME task[u].trigger = "retry"
        PROVE  \E p \in 1 .. u - 1 :
                 /\ task'[p].sched = task'[u].sched
                 /\ task'[p].retry = task'[u].retry - 1
                 /\ task'[p].row \in {"failed", "deleted"}
                 /\ task'[p].pc = "done"
    <2>1. PICK p \in 1 .. u - 1 :
            /\ task[p].sched = task[u].sched
            /\ task[p].retry = task[u].retry - 1
            /\ task[p].row \in {"failed", "deleted"}
            /\ task[p].pc = "done"
      BY <1>3 DEF IInv, RetryFollowsFailure
    <2>2. p \in TaskIds
      BY <1>1, <2>1
    <2> QED BY <2>1, <2>2
  <1> QED BY <1>2, <1>3

\* A live task moves: what the new state owes the row properties.
LEMMA RowsMove ==
  ASSUME IInv, NEW t \in TaskIds, NEW pc \in Pc, NEW row \in RunStatus, Moved(t, pc, row),
         Budgeted,
         task[t].pc # "done",
         row = "running" => \/ pc \in {"scraping", "saving", "failing", "gone"}
                            \/ pc = "done" /\ used'["fault"] > 0,
         pc \in {"waiting", "starting"} => row = "none",
         pc = "backoff" => row \in {"failed", "deleted"} /\ MayRetry(t)
  PROVE  Rows'
  <1>1. TaskIds' = TaskIds /\ TaskIds = 1 .. Len(task) /\ Len(task) \in Nat
    BY DEF Moved, IInv, TypeOK, TaskIds
  <1>2. used["fault"] \in Nat /\ used'["fault"] \in Nat /\ used'["fault"] >= used["fault"]
    BY BudgetedUse DEF IInv
  <1>3. RunningRowsOwned'
    <2> SUFFICES ASSUME NEW u \in TaskIds, task'[u].row = "running"
                 PROVE  \/ task'[u].pc \in {"scraping", "saving", "failing", "gone"}
                        \/ task'[u].pc = "done" /\ used'["fault"] > 0
      BY <1>1 DEF RunningRowsOwned
    <2>1. CASE u = t
      BY <2>1 DEF Moved
    <2>2. CASE u # t
      <3>1. task'[u] = task[u]
        BY <2>2 DEF Moved
      <3>2. \/ task[u].pc \in {"scraping", "saving", "failing", "gone"}
            \/ task[u].pc = "done" /\ used["fault"] > 0
        BY <3>1 DEF IInv, RunningRowsOwned
      <3> QED BY <1>2, <3>1, <3>2
    <2> QED BY <2>1, <2>2
  <1>4. RetryFollowsFailure'
    BY <1>1, HistoryKept DEF Moved
  <1>5. PcTellsRow'
    BY <1>1 DEF Moved, IInv, PcTellsRow, MayRetry
  <1> QED BY <1>3, <1>4, <1>5 DEF Rows

\* The registration of a task that stays alive stands; that of one that leaves is popped.
LEMMA RegistryMove ==
  ASSUME IInv, NEW t \in TaskIds, NEW pc \in Pc, NEW row \in RunStatus, Moved(t, pc, row),
         \/ registry' = registry /\ pc \notin {"done", "gone"}
         \/ registry' = [registry EXCEPT ![Id(task[t].sched)] = 0]
  PROVE  RegistryNeverStale' /\ registry' \in [Keys -> 0 .. Len(task')]
  <1>1. /\ TaskIds' = TaskIds /\ TaskIds = 1 .. Len(task) /\ Len(task) \in Nat
        /\ Len(task') = Len(task)
    BY DEF Moved, IInv, TypeOK, TaskIds
  <1>2. registry \in [Keys -> 0 .. Len(task)]
    BY DEF IInv, TypeOK
  <1>3. registry' \in [Keys -> 0 .. Len(task')]
    BY <1>1, <1>2
  <1>4. ASSUME NEW s \in Schedules, registry'[Id(s)] # 0
        PROVE  LET u == registry'[Id(s)] IN
               task'[u].pc \notin {"done", "gone"} /\ task'[u].sched = s /\ task'[u].trigger # "retry"
    <2> DEFINE u == registry[Id(s)]
    <2>1. Id(s) \in Keys
      BY IdType
    <2>2. u # 0 /\ registry'[Id(s)] = u /\ (pc \notin {"done", "gone"} \/ s # task[t].sched)
      BY <1>2, <1>4, <2>1
    <2>3. u \in TaskIds
      BY <1>1, <1>2, <2>1, <2>2
    <2>4. task[u].pc \notin {"done", "gone"} /\ task[u].sched = s /\ task[u].trigger # "retry"
      BY <2>2 DEF IInv, RegistryNeverStale, Live
    <2> HIDE DEF u
    <2>5. CASE u = t
      <3>1. pc \notin {"done", "gone"}
        BY <2>2, <2>4, <2>5
      <3> QED BY <2>2, <2>4, <2>5, <3>1 DEF Moved
    <2>6. CASE u # t
      <3>1. task'[u] = task[u]
        BY <2>3, <2>6 DEF Moved
      <3> QED BY <2>2, <2>4, <3>1
    <2> QED BY <2>5, <2>6
  <1>5. RegistryNeverStale'
    BY <1>4 DEF RegistryNeverStale, Live
  <1> QED BY <1>3, <1>5

\* Steps that touch neither the tasks, nor the registry, nor the semaphore.
LEMMA Untouched ==
  ASSUME IInv, UNCHANGED <<task, registry, permits>>, Budgeted
  PROVE  SemaphoreAccounting' /\ RegistryNeverStale' /\ Rows'
  <1>1. used["fault"] \in Nat /\ used'["fault"] \in Nat /\ used'["fault"] >= used["fault"]
    BY BudgetedUse DEF IInv
  <1>2. SemaphoreAccounting'
    BY DEF IInv, SemaphoreAccounting, Holders, TaskIds
  <1>3. RegistryNeverStale'
    BY DEF IInv, RegistryNeverStale, Live
  <1>4. RunningRowsOwned'
    BY <1>1 DEF IInv, RunningRowsOwned, TaskIds
  <1>5. RetryFollowsFailure' /\ PcTellsRow'
    BY DEF IInv, RetryFollowsFailure, PcTellsRow, MayRetry, TaskIds
  <1> QED BY <1>2, <1>3, <1>4, <1>5 DEF Rows

\* New waiting tasks at the end of the table.
LEMMA Extended ==
  ASSUME IInv, NEW more \in Seq(Task), task' = task \o more, UNCHANGED permits, Budgeted,
         \A i \in 1 .. Len(more) :
           /\ more[i].pc = "waiting" /\ more[i].row = "none" /\ more[i].trigger # "retry"
           /\ more[i].retry =< MaxRetries[more[i].sched]
  PROVE  /\ task' \in Seq(Task) /\ Len(task') = Len(task) + Len(more)
         /\ \A u \in TaskIds : task'[u] = task[u]
         /\ \A i \in 1 .. Len(more) : task'[Len(task) + i] = more[i]
         /\ SemaphoreAccounting' /\ Rows'
  <1> DEFINE n == Len(task)
             m == Len(more)
  <1>1. /\ task \in Seq(Task) /\ n \in Nat /\ m \in Nat /\ TaskIds = 1 .. n
    BY DEF IInv, TypeOK, TaskIds
  <1>2. /\ task' \in Seq(Task) /\ Len(task') = n + m
        /\ \A u \in 1 .. n + m : task'[u] = IF u =< n THEN task[u] ELSE more[u - n]
    BY <1>1, ConcatProperties
  <1>3. TaskIds' = 1 .. n + m
    BY <1>2 DEF TaskIds
  <1>4. \A u \in 1 .. n : task'[u] = task[u]
    BY <1>1, <1>2
  <1>5. \A i \in 1 .. m : n + i \in 1 .. n + m /\ task'[n + i] = more[i]
    BY <1>1, <1>2
  <1> HIDE DEF n, m
  <1>6. \A u \in 1 .. n + m : u \in 1 .. n \/ \E i \in 1 .. m : u = n + i
    <2> TAKE u \in 1 .. n + m
    <2>1. u \in 1 .. n \/ (u - n \in 1 .. m /\ u = n + (u - n))
      BY <1>1
    <2> QED BY <2>1
  <1>7. \A u \in TaskIds' : \/ u \in TaskIds /\ task'[u] = task[u]
                            \/ /\ u \notin TaskIds
                               /\ task'[u].pc = "waiting" /\ task'[u].row = "none"
                               /\ task'[u].trigger # "retry"
                               /\ task'[u].retry =< MaxRetries[task'[u].sched]
    <2> SUFFICES ASSUME NEW u \in 1 .. n + m
                 PROVE  \/ u \in 1 .. n /\ task'[u] = task[u]
                        \/ /\ u \notin 1 .. n
                           /\ task'[u].pc = "waiting" /\ task'[u].row = "none"
                           /\ task'[u].trigger # "retry"
                           /\ task'[u].retry =< MaxRetries[task'[u].sched]
      BY <1>1, <1>3
    <2>1. CASE u \in 1 .. n
      BY <2>1, <1>4
    <2>2. CASE u \notin 1 .. n
      <3>1. PICK i \in 1 .. m : u = n + i
        BY <1>6, <2>2
      <3> QED BY <1>5, <2>2, <3>1 DEF m
    <2> QED BY <2>1, <2>2
  <1>8. TaskIds \subseteq TaskIds'
    BY <1>1, <1>3
  <1>9. "waiting" \notin Holding
    BY DEF Holding
  <1>10. Holders' = Holders
    BY <1>7, <1>8, <1>9 DEF Holders
  <1>11. SemaphoreAccounting'
    BY <1>10 DEF IInv, SemaphoreAccounting
  <1>12. used["fault"] \in Nat /\ used'["fault"] \in Nat /\ used'["fault"] >= used["fault"]
    BY BudgetedUse DEF IInv
  <1>13. RunningRowsOwned'
    <2> SUFFICES ASSUME NEW u \in TaskIds', task'[u].row = "running"
                 PROVE  \/ task'[u].pc \in {"scraping", "saving", "failing", "gone"}
                        \/ task'[u].pc = "done" /\ used'["fault"] > 0
      BY DEF RunningRowsOwned
    <2>1. u \in TaskIds /\ task'[u] = task[u]
      BY <1>7
    <2>2. \/ task[u].pc \in {"scraping", "saving", "failing", "gone"}
          \/ task[u].pc = "done" /\ used["fault"] > 0
      BY <2>1 DEF IInv, RunningRowsOwned
    <2> QED BY <1>12, <2>1, <2>2
  <1>14. PcTellsRow'
    BY <1>7 DEF IInv, PcTellsRow, MayRetry
  <1>15. RetryFollowsFailure'
    BY <1>7, <1>8, HistoryKept
  <1> QED BY <1>1, <1>2, <1>4, <1>5, <1>11, <1>13, <1>14, <1>15 DEF Rows, n, m

-----------------------------------------------------------------------------
(* Every action preserves the inductive invariant *)

LEMMA SpendBudgeted ==
  ASSUME NEW e \in EnvEvents, Spend(e)
  PROVE  Budgeted
  BY DEF Budgeted

\* The gather has the registered task of a schedule, if there is one.
LEMMA DrainAwaits ==
  ASSUME IInv, Drain, NEW s \in Schedules, NEW A \in SUBSET Pending(s)
  PROVE  Cardinality(A \ gathered') =< Cardinality(Unplanned(s))
  <1>1. Id(s) \in Keys /\ registry \in [Keys -> 0 .. Len(task)] /\ task \in Seq(Task)
        /\ TaskIds = 1 .. Len(task) /\ Counted(s)
    <2>1. Counted(s)
      BY PendingCounted
    <2> QED BY <2>1, IdType DEF IInv, TypeOK, TaskIds
  <1>2. CASE registry[Id(s)] = 0
    <2>1. Cardinality(A \ gathered') =< Cardinality(Pending(s)) /\ Cardinality(A \ gathered') \in Nat
      BY <1>1, PendingCounted, TasksCounted
    <2>2. Registered(s) = 0
      BY <1>2 DEF Registered
    <2> QED BY <1>1, <2>1, <2>2 DEF Counted
  <1>3. CASE registry[Id(s)] # 0
    <2> DEFINE u == registry[Id(s)]
    <2>1. u \in gathered' /\ u \in TaskIds
      BY <1>1, <1>3 DEF Drain
    <2>2. u \in Pending(s)
      BY <1>3, <2>1 DEF IInv, RegistryNeverStale, Pending, LiveOf
    <2> HIDE DEF u
    <2>3. Cardinality(Pending(s) \ {u}) = Cardinality(Pending(s)) - 1
      BY <2>2, PendingCounted, OneMore
    <2>4. /\ Cardinality(A \ gathered') =< Cardinality(Pending(s) \ {u})
          /\ Cardinality(A \ gathered') \in Nat
      <3>1. Pending(s) \ {u} \in SUBSET TaskIds /\ A \ gathered' \in SUBSET (Pending(s) \ {u})
        BY <2>1, PendingCounted
      <3> QED BY <1>1, <3>1, TasksCounted
    <2> QED BY <1>1, <2>3, <2>4 DEF Counted
  <1> QED BY <1>2, <1>3

\* Steps that leave the tasks, the registry and the semaphore alone.
LEMMA QuietStep ==
  ASSUME IInv, UNCHANGED <<task, registry, permits>>, Budgeted,
         cfg' \in [Schedules -> CfgStates],
         nextRun' \in [Schedules -> {"null", "future", "due"}],
         recent' \in [Schedules -> BOOLEAN],
         queued' \in [Schedules -> Nat],
         triggers' \in Seq(Schedules),
         phase' \in {"down", "running", "draining"},
         shutdown' \in BOOLEAN,
         selected' \subseteq Schedules,
         gathered' \subseteq TaskIds,
         \/ UNCHANGED gathered /\ phase' \in {phase, "running"}
         \/ Drain,
         listener' \in {"off", "starting", "subscribed"},
         loading' \in Schedules \cup {NoSchedule}
  PROVE  IInv'
  <1>1. used' \in [EnvEvents -> Nat]
    BY BudgetedUse DEF IInv
  <1>2. TypeOK'
    BY <1>1 DEF IInv, TypeOK, TaskIds
  <1>3. OverlapInv'
    <2>1. used'["crash"] = 0 => used["crash"] = 0
      BY BudgetedUse DEF IInv
    <2>2. ASSUME NEW s \in Schedules
          PROVE  /\ Pending(s)' \subseteq Pending(s) /\ Unplanned(s)' = Unplanned(s)
                 /\ registry'[Id(s)] = registry[Id(s)]
      BY <2>1 DEF Pending, LiveOf, CutShort, Unplanned, Live, TaskIds
    <2>3. ASSUME NEW s \in Schedules, Drain
          PROVE  Cardinality(Pending(s)' \ gathered') =< Cardinality(Unplanned(s)')
      BY <2>2, <2>3, DrainAwaits
    <2>4. ASSUME NEW s \in Schedules
          PROVE  /\ Cardinality(Pending(s)') =< Registered(s)' + Cardinality(Unplanned(s)')
                 /\ phase' = "draining" =>
                      Cardinality(Pending(s)' \ gathered') =< Cardinality(Unplanned(s)')
      <3>1. CASE Drain
        <4>1. Registered(s)' = Registered(s) /\ Unplanned(s)' = Unplanned(s)
          BY <2>2 DEF Registered
        <4>2. Cardinality(Pending(s)') =< Cardinality(Pending(s)) /\ Cardinality(Pending(s)') \in Nat
          BY <2>2, PendingCounted, TasksCounted DEF IInv, TypeOK
        <4>3. Counted(s)
          BY PendingCounted
        <4> QED BY <2>3, <3>1, <4>1, <4>2, <4>3 DEF Counted
      <3>2. CASE UNCHANGED gathered /\ phase' \in {phase, "running"}
        BY <2>2, <3>2, PendingShrinks
      <3> QED BY <3>1, <3>2
    <2>5. \A k \in Keys : registry'[k] # 0 => task'[registry'[k]].pc # "gone"
      BY DEF IInv, OverlapInv
    <2>6. \A t \in gathered' : task'[t].pc # "gone"
      <3>1. CASE Drain
        BY <3>1 DEF Drain, IInv, OverlapInv
      <3>2. CASE UNCHANGED gathered
        BY <3>2 DEF IInv, OverlapInv
      <3> QED BY <3>1, <3>2
    <2> QED BY <2>4, <2>5, <2>6 DEF OverlapInv
  <1> QED BY <1>2, <1>3, Untouched DEF IInv, Rows

LEMMA TimePreserves ==
  ASSUME IInv, NEW s \in Schedules, CronFires(s) \/ RateWindowEnds(s)
  PROVE  IInv'
  <1>1. Budgeted
    BY SpendBudgeted DEF CronFires, RateWindowEnds, EnvEvents, Budgeted
  <1>2. UNCHANGED <<task, registry, permits, cfg, queued, triggers, phase, shutdown,
                    selected, gathered, listener, loading>>
    BY DEF CronFires, RateWindowEnds, daemonVars, listenerVars
  <1>3. nextRun' \in [Schedules -> {"null", "future", "due"}] /\ recent' \in [Schedules -> BOOLEAN]
    BY DEF CronFires, RateWindowEnds, IInv, TypeOK
  <1> QED BY <1>1, <1>2, <1>3, QuietStep DEF IInv, TypeOK

LEMMA QuietApiPreserves ==
  ASSUME IInv, NEW s \in Schedules,
         \/ CreateSchedule(s)
         \/ \E c \in CfgStates : Reconfigure(s, c)
         \/ RunNow(s)
  PROVE  IInv'
  <1>1. Budgeted
    BY SpendBudgeted DEF CreateSchedule, Reconfigure, RunNow, EnvEvents
  <1>2. UNCHANGED <<task, registry, permits, nextRun, recent, phase, shutdown,
                    selected, gathered, listener, loading>>
    BY DEF CreateSchedule, Reconfigure, RunNow, daemonVars, listenerVars
  <1>3. cfg' \in [Schedules -> CfgStates]
    BY DEF CreateSchedule, Reconfigure, RunNow, IInv, TypeOK, CfgStates
  <1>4. queued' \in [Schedules -> Nat]
    <2>1. queued' = queued \/ queued' = [queued EXCEPT ![s] = @ + 1]
      BY DEF CreateSchedule, Reconfigure, RunNow
    <2> QED BY <2>1 DEF IInv, TypeOK
  <1>5. triggers' \in Seq(Schedules)
    <2>1. triggers' = triggers \/ triggers' = Append(triggers, s)
      BY DEF CreateSchedule, Reconfigure, RunNow, listenerVars
    <2>2. triggers \in Seq(Schedules)
      BY DEF IInv, TypeOK
    <2>3. Append(triggers, s) \in Seq(Schedules)
      BY <2>2, AppendProperties
    <2> QED BY <2>1, <2>2, <2>3
  <1> QED BY <1>1, <1>2, <1>3, <1>4, <1>5, QuietStep DEF IInv, TypeOK

\* The drain awaits tasks of the table.
LEMMA DrainType ==
  ASSUME IInv, Drain
  PROVE  gathered' \subseteq TaskIds
  <1>1. registry \in [Keys -> 0 .. Len(task)] /\ TaskIds = 1 .. Len(task) /\ Len(task) \in Nat
    BY DEF IInv, TypeOK, TaskIds
  <1> QED BY <1>1 DEF Drain

LEMMA QuietMainPreserves ==
  ASSUME IInv, Start \/ HandleShutdown \/ TickSelect \/ LeaveLoop \/ TickFails
  PROVE  IInv'
  <1>1. CASE Start
    <2>1. Budgeted /\ UNCHANGED <<task, registry, permits, cfg, recent, queued, triggers,
                                  selected, gathered, loading>>
      BY <1>1 DEF Start, Budgeted
    <2>2. nextRun' \in [Schedules -> {"null", "future", "due"}]
      BY <1>1 DEF Start, IInv, TypeOK
    <2>3. phase' = "running" /\ shutdown' = FALSE /\ listener' = "starting"
      BY <1>1 DEF Start
    <2> QED BY <2>1, <2>2, <2>3, QuietStep DEF IInv, TypeOK
  <1>2. CASE HandleShutdown
    <2>1. Budgeted /\ UNCHANGED <<task, registry, permits, cfg, recent, queued, nextRun, triggers,
                                  selected, gathered, loading, listener, phase>>
      BY <1>2, SpendBudgeted DEF HandleShutdown, dbVars, listenerVars, EnvEvents
    <2>2. shutdown' = TRUE
      BY <1>2 DEF HandleShutdown
    <2> QED BY <2>1, <2>2, QuietStep DEF IInv, TypeOK
  <1>3. CASE TickSelect
    <2>1. Budgeted /\ UNCHANGED <<task, registry, permits, cfg, recent, queued, nextRun, triggers,
                                  shutdown, gathered, loading, listener, phase>>
      BY <1>3 DEF TickSelect, dbVars, listenerVars, Budgeted
    <2>2. selected' \subseteq Schedules
      BY <1>3 DEF TickSelect, Due
    <2> QED BY <2>1, <2>2, QuietStep DEF IInv, TypeOK
  <1>4. CASE LeaveLoop \/ TickFails
    <2>1. Budgeted /\ UNCHANGED <<task, registry, permits, cfg, recent, queued, nextRun, triggers,
                                  shutdown, loading, listener>>
      BY <1>4, SpendBudgeted DEF LeaveLoop, TickFails, dbVars, listenerVars, EnvEvents, Budgeted
    <2>2. Drain
      BY <1>4 DEF LeaveLoop, TickFails
    <2>3. gathered' \subseteq TaskIds /\ selected' = {} /\ phase' = "draining"
      BY <2>2, DrainType DEF Drain
    <2> QED BY <2>1, <2>2, <2>3, QuietStep DEF IInv, TypeOK
  <1> QED BY <1>1, <1>2, <1>3, <1>4

LEMMA QuietListenerPreserves ==
  ASSUME IInv, ListenerSubscribes \/ ListenerReceives \/ ListenerFails
  PROVE  IInv'
  <1>1. Budgeted
    BY SpendBudgeted DEF ListenerSubscribes, ListenerReceives, ListenerFails, EnvEvents, Budgeted
  <1>2. UNCHANGED <<task, registry, permits, cfg, recent, queued, nextRun,
                    selected, gathered, shutdown, phase>>
    BY DEF ListenerSubscribes, ListenerReceives, ListenerFails, dbVars, daemonVars
  <1>3. triggers' \in Seq(Schedules)
    <2>1. \/ triggers' = triggers
          \/ triggers' = <<>>
          \/ triggers # <<>> /\ triggers' = Tail(triggers)
      <3>1. CASE ListenerSubscribes
        BY <3>1 DEF ListenerSubscribes
      <3>2. CASE ListenerReceives
        BY <3>2 DEF ListenerReceives
      <3>3. CASE ListenerFails
        BY <3>3 DEF ListenerFails
      <3> QED BY <3>1, <3>2, <3>3
    <2>2. triggers \in Seq(Schedules)
      BY DEF IInv, TypeOK
    <2>3. triggers # <<>> => Tail(triggers) \in Seq(Schedules)
      BY <2>2, HeadTailProperties
    <2>4. <<>> \in Seq(Schedules)
      OBVIOUS
    <2> QED BY <2>1, <2>2, <2>3, <2>4
  <1>4. listener' \in {"off", "starting", "subscribed"}
    BY DEF ListenerSubscribes, ListenerReceives, ListenerFails, IInv, TypeOK
  <1>5. loading' \in Schedules \cup {NoSchedule}
    <2>1. triggers # <<>> => Head(triggers) \in Schedules
      BY DEF IInv, TypeOK
    <2> QED BY <2>1 DEF ListenerSubscribes, ListenerReceives, ListenerFails, IInv, TypeOK
  <1> QED BY <1>1, <1>2, <1>3, <1>4, <1>5, QuietStep DEF IInv, TypeOK

LEMMA DeletePreserves ==
  ASSUME IInv, NEW s \in Schedules, DeleteSchedule(s)
  PROVE  IInv'
  <1> DEFINE r(t) == IF task[t].sched = s /\ task[t].row # "none"
                     THEN [task[t] EXCEPT !.row = "deleted"]
                     ELSE task[t]
  <1>1. /\ task \in Seq(Task) /\ Len(task) \in Nat /\ TaskIds = 1 .. Len(task)
        /\ task' = [t \in TaskIds |-> r(t)] /\ UNCHANGED <<registry, permits, gathered>>
    BY DEF IInv, TypeOK, TaskIds, DeleteSchedule, daemonVars
  <1>2. ASSUME NEW t \in TaskIds
        PROVE  /\ r(t) \in Task /\ r(t).pc = task[t].pc /\ r(t).sched = task[t].sched
               /\ r(t).trigger = task[t].trigger /\ r(t).retry = task[t].retry
               /\ r(t).row # task[t].row => task[t].row # "none" /\ r(t).row = "deleted"
    <2>1. task[t] \in Task
      BY <1>1 DEF TaskIds
    <2>2. CASE task[t].sched = s /\ task[t].row # "none"
      BY <2>1, <2>2 DEF Task, RunStatus
    <2>3. CASE ~(task[t].sched = s /\ task[t].row # "none")
      BY <2>1, <2>3 DEF Task, RunStatus
    <2> QED BY <2>2, <2>3
  <1> HIDE DEF r
  <1>3. \A t \in TaskIds : task'[t] = r(t)
    BY <1>1
  <1>4. task' \in Seq(Task) /\ Len(task') = Len(task) /\ TaskIds' = TaskIds
    <2>1. task' \in [1 .. Len(task) -> Task]
      BY <1>1, <1>2
    <2> QED BY <1>1, <2>1 DEF TaskIds
  <1>5. \A t \in TaskIds :
          /\ task'[t].pc = task[t].pc /\ task'[t].sched = task[t].sched
          /\ task'[t].trigger = task[t].trigger /\ task'[t].retry = task[t].retry
          /\ task'[t].row # task[t].row => task[t].row # "none" /\ task'[t].row = "deleted"
    BY <1>2, <1>3
  <1>6. Budgeted
    BY SpendBudgeted DEF DeleteSchedule, EnvEvents
  <1>7. used' \in [EnvEvents -> Nat] /\ used'["fault"] \in Nat /\ used["fault"] \in Nat
        /\ used'["fault"] >= used["fault"]
    BY <1>6, BudgetedUse DEF IInv
  <1>8. TypeOK'
    <2>1. cfg' \in [Schedules -> CfgStates] /\ queued' \in [Schedules -> Nat]
      BY DEF DeleteSchedule, IInv, TypeOK, CfgStates
    <2>2. UNCHANGED <<nextRun, recent, triggers, phase, shutdown, selected, listener, loading>>
      BY DEF DeleteSchedule, daemonVars, listenerVars
    <2> QED BY <1>1, <1>4, <1>7, <2>1, <2>2 DEF IInv, TypeOK
  <1>9. SemaphoreAccounting'
    <2>1. Holders' = Holders
      BY <1>4, <1>5 DEF Holders
    <2> QED BY <1>1, <2>1 DEF IInv, SemaphoreAccounting
  <1>10. RegistryNeverStale'
    <2> SUFFICES ASSUME NEW c \in Schedules, registry[Id(c)] # 0
                 PROVE  LET t == registry[Id(c)] IN
                        task'[t].pc \notin {"done", "gone"} /\ task'[t].sched = c
                        /\ task'[t].trigger # "retry"
      BY <1>1 DEF RegistryNeverStale, Live
    <2>1. registry[Id(c)] \in TaskIds
      BY <1>1, IdType DEF IInv, TypeOK
    <2> QED BY <1>5, <2>1 DEF IInv, RegistryNeverStale, Live
  <1>11. RunningRowsOwned'
    <2> SUFFICES ASSUME NEW u \in TaskIds, task'[u].row = "running"
                 PROVE  \/ task'[u].pc \in {"scraping", "saving", "failing", "gone"}
                        \/ task'[u].pc = "done" /\ used'["fault"] > 0
      BY <1>4 DEF RunningRowsOwned
    <2>1. task[u].row = "running" /\ task'[u].pc = task[u].pc
      BY <1>5
    <2> QED BY <1>7, <2>1 DEF IInv, RunningRowsOwned
  <1>12. RetryFollowsFailure'
    BY <1>4, <1>5, HistoryKept
  <1>13. PcTellsRow'
    <2> SUFFICES ASSUME NEW u \in TaskIds
                 PROVE  /\ task'[u].pc \in {"waiting", "starting"} => task'[u].row = "none"
                        /\ task'[u].pc = "backoff" =>
                             /\ task'[u].row \in {"failed", "deleted"}
                             /\ task'[u].retry < MaxRetries[task'[u].sched]
      BY <1>4 DEF PcTellsRow, MayRetry
    <2>1. ASSUME task'[u].pc = "backoff"
          PROVE  task[u].row \in {"failed", "deleted"} /\ task[u].retry < MaxRetries[task[u].sched]
      BY <1>5, <2>1 DEF IInv, PcTellsRow, MayRetry
    <2>2. ASSUME task'[u].pc \in {"waiting", "starting"}
          PROVE  task[u].row = "none"
      BY <1>5, <2>2 DEF IInv, PcTellsRow
    <2> QED BY <1>5, <2>1, <2>2
  <1>14. OverlapInv'
    <2>1. used'["crash"] = 0 => used["crash"] = 0
      BY <1>6, BudgetedUse DEF IInv
    <2>2. \A t \in TaskIds : /\ Live(t)' <=> Live(t)
                             /\ task'[t].row = "running" => task[t].row = "running"
      BY <1>5 DEF Live
    <2>3. ASSUME NEW c \in Schedules
          PROVE  /\ Pending(c)' \subseteq Pending(c) /\ Unplanned(c)' = Unplanned(c)
                 /\ registry'[Id(c)] = registry[Id(c)]
      BY <1>1, <1>4, <1>5, <2>1, <2>2 DEF Pending, LiveOf, CutShort, Unplanned
    <2>4. phase' = phase
      BY DEF DeleteSchedule, daemonVars
    <2>5. ASSUME NEW c \in Schedules
          PROVE  /\ Cardinality(Pending(c)') =< Registered(c)' + Cardinality(Unplanned(c)')
                 /\ phase' = "draining" =>
                      Cardinality(Pending(c)' \ gathered') =< Cardinality(Unplanned(c)')
      BY <1>1, <2>3, <2>4, PendingShrinks
    <2>6. \A t \in TaskIds : task[t].pc # "gone" => task'[t].pc # "gone"
      BY <1>5
    <2>7. \A k \in Keys : registry'[k] # 0 => task'[registry'[k]].pc # "gone"
      <3>1. \A k \in Keys : registry[k] # 0 => registry[k] \in TaskIds
        BY DEF IInv, TypeOK, TaskIds
      <3> QED BY <1>1, <2>6, <3>1 DEF IInv, OverlapInv
    <2>8. \A t \in gathered' : task'[t].pc # "gone"
      BY <1>1, <2>6 DEF IInv, OverlapInv, TypeOK
    <2> QED BY <2>5, <2>7, <2>8 DEF OverlapInv
  <1> QED BY <1>8, <1>9, <1>10, <1>11, <1>12, <1>13, <1>14 DEF IInv

\* The end of a process orphans its tasks and frees its semaphore.
LEMMA ProcessEndsPreserves ==
  ASSUME IInv, ProcessEnds, Budgeted,
         used'["crash"] = 0 => phase = "draining" /\ \A t \in gathered : ~Live(t)
  PROVE  IInv'
  <1> DEFINE r(t) == IF Live(t) THEN [task[t] EXCEPT !.pc = "gone"] ELSE task[t]
  <1>1. /\ task \in Seq(Task) /\ Len(task) \in Nat /\ TaskIds = 1 .. Len(task)
        /\ task' = [t \in TaskIds |-> r(t)]
        /\ registry' = [k \in Keys |-> 0] /\ gathered' = {} /\ permits' = MaxConcurrent
    BY DEF IInv, TypeOK, TaskIds, ProcessEnds
  <1>2. ASSUME NEW t \in TaskIds
        PROVE  /\ r(t) \in Task /\ r(t).row = task[t].row /\ r(t).sched = task[t].sched
               /\ r(t).trigger = task[t].trigger /\ r(t).retry = task[t].retry
               /\ r(t).pc = IF task[t].pc = "done" THEN "done" ELSE "gone"
    <2>1. task[t] \in Task
      BY <1>1 DEF TaskIds
    <2> QED BY <2>1 DEF Task, Pc, Live
  <1> HIDE DEF r
  <1>3. \A t \in TaskIds : task'[t] = r(t)
    BY <1>1
  <1>4. task' \in Seq(Task) /\ Len(task') = Len(task) /\ TaskIds' = TaskIds
    <2>1. task' \in [1 .. Len(task) -> Task]
      BY <1>1, <1>2
    <2> QED BY <1>1, <2>1 DEF TaskIds
  <1>5. \A t \in TaskIds :
          /\ task'[t].row = task[t].row /\ task'[t].sched = task[t].sched
          /\ task'[t].trigger = task[t].trigger /\ task'[t].retry = task[t].retry
          /\ task'[t].pc = IF task[t].pc = "done" THEN "done" ELSE "gone"
    BY <1>2, <1>3
  <1>6. used' \in [EnvEvents -> Nat] /\ used'["fault"] \in Nat /\ used["fault"] \in Nat
        /\ used'["fault"] >= used["fault"]
    BY BudgetedUse DEF IInv
  <1>7. TypeOK'
    <2>1. registry' \in [Keys -> 0 .. Len(task')] /\ permits' \in 0 .. MaxConcurrent
          /\ gathered' \subseteq TaskIds'
      BY <1>1, <1>4, MaxConcurrentAssumption
    <2>2. UNCHANGED <<cfg, nextRun, recent, queued>>
      BY DEF ProcessEnds, dbVars
    <2>3. /\ phase' = "down" /\ shutdown' = FALSE /\ selected' = {} /\ listener' = "off"
          /\ loading' = NoSchedule /\ triggers' = <<>>
      BY DEF ProcessEnds
    <2>4. triggers' \in Seq(Schedules)
      BY <2>3
    <2>5. /\ phase' \in {"down", "running", "draining"} /\ shutdown' \in BOOLEAN
          /\ selected' \subseteq Schedules /\ listener' \in {"off", "starting", "subscribed"}
          /\ loading' \in Schedules \cup {NoSchedule}
      BY <2>3
    <2>6. /\ cfg' \in [Schedules -> CfgStates]
          /\ nextRun' \in [Schedules -> {"null", "future", "due"}]
          /\ recent' \in [Schedules -> BOOLEAN]
          /\ queued' \in [Schedules -> Nat]
      BY <2>2 DEF IInv, TypeOK
    <2> QED BY <1>4, <1>6, <2>1, <2>4, <2>5, <2>6 DEF TypeOK
  <1>8. SemaphoreAccounting'
    <2>1. Holders' = {}
      BY <1>4, <1>5 DEF Holders, Holding
    <2> QED BY <1>1, <2>1, FS_EmptySet, MaxConcurrentAssumption DEF SemaphoreAccounting
  <1>9. RegistryNeverStale'
    BY <1>1, IdType DEF RegistryNeverStale
  <1>10. RunningRowsOwned'
    <2> SUFFICES ASSUME NEW u \in TaskIds, task'[u].row = "running"
                 PROVE  \/ task'[u].pc \in {"scraping", "saving", "failing", "gone"}
                        \/ task'[u].pc = "done" /\ used'["fault"] > 0
      BY <1>4 DEF RunningRowsOwned
    <2>1. \/ task[u].pc # "done"
          \/ used["fault"] > 0
      BY <1>5 DEF IInv, RunningRowsOwned
    <2> QED BY <1>5, <1>6, <2>1
  <1>11. RetryFollowsFailure'
    BY <1>4, <1>5, HistoryKept
  <1>12. PcTellsRow'
    BY <1>4, <1>5 DEF PcTellsRow
  <1>13. OverlapInv'
    <2>1. ASSUME NEW s \in Schedules
          PROVE  Cardinality(Pending(s)') =< Registered(s)' + Cardinality(Unplanned(s)')
      <3>1. LiveOf(s)' = {} /\ Unplanned(s)' = Unplanned(s) /\ Registered(s)' = 0
        BY <1>1, <1>4, <1>5, IdType DEF LiveOf, Live, Unplanned, Registered
      <3>2. CASE used'["crash"] = 0
        <4>1. used["crash"] = 0 /\ phase = "draining" /\ \A t \in gathered : ~Live(t)
          BY <3>2, BudgetedUse DEF IInv
        <4>2. Pending(s)' \in SUBSET (Pending(s) \ gathered)
          <5> SUFFICES ASSUME NEW t \in TaskIds, task[t].sched = s, task'[t].pc = "gone",
                              task[t].row = "running"
                       PROVE  t \in Pending(s) \ gathered
            BY <1>4, <1>5, <3>1, <3>2 DEF Pending, CutShort
          <5>1. Live(t) \/ task[t].pc = "gone"
            BY <1>5 DEF Live
          <5>2. t \notin gathered
            BY <4>1, <5>1 DEF IInv, OverlapInv
          <5> QED BY <4>1, <5>1, <5>2 DEF Pending, LiveOf, CutShort
        <4>3. Cardinality(Pending(s)') =< Cardinality(Pending(s) \ gathered)
              /\ Cardinality(Pending(s)') \in Nat
          BY <1>1, <4>2, PendingCounted, TasksCounted
        <4>4. Cardinality(Pending(s) \ gathered) =< Cardinality(Unplanned(s))
          BY <4>1 DEF IInv, OverlapInv
        <4>5. Counted(s)
          BY PendingCounted
        <4> QED BY <3>1, <4>3, <4>4, <4>5 DEF Counted
      <3>3. CASE used'["crash"] # 0
        <4>1. Pending(s)' = {}
          BY <3>1, <3>3 DEF Pending
        <4>2. Counted(s) /\ Cardinality({}) = 0
          BY PendingCounted, FS_EmptySet
        <4> QED BY <3>1, <4>1, <4>2 DEF Counted
      <3> QED BY <3>2, <3>3
    <2>2. phase' = "down"
      BY DEF ProcessEnds
    <2> QED BY <1>1, <2>1, <2>2 DEF OverlapInv
  <1> QED BY <1>7, <1>8, <1>9, <1>10, <1>11, <1>12, <1>13 DEF IInv

LEMMA EndPreserves ==
  ASSUME IInv, Stop \/ Crash
  PROVE  IInv'
  <1>1. ProcessEnds /\ Budgeted
    BY SpendBudgeted DEF Stop, Crash, Budgeted, EnvEvents
  <1>2. used'["crash"] = 0 => phase = "draining" /\ \A t \in gathered : ~Live(t)
    <2>1. CASE Stop
      BY <2>1 DEF Stop
    <2>2. CASE Crash
      <3>1. used \in [EnvEvents -> Nat] /\ "crash" \in EnvEvents
        BY DEF IInv, TypeOK, EnvEvents
      <3>2. used'["crash"] # 0
        BY <2>2, <3>1 DEF Crash, Spend
      <3> QED BY <3>2
    <2> QED BY <2>1, <2>2
  <1> QED BY <1>1, <1>2, ProcessEndsPreserves

\* New tasks and their registrations: each changed entry names a new task of its schedule.
LEMMA LaunchPreserves ==
  ASSUME IInv, NEW more \in Seq(Task), task' = task \o more, UNCHANGED permits, Budgeted,
         \A i \in 1 .. Len(more) :
           /\ more[i].pc = "waiting" /\ more[i].row = "none" /\ more[i].trigger # "retry"
           /\ more[i].retry =< MaxRetries[more[i].sched],
         registry' \in [Keys -> 0 .. Len(task) + Len(more)],
         \A k \in Keys : registry'[k] = registry[k] \/ \E i \in 1 .. Len(more) : registry'[k] = Len(task) + i,
         \A s \in Schedules :
           \/ registry'[Id(s)] = registry[Id(s)] /\ \A i \in 1 .. Len(more) : more[i].sched # s
           \/ \E i \in 1 .. Len(more) :
                /\ more[i].sched = s /\ registry'[Id(s)] = Len(task) + i
                /\ \A j \in 1 .. Len(more) : more[j].sched = s => j = i
                /\ more[i].trigger # "cron" \/ (phase = "running" /\ registry[Id(s)] = 0),
         UNCHANGED <<dbVars, phase, shutdown, gathered, triggers, listener>>,
         selected' \subseteq Schedules,
         loading' \in Schedules \cup {NoSchedule}
  PROVE  IInv'
  <1>1. /\ task' \in Seq(Task) /\ Len(task') = Len(task) + Len(more)
        /\ \A u \in TaskIds : task'[u] = task[u]
        /\ \A i \in 1 .. Len(more) : task'[Len(task) + i] = more[i]
        /\ SemaphoreAccounting' /\ Rows'
    BY Extended
  <1>2. TaskIds = 1 .. Len(task) /\ Len(task) \in Nat /\ Len(more) \in Nat
    BY DEF IInv, TypeOK, TaskIds
  <1>3. TypeOK'
    <2>1. used' \in [EnvEvents -> Nat]
      BY BudgetedUse DEF IInv
    <2>2. gathered' \subseteq TaskIds'
      BY <1>1, <1>2 DEF IInv, TypeOK, TaskIds
    <2>3. registry' \in [Keys -> 0 .. Len(task')]
      BY <1>1
    <2> QED BY <1>1, <2>1, <2>2, <2>3 DEF IInv, TypeOK, dbVars
  <1>4. RegistryNeverStale'
    <2> SUFFICES ASSUME NEW s \in Schedules, registry'[Id(s)] # 0
                 PROVE  LET t == registry'[Id(s)] IN
                        task'[t].pc \notin {"done", "gone"} /\ task'[t].sched = s
                        /\ task'[t].trigger # "retry"
      BY DEF RegistryNeverStale, Live
    <2>1. CASE registry'[Id(s)] = registry[Id(s)]
      <3> DEFINE u == registry[Id(s)]
      <3>1. u \in TaskIds
        BY <1>2, <2>1, IdType DEF IInv, TypeOK
      <3>2. task[u].pc \notin {"done", "gone"} /\ task[u].sched = s /\ task[u].trigger # "retry"
        BY <2>1 DEF IInv, RegistryNeverStale, Live
      <3>3. task'[u] = task[u]
        BY <1>1, <3>1
      <3> HIDE DEF u
      <3>4. registry'[Id(s)] = u
        BY <2>1 DEF u
      <3> QED BY <3>2, <3>3, <3>4
    <2>2. ASSUME NEW i \in 1 .. Len(more), more[i].sched = s, registry'[Id(s)] = Len(task) + i
          PROVE  LET t == registry'[Id(s)] IN
                 task'[t].pc \notin {"done", "gone"} /\ task'[t].sched = s
                 /\ task'[t].trigger # "retry"
      BY <1>1, <2>2
    <2> QED BY <2>1, <2>2
  <1>5. /\ TaskIds' = 1 .. Len(task) + Len(more) /\ TaskIds \subseteq TaskIds'
        /\ \A i \in 1 .. Len(more) : Len(task) + i \in TaskIds' /\ Len(task) + i \notin TaskIds
        /\ \A u \in TaskIds' : u \in TaskIds \/ \E i \in 1 .. Len(more) : u = Len(task) + i
    <2>1. TaskIds' = 1 .. Len(task) + Len(more)
      BY <1>1 DEF TaskIds
    <2>2. ASSUME NEW u \in TaskIds', u \notin TaskIds
          PROVE  \E i \in 1 .. Len(more) : u = Len(task) + i
      <3>1. u - Len(task) \in 1 .. Len(more) /\ u = Len(task) + (u - Len(task))
        BY <1>2, <2>1, <2>2
      <3> QED BY <3>1
    <2> QED BY <1>2, <2>1, <2>2
  <1>6. used'["crash"] = 0 => used["crash"] = 0
    BY BudgetedUse DEF IInv
  <1>7. \A u \in TaskIds : Live(u)' <=> Live(u)
    BY <1>1 DEF Live
  <1>8. ASSUME NEW s \in Schedules
        PROVE  /\ Cardinality(Pending(s)') =< Registered(s)' + Cardinality(Unplanned(s)')
               /\ phase = "draining" => Cardinality(Pending(s)' \ gathered) =< Cardinality(Unplanned(s)')
    <2>1. CASE registry'[Id(s)] = registry[Id(s)] /\ \A i \in 1 .. Len(more) : more[i].sched # s
      <3>1. \A u \in TaskIds' : task'[u].sched = s => u \in TaskIds /\ task'[u] = task[u]
        <4> SUFFICES ASSUME NEW u \in TaskIds', task'[u].sched = s, u \notin TaskIds
                     PROVE  FALSE
          BY <1>1
        <4>1. PICK j \in 1 .. Len(more) : u = Len(task) + j
          BY <1>5
        <4>2. more[j].sched = s
          BY <1>1, <4>1
        <4> QED BY <2>1, <4>2
      <3>2. Pending(s)' \subseteq Pending(s)
        BY <1>6, <1>7, <3>1 DEF Pending, LiveOf, CutShort
      <3>3. Unplanned(s)' = Unplanned(s)
        <4>1. ASSUME NEW u PROVE u \in Unplanned(s)' <=> u \in Unplanned(s)
          <5>1. u \in TaskIds => u \in TaskIds' /\ task'[u] = task[u]
            BY <1>1, <1>5
          <5> QED BY <3>1, <5>1 DEF Unplanned
        <4> QED BY <4>1
      <3> QED BY <2>1, <3>2, <3>3, PendingShrinks
    <2>2. ASSUME NEW i \in 1 .. Len(more), more[i].sched = s, registry'[Id(s)] = Len(task) + i,
                 \A j \in 1 .. Len(more) : more[j].sched = s => j = i,
                 more[i].trigger # "cron" \/ (phase = "running" /\ registry[Id(s)] = 0)
          PROVE  /\ Cardinality(Pending(s)') =< Registered(s)' + Cardinality(Unplanned(s)')
                 /\ phase = "draining" => Cardinality(Pending(s)' \ gathered) =< Cardinality(Unplanned(s)')
      <3> DEFINE x == Len(task) + i
      <3>1. \A u \in TaskIds' : task'[u].sched = s => u = x \/ (u \in TaskIds /\ task'[u] = task[u])
        <4> SUFFICES ASSUME NEW u \in TaskIds', task'[u].sched = s, u \notin TaskIds
                     PROVE  u = x
          BY <1>1
        <4>1. PICK j \in 1 .. Len(more) : u = Len(task) + j
          BY <1>5
        <4>2. more[j].sched = s
          BY <1>1, <4>1
        <4> QED BY <2>2, <4>1, <4>2
      <3>2. Pending(s)' \subseteq Pending(s) \cup {x}
        BY <1>6, <1>7, <3>1 DEF Pending, LiveOf, CutShort
      <3>3. Registered(s)' = 1
        BY <1>2, <2>2 DEF Registered
      <3>4. x \in TaskIds' /\ x \notin TaskIds /\ task'[x] = more[i]
        BY <1>1, <1>5
      <3>5. Unplanned(s)' = IF more[i].trigger = "cron" THEN Unplanned(s) ELSE Unplanned(s) \cup {x}
        <4>1. ASSUME NEW u, u # x PROVE u \in Unplanned(s)' <=> u \in Unplanned(s)
          <5>1. u \in TaskIds => u \in TaskIds' /\ task'[u] = task[u]
            BY <1>1, <1>5
          <5> QED BY <3>1, <4>1, <5>1 DEF Unplanned
        <4>2. x \in Unplanned(s)' <=> more[i].trigger # "cron"
          BY <2>2, <3>4 DEF Unplanned
        <4>3. x \notin Unplanned(s)
          BY <3>4 DEF Unplanned
        <4> HIDE DEF x
        <4>4. CASE more[i].trigger = "cron"
          <5>1. \A u : u \in Unplanned(s)' <=> u \in Unplanned(s)
            BY <4>1, <4>2, <4>3, <4>4
          <5> QED BY <4>4, <5>1
        <4>5. CASE more[i].trigger # "cron"
          <5>1. \A u : u \in Unplanned(s)' <=> u \in Unplanned(s) \cup {x}
            BY <4>1, <4>2, <4>5
          <5>2. Unplanned(s)' = Unplanned(s) \cup {x}
            BY <5>1
          <5> QED BY <4>5, <5>2
        <4> QED BY <4>4, <4>5
      <3> HIDE DEF x
      <3>6. x \notin Unplanned(s)
        BY <3>4, PendingCounted
      <3>0. Counted(s) /\ IsFiniteSet(Pending(s)) /\ IsFiniteSet(Pending(s) \ gathered)
             /\ IsFiniteSet(Unplanned(s))
        BY PendingCounted
      <3>7. /\ Cardinality(Pending(s)') =< Cardinality(Pending(s)) + 1 /\ Cardinality(Pending(s)') \in Nat
            /\ Cardinality(Pending(s)' \ gathered) =< Cardinality(Pending(s) \ gathered) + 1
            /\ Cardinality(Pending(s)' \ gathered) \in Nat
        <4>1. Pending(s)' \ gathered \subseteq (Pending(s) \ gathered) \cup {x}
          BY <3>2
        <4> QED BY <3>2, <3>0, <4>1, Grown
      <3>8. CASE more[i].trigger # "cron"
        <4>1. Cardinality(Unplanned(s)') = Cardinality(Unplanned(s)) + 1
          <5>1. Unplanned(s)' = Unplanned(s) \cup {x}
            BY <3>5, <3>8
          <5>2. Cardinality(Unplanned(s) \cup {x}) = Cardinality(Unplanned(s)) + 1
            BY <3>6, <3>0, OneMore
          <5> QED BY <5>1, <5>2
        <4> QED BY <3>3, <3>7, <3>0, <4>1 DEF Counted
      <3>9. CASE more[i].trigger = "cron"
        <4>1. phase # "draining" /\ Registered(s) = 0
          BY <2>2, <3>9 DEF Registered
        <4>2. Unplanned(s)' = Unplanned(s)
          BY <3>5, <3>9
        <4> QED BY <3>3, <3>7, <3>0, <4>1, <4>2 DEF Counted
      <3> QED BY <3>8, <3>9
    <2>3. \/ registry'[Id(s)] = registry[Id(s)] /\ \A i \in 1 .. Len(more) : more[i].sched # s
          \/ \E i \in 1 .. Len(more) :
               /\ more[i].sched = s /\ registry'[Id(s)] = Len(task) + i
               /\ \A j \in 1 .. Len(more) : more[j].sched = s => j = i
               /\ more[i].trigger # "cron" \/ (phase = "running" /\ registry[Id(s)] = 0)
      OBVIOUS
    <2> QED BY <2>1, <2>2, <2>3
  <1>9. \A k \in Keys : registry'[k] # 0 => task'[registry'[k]].pc # "gone"
    <2> SUFFICES ASSUME NEW k \in Keys, registry'[k] # 0 PROVE task'[registry'[k]].pc # "gone"
      OBVIOUS
    <2>1. CASE registry'[k] = registry[k]
      <3>1. registry[k] \in TaskIds
        BY <1>2, <2>1 DEF IInv, TypeOK
      <3> QED BY <1>1, <2>1, <3>1 DEF IInv, OverlapInv
    <2>2. ASSUME NEW i \in 1 .. Len(more), registry'[k] = Len(task) + i
          PROVE  task'[registry'[k]].pc # "gone"
      BY <1>1, <2>2
    <2> QED BY <2>1, <2>2
  <1>10. \A t \in gathered' : task'[t].pc # "gone"
    <2>1. gathered' = gathered /\ \A t \in gathered : t \in TaskIds /\ task[t].pc # "gone"
      BY DEF IInv, OverlapInv, TypeOK
    <2> QED BY <1>1, <2>1
  <1>11. OverlapInv'
    BY <1>8, <1>9, <1>10 DEF OverlapInv
  <1> QED BY <1>1, <1>3, <1>4, <1>11 DEF IInv, Rows

LEMMA ListenerLaunchesPreserves ==
  ASSUME IInv, ListenerLaunches
  PROVE  IInv'
  <1>1. Budgeted /\ UNCHANGED <<dbVars, phase, shutdown, selected, gathered, permits,
                                triggers, listener>>
        /\ loading' = NoSchedule /\ loading \in Schedules
    BY DEF ListenerLaunches, Budgeted, IInv, TypeOK
  <1>2. task \in Seq(Task) /\ Len(task) \in Nat /\ registry \in [Keys -> 0 .. Len(task)]
    BY DEF IInv, TypeOK
  <1>3. CASE Exists(loading)
    <2> DEFINE x == NewTask(loading, "manual", 0)
               more == <<x>>
    <2>1. task' = Append(task, x) /\ registry' = [registry EXCEPT ![Id(loading)] = Len(task) + 1]
      BY <1>3 DEF ListenerLaunches
    <2>2. x \in Task /\ x.pc = "waiting" /\ x.row = "none" /\ x.trigger = "manual"
          /\ x.retry = 0 /\ x.sched = loading
      BY <1>1, NewTaskType DEF NewTask, Triggers
    <2> HIDE DEF x
    <2>3. more \in Seq(Task) /\ Len(more) = 1 /\ more[1] = x
      BY <2>2
    <2>4. task' = task \o more
      BY <1>2, <2>1, <2>2
    <2> HIDE DEF more
    <2>5. registry' \in [Keys -> 0 .. Len(task) + 1]
      <3> DEFINE n == Len(task) + 1
      <3>1. registry \in [Keys -> 0 .. n] /\ n \in 0 .. n
        BY <1>2
      <3> HIDE DEF n
      <3>2. registry' = [registry EXCEPT ![Id(loading)] = n]
        BY <2>1 DEF n
      <3>3. registry' \in [Keys -> 0 .. n]
        BY <3>1, <3>2
      <3> QED BY <3>3 DEF n
    <2>6. \A i \in 1 .. Len(more) :
            /\ more[i].pc = "waiting" /\ more[i].row = "none" /\ more[i].trigger # "retry"
            /\ more[i].retry =< MaxRetries[more[i].sched]
      BY <1>1, <2>2, <2>3, MaxRetriesAssumption
    <2>7. ASSUME NEW s \in Schedules
          PROVE  \/ registry'[Id(s)] = registry[Id(s)] /\ \A i \in 1 .. Len(more) : more[i].sched # s
                 \/ \E i \in 1 .. Len(more) :
                      /\ more[i].sched = s /\ registry'[Id(s)] = Len(task) + i
                      /\ \A j \in 1 .. Len(more) : more[j].sched = s => j = i
                      /\ more[i].trigger # "cron" \/ (phase = "running" /\ registry[Id(s)] = 0)
      <3>1. Id(s) \in Keys /\ Id(loading) \in Keys
        BY <1>1, IdType
      <3>2. CASE s = loading
        <4>1. registry'[Id(s)] = Len(task) + 1
          BY <1>2, <2>1, <3>1, <3>2
        <4>2. 1 \in 1 .. Len(more) /\ more[1].sched = s /\ more[1].trigger # "cron"
              /\ \A j \in 1 .. Len(more) : j = 1
          BY <2>2, <2>3, <3>2
        <4> QED BY <4>1, <4>2
      <3>3. CASE s # loading
        <4>1. Id(s) # Id(loading)
          BY <3>3 DEF Id
        <4>2. registry'[Id(s)] = registry[Id(s)]
          BY <1>2, <2>1, <3>1, <4>1
        <4>3. \A i \in 1 .. Len(more) : more[i].sched # s
          BY <2>2, <2>3, <3>3
        <4> QED BY <4>2, <4>3
      <3> QED BY <3>2, <3>3
    <2>8. selected' \subseteq Schedules
      BY <1>1 DEF IInv, TypeOK
    <2>9. ASSUME NEW k \in Keys
          PROVE  registry'[k] = registry[k] \/ \E i \in 1 .. Len(more) : registry'[k] = Len(task) + i
      <3>1. registry'[k] \in {registry[k], Len(task) + 1}
        BY <1>2, <2>1
      <3>2. 1 \in 1 .. Len(more)
        BY <2>3
      <3> QED BY <3>1, <3>2
    <2> QED BY <1>1, <2>3, <2>4, <2>5, <2>6, <2>7, <2>8, <2>9, LaunchPreserves
  <1>4. CASE ~Exists(loading)
    <2>1. UNCHANGED <<task, registry>>
      BY <1>4 DEF ListenerLaunches
    <2> QED BY <1>1, <2>1, QuietStep DEF IInv, TypeOK, dbVars
  <1> QED BY <1>3, <1>4

LEMMA TickLaunchPreserves ==
  ASSUME IInv, TickLaunch
  PROVE  IInv'
  <1> DEFINE C == IF shutdown THEN {} ELSE Candidates
  <1>1. PICK queue \in SortByPriority(C) :
          /\ task' = task \o [i \in DOMAIN queue |-> NewTask(queue[i], "cron", 0)]
          /\ registry' = [k \in Keys |->
                            IF \E i \in DOMAIN queue : k = Id(queue[i])
                            THEN Len(task) + (CHOOSE i \in DOMAIN queue : k = Id(queue[i]))
                            ELSE registry[k]]
    BY DEF TickLaunch
  <1>2. C \subseteq Schedules
    BY DEF Candidates, IInv, TypeOK
  <1>3. Cardinality(C) \in Nat
    BY <1>2, SchedulesAssumption, FS_Subset, FS_CardinalityType
  <1> DEFINE n == Cardinality(C)
             more == [i \in DOMAIN queue |-> NewTask(queue[i], "cron", 0)]
  <1>4. queue \in [1 .. n -> C]
    BY DEF SortByPriority
  <1> HIDE DEF C, n
  <1>5. \A i \in 1 .. n : queue[i] \in Schedules /\ NewTask(queue[i], "cron", 0) \in Task
    <2> TAKE i \in 1 .. n
    <2>1. queue[i] \in Schedules
      BY <1>2, <1>4
    <2> QED BY <2>1, NewTaskType DEF Triggers
  <1>6. DOMAIN queue = 1 .. n /\ n \in Nat
    BY <1>3, <1>4 DEF n
  <1>7. more \in Seq(Task) /\ Len(more) = n
    <2>1. more \in [1 .. n -> Task]
      BY <1>5, <1>6
    <2> QED BY <1>6, <2>1
  <1>8. \A i \in 1 .. n : more[i] = NewTask(queue[i], "cron", 0)
    BY <1>6
  <1>9. task' = task \o more
    BY <1>1
  <1> HIDE DEF more
  <1>10. \A i \in 1 .. Len(more) :
           /\ more[i].pc = "waiting" /\ more[i].row = "none" /\ more[i].trigger # "retry"
           /\ more[i].retry =< MaxRetries[more[i].sched]
    <2> TAKE i \in 1 .. Len(more)
    <2>1. more[i].sched \in Schedules /\ more[i].retry = 0 /\ more[i].pc = "waiting"
          /\ more[i].row = "none" /\ more[i].trigger = "cron"
      BY <1>5, <1>7, <1>8 DEF NewTask
    <2> QED BY <2>1, MaxRetriesAssumption
  <1>11. task \in Seq(Task) /\ Len(task) \in Nat /\ registry \in [Keys -> 0 .. Len(task)]
    BY DEF IInv, TypeOK
  <1>12. ASSUME NEW k \in Keys
         PROVE  \/ registry'[k] = registry[k]
                \/ \E i \in 1 .. n : k = Id(queue[i]) /\ registry'[k] = Len(task) + i
    <2>1. CASE \E i \in DOMAIN queue : k = Id(queue[i])
      <3> DEFINE c == CHOOSE i \in DOMAIN queue : k = Id(queue[i])
      <3>1. c \in DOMAIN queue /\ k = Id(queue[c])
        BY <2>1
      <3>2. registry'[k] = Len(task) + c
        BY <1>1, <2>1
      <3> QED BY <1>6, <3>1, <3>2
    <2>2. CASE ~\E i \in DOMAIN queue : k = Id(queue[i])
      BY <1>1, <2>2
    <2> QED BY <2>1, <2>2
  <1>13. registry' \in [Keys -> 0 .. Len(task) + Len(more)]
    <2>1. ASSUME NEW k \in Keys
          PROVE  registry'[k] \in 0 .. Len(task) + n
      <3>1. CASE registry'[k] = registry[k]
        <4>1. registry[k] \in 0 .. Len(task)
          BY <1>11
        <4> QED BY <1>6, <1>11, <3>1, <4>1
      <3>2. ASSUME NEW i \in 1 .. n, registry'[k] = Len(task) + i
            PROVE  registry'[k] \in 0 .. Len(task) + n
        BY <1>6, <1>11, <3>2
      <3> QED BY <1>12, <3>1, <3>2
    <2>2. registry' = [k \in Keys |-> registry'[k]]
      BY <1>1
    <2> QED BY <1>7, <2>1, <2>2
  <1>15. /\ Budgeted /\ selected' = {}
         /\ UNCHANGED <<dbVars, phase, shutdown, gathered, permits, triggers, listener, loading>>
    BY DEF TickLaunch, Budgeted, listenerVars
  <1>16. selected' \subseteq Schedules /\ loading' \in Schedules \cup {NoSchedule}
    BY <1>15 DEF IInv, TypeOK
  <1>17. phase = "running"
    BY DEF TickLaunch
  <1>18. ASSUME NEW i \in 1 .. Len(more)
         PROVE  /\ registry[Id(more[i].sched)] = 0
                /\ registry'[Id(more[i].sched)] = Len(task) + i
    <2>1. more[i].sched = queue[i] /\ i \in 1 .. n
      BY <1>7, <1>8 DEF NewTask
    <2>2. queue[i] \in C /\ queue[i] \in Schedules
      BY <1>4, <1>5, <2>1
    <2>3. registry[Id(queue[i])] = 0
      BY <2>2 DEF C, Candidates
    <2>4. PICK j \in 1 .. n : Id(queue[i]) = Id(queue[j]) /\ registry'[Id(queue[i])] = Len(task) + j
      <3>1. Id(queue[i]) \in Keys
        BY <2>2, IdType
      <3> DEFINE k == Id(queue[i])
                 c == CHOOSE j \in DOMAIN queue : k = Id(queue[j])
      <3>2. \E j \in DOMAIN queue : k = Id(queue[j])
        BY <1>6, <2>1
      <3>3. c \in DOMAIN queue /\ k = Id(queue[c])
        BY <3>2
      <3>4. registry'[k] = Len(task) + c
        BY <1>1, <3>1, <3>2
      <3> QED BY <1>6, <3>3, <3>4
    <2>5. queue[i] = queue[j]
      BY <2>4 DEF Id
    <2>6. i = j
      BY <1>6, <2>1, <2>4, <2>5 DEF SortByPriority, n
    <2> QED BY <2>1, <2>3, <2>4, <2>6
  <1>19. ASSUME NEW s \in Schedules
         PROVE  \/ registry'[Id(s)] = registry[Id(s)] /\ \A i \in 1 .. Len(more) : more[i].sched # s
                \/ \E i \in 1 .. Len(more) :
                     /\ more[i].sched = s /\ registry'[Id(s)] = Len(task) + i
                     /\ \A j \in 1 .. Len(more) : more[j].sched = s => j = i
                     /\ more[i].trigger # "cron" \/ (phase = "running" /\ registry[Id(s)] = 0)
    <2>1. CASE \E i \in 1 .. Len(more) : more[i].sched = s
      <3>1. PICK i \in 1 .. Len(more) : more[i].sched = s
        BY <2>1
      <3>2. registry[Id(s)] = 0 /\ registry'[Id(s)] = Len(task) + i
        BY <1>18, <3>1
      <3>3. ASSUME NEW j \in 1 .. Len(more), more[j].sched = s
            PROVE  j = i
        <4>1. registry'[Id(s)] = Len(task) + j
          BY <1>18, <3>3
        <4> QED BY <1>6, <1>7, <1>11, <3>2, <4>1
      <3> QED BY <1>17, <3>1, <3>2, <3>3
    <2>2. CASE ~\E i \in 1 .. Len(more) : more[i].sched = s
      <3>1. ~\E i \in 1 .. n : Id(s) = Id(queue[i])
        BY <1>7, <1>8, <2>2 DEF Id, NewTask
      <3> QED BY <1>12, <2>2, <3>1, IdType
    <2> QED BY <2>1, <2>2
  <1>20. \A k \in Keys : registry'[k] = registry[k] \/ \E i \in 1 .. Len(more) : registry'[k] = Len(task) + i
    BY <1>7, <1>12
  <1> QED BY <1>7, <1>9, <1>10, <1>13, <1>15, <1>16, <1>19, <1>20, LaunchPreserves

\* A task that leaves pops the entry of its schedule, and there is one task fewer to answer for.
LEMMA OverlapMove ==
  ASSUME IInv, NEW t \in TaskIds, NEW pc \in Pc, NEW row \in RunStatus, Moved(t, pc, row),
         Budgeted, Live(t), pc # "gone", UNCHANGED <<phase, gathered>>,
         \/ registry' = registry /\ pc \notin {"done", "gone"}
         \/ registry' = [registry EXCEPT ![Id(task[t].sched)] = 0] /\ pc = "done"
  PROVE  OverlapInv'
  <1>1. /\ TaskIds' = TaskIds /\ task \in Seq(Task)
        /\ \A u \in TaskIds : task'[u].sched = task[u].sched /\ task'[u].trigger = task[u].trigger
    <2>1. TaskIds' = TaskIds /\ task \in Seq(Task)
      BY DEF Moved, IInv, TypeOK, TaskIds
    <2>2. \A u \in TaskIds : task'[u].sched = task[u].sched /\ task'[u].trigger = task[u].trigger
      BY DEF Moved
    <2> QED BY <2>1, <2>2
  <1>2. used'["crash"] = 0 => used["crash"] = 0
    BY BudgetedUse DEF IInv
  <1>3. \A u \in TaskIds : /\ Live(u)' => Live(u)
                           /\ task'[u].pc = "gone" => task'[u] = task[u]
    BY DEF Moved, Live
  <1>4. registry \in [Keys -> 0 .. Len(task)] /\ task[t].sched \in Schedules
    BY <1>1, TaskRecord DEF IInv, TypeOK
  <1>5. ASSUME NEW s \in Schedules
        PROVE  /\ Cardinality(Pending(s)') =< Registered(s)' + Cardinality(Unplanned(s)')
               /\ phase = "draining" => Cardinality(Pending(s)' \ gathered) =< Cardinality(Unplanned(s)')
    <2>1. Pending(s)' \subseteq Pending(s) /\ Unplanned(s)' = Unplanned(s)
      BY <1>1, <1>2, <1>3 DEF Pending, LiveOf, CutShort, Unplanned
    <2>2. CASE registry'[Id(s)] = registry[Id(s)]
      BY <2>1, <2>2, PendingShrinks
    <2>3. CASE registry'[Id(s)] # registry[Id(s)]
      <3>1. /\ registry' = [registry EXCEPT ![Id(task[t].sched)] = 0] /\ pc = "done"
            /\ Id(s) = Id(task[t].sched) /\ registry'[Id(s)] = 0
        BY <1>4, <2>3, IdType
      <3>2. s = task[t].sched /\ t \in Pending(s) /\ t \notin Pending(s)'
        BY <1>1, <3>1 DEF Id, Pending, LiveOf, CutShort, Live, Moved
      <3>3. Cardinality(Pending(s) \ {t}) = Cardinality(Pending(s)) - 1
            /\ Cardinality(Pending(s) \ {t}) \in Nat
        BY <3>2, PendingCounted, OneMore
      <3>4. Cardinality(Pending(s)') =< Cardinality(Pending(s) \ {t}) /\ Cardinality(Pending(s)') \in Nat
        <4>1. Pending(s)' \in SUBSET (Pending(s) \ {t}) /\ Pending(s) \ {t} \in SUBSET TaskIds
          BY <2>1, <3>2, PendingCounted
        <4> QED BY <1>1, <4>1, TasksCounted
      <3>5. Registered(s)' = 0
        BY <3>1 DEF Registered
      <3>6. /\ Cardinality(Pending(s)' \ gathered) =< Cardinality(Pending(s)')
            /\ Cardinality(Pending(s)' \ gathered) \in Nat
        <4>1. Pending(s)' \ gathered \in SUBSET Pending(s)' /\ Pending(s)' \in SUBSET TaskIds
          BY <2>1, PendingCounted
        <4> QED BY <1>1, <4>1, TasksCounted
      <3>7. Counted(s)
        BY PendingCounted
      <3>8. Cardinality(Pending(s)') =< Cardinality(Unplanned(s))
        BY <3>3, <3>4, <3>7 DEF Counted
      <3>9. Cardinality(Pending(s)' \ gathered) =< Cardinality(Unplanned(s))
        BY <3>4, <3>6, <3>7, <3>8 DEF Counted
      <3> QED BY <2>1, <3>5, <3>8, <3>9, <3>7 DEF Counted
    <2> QED BY <2>2, <2>3
  <1>6. \A u \in TaskIds : task[u].pc # "gone" => task'[u].pc # "gone"
    BY DEF Moved
  <1>7. \A k \in Keys : registry'[k] # 0 => task'[registry'[k]].pc # "gone"
    <2> SUFFICES ASSUME NEW k \in Keys, registry'[k] # 0 PROVE task'[registry'[k]].pc # "gone"
      OBVIOUS
    <2>1. registry'[k] = registry[k] /\ registry[k] \in TaskIds
      BY <1>4 DEF TaskIds, IInv, TypeOK
    <2> QED BY <1>6, <2>1 DEF IInv, OverlapInv
  <1>8. \A u \in gathered' : task'[u].pc # "gone"
    BY <1>6 DEF IInv, OverlapInv, TypeOK
  <1> QED BY <1>5, <1>7, <1>8 DEF OverlapInv

\* A step of one task: what it owes, part by part.
LEMMA MovePreserves ==
  ASSUME IInv, NEW t \in TaskIds, NEW pc \in Pc, NEW row \in RunStatus, Moved(t, pc, row),
         Budgeted,
         Live(t), pc # "gone",
         \/ task[t].pc \in Holding /\ pc \in Holding /\ permits' = permits
         \/ task[t].pc \notin Holding /\ pc \in Holding /\ permits > 0 /\ permits' = permits - 1
         \/ task[t].pc \in Holding /\ pc \notin Holding /\ permits' = permits + 1,
         row = "running" => \/ pc \in {"scraping", "saving", "failing", "gone"}
                            \/ pc = "done" /\ used'["fault"] > 0,
         pc \in {"waiting", "starting"} => row = "none",
         pc = "backoff" => row \in {"failed", "deleted"} /\ MayRetry(t),
         \/ registry' = registry /\ pc \notin {"done", "gone"}
         \/ registry' = [registry EXCEPT ![Id(task[t].sched)] = 0] /\ pc = "done",
         nextRun' \in [Schedules -> {"null", "future", "due"}],
         recent' \in [Schedules -> BOOLEAN],
         UNCHANGED <<cfg, queued, phase, shutdown, selected, gathered,
                     triggers, listener, loading>>
  PROVE  IInv'
  <1>1. SemaphoreAccounting' /\ permits' \in 0 .. MaxConcurrent
    BY AccountMove
  <1>2. Rows'
    BY RowsMove DEF Live
  <1>3. RegistryNeverStale' /\ registry' \in [Keys -> 0 .. Len(task')]
    BY RegistryMove
  <1>4. task' \in Seq(Task) /\ TaskIds' = TaskIds
    BY DEF Moved, IInv, TypeOK, TaskIds
  <1>5. used' \in [EnvEvents -> Nat]
    BY BudgetedUse DEF IInv
  <1>6. TypeOK'
    BY <1>1, <1>3, <1>4, <1>5 DEF IInv, TypeOK
  <1>7. OverlapInv'
    BY OverlapMove
  <1> QED BY <1>1, <1>2, <1>3, <1>6, <1>7 DEF IInv, Rows

\* What Record does to the database and to the task table.
LEMMA RecordMoves ==
  ASSUME IInv, NEW t \in TaskIds, NEW status \in RunStatus, NEW pc \in Pc,
         Record(t, status, pc)
  PROVE  /\ Moved(t, pc, status) /\ UNCHANGED <<cfg, queued>>
         /\ nextRun' \in [Schedules -> {"null", "future", "due"}]
         /\ recent' \in [Schedules -> BOOLEAN]
  <1>1. task' = [task EXCEPT ![t].row = status, ![t].pc = pc] /\ UNCHANGED <<cfg, queued>>
    BY DEF Record
  <1>2. Moved(t, pc, status)
    BY <1>1, RowMoves DEF IInv, TypeOK
  <1>3. task[t].sched \in Schedules
    BY TaskRecord DEF IInv, TypeOK
  <1>4. nextRun' \in [Schedules -> {"null", "future", "due"}] /\ recent' \in [Schedules -> BOOLEAN]
    BY <1>3 DEF Record, IInv, TypeOK
  <1> QED BY <1>1, <1>2, <1>4

LEMMA AcquirePreserves ==
  ASSUME IInv, NEW t \in TaskIds, Acquire(t)
  PROVE  IInv'
  <1>1. Moved(t, "starting", task[t].row)
    BY GotoMoves DEF Acquire, IInv, TypeOK, Pc, Holding
  <1>2. task[t].row \in RunStatus /\ task[t].row = "none"
    BY TaskRecord DEF Acquire, IInv, TypeOK, PcTellsRow
  <1>3. /\ task[t].pc = "waiting" /\ permits > 0 /\ permits' = permits - 1 /\ Budgeted
        /\ UNCHANGED <<cfg, nextRun, recent, queued, phase, shutdown, selected, registry,
                       gathered, triggers, listener, loading>>
    BY DEF Acquire, dbVars, listenerVars, Budgeted
  <1>4. "starting" \in Pc /\ "starting" \in Holding /\ "waiting" \notin Holding
    BY DEF Pc, Holding
  <1>5. nextRun' \in [Schedules -> {"null", "future", "due"}] /\ recent' \in [Schedules -> BOOLEAN]
    BY <1>3 DEF IInv, TypeOK
  <1>6. Live(t)
    BY <1>3 DEF Live
  <1> QED BY <1>1, <1>2, <1>3, <1>4, <1>5, <1>6, MovePreserves

\* The attempts that go on: no permit, no key and no schedule changes hands.
LEMMA AttemptPreserves ==
  ASSUME IInv, NEW t \in TaskIds,
         StartRun(t) \/ StartRunFails(t) \/ Scrape(t) \/ SaveRunFails(t)
  PROVE  IInv'
  <1>1. Budgeted /\ UNCHANGED <<cfg, nextRun, recent, queued, phase, shutdown, selected, registry,
                                gathered, permits, triggers, listener, loading>>
    BY SpendBudgeted DEF StartRun, StartRunFails, Scrape, SaveRunFails, dbVars, daemonVars,
                         listenerVars, EnvEvents, Budgeted
  <1>2. nextRun' \in [Schedules -> {"null", "future", "due"}] /\ recent' \in [Schedules -> BOOLEAN]
    BY <1>1 DEF IInv, TypeOK
  <1>3. task[t].row \in RunStatus
    BY TaskRecord DEF IInv, TypeOK
  <1>4. PICK pc \in {"scraping", "saving", "failing"}, row \in RunStatus :
          Moved(t, pc, row) /\ task[t].pc \in Holding
    <2>1. "scraping" \in Pc /\ "failing" \in Pc /\ "saving" \in Pc /\ "running" \in RunStatus
      BY DEF Pc, Holding, RunStatus
    <2>2. task \in Seq(Task)
      BY DEF IInv, TypeOK
    <2>3. CASE StartRun(t)
      <3>1. task' = [task EXCEPT ![t].row = "running", ![t].pc = "scraping"]
            /\ task[t].pc \in Holding
        BY <2>3 DEF StartRun, Holding
      <3>2. Moved(t, "scraping", "running")
        BY <2>1, <2>2, <3>1, RowMoves
      <3> QED BY <2>1, <3>1, <3>2
    <2>4. CASE StartRunFails(t) \/ Scrape(t) \/ SaveRunFails(t)
      <3>1. PICK pc \in {"saving", "failing"} : Goto(t, pc) /\ task[t].pc \in Holding
        BY <2>4 DEF StartRunFails, Scrape, SaveRunFails, Holding
      <3>2. Moved(t, pc, task[t].row)
        BY <2>1, <2>2, <3>1, GotoMoves
      <3> QED BY <1>3, <3>1, <3>2
    <2> QED BY <2>3, <2>4
  <1>5. pc \in Pc /\ pc \in Holding /\ Live(t)
    BY <1>4 DEF Pc, Holding, Live
  <1> QED BY <1>1, <1>2, <1>4, <1>5, MovePreserves

\* The ends of an attempt: the finally block runs.
LEMMA EndOfAttempt ==
  ASSUME IInv, NEW t \in TaskIds, NEW row \in RunStatus, Moved(t, "done", row), Leave(t),
         Budgeted, task[t].pc \in Holding,
         row = "running" => used'["fault"] > 0,
         UNCHANGED <<cfg, queued, triggers, listener, loading>>,
         nextRun' \in [Schedules -> {"null", "future", "due"}],
         recent' \in [Schedules -> BOOLEAN]
  PROVE  IInv'
  <1>1. "done" \in Pc /\ "done" \notin Holding /\ Live(t)
    BY DEF Pc, Holding, Live
  <1>2. /\ registry' = [registry EXCEPT ![Id(task[t].sched)] = 0] /\ permits' = permits + 1
        /\ UNCHANGED <<phase, shutdown, selected, gathered>>
    BY DEF Leave
  <1> QED BY <1>1, <1>2, MovePreserves

LEMMA SaveRunPreserves ==
  ASSUME IInv, NEW t \in TaskIds, SaveRun(t)
  PROVE  IInv'
  <1>1. Record(t, "completed", "notifying") /\ task[t].pc = "saving" /\ Budgeted
        /\ UNCHANGED <<phase, shutdown, selected, registry, gathered, permits,
                       triggers, listener, loading>>
    BY DEF SaveRun, daemonVars, listenerVars, Budgeted
  <1>2. "completed" \in RunStatus /\ "notifying" \in Pc /\ "notifying" \in Holding
        /\ "saving" \in Holding /\ Live(t)
    BY <1>1 DEF RunStatus, Pc, Holding, Live
  <1>3. /\ Moved(t, "notifying", "completed") /\ UNCHANGED <<cfg, queued>>
        /\ nextRun' \in [Schedules -> {"null", "future", "due"}]
        /\ recent' \in [Schedules -> BOOLEAN]
    BY <1>1, <1>2, RecordMoves
  <1> QED BY <1>1, <1>2, <1>3, MovePreserves

LEMMA FinishPreserves ==
  ASSUME IInv, NEW t \in TaskIds, Finish(t)
  PROVE  IInv'
  <1>1. task[t].pc = "notifying" /\ Goto(t, "done") /\ Leave(t) /\ Budgeted
        /\ UNCHANGED <<cfg, nextRun, recent, queued, triggers, listener, loading>>
    BY DEF Finish, dbVars, listenerVars, Budgeted
  <1>2. Moved(t, "done", task[t].row)
    BY <1>1, GotoMoves DEF IInv, TypeOK, Pc
  <1>3. task[t].row \in RunStatus /\ task[t].row # "running"
    BY <1>1, TaskRecord DEF IInv, TypeOK, RunningRowsOwned
  <1>4. nextRun' \in [Schedules -> {"null", "future", "due"}] /\ recent' \in [Schedules -> BOOLEAN]
    BY <1>1 DEF IInv, TypeOK
  <1>5. task[t].pc \in Holding
    BY <1>1 DEF Holding
  <1> QED BY <1>1, <1>2, <1>3, <1>4, <1>5, EndOfAttempt

LEMMA MarkFailedPreserves ==
  ASSUME IInv, NEW t \in TaskIds, MarkFailed(t)
  PROVE  IInv'
  <1>1. task[t].pc = "failing" /\ Budgeted /\ UNCHANGED <<triggers, listener, loading>>
    BY DEF MarkFailed, listenerVars, Budgeted
  <1>2. /\ "failed" \in RunStatus /\ "backoff" \in Pc /\ "done" \in Pc
        /\ "backoff" \in Holding /\ "failing" \in Holding /\ Live(t)
    BY <1>1 DEF RunStatus, Pc, Holding, Live
  <1>3. CASE MayRetry(t)
    <2>1. Record(t, "failed", "backoff") /\ UNCHANGED <<phase, shutdown, selected, registry,
                                                        gathered, permits>>
      BY <1>3 DEF MarkFailed, daemonVars
    <2>2. /\ Moved(t, "backoff", "failed") /\ UNCHANGED <<cfg, queued>>
          /\ nextRun' \in [Schedules -> {"null", "future", "due"}]
          /\ recent' \in [Schedules -> BOOLEAN]
      BY <1>2, <2>1, RecordMoves
    <2> QED BY <1>1, <1>2, <1>3, <2>1, <2>2, MovePreserves
  <1>4. CASE ~MayRetry(t)
    <2>1. Record(t, "failed", "done") /\ Leave(t)
      BY <1>4 DEF MarkFailed
    <2>2. /\ Moved(t, "done", "failed") /\ UNCHANGED <<cfg, queued>>
          /\ nextRun' \in [Schedules -> {"null", "future", "due"}]
          /\ recent' \in [Schedules -> BOOLEAN]
      BY <1>2, <2>1, RecordMoves
    <2> QED BY <1>1, <1>2, <2>1, <2>2, EndOfAttempt
  <1> QED BY <1>3, <1>4

LEMMA MarkFailedRaisesPreserves ==
  ASSUME IInv, NEW t \in TaskIds, MarkFailedRaises(t)
  PROVE  IInv'
  <1>1. /\ task[t].pc = "failing" /\ Goto(t, "done") /\ Leave(t)
        /\ UNCHANGED <<cfg, nextRun, recent, queued, triggers, listener, loading>>
        /\ (task[t].row # "running" /\ UNCHANGED used) \/ Spend("fault")
    BY DEF MarkFailedRaises, dbVars, listenerVars
  <1>2. Budgeted /\ (task[t].row = "running" => used'["fault"] > 0)
    BY <1>1, FaultUse DEF Budgeted, IInv
  <1>3. Moved(t, "done", task[t].row)
    BY <1>1, GotoMoves DEF IInv, TypeOK, Pc
  <1>4. task[t].row \in RunStatus
    BY TaskRecord DEF IInv, TypeOK
  <1>5. nextRun' \in [Schedules -> {"null", "future", "due"}] /\ recent' \in [Schedules -> BOOLEAN]
    BY <1>1 DEF IInv, TypeOK
  <1>6. task[t].pc \in Holding
    BY <1>1 DEF Holding
  <1> QED BY <1>1, <1>2, <1>3, <1>4, <1>5, <1>6, EndOfAttempt

\* The end of an attempt that is retried: it leaves and its successor is appended.
LEMMA RetryPreserves ==
  ASSUME IInv, NEW t \in TaskIds, Retry(t)
  PROVE  IInv'
  <1> DEFINE s == task[t].sched
             n == task[t].retry + 1
             x == NewTask(s, "retry", n)
             r == [task[t] EXCEPT !.pc = "done"]
             mid == [task EXCEPT ![t].pc = "done"]
             L == Len(task)
  <1>1. /\ task[t].pc = "backoff" /\ task' = Append(mid, x)
        /\ registry' = [registry EXCEPT ![<<s, n>>] = L + 1, ![Id(s)] = 0]
        /\ permits' = permits + 1
        /\ UNCHANGED <<cfg, nextRun, recent, queued, phase, shutdown, selected, gathered,
                       triggers, listener, loading, used>>
    BY DEF Retry, dbVars, listenerVars
  <1>2. /\ task \in Seq(Task) /\ L \in Nat /\ TaskIds = 1 .. L /\ task[t] \in Task
        /\ s \in Schedules /\ n \in Nat /\ task[t].retry = n - 1
    BY TaskRecord DEF IInv, TypeOK, TaskIds
  <1>3. task[t].row \in {"failed", "deleted"} /\ n =< MaxRetries[s]
    BY <1>1, <1>2, MaxRetriesAssumption DEF IInv, PcTellsRow, MayRetry
  <1>4. /\ x \in Task /\ x.sched = s /\ x.trigger = "retry" /\ x.retry = n
        /\ x.pc = "waiting" /\ x.row = "none"
    BY <1>2, NewTaskType DEF NewTask, Triggers
  <1>5. /\ r \in Task /\ r.pc = "done" /\ r.row = task[t].row /\ r.sched = s
        /\ r.trigger = task[t].trigger /\ r.retry = task[t].retry
    BY <1>2 DEF Task, Pc
  <1>6. mid = [task EXCEPT ![t] = r]
    OBVIOUS
  <1> HIDE DEF x, r, mid
  <1>7. mid \in Seq(Task) /\ Len(mid) = L /\ mid[t] = r /\ \A u \in TaskIds : u # t => mid[u] = task[u]
    <2>1. t \in DOMAIN task
      BY DEF TaskIds
    <2>2. task \in Seq(Task) /\ r \in Task
      BY <1>2, <1>5
    <2> QED BY ONLY <1>6, <2>1, <2>2, Update DEF TaskIds
  <1> HIDE DEF s, n, L
  <1>8. /\ task' \in Seq(Task) /\ Len(task') = L + 1 /\ TaskIds' = 1 .. L + 1
        /\ task'[L + 1] = x /\ task'[t] = r
        /\ \A u \in TaskIds : u # t => task'[u] = task[u]
    <2>1. /\ task' \in Seq(Task) /\ Len(task') = L + 1
          /\ \A u \in 1 .. L : task'[u] = mid[u]
          /\ task'[L + 1] = x
      BY <1>1, <1>2, <1>4, <1>7, AppendProperties
    <2> QED BY <1>2, <1>7, <2>1 DEF TaskIds
  <1>9. TaskIds' = TaskIds \cup {L + 1} /\ L + 1 \notin TaskIds /\ TaskIds \subseteq TaskIds'
    BY <1>2, <1>8
  <1>10. registry \in [Keys -> 0 .. L] /\ Id(s) \in Keys /\ <<s, n>> \in Keys
    BY <1>2, <1>3, IdType, KeysType DEF IInv, TypeOK, L
  <1>11. TypeOK'
    <2>1. registry' \in [Keys -> 0 .. Len(task')]
      <3> DEFINE m == L + 1
      <3>1. registry \in [Keys -> 0 .. m] /\ m \in 0 .. m /\ 0 \in 0 .. m
        BY <1>2, <1>10
      <3> HIDE DEF m
      <3>2. registry' = [registry EXCEPT ![<<s, n>>] = m, ![Id(s)] = 0]
        BY <1>1 DEF m
      <3>3. registry' \in [Keys -> 0 .. m]
        BY <3>1, <3>2
      <3> QED BY <1>8, <3>3 DEF m
    <2>2. permits' \in 0 .. MaxConcurrent
      <3>1. t \in Holders
        BY <1>1 DEF Holders, Holding
      <3>2. Cardinality(Holders) > 0
        BY <3>1, HoldersFinite, FS_EmptySet DEF IInv
      <3> QED BY <1>1, <3>2, HoldersFinite, MaxConcurrentAssumption
              DEF IInv, TypeOK, SemaphoreAccounting
    <2> QED BY <1>1, <1>8, <1>9, <2>1, <2>2 DEF IInv, TypeOK
  <1>12. SemaphoreAccounting'
    <2>1. Holders' = Holders \ {t}
      BY <1>4, <1>5, <1>8, <1>9 DEF Holders, Holding
    <2>2. t \in Holders
      BY <1>1 DEF Holders, Holding
    <2>3. Cardinality(Holders') = Cardinality(Holders) - 1
      BY <2>1, <2>2, HoldersFinite, FS_RemoveElement DEF IInv
    <2> QED BY <1>1, <2>3, HoldersFinite, MaxConcurrentAssumption
            DEF IInv, TypeOK, SemaphoreAccounting
  <1>13. RegistryNeverStale'
    <2> SUFFICES ASSUME NEW c \in Schedules, registry'[Id(c)] # 0
                 PROVE  LET u == registry'[Id(c)] IN
                        task'[u].pc \notin {"done", "gone"} /\ task'[u].sched = c
                        /\ task'[u].trigger # "retry"
      BY DEF RegistryNeverStale, Live
    <2>1. Id(c) \in Keys /\ c # s
      BY <1>1, <1>10, IdType
    <2>2. Id(c) # <<s, n>> /\ Id(c) # Id(s)
      BY <2>1 DEF Id
    <2> DEFINE u == registry[Id(c)]
    <2>3. registry'[Id(c)] = u
      BY <1>1, <1>10, <2>1, <2>2
    <2>4. u \in TaskIds
      BY <1>2, <1>10, <2>1, <2>3
    <2>5. task[u].pc \notin {"done", "gone"} /\ task[u].sched = c /\ task[u].trigger # "retry"
      BY <2>3 DEF IInv, RegistryNeverStale, Live
    <2> HIDE DEF u
    <2>6. u # t
      BY <2>1, <2>5 DEF s
    <2> QED BY <1>8, <2>3, <2>4, <2>5, <2>6
  <1>14. RunningRowsOwned'
    <2> SUFFICES ASSUME NEW u \in TaskIds', task'[u].row = "running"
                 PROVE  \/ task'[u].pc \in {"scraping", "saving", "failing", "gone"}
                        \/ task'[u].pc = "done" /\ used'["fault"] > 0
      BY DEF RunningRowsOwned
    <2>1. u \in TaskIds /\ u # t
      BY <1>3, <1>4, <1>5, <1>8, <1>9
    <2>2. task'[u] = task[u]
      BY <1>8, <2>1
    <2> QED BY <1>1, <2>1, <2>2 DEF IInv, RunningRowsOwned
  <1>15. RetryFollowsFailure'
    <2>1. \A u \in TaskIds :
            /\ task'[u].sched = task[u].sched
            /\ task'[u].trigger = task[u].trigger
            /\ task'[u].retry = task[u].retry
            /\ task[u].pc = "done" => task'[u].pc = "done"
            /\ task[u].pc = "done" /\ task[u].row \in {"failed", "deleted"}
                 => task'[u].row \in {"failed", "deleted"}
      BY <1>1, <1>5, <1>8 DEF s
    <2>2. /\ task'[L + 1].retry =< MaxRetries[task'[L + 1].sched]
          /\ t \in 1 .. (L + 1) - 1
          /\ task'[t].sched = task'[L + 1].sched
          /\ task'[t].retry = task'[L + 1].retry - 1
          /\ task'[t].row \in {"failed", "deleted"}
          /\ task'[t].pc = "done"
      BY <1>2, <1>3, <1>4, <1>5, <1>8
    <2>3. TaskIds' \ TaskIds = {L + 1}
      BY <1>9
    <2> QED BY <1>9, <2>1, <2>2, <2>3, HistoryKept
  <1>16. PcTellsRow'
    <2> SUFFICES ASSUME NEW u \in TaskIds'
                 PROVE  /\ task'[u].pc \in {"waiting", "starting"} => task'[u].row = "none"
                        /\ task'[u].pc = "backoff" =>
                             /\ task'[u].row \in {"failed", "deleted"}
                             /\ task'[u].retry < MaxRetries[task'[u].sched]
      BY DEF PcTellsRow, MayRetry
    <2>1. CASE u = t \/ u = L + 1
      BY <1>4, <1>5, <1>8, <2>1
    <2>2. CASE u \in TaskIds /\ u # t
      <3>1. task'[u] = task[u]
        BY <1>8, <2>2
      <3> QED BY <2>2, <3>1 DEF IInv, PcTellsRow, MayRetry
    <2> QED BY <1>9, <2>1, <2>2
  <1>17. OverlapInv'
    <2>1. /\ Live(t) /\ t \in TaskIds /\ t \in Pending(s) /\ L + 1 \notin Unplanned(s)
          /\ L + 1 \notin Pending(s)
      BY <1>1, <1>9, PendingCounted DEF Live, Pending, LiveOf, Unplanned, CutShort, s
    <2>2. ASSUME NEW c \in Schedules
          PROVE  /\ Cardinality(Pending(c)') =< Registered(c)' + Cardinality(Unplanned(c)')
                 /\ phase = "draining" =>
                      Cardinality(Pending(c)' \ gathered) =< Cardinality(Unplanned(c)')
      <3>1. CASE c # s
        <4>1. \A u \in TaskIds' : task'[u].sched = c => u \in TaskIds /\ task'[u] = task[u]
          BY <1>4, <1>5, <1>8, <1>9, <3>1
        <4>2. Pending(c)' \subseteq Pending(c)
          BY <1>1, <4>1 DEF Pending, LiveOf, CutShort, Live
        <4>3. Unplanned(c)' = Unplanned(c)
          <5>1. \A u \in TaskIds : task[u].sched = c => u \in TaskIds' /\ task'[u] = task[u]
            BY <1>8, <1>9, <3>1 DEF s
          <5> QED BY <4>1, <5>1 DEF Unplanned
        <4>4. registry'[Id(c)] = registry[Id(c)]
          <5>1. Id(c) # Id(s) /\ Id(c) # <<s, n>> /\ Id(c) \in Keys
            BY <3>1, IdType DEF Id
          <5> QED BY <1>1, <1>10, <5>1
        <4> QED BY <4>2, <4>3, <4>4, PendingShrinks
      <3>2. CASE c = s
        <4>0. /\ t \in Pending(c) /\ L + 1 \notin Unplanned(c) /\ L + 1 \notin Pending(c)
               /\ task[t].sched = c /\ x.sched = c /\ r.sched = c
          BY <1>4, <1>5, <2>1, <3>2 DEF s
        <4>1. Pending(c)' = (Pending(c) \ {t}) \cup {L + 1}
          <5>1. task'[t].pc = "done"
            BY <1>5, <1>8
          <5>2. \A u \in TaskIds' : u # t /\ u # L + 1 => u \in TaskIds /\ task'[u] = task[u]
            BY <1>8, <1>9
          <5>3. LiveOf(c)' = (LiveOf(c) \ {t}) \cup {L + 1}
            <6>1. t \notin LiveOf(c)' /\ L + 1 \in LiveOf(c)'
              BY <1>4, <1>8, <1>9, <4>0, <5>1 DEF LiveOf, Live
            <6>2. ASSUME NEW u, u # t, u # L + 1 PROVE u \in LiveOf(c)' <=> u \in LiveOf(c)
              <7>1. u \in TaskIds' <=> u \in TaskIds
                BY <1>9, <6>2
              <7>2. u \in TaskIds => task'[u] = task[u]
                BY <1>8, <6>2
              <7> QED BY <7>1, <7>2 DEF LiveOf, Live
            <6>3. L + 1 # t
              BY <1>1, <1>9
            <6> QED BY <6>1, <6>2, <6>3
          <5>4. CutShort(c)' = CutShort(c) /\ t \notin CutShort(c)
            <6>1. t \notin CutShort(c) /\ t \notin CutShort(c)' /\ L + 1 \notin CutShort(c)'
              BY <1>1, <1>4, <1>8, <5>1 DEF CutShort
            <6>2. L + 1 \notin CutShort(c)
              BY <1>9 DEF CutShort
            <6>3. ASSUME NEW u, u # t, u # L + 1 PROVE u \in CutShort(c)' <=> u \in CutShort(c)
              <7>1. u \in TaskIds' <=> u \in TaskIds
                BY <1>9, <6>3
              <7>2. u \in TaskIds => task'[u] = task[u]
                BY <1>8, <6>3
              <7> QED BY <7>1, <7>2 DEF CutShort
            <6> QED BY <6>1, <6>2, <6>3
          <5> QED BY <1>1, <5>3, <5>4 DEF Pending
        <4>2. Unplanned(c)' = Unplanned(c) \cup {L + 1}
          <5>1. task'[t].sched = task[t].sched /\ task'[t].trigger = task[t].trigger
            BY <1>5, <1>8 DEF s
          <5>2. \A u \in TaskIds : task'[u].sched = task[u].sched /\ task'[u].trigger = task[u].trigger
            BY <1>8, <5>1
          <5>3. L + 1 \in Unplanned(c)'
            BY <1>4, <1>8, <1>9, <4>0 DEF Unplanned
          <5>4. ASSUME NEW u, u # L + 1 PROVE u \in Unplanned(c)' <=> u \in Unplanned(c)
            <6>1. u \in TaskIds' <=> u \in TaskIds
              BY <1>9, <5>4
            <6> QED BY <5>2, <6>1 DEF Unplanned
          <5> QED BY <5>3, <5>4
        <4>3. /\ Cardinality(Unplanned(c)') = Cardinality(Unplanned(c)) + 1
              /\ Cardinality(Pending(c) \ {t}) = Cardinality(Pending(c)) - 1
              /\ IsFiniteSet(Pending(c) \ {t})
          <5>1. IsFiniteSet(Unplanned(c)) /\ IsFiniteSet(Pending(c))
            BY PendingCounted
          <5> QED BY <4>2, <4>0, <5>1, OneMore
        <4>4. Cardinality(Pending(c)') =< Cardinality(Pending(c)) /\ Cardinality(Pending(c)') \in Nat
          <5>1. Cardinality((Pending(c) \ {t}) \cup {L + 1}) =< Cardinality(Pending(c) \ {t}) + 1
                /\ Cardinality((Pending(c) \ {t}) \cup {L + 1}) \in Nat
            BY <4>3, OneMore
          <5>2. Counted(c)
            BY PendingCounted
          <5> QED BY <4>1, <4>3, <5>1, <5>2 DEF Counted
        <4>5. /\ Cardinality(Pending(c)' \ gathered) =< Cardinality(Pending(c) \ gathered) + 1
              /\ Cardinality(Pending(c)' \ gathered) \in Nat
          <5>1. Pending(c)' \ gathered \subseteq (Pending(c) \ gathered) \cup {L + 1}
            BY <4>1
          <5>2. IsFiniteSet(Pending(c) \ gathered)
            BY PendingCounted
          <5> QED BY <5>1, <5>2, Grown
        <4>6. Counted(c)
          BY PendingCounted
        <4>7. Registered(c)' \in {0, 1}
          BY DEF Registered
        <4>8. Cardinality(Pending(c)') =< Registered(c)' + Cardinality(Unplanned(c)')
          BY <4>3, <4>4, <4>6, <4>7 DEF Counted
        <4>9. phase = "draining" =>
                Cardinality(Pending(c)' \ gathered) =< Cardinality(Unplanned(c)')
          BY <4>3, <4>5, <4>6 DEF Counted
        <4> QED BY <4>8, <4>9
      <3> QED BY <3>1, <3>2
    <2>3. \A u \in TaskIds : task[u].pc # "gone" => task'[u].pc # "gone"
      BY <1>5, <1>8
    <2>4. \A k \in Keys : registry'[k] # 0 => task'[registry'[k]].pc # "gone"
      <3> SUFFICES ASSUME NEW k \in Keys, registry'[k] # 0 PROVE task'[registry'[k]].pc # "gone"
        OBVIOUS
      <3>1. registry'[k] = L + 1 \/ (registry'[k] = registry[k] /\ registry[k] \in TaskIds)
        BY <1>1, <1>2, <1>10
      <3> QED BY <1>4, <1>8, <2>3, <3>1 DEF IInv, OverlapInv
    <2>5. \A u \in gathered' : task'[u].pc # "gone"
      BY <1>1, <2>3 DEF IInv, OverlapInv, TypeOK
    <2> QED BY <1>1, <2>2, <2>4, <2>5 DEF OverlapInv
  <1> QED BY <1>11, <1>12, <1>13, <1>14, <1>15, <1>16, <1>17 DEF IInv

-----------------------------------------------------------------------------
(* The theorems *)

LEMMA InitInvariant == Init => IInv
  <1> SUFFICES ASSUME Init PROVE IInv
    OBVIOUS
  <1>1. task = <<>> /\ TaskIds = {}
    BY DEF Init, TaskIds
  <1>2. TypeOK
    <2>1. /\ task \in Seq(Task) /\ Len(task) = 0 /\ triggers \in Seq(Schedules)
          /\ registry \in [Keys -> 0 .. Len(task)] /\ gathered \subseteq TaskIds
      BY <1>1 DEF Init
    <2>2. selected \subseteq Schedules /\ permits \in 0 .. MaxConcurrent
      BY MaxConcurrentAssumption DEF Init
    <2>3. /\ cfg \in [Schedules -> CfgStates]
          /\ nextRun \in [Schedules -> {"null", "future", "due"}]
          /\ recent \in [Schedules -> BOOLEAN]
          /\ queued \in [Schedules -> Nat]
          /\ used \in [EnvEvents -> Nat]
      BY DEF Init, CfgStates
    <2>4. /\ phase \in {"down", "running", "draining"} /\ shutdown \in BOOLEAN
          /\ listener \in {"off", "starting", "subscribed"}
          /\ loading \in Schedules \cup {NoSchedule}
      BY DEF Init
    <2> QED BY <2>1, <2>2, <2>3, <2>4 DEF TypeOK
  <1>3. SemaphoreAccounting
    <2>1. Holders = {}
      BY <1>1 DEF Holders
    <2> QED BY <2>1, FS_EmptySet, MaxConcurrentAssumption DEF Init, SemaphoreAccounting
  <1>4. RegistryNeverStale
    BY IdType DEF Init, RegistryNeverStale
  <1>5. OverlapInv
    <2>1. \A s \in Schedules : Pending(s) = {} /\ Unplanned(s) = {} /\ Registered(s) = 0
      BY <1>1, IdType DEF Pending, LiveOf, CutShort, Unplanned, Registered, Init
    <2>2. Cardinality({}) = 0 /\ \A A : {} \ A = {}
      BY FS_EmptySet
    <2>3. \A s \in Schedules : Cardinality(Pending(s)) =< Registered(s) + Cardinality(Unplanned(s))
      BY <2>1, <2>2
    <2>4. phase # "draining" /\ gathered = {} /\ \A k \in Keys : registry[k] = 0
      BY DEF Init
    <2> QED BY <2>3, <2>4 DEF OverlapInv
  <1> QED BY <1>1, <1>2, <1>3, <1>4, <1>5
          DEF IInv, RunningRowsOwned, RetryFollowsFailure, PcTellsRow

LEMMA StepInvariant == IInv /\ [Next]_vars => IInv'
  <1> SUFFICES ASSUME IInv, [Next]_vars PROVE IInv'
    OBVIOUS
  <1>1. CASE Start \/ HandleShutdown \/ Crash
    BY <1>1, QuietMainPreserves, EndPreserves
  <1>2. CASE MainLoop
    BY <1>2, QuietMainPreserves, TickLaunchPreserves, EndPreserves DEF MainLoop
  <1>3. CASE Listener
    BY <1>3, QuietListenerPreserves, ListenerLaunchesPreserves DEF Listener
  <1>4. CASE Api
    BY <1>4, QuietApiPreserves, DeletePreserves DEF Api
  <1>5. CASE Time
    BY <1>5, TimePreserves DEF Time
  <1>6. ASSUME NEW t \in TaskIds, TaskStep(t) PROVE IInv'
    <2>1. CASE Acquire(t)
      BY <2>1, AcquirePreserves
    <2>2. CASE StartRun(t) \/ StartRunFails(t) \/ Scrape(t) \/ SaveRunFails(t)
      BY <2>2, AttemptPreserves
    <2>3. CASE SaveRun(t)
      BY <2>3, SaveRunPreserves
    <2>4. CASE Finish(t)
      BY <2>4, FinishPreserves
    <2>5. CASE MarkFailed(t)
      BY <2>5, MarkFailedPreserves
    <2>6. CASE MarkFailedRaises(t)
      BY <2>6, MarkFailedRaisesPreserves
    <2>7. CASE Retry(t)
      BY <2>7, RetryPreserves
    <2> QED BY <1>6, <2>1, <2>2, <2>3, <2>4, <2>5, <2>6, <2>7 DEF TaskStep
  <1>7. CASE UNCHANGED vars
    <2>1. UNCHANGED <<task, registry, permits, cfg, nextRun, recent, queued, triggers, phase,
                      shutdown, selected, gathered, listener, loading, used>>
      BY <1>7 DEF vars, dbVars, daemonVars, listenerVars
    <2> QED BY <2>1, QuietStep DEF IInv, TypeOK, Budgeted
  <1> QED BY <1>1, <1>2, <1>3, <1>4, <1>5, <1>6, <1>7 DEF Next

THEOREM Invariant == Spec => []IInv
  BY InitInvariant, StepInvariant, PTL DEF Spec

\* Every variable of the daemon keeps its type, whatever the number of schedules,
\* retries, permits, faults and restarts.
THEOREM TypeCorrect == Spec => []TypeOK
  BY Invariant, PTL DEF IInv

\* No path through _run_schedule loses or duplicates a permit of the semaphore.
THEOREM SemaphoreCorrect == Spec => []SemaphoreAccounting
  BY Invariant, PTL DEF IInv

\* _running_tasks never keeps a schedule from being launched for good.
THEOREM RegistryCorrect == Spec => []RegistryNeverStale
  BY Invariant, PTL DEF IInv

\* A "running" row is always accounted for.
THEOREM RunningRowsCorrect == Spec => []RunningRowsOwned
  BY Invariant, PTL DEF IInv

\* A retry always has a failed parent, and max_retries bounds the chain.
THEOREM RetriesCorrect == Spec => []RetryFollowsFailure
  BY Invariant, PTL DEF IInv

\* A schedule overlaps with itself only as often as it was triggered by hand or retried.
THEOREM OverlapsCorrect == Spec => []OverlapsAccounted
  <1>1. IInv => OverlapsAccounted
    <2> SUFFICES ASSUME IInv, NEW s \in Schedules
                 PROVE  Cardinality(LiveOf(s)) =< 1 + Cardinality(Unplanned(s))
      BY DEF OverlapsAccounted
    <2>1. Cardinality(LiveOf(s)) =< Cardinality(Pending(s)) /\ Cardinality(LiveOf(s)) \in Nat
      BY PendingCounted, TasksCounted DEF Pending, IInv, TypeOK
    <2>2. Counted(s)
      BY PendingCounted
    <2> QED BY <2>1, <2>2 DEF Counted
  <1> QED BY <1>1, Invariant, PTL

\* A shutdown cuts short no more scrapes of a schedule than were triggered by hand or retried.
THEOREM CutsCorrect == Spec => []CutsAccounted
  <1>1. IInv => CutsAccounted
    <2> SUFFICES ASSUME IInv, used["crash"] = 0, NEW s \in Schedules
                 PROVE  Cardinality(CutShort(s)) =< Cardinality(Unplanned(s))
      BY DEF CutsAccounted
    <2>1. CutShort(s) \in SUBSET Pending(s)
      BY DEF Pending
    <2>0. Counted(s)
      BY PendingCounted
    <2>2. CASE registry[Id(s)] = 0
      <3>1. Cardinality(CutShort(s)) =< Cardinality(Pending(s)) /\ Cardinality(CutShort(s)) \in Nat
        BY <2>1, PendingCounted, TasksCounted DEF IInv, TypeOK
      <3>2. Registered(s) = 0
        BY <2>2 DEF Registered
      <3> QED BY <2>0, <3>1, <3>2 DEF Counted
    <2>3. CASE registry[Id(s)] # 0
      <3> DEFINE u == registry[Id(s)]
      <3>1. u \in TaskIds /\ Live(u) /\ task[u].sched = s
        BY <2>3, IdType DEF IInv, TypeOK, TaskIds, RegistryNeverStale
      <3>2. u \in Pending(s) /\ u \notin CutShort(s)
        BY <3>1 DEF Pending, LiveOf, CutShort, Live
      <3> HIDE DEF u
      <3>3. Cardinality(Pending(s) \ {u}) = Cardinality(Pending(s)) - 1
        BY <3>2, PendingCounted, OneMore
      <3>4. Cardinality(CutShort(s)) =< Cardinality(Pending(s) \ {u}) /\ Cardinality(CutShort(s)) \in Nat
        <4>1. CutShort(s) \in SUBSET (Pending(s) \ {u}) /\ Pending(s) \ {u} \in SUBSET TaskIds
          BY <2>1, <3>2, PendingCounted
        <4> QED BY <4>1, TasksCounted DEF IInv, TypeOK
      <3> QED BY <2>0, <3>3, <3>4 DEF Counted
    <2> QED BY <2>2, <2>3
  <1> QED BY <1>1, Invariant, PTL
=============================================================================
