--------------------------- MODULE WorkPlansProofs ---------------------------
(***************************************************************************)
(* Proofs about WorkPlans, whatever the scouts find, the dashboard asks    *)
(* for and fails: the cycle and the dashboard together implement the life  *)
(* cycle of a plan; the states are shared out fairly among the workers and *)
(* no two of them scrape the same; and each job left running is the trace  *)
(* of a fault of its own.                                                  *)
(***************************************************************************)
EXTENDS WorkPlans, SequenceTheorems, FiniteSetTheorems, WellFoundedInduction, TLAPS

Doing == {"scout", "create", "approve", "execute", "send"}

\* The statuses the code writes: nobody completes or fails a plan.
Written == {"draft", "approved", "running", "cancelled"}

CycleType ==
  [pc : Doing \cup {"phases", "done"}, plan : Nat, visits : Reports \cup {<<>>}, next : Nat,
   broken : BOOLEAN, phase : Nat, done : SUBSET {"etl", "export", "supabase"}]

\* R, A: the reports and assignments that have occurred.
PlanType(R, A) == [Plans -> [status : Written \cup {"none"}, report : R, assignments : A]]

\* The cycle is at a plan until it has seen to all of them; those from there on are not
\* created yet.
CycleAtPlan ==
  /\ cycle.pc \in Doing => cycle.plan \in Plans
  /\ cycle.pc = "phases" => cycle.phase \in 1 .. 3
  /\ cycle.pc \in Doing =>
       \A p \in Plans : p > cycle.plan => plan[p].status = "none"
  /\ cycle.pc \in {"scout", "create"} => plan[cycle.plan].status = "none"

\* The phase that follows the last plan is the first.
PhaseFirst == cycle.pc \in Doing => cycle.phase = 1

\* What a request of the dashboard has read allows what it is about to write.
RequestRead ==
  \A q \in Requests :
    /\ request[q].pc = "approve" => request[q].seen = "draft"
    /\ request[q].pc = "cancel" => request[q].seen \in {"draft", "approved"}
    /\ request[q].pc \in {"approve", "cancel"} =>
         request[q].plan \in Plans /\ plan[request[q].plan].status # "none"

PlanInv ==
  /\ cycle \in CycleType
  /\ \E R, A : plan \in PlanType(R, A)
  /\ request \in [Requests -> Request]
  /\ raced \in BOOLEAN
  /\ CycleAtPlan
  /\ PhaseFirst
  /\ RequestRead

-----------------------------------------------------------------------------
(* Writes of a status *)

\* The status of p is written and nothing else of the plans.
StatusWritten(p, s) == plan' = [plan EXCEPT ![p].status = s]

LEMMA WriteKeeps ==
  ASSUME NEW R, NEW A, plan \in PlanType(R, A), NEW p \in Plans, NEW s \in Written,
         StatusWritten(p, s)
  PROVE  /\ plan' \in PlanType(R, A)
         /\ plan'[p].status = s
         /\ \A r \in Plans : r # p => plan'[r] = plan[r]
<1>1. plan[p] \in [status : Written \cup {"none"}, report : R, assignments : A]
  BY DEF PlanType
<1> DEFINE x == [plan[p] EXCEPT !.status = s]
<1>2. x \in [status : Written \cup {"none"}, report : R, assignments : A] /\ x.status = s
  BY <1>1
<1>3. plan' = [plan EXCEPT ![p] = x]
  BY DEF StatusWritten
<1> HIDE DEF x
<1> QED BY <1>2, <1>3 DEF PlanType

Statuses == [p \in Plans |-> plan[p].status]

\* A write of a status, after the one that was seen, is a step of the life cycle.
LEMMA WriteIsLifecycle ==
  ASSUME PlanInv, NEW p \in Plans, NEW seen, NEW s \in {"approved", "running", "cancelled"},
         StatusWritten(p, s), <<seen, s>> \in Abstract!Lifecycle,
         raced' = (raced \/ plan[p].status # seen)
  PROVE  Abstract!Next
<1>1. PICK R, A : plan \in PlanType(R, A)
  BY DEF PlanInv
<1>2. /\ plan'[p].status = s
      /\ \A r \in Plans : r # p => plan'[r] = plan[r]
  BY <1>1, WriteKeeps DEF Written
<1>3. Statuses' = [Statuses EXCEPT ![p] = s]
  BY <1>2 DEF Statuses
<1>4. CASE plan[p].status = seen
  <2>1. UNCHANGED raced
    BY <1>4 DEF PlanInv
  <2>2. s \in Abstract!Status /\ <<Statuses[p], s>> \in Abstract!Lifecycle
    BY <1>4 DEF Statuses, Abstract!Status
  <2>3. Abstract!Move(p)
    BY <1>3, <2>1, <2>2 DEF Abstract!Move, Statuses
  <2> QED BY <2>3 DEF Abstract!Next
<1>5. CASE plan[p].status # seen
  <2>1. Abstract!Overwrite(p)
    BY <1>3, <1>5 DEF Abstract!Overwrite, Statuses
  <2> QED BY <2>1 DEF Abstract!Next
<1> QED BY <1>4, <1>5

-----------------------------------------------------------------------------
(* Steps of the cycle *)

LEMMA NextPlanMoves ==
  ASSUME NEW c \in CycleType, c.plan \in Plans
  PROVE  /\ NextPlan(c) \in CycleType
         /\ NextPlan(c).plan = c.plan + 1
         /\ NextPlan(c).pc = IF c.plan = NumPlans THEN "phases" ELSE "scout"
         /\ NextPlan(c).phase = c.phase
<1> DEFINE n == c.plan + 1
           next == IF c.plan = NumPlans THEN "phases" ELSE "scout"
           none == <<>>
           d == [c EXCEPT !.plan = n, !.pc = next, !.visits = none]
<1>1. n \in Nat /\ next \in Doing \cup {"phases", "done"} /\ none \in Reports \cup {<<>>}
  BY DEF CycleType, Doing
<1>2. NextPlan(c) = d
  BY DEF NextPlan
<1>3. d \in CycleType /\ d.plan = n /\ d.pc = next /\ d.phase = c.phase
  <2> HIDE DEF n, next, none
  <2> QED BY <1>1 DEF CycleType
<1> HIDE DEF d
<1> QED BY <1>2, <1>3

\* The cycle gives its plan up, with its session or without.
LEMMA GivenUp ==
  ASSUME cycle \in CycleType, cycle.plan \in Plans,
         \/ cycle' = NextPlan(cycle)
         \/ cycle' = [NextPlan(cycle) EXCEPT !.broken = TRUE]
  PROVE  /\ cycle' \in CycleType /\ cycle'.plan = cycle.plan + 1 /\ cycle'.phase = cycle.phase
         /\ cycle'.pc = IF cycle.plan = NumPlans THEN "phases" ELSE "scout"
<1> DEFINE n == NextPlan(cycle)
           b == TRUE
           d == [n EXCEPT !.broken = b]
<1>1. /\ n \in CycleType /\ n.plan = cycle.plan + 1 /\ n.phase = cycle.phase
      /\ n.pc = IF cycle.plan = NumPlans THEN "phases" ELSE "scout"
  BY NextPlanMoves
<1>2. d \in CycleType /\ d.pc = n.pc /\ d.plan = n.plan /\ d.phase = n.phase
  <2>1. b \in BOOLEAN
    OBVIOUS
  <2> HIDE DEF n, b
  <2> QED BY <1>1, <2>1 DEF CycleType
<1>3. cycle' = n \/ cycle' = d
  OBVIOUS
<1> HIDE DEF n, d
<1> QED BY <1>1, <1>2, <1>3

\* The cycle leaves its plan for the next one.
LEMMA LeavesPlan ==
  ASSUME PlanInv, cycle.pc \in Doing,
         cycle' \in CycleType, cycle'.plan = cycle.plan + 1, cycle'.phase = cycle.phase,
         cycle'.pc = IF cycle.plan = NumPlans THEN "phases" ELSE "scout",
         \A p \in Plans : p > cycle.plan => plan'[p].status = plan[p].status
  PROVE  CycleAtPlan' /\ PhaseFirst'
<1>1. cycle.plan \in Plans /\ NumPlans \in Nat
  BY NumPlansAssumption DEF PlanInv, CycleAtPlan
<1>2. \A p \in Plans : p > cycle.plan => plan'[p].status = "none"
  BY DEF PlanInv, CycleAtPlan
<1>3. CASE cycle.plan = NumPlans
  BY <1>3 DEF PlanInv, CycleAtPlan, Doing, PhaseFirst
<1>4. CASE cycle.plan # NumPlans
  <2>1. cycle'.plan \in Plans /\ cycle'.plan > cycle.plan
    BY <1>1, <1>4 DEF Plans
  <2>2. \A p \in Plans : p > cycle'.plan => p > cycle.plan
    BY <1>1, <2>1 DEF Plans
  <2>3. cycle'.pc = "scout" /\ plan'[cycle'.plan].status = "none"
    BY <1>2, <1>4, <2>1
  <2>4. PhaseFirst'
    BY DEF PlanInv, PhaseFirst
  <2>5. CycleAtPlan'
    BY <1>2, <2>1, <2>2, <2>3 DEF CycleAtPlan
  <2> QED BY <2>4, <2>5
<1> QED BY <1>3, <1>4

\* What the dashboard has read survives a step that leaves it alone and takes no plan back.
LEMMA ReadKept ==
  ASSUME RequestRead, UNCHANGED request,
         \A p \in Plans : plan[p].status # "none" => plan'[p].status # "none"
  PROVE  RequestRead'
  BY DEF RequestRead

\* The cycle stays at its plan.
LEMMA StaysAtPlan ==
  ASSUME PlanInv, cycle.pc \in Doing,
         cycle' \in CycleType, cycle'.plan = cycle.plan, cycle'.phase = cycle.phase,
         cycle'.pc \in Doing,
         \A p \in Plans : p > cycle.plan => plan'[p].status = plan[p].status,
         cycle'.pc \in {"scout", "create"} => plan'[cycle.plan].status = "none"
  PROVE  CycleAtPlan' /\ PhaseFirst'
<1>1. PhaseFirst'
  BY DEF PlanInv, PhaseFirst
<1>2. /\ cycle.plan \in Plans
      /\ \A p \in Plans : p > cycle.plan => plan[p].status = "none"
  BY DEF PlanInv, CycleAtPlan
<1>3. CycleAtPlan'
  BY <1>2 DEF CycleAtPlan, Doing
<1> QED BY <1>1, <1>3

LEMMA CycleMoves ==
  ASSUME PlanInv, UNCHANGED <<plan, request, raced>>,
         cycle' \in CycleType, CycleAtPlan', PhaseFirst'
  PROVE  PlanInv'
<1>1. RequestRead'
  BY ReadKept DEF PlanInv
<1>2. PICK R, A : plan \in PlanType(R, A)
  BY DEF PlanInv
<1> QED BY <1>1, <1>2 DEF PlanInv

LEMMA ScoutPortalKeeps == ASSUME PlanInv, ScoutPortal PROVE PlanInv'
<1>1. PICK v \in Reports : cycle' = [cycle EXCEPT !.pc = "create", !.visits = v]
  BY DEF ScoutPortal
<1>2. cycle.pc = "scout" /\ cycle \in CycleType /\ plan[cycle.plan].status = "none"
  BY DEF ScoutPortal, PlanInv, CycleAtPlan
<1> DEFINE pc1 == "create"
           d == [cycle EXCEPT !.pc = pc1, !.visits = v]
<1>3. d \in CycleType /\ d.pc = pc1 /\ d.plan = cycle.plan /\ d.phase = cycle.phase
  <2>1. pc1 \in Doing \cup {"phases", "done"} /\ v \in Reports \cup {<<>>}
    BY DEF Doing
  <2> HIDE DEF pc1
  <2> QED BY <1>2, <2>1 DEF CycleType
<1>4. cycle' = d
  BY <1>1
<1> HIDE DEF d
<1>5. UNCHANGED <<plan, request, raced>>
  BY DEF ScoutPortal
<1>6. CycleAtPlan' /\ PhaseFirst'
  BY <1>2, <1>3, <1>4, <1>5, StaysAtPlan DEF Doing
<1> QED BY <1>3, <1>4, <1>5, <1>6, CycleMoves

\* The plan is given up, or all of it is sent.
LEMMA NextPlanKeeps ==
  ASSUME PlanInv, cycle.pc \in Doing, UNCHANGED <<plan, request, raced>>,
         \/ cycle' = NextPlan(cycle)
         \/ cycle' = [NextPlan(cycle) EXCEPT !.broken = TRUE]
  PROVE  PlanInv'
<1>1. /\ cycle' \in CycleType /\ cycle'.plan = cycle.plan + 1 /\ cycle'.phase = cycle.phase
      /\ cycle'.pc = IF cycle.plan = NumPlans THEN "phases" ELSE "scout"
  BY GivenUp DEF PlanInv, CycleAtPlan
<1>2. CycleAtPlan' /\ PhaseFirst' /\ cycle' \in CycleType
  BY <1>1, LeavesPlan
<1> QED BY <1>2, CycleMoves

LEMMA SendTaskKeeps == ASSUME PlanInv, SendTask PROVE PlanInv'
<1>1. cycle.pc = "send" /\ cycle \in CycleType /\ UNCHANGED <<plan, request, raced>>
  BY DEF SendTask, PlanInv
<1>2. CASE cycle' = NextPlan(cycle)
  BY <1>1, <1>2, NextPlanKeeps DEF Doing
<1>3. CASE cycle' = [cycle EXCEPT !.next = @ + 1]
  <2>1. /\ cycle' \in CycleType /\ cycle'.pc = "send"
        /\ cycle'.plan = cycle.plan /\ cycle'.phase = cycle.phase
    BY <1>1, <1>3 DEF CycleType
  <2>2. CycleAtPlan' /\ PhaseFirst'
    BY <1>1, <2>1, StaysAtPlan DEF Doing
  <2> QED BY <1>1, <2>1, <2>2, CycleMoves
<1> QED BY <1>2, <1>3 DEF SendTask

\* A phase of the end is over.
LEMMA PhaseKeeps ==
  ASSUME PlanInv, cycle.pc = "phases", UNCHANGED <<plan, request, raced>>,
         NEW c \in CycleType, c.phase = cycle.phase, cycle' = PhaseOver(c)
  PROVE  PlanInv'
<1> DEFINE n == c.phase + 1
           pc1 == IF c.phase = Len(Phases) THEN "done" ELSE "phases"
           d == [c EXCEPT !.phase = n, !.pc = pc1]
<1>1. n \in Nat /\ pc1 \in Doing \cup {"phases", "done"}
  BY DEF CycleType
<1>2. cycle.phase \in 1 .. 3 /\ Len(Phases) = 3
  BY DEF PlanInv, CycleAtPlan, Phases
<1>3. pc1 \notin Doing /\ (pc1 = "phases" => n \in 1 .. 3)
  BY <1>2 DEF Doing
<1>4. d \in CycleType /\ d.pc = pc1 /\ d.phase = n
  <2> HIDE DEF n, pc1
  <2> QED BY <1>1 DEF CycleType
<1>5. cycle' = d
  BY DEF PhaseOver
<1> HIDE DEF d, n
<1>6. CycleAtPlan' /\ PhaseFirst'
  BY <1>3, <1>4, <1>5 DEF CycleAtPlan, PhaseFirst, Doing
<1> QED BY <1>4, <1>5, <1>6, CycleMoves

LEMMA PhasesKeep == ASSUME PlanInv, RunPhase \/ PhaseFails PROVE PlanInv'
<1>1. /\ cycle \in CycleType /\ cycle.pc = "phases" /\ UNCHANGED <<plan, request, raced>>
      /\ cycle.phase \in 1 .. 3
  BY DEF RunPhase, PhaseFails, AtStatement, PlanInv, CycleAtPlan
<1>2. CASE RunPhase
  <2> DEFINE s == cycle.done \cup {Phases[cycle.phase]}
             c == [cycle EXCEPT !.done = s]
  <2>1. s \in SUBSET {"etl", "export", "supabase"}
    BY <1>1 DEF CycleType, Phases
  <2>2. c \in CycleType /\ c.phase = cycle.phase
    <3> HIDE DEF s
    <3> QED BY <1>1, <2>1 DEF CycleType
  <2>3. cycle' = PhaseOver(c)
    BY <1>2 DEF RunPhase
  <2> HIDE DEF c
  <2> QED BY <1>1, <2>2, <2>3, PhaseKeeps
<1>3. CASE PhaseFails
  <2> DEFINE c == [cycle EXCEPT !.broken = TRUE]
  <2>1. c \in CycleType /\ c.phase = cycle.phase
    BY <1>1 DEF CycleType
  <2>2. cycle' = PhaseOver(c)
    BY <1>3 DEF PhaseFails
  <2> HIDE DEF c
  <2> QED BY <1>1, <2>1, <2>2, PhaseKeeps
<1> QED BY <1>2, <1>3

\* ApprovePlan and ExecutePlan.
LEMMA CycleWritesKeeps ==
  ASSUME PlanInv, NEW from \in {"approve", "execute"}, NEW to \in {"execute", "send"},
         cycle.pc = from, cycle' \in CycleType, cycle'.pc = to,
         cycle'.plan = cycle.plan, cycle'.phase = cycle.phase, UNCHANGED request,
         NEW seen, NEW s \in {"approved", "running"}, CycleWrites(seen, s)
  PROVE  PlanInv'
<1>1. PICK R, A : plan \in PlanType(R, A)
  BY DEF PlanInv
<1>2. cycle.plan \in Plans /\ cycle.pc \in Doing /\ cycle'.pc \in Doing \ {"scout", "create"}
  BY DEF PlanInv, CycleAtPlan, Doing
<1>3. /\ plan' \in PlanType(R, A)
      /\ plan'[cycle.plan].status = s
      /\ \A r \in Plans : r # cycle.plan => plan'[r] = plan[r]
  BY <1>1, <1>2, WriteKeeps DEF CycleWrites, StatusWritten, Written
<1>4. CycleAtPlan' /\ PhaseFirst'
  BY <1>2, <1>3, StaysAtPlan DEF Plans
<1>5. RequestRead'
  BY <1>3, ReadKept DEF PlanInv
<1>6. raced' \in BOOLEAN
  BY DEF CycleWrites, PlanInv
<1> QED BY <1>3, <1>4, <1>5, <1>6 DEF PlanInv

LEMMA ApprovePlanKeeps == ASSUME PlanInv, ApprovePlan PROVE PlanInv'
<1>1. cycle' = [cycle EXCEPT !.pc = "execute"] /\ cycle \in CycleType
  BY DEF ApprovePlan, PlanInv
<1>2. /\ cycle' \in CycleType /\ cycle'.pc = "execute"
      /\ cycle'.plan = cycle.plan /\ cycle'.phase = cycle.phase
  BY <1>1 DEF CycleType, Doing
<1> QED BY <1>2, CycleWritesKeeps DEF ApprovePlan, AtStatement

LEMMA ExecutePlanKeeps == ASSUME PlanInv, ExecutePlan PROVE PlanInv'
<1> DEFINE pc1 == "send"
           d == [cycle EXCEPT !.pc = pc1, !.next = 1]
<1>1. cycle' = d /\ cycle \in CycleType /\ pc1 \in Doing
  BY DEF ExecutePlan, PlanInv, Doing
<1>2. d \in CycleType /\ d.pc = pc1 /\ d.plan = cycle.plan /\ d.phase = cycle.phase
  <2> HIDE DEF pc1
  <2> QED BY <1>1 DEF CycleType
<1> HIDE DEF d
<1> QED BY <1>1, <1>2, CycleWritesKeeps DEF ExecutePlan, AtStatement

\* A plan that did not exist is created as a draft.
LEMMA DraftKeeps ==
  ASSUME PlanInv, AtStatement("create"), DraftWritten, UNCHANGED <<request, raced>>,
         \/ cycle' = NextPlan(cycle)
         \/ cycle' = [NextPlan(cycle) EXCEPT !.broken = TRUE]
         \/ cycle' = [cycle EXCEPT !.pc = "approve"]
  PROVE  PlanInv' /\ Abstract!Next
<1>1. PICK R, A : plan \in PlanType(R, A)
  BY DEF PlanInv
<1>2. /\ cycle.pc = "create" /\ cycle \in CycleType /\ cycle.plan \in Plans
      /\ plan[cycle.plan].status = "none"
  BY DEF AtStatement, PlanInv, CycleAtPlan, Doing
<1> DEFINE r == Scouted[cycle.visits].report
           a == Scouted[cycle.visits].assignments
           x == [status |-> "draft", report |-> r, assignments |-> a]
<1>3. plan' = [plan EXCEPT ![cycle.plan] = x]
  BY DEF DraftWritten
<1>4. /\ plan' \in PlanType(R \cup {r}, A \cup {a})
      /\ plan'[cycle.plan].status = "draft"
      /\ \A p \in Plans : p # cycle.plan => plan'[p] = plan[p]
  <2>1. x \in [status : Written \cup {"none"}, report : R \cup {r}, assignments : A \cup {a}]
        /\ x.status = "draft"
    <3> HIDE DEF r, a
    <3> QED BY DEF Written
  <2>2. plan \in PlanType(R \cup {r}, A \cup {a})
    <3> HIDE DEF r, a
    <3> QED BY <1>1 DEF PlanType
  <2> HIDE DEF x
  <2> QED BY <1>2, <1>3, <2>1, <2>2 DEF PlanType
<1>5. cycle' \in CycleType /\ CycleAtPlan' /\ PhaseFirst'
  <2>1. \A p \in Plans : p > cycle.plan => plan'[p].status = plan[p].status
    BY <1>2, <1>4 DEF Plans
  <2>2. CASE cycle' = NextPlan(cycle) \/ cycle' = [NextPlan(cycle) EXCEPT !.broken = TRUE]
    <3>1. /\ cycle' \in CycleType /\ cycle'.plan = cycle.plan + 1 /\ cycle'.phase = cycle.phase
          /\ cycle'.pc = IF cycle.plan = NumPlans THEN "phases" ELSE "scout"
      BY <1>2, <2>2, GivenUp
    <3> QED BY <1>2, <2>1, <3>1, LeavesPlan DEF Doing
  <2>3. CASE cycle' = [cycle EXCEPT !.pc = "approve"]
    <3>1. /\ cycle' \in CycleType /\ cycle'.pc = "approve"
          /\ cycle'.plan = cycle.plan /\ cycle'.phase = cycle.phase
      BY <1>2, <2>3 DEF CycleType, Doing
    <3> QED BY <1>2, <2>1, <3>1, StaysAtPlan DEF Doing
  <2> QED BY <2>2, <2>3
<1>6. RequestRead'
  BY <1>2, <1>4, ReadKept DEF PlanInv
<1>7. PlanInv'
  BY <1>2, <1>4, <1>5, <1>6 DEF PlanInv
<1>8. PICK p \in Plans : p = cycle.plan
  BY <1>2
<1>9. Abstract!Move(p)
  <2>1. Statuses' = [Statuses EXCEPT ![p] = "draft"]
    BY <1>2, <1>4, <1>8 DEF Statuses
  <2>2. "draft" \in Abstract!Status /\ <<Statuses[p], "draft">> \in Abstract!Lifecycle
    BY <1>2, <1>8 DEF Statuses, Abstract!Status, Abstract!Lifecycle
  <2> QED BY <1>2, <2>1, <2>2 DEF Abstract!Move, Statuses
<1>10. Abstract!Next
  BY <1>9 DEF Abstract!Next
<1> QED BY <1>7, <1>10

-----------------------------------------------------------------------------
(* The dashboard *)

LEMMA ReadPlanKeeps ==
  ASSUME PlanInv, NEW q \in Requests, NEW op \in {"approve", "cancel"}, ReadPlan(q, op)
  PROVE  PlanInv'
<1>1. PICK R, A : plan \in PlanType(R, A)
  BY DEF PlanInv
<1>2. PICK p \in Plans :
        /\ plan[p].status # "none"
        /\ request' = [request EXCEPT ![q] =
             [pc |-> IF (IF op = "approve" THEN plan[p].status = "draft"
                         ELSE plan[p].status \notin {"cancelled", "running"})
                     THEN op ELSE "done",
              plan |-> p, seen |-> plan[p].status]]
  BY DEF ReadPlan
<1> DEFINE s == plan[p].status
           goes == IF op = "approve" THEN s = "draft" ELSE s \notin {"cancelled", "running"}
           pc1 == IF goes THEN op ELSE "done"
           x == [pc |-> pc1, plan |-> p, seen |-> s]
<1>3. s \in Written
  BY <1>1, <1>2 DEF PlanType
<1>4. pc1 \in {"idle", "approve", "cancel", "done"}
  OBVIOUS
<1>5. /\ pc1 = "approve" => s = "draft"
      /\ pc1 = "cancel" => s \in {"draft", "approved"}
  BY <1>3 DEF Written
<1>6. request' = [request EXCEPT ![q] = x]
  BY <1>2
<1>7. x \in Request /\ x.pc = pc1 /\ x.plan = p /\ x.seen = s
  <2> HIDE DEF pc1, s
  <2> QED BY <1>3, <1>4 DEF Request, Status, Written, Plans
<1> HIDE DEF x
<1>8. /\ request' \in [Requests -> Request] /\ request'[q] = x
      /\ \A t \in Requests : t # q => request'[t] = request[t]
  BY <1>6, <1>7 DEF PlanInv
<1> HIDE DEF pc1
<1>9. UNCHANGED <<cycle, plan, raced>>
  BY DEF ReadPlan
<1>10. RequestRead'
  <2>1. RequestRead
    BY DEF PlanInv
  <2> QED BY <1>2, <1>5, <1>7, <1>8, <1>9, <2>1 DEF RequestRead
<1>11. CycleAtPlan' /\ PhaseFirst'
  BY <1>9 DEF PlanInv, CycleAtPlan, PhaseFirst
<1> QED BY <1>1, <1>8, <1>9, <1>10, <1>11 DEF PlanInv

LEMMA WritePlanKeeps ==
  ASSUME PlanInv, NEW q \in Requests, WritePlan(q)
  PROVE  PlanInv' /\ Abstract!Next
<1> DEFINE p == request[q].plan
           s == IF request[q].pc = "approve" THEN "approved" ELSE "cancelled"
<1>1. PICK R, A : plan \in PlanType(R, A)
  BY DEF PlanInv
<1>2. /\ request[q].pc \in {"approve", "cancel"}
      /\ p \in Plans /\ plan[p].status # "none"
      /\ request[q].pc = "approve" => request[q].seen = "draft"
      /\ request[q].pc = "cancel" => request[q].seen \in {"draft", "approved"}
  BY DEF WritePlan, PlanInv, RequestRead
<1>3. s \in {"approved", "cancelled"} /\ <<request[q].seen, s>> \in Abstract!Lifecycle
  BY <1>2 DEF Abstract!Lifecycle
<1>4. /\ StatusWritten(p, s)
      /\ raced' = (raced \/ plan[p].status # request[q].seen)
      /\ UNCHANGED cycle
  BY DEF WritePlan, StatusWritten
<1> HIDE DEF s
<1>5. Abstract!Next
  BY <1>2, <1>3, <1>4, WriteIsLifecycle
<1>6. /\ plan' \in PlanType(R, A) /\ plan'[p].status = s
      /\ \A r \in Plans : r # p => plan'[r] = plan[r]
  BY <1>1, <1>2, <1>3, <1>4, WriteKeeps DEF Written
<1>7. \A r \in Plans : /\ plan[r].status = "none" => plan'[r].status = "none"
                       /\ plan[r].status # "none" => plan'[r].status # "none"
  BY <1>2, <1>3, <1>6
<1>8. CycleAtPlan' /\ PhaseFirst'
  BY <1>4, <1>7 DEF PlanInv, CycleAtPlan, PhaseFirst, Doing
<1>9. /\ request' \in [Requests -> Request] /\ request'[q].pc = "done"
      /\ \A t \in Requests : t # q => request'[t] = request[t]
  <2>1. request[q] \in Request /\ request \in [Requests -> Request]
    BY DEF PlanInv
  <2> DEFINE x == [request[q] EXCEPT !.pc = "done"]
  <2>2. x \in Request /\ x.pc = "done"
    BY <2>1 DEF Request
  <2>3. request' = [request EXCEPT ![q] = x]
    BY DEF WritePlan
  <2> HIDE DEF x
  <2> QED BY <2>1, <2>2, <2>3
<1>10. RequestRead'
  <2>1. RequestRead
    BY DEF PlanInv
  <2> QED BY <1>7, <1>9, <2>1 DEF RequestRead
<1>11. raced' \in BOOLEAN
  BY <1>4 DEF PlanInv
<1>12. PlanInv'
  BY <1>4, <1>6, <1>8, <1>9, <1>10, <1>11 DEF PlanInv
<1> QED BY <1>5, <1>12

-----------------------------------------------------------------------------

Stutters == UNCHANGED <<Statuses, raced>>

LEMMA WorkersLeavePlans ==
  ASSUME PlanInv, NEW p \in Plans, NEW w \in Workers, WorkerStep(p, w) \/ WorkerFault(p, w)
  PROVE  UNCHANGED <<cycle, plan, request, raced>>
  BY DEF WorkerStep, WorkerFault, OpenJob, Scrape, CloseJob, ScrapeFails, ActorRaises,
         TimeLimit, WorkerCrash

LEMMA NothingWritten ==
  ASSUME PlanInv, UNCHANGED <<cycle, plan, request, raced>> PROVE PlanInv'
<1>1. PICK R, A : plan \in PlanType(R, A)
  BY DEF PlanInv
<1> QED BY <1>1 DEF PlanInv, CycleAtPlan, PhaseFirst, RequestRead

\* A step of the cycle that writes no status.
LEMMA OtherCycleSteps ==
  ASSUME PlanInv, ScoutPortal \/ ScoutFails \/ SendTask \/ SendFails
                  \/ StatementFails \/ RunPhase \/ PhaseFails
  PROVE  PlanInv' /\ UNCHANGED <<plan, raced>>
<1>1. UNCHANGED <<plan, raced>>
  BY DEF ScoutPortal, ScoutFails, SendTask, SendFails, StatementFails, RunPhase, PhaseFails
<1>2. ASSUME ScoutPortal PROVE PlanInv'
  BY <1>2, ScoutPortalKeeps
<1>3. ASSUME SendTask PROVE PlanInv'
  BY <1>3, SendTaskKeeps
<1>4. ASSUME ScoutFails \/ SendFails PROVE PlanInv'
  BY <1>4, NextPlanKeeps DEF ScoutFails, SendFails, Doing
<1>5. ASSUME StatementFails PROVE PlanInv'
  BY <1>5, NextPlanKeeps DEF StatementFails, Doing
<1>6. ASSUME RunPhase \/ PhaseFails PROVE PlanInv'
  BY <1>6, PhasesKeep
<1> QED BY <1>1, <1>2, <1>3, <1>4, <1>5, <1>6

LEMMA CycleWritesRefine ==
  ASSUME PlanInv, ApprovePlan \/ ExecutePlan
  PROVE  PlanInv' /\ Abstract!Next
<1>1. cycle.plan \in Plans
  BY DEF ApprovePlan, ExecutePlan, AtStatement, PlanInv, CycleAtPlan, Doing
<1>2. CASE ApprovePlan
  <2>1. <<"draft", "approved">> \in Abstract!Lifecycle
    BY DEF Abstract!Lifecycle
  <2>2. StatusWritten(cycle.plan, "approved") /\ raced' = (raced \/ plan[cycle.plan].status # "draft")
    BY <1>2 DEF ApprovePlan, CycleWrites, StatusWritten
  <2> QED BY <1>1, <1>2, <2>1, <2>2, ApprovePlanKeeps, WriteIsLifecycle
<1>3. CASE ExecutePlan
  <2>1. <<"approved", "running">> \in Abstract!Lifecycle
    BY DEF Abstract!Lifecycle
  <2>2. StatusWritten(cycle.plan, "running") /\ raced' = (raced \/ plan[cycle.plan].status # "approved")
    BY <1>3 DEF ExecutePlan, CycleWrites, StatusWritten
  <2> QED BY <1>1, <1>3, <2>1, <2>2, ExecutePlanKeeps, WriteIsLifecycle
<1> QED BY <1>2, <1>3

\* A status is written and the plan given up.
LEMMA WrittenLate ==
  ASSUME PlanInv, cycle.pc \in {"approve", "execute"},
         cycle' = [NextPlan(cycle) EXCEPT !.broken = TRUE], UNCHANGED request,
         NEW seen, NEW s \in {"approved", "running"}, CycleWrites(seen, s),
         <<seen, s>> \in Abstract!Lifecycle
  PROVE  PlanInv' /\ Abstract!Next
<1>1. PICK R, A : plan \in PlanType(R, A)
  BY DEF PlanInv
<1>2. cycle \in CycleType /\ cycle.plan \in Plans /\ cycle.pc \in Doing
  BY DEF PlanInv, CycleAtPlan, Doing
<1>3. StatusWritten(cycle.plan, s) /\ raced' = (raced \/ plan[cycle.plan].status # seen)
  BY DEF CycleWrites, StatusWritten
<1>4. /\ plan' \in PlanType(R, A)
      /\ plan'[cycle.plan].status = s
      /\ \A r \in Plans : r # cycle.plan => plan'[r] = plan[r]
  BY <1>1, <1>2, <1>3, WriteKeeps DEF Written
<1>5. /\ cycle' \in CycleType /\ cycle'.plan = cycle.plan + 1 /\ cycle'.phase = cycle.phase
      /\ cycle'.pc = IF cycle.plan = NumPlans THEN "phases" ELSE "scout"
  BY <1>2, GivenUp
<1>6. CycleAtPlan' /\ PhaseFirst'
  BY <1>2, <1>4, <1>5, LeavesPlan DEF Plans
<1>7. RequestRead'
  BY <1>4, ReadKept DEF PlanInv
<1>8. raced' \in BOOLEAN
  BY <1>3 DEF PlanInv
<1>9. PlanInv'
  BY <1>4, <1>5, <1>6, <1>7, <1>8 DEF PlanInv
<1>10. Abstract!Next
  BY <1>2, <1>3, WriteIsLifecycle
<1> QED BY <1>9, <1>10

LEMMA LateFailureRefines ==
  ASSUME PlanInv, StatementFailsLate
  PROVE  PlanInv' /\ Abstract!Next
<1>1. cycle' = [NextPlan(cycle) EXCEPT !.broken = TRUE] /\ UNCHANGED request
  BY DEF StatementFailsLate
<1>2. CASE AtStatement("create") /\ DraftWritten /\ UNCHANGED raced
  BY <1>1, <1>2, DraftKeeps
<1>3. CASE AtStatement("approve") /\ CycleWrites("draft", "approved")
  <2>1. <<"draft", "approved">> \in Abstract!Lifecycle /\ cycle.pc = "approve"
    BY <1>3 DEF Abstract!Lifecycle, AtStatement
  <2> QED BY <1>1, <1>3, <2>1, WrittenLate
<1>4. CASE AtStatement("execute") /\ CycleWrites("approved", "running")
  <2>1. <<"approved", "running">> \in Abstract!Lifecycle /\ cycle.pc = "execute"
    BY <1>4 DEF Abstract!Lifecycle, AtStatement
  <2> QED BY <1>1, <1>4, <2>1, WrittenLate
<1> QED BY <1>2, <1>3, <1>4 DEF StatementFailsLate

LEMMA StepRefines == PlanInv /\ [Next]_vars => PlanInv' /\ (Abstract!Next \/ Stutters)
<1> SUFFICES ASSUME PlanInv, [Next]_vars PROVE PlanInv' /\ (Abstract!Next \/ Stutters)
  OBVIOUS
<1>1. UNCHANGED <<plan, raced>> => Stutters
  BY DEF Stutters, Statuses
<1>2. CASE ScoutPortal \/ ScoutFails \/ SendTask \/ SendFails
           \/ StatementFails \/ RunPhase \/ PhaseFails
  BY <1>1, <1>2, OtherCycleSteps
<1>3. CASE CreatePlan
  <2>1. /\ AtStatement("create") /\ DraftWritten /\ UNCHANGED <<request, raced>>
        /\ cycle' = NextPlan(cycle) \/ cycle' = [cycle EXCEPT !.pc = "approve"]
    BY <1>3 DEF CreatePlan
  <2> QED BY <2>1, DraftKeeps
<1>4. CASE ApprovePlan \/ ExecutePlan
  BY <1>4, CycleWritesRefine
<1>5. CASE Dashboard
  <2>1. PICK q \in Requests : WritePlan(q) \/ \E op \in {"approve", "cancel"} : ReadPlan(q, op)
    BY <1>5 DEF Dashboard
  <2>2. CASE WritePlan(q)
    BY <2>2, WritePlanKeeps
  <2>3. CASE \E op \in {"approve", "cancel"} : ReadPlan(q, op)
    <3>1. UNCHANGED <<plan, raced>>
      BY <2>3 DEF ReadPlan
    <3> QED BY <1>1, <2>3, <3>1, ReadPlanKeeps
  <2> QED BY <2>1, <2>2, <2>3
<1>6. CASE \E p \in Plans, w \in Workers : WorkerStep(p, w) \/ WorkerFault(p, w)
  BY <1>1, <1>6, WorkersLeavePlans, NothingWritten
<1>7. CASE UNCHANGED vars
  BY <1>1, <1>7, NothingWritten DEF vars
<1>8. CASE StatementFailsLate
  BY <1>8, LateFailureRefines
<1> QED BY <1>2, <1>3, <1>4, <1>5, <1>6, <1>7, <1>8 DEF Next, CycleStep

LEMMA InitPlan == Init => PlanInv /\ Abstract!Init
<1> SUFFICES ASSUME Init PROVE PlanInv /\ Abstract!Init
  OBVIOUS
<1>1. plan \in PlanType({<<>>}, {<<>>}) /\ \A p \in Plans : plan[p].status = "none"
  BY DEF Init, PlanType
<1>2. cycle \in CycleType /\ cycle.pc = "scout" /\ cycle.plan = 1 /\ cycle.phase = 1
  BY DEF Init, CycleType, Doing
<1>3. 1 \in Plans
  BY NumPlansAssumption DEF Plans
<1>4. request \in [Requests -> Request] /\ \A q \in Requests : request[q].pc = "idle"
  BY DEF Init, Request, Status
<1>5. raced = FALSE
  BY DEF Init
<1>6. CycleAtPlan /\ PhaseFirst /\ RequestRead
  BY <1>1, <1>2, <1>3, <1>4 DEF CycleAtPlan, PhaseFirst, RequestRead, Doing
<1>7. Abstract!Init
  BY <1>1, <1>5 DEF Abstract!Init
<1> QED BY <1>1, <1>2, <1>4, <1>5, <1>6, <1>7 DEF PlanInv

\* Refinement: for any number of plans, any reports, requests and faults, every write of a
\* status follows the life cycle, unless its writer had not read the status it overwrites.
THEOREM LifecycleImplemented == Spec => LifecycleKept
<1>1. PlanInv /\ [Next]_vars => [Abstract!Next]_(<<Statuses, raced>>)
  BY StepRefines DEF Stutters
<1>2. PlanInv /\ [Next]_vars => PlanInv'
  BY StepRefines
<1> QED BY InitPlan, <1>1, <1>2, PTL DEF Spec, LifecycleKept, Abstract!Spec, Abstract!vars, Statuses

-----------------------------------------------------------------------------
(* The rows of the jobs *)

Faults == used["error"] + used["timeLimit"] + used["crash"]

\* A worker has the message of a task in hand.
InHand == {"working", "closing"}

\* Abandoned, of the task t.
LeftBy(t) ==
  {i \in DOMAIN t.rows : t.rows[i] = "running" /\ ~(i = Len(t.rows) /\ t.pc \in InHand)}

LeftOf(T) == UNION {{p} \X {w} \X LeftBy(T[p][w]) : p \in Plans, w \in Workers}
Left == LeftOf(task)

JobTypes ==
  /\ task \in [Plans -> [Workers -> Task]]
  /\ used \in [EnvEvents -> Nat] /\ \A e \in EnvEvents : used[e] \in 0 .. Bound[e]

\* The cycle has not come to the message of w for p.
NotYetSent(p, w) ==
  /\ cycle.pc \in Doing
  /\ p > cycle.plan \/ (p = cycle.plan /\ (cycle.pc # "send" \/ w >= cycle.next))

Unsent == \A p \in Plans, w \in Workers : NotYetSent(p, w) => task[p][w].pc = "none"

\* A task in hand has the row of its attempt, and an outcome when it is to be closed.
RowInHand ==
  \A p \in Plans, w \in Workers :
    /\ task[p][w].pc \in InHand => task[p][w].rows # <<>>
    /\ task[p][w].pc = "closing" => task[p][w].outcome # "none"

\* The inductive invariant of the jobs, beside PlanInv.
JobsInv ==
  /\ JobTypes /\ Unsent /\ RowInHand
  /\ IsFiniteSet(Left) /\ Cardinality(Left) =< Faults

LEMMA LeftMember ==
  ASSUME NEW T, NEW x
  PROVE  x \in LeftOf(T) <=> \E p \in Plans, w \in Workers : \E i \in LeftBy(T[p][w]) : x = <<p, w, i>>
<1> DEFINE Z == {{p} \X {w} \X LeftBy(T[p][w]) : p \in Plans, w \in Workers}
<1>1. \A p \in Plans, w \in Workers : {p} \X {w} \X LeftBy(T[p][w]) \in Z
  OBVIOUS
<1>2. \A S \in Z : \E p \in Plans, w \in Workers : S = {p} \X {w} \X LeftBy(T[p][w])
  OBVIOUS
<1>3. LeftOf(T) = UNION Z
  BY DEF LeftOf
<1> HIDE DEF Z
<1>4. x \in LeftOf(T) <=> \E S \in Z : x \in S
  BY <1>3
<1>5. ASSUME NEW p, NEW w, NEW S
      PROVE  x \in {p} \X {w} \X S <=> \E i \in S : x = <<p, w, i>>
  OBVIOUS
<1>6. ASSUME x \in LeftOf(T)
      PROVE  \E p \in Plans, w \in Workers : \E i \in LeftBy(T[p][w]) : x = <<p, w, i>>
  <2>1. PICK S \in Z : x \in S
    BY <1>4, <1>6
  <2>2. PICK p \in Plans, w \in Workers : S = {p} \X {w} \X LeftBy(T[p][w])
    BY <1>2
  <2> QED BY <1>5, <2>1, <2>2
<1>7. ASSUME NEW p \in Plans, NEW w \in Workers, NEW i \in LeftBy(T[p][w]), x = <<p, w, i>>
      PROVE  x \in LeftOf(T)
  <2>1. {p} \X {w} \X LeftBy(T[p][w]) \in Z
    BY <1>1
  <2> QED BY <1>4, <1>5, <1>7, <2>1
<1> QED BY <1>6, <1>7

\* The bounds on the environment after a step.
LEMMA SpendCounts ==
  ASSUME JobTypes, NEW e \in EnvEvents, Spend(e)
  PROVE  /\ used' \in [EnvEvents -> Nat] /\ \A x \in EnvEvents : used'[x] \in 0 .. Bound[x]
         /\ Faults \in Nat /\ Faults' \in Nat /\ Faults' >= Faults
         /\ e \in {"error", "timeLimit", "crash"} => Faults' = Faults + 1
<1>1. /\ used \in [EnvEvents -> Nat] /\ Bound \in [EnvEvents -> Nat]
      /\ \A x \in EnvEvents : used[x] \in 0 .. Bound[x]
  BY BoundAssumption DEF JobTypes
<1>2. used' = [used EXCEPT ![e] = used[e] + 1] /\ used[e] < Bound[e]
  BY DEF Spend
<1>3. \A x \in EnvEvents : used'[x] = IF x = e THEN used[x] + 1 ELSE used[x]
  BY <1>1, <1>2
<1>4. used' \in [EnvEvents -> Nat]
  BY <1>1, <1>2
<1>5. \A x \in EnvEvents : used'[x] \in 0 .. Bound[x]
  <2> SUFFICES ASSUME NEW x \in EnvEvents PROVE used'[x] \in 0 .. Bound[x]
    OBVIOUS
  <2>1. Bound[x] \in Nat /\ used[x] \in 0 .. Bound[x]
    BY <1>1
  <2> QED BY <1>2, <1>3, <2>1
<1>6. {"error", "timeLimit", "crash"} \subseteq EnvEvents
  BY DEF EnvEvents
<1>7. /\ used["error"] \in Nat /\ used["timeLimit"] \in Nat /\ used["crash"] \in Nat
      /\ used'["error"] = IF "error" = e THEN used["error"] + 1 ELSE used["error"]
      /\ used'["timeLimit"] = IF "timeLimit" = e THEN used["timeLimit"] + 1 ELSE used["timeLimit"]
      /\ used'["crash"] = IF "crash" = e THEN used["crash"] + 1 ELSE used["crash"]
  BY <1>1, <1>3, <1>6
<1> QED BY <1>4, <1>5, <1>7 DEF Faults

\* t may take the place of the task of w for p.
FitTask(p, w, t) ==
  /\ t \in Task
  /\ t.pc # "none"
  /\ t.pc \in InHand => t.rows # <<>>
  /\ t.pc = "closing" => t.outcome # "none"

\* A task moves and leaves at most the row k behind, at the cost of a fault.
LEMMA TaskMoves ==
  ASSUME JobsInv, NEW p \in Plans, NEW w \in Workers, NEW t, SetTask(p, w, t), FitTask(p, w, t),
         task[p][w].pc # "none", UNCHANGED cycle, NEW k, LeftBy(t) \subseteq LeftBy(task[p][w]) \cup {k},
         used' \in [EnvEvents -> Nat], \A x \in EnvEvents : used'[x] \in 0 .. Bound[x],
         Faults \in Nat, Faults' \in Nat, Faults' >= Faults,
         LeftBy(t) \subseteq LeftBy(task[p][w]) \/ Faults' = Faults + 1
  PROVE  JobsInv'
<1>1. task \in [Plans -> [Workers -> Task]]
  BY DEF JobsInv, JobTypes
<1>2. task' = [task EXCEPT ![p] = [task[p] EXCEPT ![w] = t]]
  BY DEF SetTask
<1>3. task' \in [Plans -> [Workers -> Task]]
  BY <1>1, <1>2 DEF FitTask
<1>4. \A q \in Plans, v \in Workers : task'[q][v] = IF q = p /\ v = w THEN t ELSE task[q][v]
  BY <1>1, <1>2
<1>5. JobTypes'
  BY <1>3 DEF JobTypes
<1>6. Unsent'
  <2>1. ASSUME NEW q \in Plans, NEW v \in Workers, NotYetSent(q, v)'
        PROVE  task'[q][v].pc = "none"
    <3>1. NotYetSent(q, v)
      BY <2>1 DEF NotYetSent
    <3>2. task[q][v].pc = "none"
      BY <3>1 DEF JobsInv, Unsent
    <3> QED BY <1>4, <3>2
  <2> QED BY <2>1 DEF Unsent
<1>7. RowInHand'
  BY <1>4 DEF JobsInv, RowInHand, FitTask
<1>8. Left' \subseteq Left \cup {<<p, w, k>>}
  <2> SUFFICES ASSUME NEW x \in Left' PROVE x \in Left \/ x = <<p, w, k>>
    OBVIOUS
  <2>1. PICK q \in Plans, v \in Workers : \E i \in LeftBy(task'[q][v]) : x = <<q, v, i>>
    BY LeftMember DEF Left
  <2>2. PICK i \in LeftBy(task'[q][v]) : x = <<q, v, i>>
    BY <2>1
  <2>3. CASE i \in LeftBy(task[q][v])
    BY <2>2, <2>3, LeftMember DEF Left
  <2>4. CASE i \notin LeftBy(task[q][v])
    <3>1. q = p /\ v = w /\ task'[q][v] = t
      BY <1>4, <2>2, <2>4
    <3>2. i = k
      BY <2>2, <2>4, <3>1
    <3> QED BY <2>2, <3>1, <3>2
  <2> QED BY <2>3, <2>4
<1>9. LeftBy(t) \subseteq LeftBy(task[p][w]) => Left' \subseteq Left
  <2> SUFFICES ASSUME LeftBy(t) \subseteq LeftBy(task[p][w]), NEW x \in Left' PROVE x \in Left
    OBVIOUS
  <2>1. PICK q \in Plans, v \in Workers : \E i \in LeftBy(task'[q][v]) : x = <<q, v, i>>
    BY LeftMember DEF Left
  <2>2. PICK i \in LeftBy(task'[q][v]) : x = <<q, v, i>>
    BY <2>1
  <2>3. i \in LeftBy(task[q][v])
    BY <1>4, <2>2
  <2> QED BY <2>2, <2>3, LeftMember DEF Left
<1>10. IsFiniteSet(Left') /\ Cardinality(Left') =< Faults'
  <2>1. IsFiniteSet(Left) /\ Cardinality(Left) \in Nat /\ Cardinality(Left) =< Faults
    BY FS_CardinalityType DEF JobsInv
  <2>2. /\ IsFiniteSet(Left \cup {<<p, w, k>>})
        /\ Cardinality(Left \cup {<<p, w, k>>}) =< Cardinality(Left) + 1
        /\ Cardinality(Left \cup {<<p, w, k>>}) \in Nat
    <3>1. PICK x : x = <<p, w, k>>
      OBVIOUS
    <3>2. IsFiniteSet(Left \cup {x}) /\ Cardinality(Left \cup {x}) =< Cardinality(Left) + 1
      <4>1. /\ IsFiniteSet(Left \cup {x})
            /\ Cardinality(Left \cup {x}) = IF x \in Left THEN Cardinality(Left) ELSE Cardinality(Left) + 1
        BY <2>1, FS_AddElement
      <4> QED BY <2>1, <4>1
    <3>3. Cardinality(Left \cup {x}) \in Nat
      BY <3>2, FS_CardinalityType
    <3> QED BY <3>1, <3>2, <3>3
  <2>3. IsFiniteSet(Left') /\ Cardinality(Left') =< Cardinality(Left) + 1 /\ Cardinality(Left') \in Nat
    BY <1>8, <2>1, <2>2, FS_Subset, FS_CardinalityType
  <2>4. CASE LeftBy(t) \subseteq LeftBy(task[p][w])
    <3>1. Cardinality(Left') =< Cardinality(Left)
      BY <1>9, <2>1, <2>4, FS_Subset
    <3> QED BY <2>1, <2>3, <3>1
  <2>5. CASE Faults' = Faults + 1
    BY <2>1, <2>3, <2>5
  <2> QED BY <2>4, <2>5
<1> QED BY <1>5, <1>6, <1>7, <1>10 DEF JobsInv

\* A step of a worker that needs no fault.
LEMMA WorkerGoes ==
  ASSUME JobsInv, NEW p \in Plans, NEW w \in Workers, NEW t, SetTask(p, w, t), FitTask(p, w, t),
         task[p][w].pc # "none", UNCHANGED cycle, LeftBy(t) \subseteq LeftBy(task[p][w]),
         used' = used \/ Spend("raise")
  PROVE  JobsInv'
<1>1. "raise" \in EnvEvents /\ JobTypes
  BY DEF EnvEvents, JobsInv
<1>2. Faults \in Nat /\ used \in [EnvEvents -> Nat] /\ \A x \in EnvEvents : used[x] \in 0 .. Bound[x]
  BY <1>1 DEF JobTypes, Faults, EnvEvents
<1>3. /\ used' \in [EnvEvents -> Nat] /\ \A x \in EnvEvents : used'[x] \in 0 .. Bound[x]
      /\ Faults' \in Nat /\ Faults' >= Faults
  <2>1. CASE used' = used
    BY <1>2, <2>1 DEF Faults
  <2>2. CASE Spend("raise")
    BY <1>1, <2>2, SpendCounts
  <2> QED BY <2>1, <2>2
<1>4. LeftBy(t) \subseteq LeftBy(task[p][w]) \cup {0}
  OBVIOUS
<1> QED BY <1>2, <1>3, <1>4, TaskMoves

\* A fault takes a task out of the worker's hand, or back from the queue.
LEMMA WorkerFails ==
  ASSUME JobsInv, NEW p \in Plans, NEW w \in Workers, NEW t, SetTask(p, w, t),
         t \in Task, t.pc \in {"queued", "dead"},
         LeftBy(t) \subseteq LeftBy(task[p][w]) \cup {Len(t.rows)},
         task[p][w].pc # "none", UNCHANGED cycle,
         NEW e \in {"error", "timeLimit", "crash"}, Spend(e)
  PROVE  JobsInv'
<1>1. e \in EnvEvents /\ JobTypes
  BY DEF EnvEvents, JobsInv
<1>2. /\ used' \in [EnvEvents -> Nat] /\ \A x \in EnvEvents : used'[x] \in 0 .. Bound[x]
      /\ Faults \in Nat /\ Faults' \in Nat /\ Faults' >= Faults /\ Faults' = Faults + 1
  BY <1>1, SpendCounts
<1>3. FitTask(p, w, t)
  BY DEF FitTask, InHand
<1> QED BY <1>2, <1>3, TaskMoves

JobStatus == {"running", "completed", "failed"}

LEMMA OpenJobKeeps ==
  ASSUME JobsInv, NEW p \in Plans, NEW w \in Workers, OpenJob(p, w) PROVE JobsInv'
<1> DEFINE old == task[p][w]
<1>1. old \in Task /\ old.pc = "queued" /\ old.rows \in Seq(JobStatus)
  BY DEF OpenJob, JobsInv, JobTypes, Task, JobStatus
<1>2. PICK r, t, pc, o : /\ r = Append(old.rows, "running") /\ pc = "working" /\ o = "none"
                         /\ t = [old EXCEPT !.pc = pc, !.outcome = o, !.rows = r]
  OBVIOUS
<1>3. SetTask(p, w, t)
  BY <1>2 DEF OpenJob
<1>4. /\ r \in Seq(JobStatus) /\ Len(r) = Len(old.rows) + 1 /\ Len(old.rows) \in Nat
      /\ \A i \in 1 .. Len(old.rows) : r[i] = old.rows[i]
  BY <1>1, <1>2 DEF JobStatus
<1>5. t \in Task /\ t.rows = r /\ t.pc = "working"
  BY <1>1, <1>2, <1>4 DEF Task, JobStatus
<1>6. DOMAIN r = 1 .. Len(r) /\ DOMAIN old.rows = 1 .. Len(old.rows)
  BY <1>1, <1>4
<1>7. r # <<>>
  BY <1>4, <1>6
<1>8. LeftBy(t) \subseteq LeftBy(old)
  <2> SUFFICES ASSUME NEW i \in LeftBy(t) PROVE i \in LeftBy(old)
    OBVIOUS
  <2>1. i \in 1 .. Len(r) /\ r[i] = "running" /\ i # Len(r)
    BY <1>5, <1>6 DEF LeftBy, InHand
  <2>2. i \in 1 .. Len(old.rows) /\ old.rows[i] = "running"
    BY <1>4, <2>1
  <2> QED BY <1>1, <1>6, <2>2 DEF LeftBy, InHand
<1>9. FitTask(p, w, t) /\ UNCHANGED <<cycle, used>>
  BY <1>5, <1>7 DEF FitTask, OpenJob
<1> QED BY <1>1, <1>3, <1>8, <1>9, WorkerGoes

LEMMA ScrapeKeeps ==
  ASSUME JobsInv, NEW p \in Plans, NEW w \in Workers,
         Scrape(p, w) \/ ScrapeFails(p, w), Scrape(p, w) => StatesOf(p, w) \subseteq StateSet
  PROVE  JobsInv'
<1> DEFINE old == task[p][w]
<1>1. old \in Task /\ old.pc = "working" /\ old.rows # <<>> /\ UNCHANGED cycle
  BY DEF Scrape, ScrapeFails, JobsInv, JobTypes, RowInHand, InHand
<1>2. \E t \in Task : /\ SetTask(p, w, t) /\ t.rows = old.rows /\ t.pc = "closing"
                      /\ t.outcome # "none"
  <2>1. CASE Scrape(p, w)
    <3>1. PICK c, pc, o, t : /\ c = old.covered \cup StatesOf(p, w) /\ pc = "closing" /\ o = "completed"
                             /\ t = [old EXCEPT !.pc = pc, !.outcome = o, !.covered = c]
      OBVIOUS
    <3>2. SetTask(p, w, t)
      BY <2>1, <3>1 DEF Scrape
    <3>3. c \in SUBSET StateSet
      BY <1>1, <2>1, <3>1 DEF Task
    <3>4. t \in Task /\ t.rows = old.rows /\ t.pc = "closing" /\ t.outcome = "completed"
      BY <1>1, <3>1, <3>3 DEF Task
    <3> QED BY <3>2, <3>4
  <2>2. CASE ScrapeFails(p, w)
    <3>1. PICK pc, o, t : pc = "closing" /\ o = "failed" /\ t = [old EXCEPT !.pc = pc, !.outcome = o]
      OBVIOUS
    <3>2. SetTask(p, w, t)
      BY <2>2, <3>1 DEF ScrapeFails
    <3>3. t \in Task /\ t.rows = old.rows /\ t.pc = "closing" /\ t.outcome = "failed"
      BY <1>1, <3>1 DEF Task
    <3> QED BY <3>2, <3>3
  <2> QED BY <2>1, <2>2
<1>3. PICK t \in Task : /\ SetTask(p, w, t) /\ t.rows = old.rows /\ t.pc = "closing"
                        /\ t.outcome # "none"
  BY <1>2
<1>4. FitTask(p, w, t) /\ LeftBy(t) \subseteq LeftBy(old)
  BY <1>1, <1>3 DEF FitTask, LeftBy, InHand
<1>5. used' = used \/ Spend("raise")
  BY DEF Scrape, ScrapeFails
<1> QED BY <1>1, <1>3, <1>4, <1>5, WorkerGoes

LEMMA CloseJobKeeps ==
  ASSUME JobsInv, NEW p \in Plans, NEW w \in Workers, CloseJob(p, w) PROVE JobsInv'
<1> DEFINE old == task[p][w]
<1>1. /\ old \in Task /\ old.pc = "closing" /\ old.rows \in Seq(JobStatus) /\ old.rows # <<>>
      /\ old.outcome \in {"completed", "failed"}
  BY DEF CloseJob, JobsInv, JobTypes, Task, JobStatus, RowInHand, InHand
<1>2. PICK n, r, t, pc : /\ n = Len(old.rows) /\ pc = "acked"
                         /\ r = [old.rows EXCEPT ![n] = old.outcome]
                         /\ t = [old EXCEPT !.pc = pc, !.rows = r]
  OBVIOUS
<1>3. SetTask(p, w, t)
  BY <1>2 DEF CloseJob
<1>4. n \in Nat /\ DOMAIN old.rows = 1 .. n /\ n > 0
  BY <1>1, <1>2
<1>5. old.rows \in [1 .. n -> JobStatus] /\ old.outcome \in JobStatus
  BY <1>1, <1>4 DEF JobStatus
<1>6. r \in [1 .. n -> JobStatus] /\ \A i \in 1 .. n : r[i] = IF i = n THEN old.outcome ELSE old.rows[i]
  BY <1>2, <1>4, <1>5
<1>7. r \in Seq(JobStatus) /\ DOMAIN r = 1 .. n
  BY <1>4, <1>6
<1>8. t \in Task /\ t.rows = r /\ t.pc = "acked"
  BY <1>1, <1>2, <1>7 DEF Task, JobStatus
<1>9. LeftBy(t) \subseteq LeftBy(old)
  <2> SUFFICES ASSUME NEW i \in LeftBy(t) PROVE i \in LeftBy(old)
    OBVIOUS
  <2>1. i \in 1 .. n /\ r[i] = "running"
    BY <1>7, <1>8 DEF LeftBy
  <2>2. i # n /\ old.rows[i] = "running"
    BY <1>1, <1>6, <2>1
  <2> QED BY <1>2, <1>4, <2>1, <2>2 DEF LeftBy
<1>10. FitTask(p, w, t) /\ UNCHANGED <<cycle, used>>
  BY <1>8 DEF FitTask, CloseJob, InHand
<1> QED BY <1>1, <1>3, <1>9, <1>10, WorkerGoes

\* A retried task keeps its rows and what it covered.
LEMMA RetriedTask ==
  ASSUME NEW t \in Task
  PROVE  /\ Retried(t) \in Task /\ Retried(t).pc \in {"queued", "dead"}
         /\ Retried(t).rows = t.rows /\ Retried(t).covered = t.covered
<1>1. PICK n, pc, dead, a, b : /\ n = t.tries + 1 /\ pc = "queued" /\ dead = "dead"
                               /\ a = [t EXCEPT !.pc = pc, !.tries = n]
                               /\ b = [t EXCEPT !.pc = dead]
  OBVIOUS
<1>2. n \in Nat
  BY <1>1 DEF Task
<1>3. a \in Task /\ a.rows = t.rows /\ a.pc = "queued" /\ a.covered = t.covered
  BY <1>1, <1>2 DEF Task
<1>4. b \in Task /\ b.rows = t.rows /\ b.pc = "dead" /\ b.covered = t.covered
  BY <1>1 DEF Task
<1>5. Retried(t) \in {a, b}
  BY <1>1 DEF Retried
<1> QED BY <1>3, <1>4, <1>5

\* Whether its commit was done or not, a raising attempt has rows of which at most the last
\* is newly left running.
LEMMA RowsLeftKeep ==
  ASSUME JobsInv, NEW p \in Plans, NEW w \in Workers, task[p][w].pc \in {"queued", "closing"},
         NEW rows \in RowsLeft(task[p][w])
  PROVE  /\ rows \in Seq(JobStatus)
         /\ \A i \in DOMAIN rows : /\ rows[i] = "running" /\ i # Len(rows)
                                    => i \in LeftBy(task[p][w])
<1> DEFINE old == task[p][w]
<1>1. old \in Task /\ old.rows \in Seq(JobStatus) /\ old.outcome \in {"none", "completed", "failed"}
  BY DEF JobsInv, JobTypes, Task, JobStatus
<1>2. PICK n : n = Len(old.rows) /\ n \in Nat /\ DOMAIN old.rows = 1 .. n
  BY <1>1
<1>3. \A i \in 1 .. n : old.rows[i] = "running" /\ i # n => i \in LeftBy(old)
  BY <1>2 DEF LeftBy, InHand
<1>4. CASE rows = old.rows
  BY <1>1, <1>2, <1>3, <1>4
<1>5. CASE old.pc = "queued" /\ rows = Append(old.rows, "running")
  <2>1. /\ rows \in Seq(JobStatus) /\ Len(rows) = n + 1 /\ DOMAIN rows = 1 .. (n + 1)
        /\ \A i \in 1 .. n : rows[i] = old.rows[i]
    BY <1>1, <1>2, <1>5 DEF JobStatus
  <2>2. \A i \in 1 .. n : old.rows[i] = "running" => i \in LeftBy(old)
    BY <1>2, <1>5 DEF LeftBy, InHand
  <2> QED BY <1>2, <2>1, <2>2
<1>6. CASE old.pc = "closing" /\ rows = [old.rows EXCEPT ![Len(old.rows)] = old.outcome]
  <2>1. old.outcome \in JobStatus
    BY <1>1, <1>6 DEF JobsInv, RowInHand, JobStatus
  <2>2. old.rows \in [1 .. n -> JobStatus] /\ rows = [old.rows EXCEPT ![n] = old.outcome]
    BY <1>1, <1>2, <1>6
  <2>3. rows \in [1 .. n -> JobStatus] /\ \A i \in 1 .. n : i # n => rows[i] = old.rows[i]
    BY <2>1, <2>2
  <2>4. rows \in Seq(JobStatus) /\ Len(rows) = n /\ DOMAIN rows = 1 .. n
    BY <1>2, <2>3
  <2> QED BY <1>3, <2>3, <2>4
<1> QED BY <1>4, <1>5, <1>6 DEF RowsLeft

\* An attempt whose commit raises.
LEMMA ActorRaisesTo ==
  ASSUME JobsInv, NEW p \in Plans, NEW w \in Workers, ActorRaises(p, w)
  PROVE  \E t \in Task : /\ SetTask(p, w, t) /\ t.pc \in {"queued", "dead"}
                        /\ t.covered = task[p][w].covered
                        /\ LeftBy(t) \subseteq LeftBy(task[p][w]) \cup {Len(t.rows)}
<1> DEFINE old == task[p][w]
<1>1. old \in Task /\ old.pc \in {"queued", "closing"}
  BY DEF ActorRaises, JobsInv, JobTypes
<1>2. PICK rows \in RowsLeft(old) : SetTask(p, w, Retried([old EXCEPT !.rows = rows]))
  BY DEF ActorRaises
<1>3. /\ rows \in Seq(JobStatus)
      /\ \A i \in DOMAIN rows : rows[i] = "running" /\ i # Len(rows) => i \in LeftBy(old)
  BY <1>1, RowsLeftKeep
<1>4. PICK u : u = [old EXCEPT !.rows = rows]
  OBVIOUS
<1>5. u \in Task /\ u.rows = rows /\ u.covered = old.covered
  BY <1>1, <1>3, <1>4 DEF Task, JobStatus
<1>6. PICK t : t = Retried(u)
  OBVIOUS
<1>7. /\ t \in Task /\ t.pc \in {"queued", "dead"} /\ t.rows = rows /\ t.covered = old.covered
      /\ SetTask(p, w, t)
  BY <1>2, <1>4, <1>5, <1>6, RetriedTask
<1>8. LeftBy(t) \subseteq LeftBy(old) \cup {Len(t.rows)}
  <2> SUFFICES ASSUME NEW i \in LeftBy(t), i # Len(t.rows) PROVE i \in LeftBy(old)
    OBVIOUS
  <2>1. i \in DOMAIN rows /\ rows[i] = "running"
    BY <1>7 DEF LeftBy
  <2> QED BY <1>3, <1>7, <2>1
<1> QED BY <1>7, <1>8

\* A time limit, or the loss of the process.
LEMMA AttemptLostTo ==
  ASSUME JobsInv, NEW p \in Plans, NEW w \in Workers, TimeLimit(p, w) \/ WorkerCrash(p, w)
  PROVE  \E t \in Task : /\ SetTask(p, w, t) /\ t.pc \in {"queued", "dead"}
                        /\ t.covered = task[p][w].covered
                        /\ LeftBy(t) \subseteq LeftBy(task[p][w]) \cup {Len(t.rows)}
<1> DEFINE old == task[p][w]
<1>1. old \in Task
  BY DEF JobsInv, JobTypes
<1>2. PICK r, c, pc : r = Retried(old) /\ pc = "queued" /\ c = [old EXCEPT !.pc = pc]
  OBVIOUS
<1>3. c \in Task /\ c.pc = "queued" /\ c.rows = old.rows /\ c.covered = old.covered
  BY <1>1, <1>2 DEF Task
<1>4. r \in Task /\ r.pc \in {"queued", "dead"} /\ r.rows = old.rows /\ r.covered = old.covered
  BY <1>1, <1>2, RetriedTask
<1>5. SetTask(p, w, r) \/ SetTask(p, w, c)
  BY <1>2 DEF TimeLimit, WorkerCrash
<1>6. \A t \in {r, c} : LeftBy(t) \subseteq LeftBy(old) \cup {Len(t.rows)}
  BY <1>3, <1>4 DEF LeftBy
<1> QED BY <1>3, <1>4, <1>5, <1>6

LEMMA FaultKeeps ==
  ASSUME JobsInv, NEW p \in Plans, NEW w \in Workers,
         ActorRaises(p, w) \/ TimeLimit(p, w) \/ WorkerCrash(p, w)
  PROVE  JobsInv'
<1>1. task[p][w].pc # "none" /\ UNCHANGED cycle
  BY DEF ActorRaises, TimeLimit, WorkerCrash
<1>2. PICK e \in {"error", "timeLimit", "crash"} : Spend(e)
  BY DEF ActorRaises, TimeLimit, WorkerCrash
<1>3. PICK t \in Task : /\ SetTask(p, w, t) /\ t.pc \in {"queued", "dead"}
                       /\ LeftBy(t) \subseteq LeftBy(task[p][w]) \cup {Len(t.rows)}
  BY ActorRaisesTo, AttemptLostTo
<1> QED BY <1>1, <1>2, <1>3, WorkerFails

\* Steps that leave the tasks alone: the cycle only goes on.
LEMMA CycleGoesOn ==
  ASSUME JobsInv, UNCHANGED task, used' = used \/ \E e \in EnvEvents : Spend(e),
         \A p \in Plans, w \in Workers : NotYetSent(p, w)' => NotYetSent(p, w)
  PROVE  JobsInv'
<1>1. JobTypes
  BY DEF JobsInv
<1>2. JobTypes' /\ Faults' >= Faults /\ Faults' \in Nat /\ Faults \in Nat
  <2>1. CASE used' = used
    BY <1>1, <2>1 DEF JobTypes, Faults, EnvEvents
  <2>2. CASE \E e \in EnvEvents : Spend(e)
    BY <1>1, <2>2, SpendCounts DEF JobTypes
  <2> QED BY <2>1, <2>2
<1>3. Unsent' /\ RowInHand'
  BY DEF JobsInv, Unsent, RowInHand
<1>4. Left' = Left
  BY DEF Left
<1>5. IsFiniteSet(Left) /\ Cardinality(Left) =< Faults /\ Cardinality(Left) \in Nat
  BY FS_CardinalityType DEF JobsInv
<1> QED BY <1>2, <1>3, <1>4, <1>5 DEF JobsInv

LEMMA SendTaskKeepsJobs == ASSUME PlanInv, PlanInv', JobsInv, SendTask PROVE JobsInv'
<1> DEFINE p == cycle.plan
           w == cycle.next
<1>1. /\ cycle.pc = "send" /\ UNCHANGED used /\ cycle \in CycleType /\ p \in Plans /\ w \in Nat
      /\ task' = [task EXCEPT ![p][w].pc = "queued"]
  BY DEF SendTask, PlanInv, CycleType, CycleAtPlan, Doing
<1>2. \/ cycle' = NextPlan(cycle)
      \/ cycle' = [cycle EXCEPT !.next = w + 1]
  BY DEF SendTask
<1>3. \/ cycle'.pc \notin Doing
      \/ cycle'.pc \in Doing /\ cycle'.plan = p + 1
      \/ cycle'.pc = "send" /\ cycle'.plan = p /\ cycle'.next = w + 1
  <2>1. CASE cycle' = NextPlan(cycle)
    BY <1>1, <2>1, NextPlanMoves
  <2>2. CASE cycle' = [cycle EXCEPT !.next = w + 1]
    BY <1>1, <2>2 DEF CycleType
  <2> QED BY <1>2, <2>1, <2>2
<1>4. \A q \in Plans, v \in Workers :
        NotYetSent(q, v)' => NotYetSent(q, v) /\ ~(q = p /\ v = w)
  BY <1>1, <1>3 DEF NotYetSent, Plans, Workers, Doing
<1>5. task \in [Plans -> [Workers -> Task]]
  BY DEF JobsInv, JobTypes
<1>6. CASE w \in Workers
  <2> DEFINE old == task[p][w]
  <2>1. old \in Task /\ old.pc = "none"
    BY <1>1, <1>5, <1>6 DEF JobsInv, Unsent, NotYetSent, Doing
  <2>2. PICK pc, t : pc = "queued" /\ t = [old EXCEPT !.pc = pc]
    OBVIOUS
  <2>3. t \in Task /\ t.pc = "queued" /\ t.rows = old.rows
    BY <2>1, <2>2 DEF Task
  <2>4. task' = [task EXCEPT ![p] = [task[p] EXCEPT ![w] = t]]
    BY <1>1, <2>2
  <2>5. /\ task' \in [Plans -> [Workers -> Task]]
        /\ \A q \in Plans, v \in Workers : task'[q][v] = IF q = p /\ v = w THEN t ELSE task[q][v]
    BY <1>1, <1>5, <1>6, <2>3, <2>4
  <2>6. JobTypes'
    BY <1>1, <2>5 DEF JobsInv, JobTypes
  <2>7. Unsent'
    BY <1>4, <2>5 DEF JobsInv, Unsent
  <2>8. RowInHand'
    BY <2>3, <2>5 DEF JobsInv, RowInHand, InHand
  <2>9. \A q \in Plans, v \in Workers : LeftBy(task'[q][v]) = LeftBy(task[q][v])
    <3>1. LeftBy(t) = LeftBy(old)
      BY <2>1, <2>3 DEF LeftBy, InHand
    <3> QED BY <2>5, <3>1
  <2>10. Left' = Left
    <3>1. \A x : x \in Left' <=> x \in Left
      BY <2>9, LeftMember DEF Left
    <3> QED BY <3>1
  <2>11. IsFiniteSet(Left) /\ Cardinality(Left) =< Faults /\ Faults' = Faults
    BY <1>1 DEF JobsInv, Faults
  <2> QED BY <2>6, <2>7, <2>8, <2>10, <2>11 DEF JobsInv
<1>7. CASE w \notin Workers
  <2>1. task' = task
    BY <1>1, <1>5, <1>7
  <2> QED BY <1>1, <1>4, <2>1, CycleGoesOn
<1> QED BY <1>6, <1>7

LEMMA OtherStepsKeepJobs ==
  ASSUME PlanInv, PlanInv', JobsInv,
         \/ ScoutPortal \/ ScoutFails \/ CreatePlan \/ ApprovePlan \/ ExecutePlan \/ SendFails
         \/ StatementFails \/ StatementFailsLate \/ RunPhase \/ PhaseFails \/ Dashboard
         \/ UNCHANGED vars
  PROVE  JobsInv'
<1>1. UNCHANGED task
  BY DEF ScoutPortal, ScoutFails, CreatePlan, ApprovePlan, ExecutePlan, SendFails, StatementFails,
         StatementFailsLate, RunPhase, PhaseFails, Dashboard, WritePlan, ReadPlan, vars
<1>2. used' = used \/ \E e \in EnvEvents : Spend(e)
  <2>1. used' = used \/ Spend("raise") \/ Spend("error") \/ Spend("request")
    BY DEF ScoutPortal, ScoutFails, CreatePlan, ApprovePlan, ExecutePlan, SendFails, StatementFails,
           StatementFailsLate, RunPhase, PhaseFails, Dashboard, WritePlan, ReadPlan, vars
  <2> QED BY <2>1 DEF EnvEvents
<1>3. cycle \in CycleType /\ cycle' \in CycleType
  BY DEF PlanInv
<1>4. \/ UNCHANGED cycle
      \/ cycle'.pc \notin Doing
      \/ cycle.pc \in Doing /\ cycle'.plan = cycle.plan + 1
      \/ cycle.pc \in Doing \ {"send"} /\ cycle'.plan = cycle.plan /\ cycle'.pc # "send"
      \/ cycle.pc \in Doing \ {"send"} /\ cycle'.plan = cycle.plan /\ cycle'.next = 1
  <2>1. CASE ScoutPortal
    <3>1. PICK v \in Reports : cycle' = [cycle EXCEPT !.pc = "create", !.visits = v] /\ cycle.pc = "scout"
      BY <2>1 DEF ScoutPortal
    <3>2. cycle'.plan = cycle.plan /\ cycle'.pc = "create"
      BY <1>3, <3>1 DEF CycleType
    <3> QED BY <3>1, <3>2 DEF Doing
  <2>2. CASE cycle.pc \in Doing /\ (cycle' = NextPlan(cycle) \/ cycle' = [NextPlan(cycle) EXCEPT !.broken = TRUE])
    <3>1. cycle.plan \in Plans
      BY <2>2 DEF PlanInv, CycleAtPlan
    <3>2. NextPlan(cycle) \in CycleType /\ NextPlan(cycle).plan = cycle.plan + 1
      BY <1>3, <3>1, NextPlanMoves
    <3>3. cycle'.plan = cycle.plan + 1
      BY <2>2, <3>2 DEF CycleType
    <3> QED BY <2>2, <3>3
  <2>3. CASE CreatePlan /\ cycle' = [cycle EXCEPT !.pc = "approve"]
    BY <1>3, <2>3 DEF CreatePlan, AtStatement, CycleType, Doing
  <2>4. CASE ApprovePlan
    BY <1>3, <2>4 DEF ApprovePlan, AtStatement, CycleType, Doing
  <2>5. CASE ExecutePlan
    <3>1. cycle' = [cycle EXCEPT !.pc = "send", !.next = 1] /\ cycle.pc = "execute"
      BY <2>5 DEF ExecutePlan, AtStatement
    <3>2. cycle'.plan = cycle.plan /\ cycle'.next = 1
      BY <1>3, <3>1 DEF CycleType
    <3> QED BY <3>1, <3>2 DEF Doing
  <2>6. CASE RunPhase \/ PhaseFails
    <3>1. \E c : cycle' = PhaseOver(c)
      BY <2>6 DEF RunPhase, PhaseFails
    <3>2. PICK c : cycle' = PhaseOver(c)
      BY <3>1
    <3>3. cycle.pc = "phases"
      BY <2>6 DEF RunPhase, PhaseFails, AtStatement
    <3>4. cycle'.pc \notin Doing
      BY <1>3, <2>6, <3>3 DEF RunPhase, PhaseFails, PhaseOver, CycleType, Doing
    <3> QED BY <3>4
  <2>7. CASE Dashboard \/ UNCHANGED vars
    BY <2>7 DEF Dashboard, WritePlan, ReadPlan, vars
  <2>8. (\/ ScoutFails \/ SendFails \/ StatementFails \/ StatementFailsLate
         \/ CreatePlan /\ cycle' # [cycle EXCEPT !.pc = "approve"])
          => cycle.pc \in Doing /\ (cycle' = NextPlan(cycle) \/ cycle' = [NextPlan(cycle) EXCEPT !.broken = TRUE])
    BY DEF ScoutFails, SendFails, StatementFails, StatementFailsLate, CreatePlan, AtStatement, Doing
  <2> QED BY <2>1, <2>2, <2>3, <2>4, <2>5, <2>6, <2>7, <2>8
<1>5. cycle.plan \in Nat /\ cycle'.plan \in Nat
  BY <1>3 DEF CycleType
<1>6. ASSUME NEW p \in Plans, NEW w \in Workers, NotYetSent(p, w)' PROVE NotYetSent(p, w)
  <2>1. p \in Nat /\ w \in Nat
    BY DEF Plans, Workers
  <2> QED BY <1>4, <1>5, <1>6, <2>1 DEF NotYetSent, Doing
<1> QED BY <1>1, <1>2, <1>6, CycleGoesOn

-----------------------------------------------------------------------------
(* Least counterexamples, by which the recursive definitions below are reasoned about, and sums *)

LEMMA LeastNumber == ASSUME NEW B \in SUBSET Nat, B # {} PROVE \E n \in B : \A m \in B : n =< m
<1> DEFINE R == {ss \in Nat \X Nat : ss[1] < ss[2]}
<1>1. IsWellFoundedOn(R, Nat)
  BY NatLessThanWellFounded DEF OpToRel
<1>2. \A n, m \in Nat : n < m => <<n, m>> \in R
  OBVIOUS
<1> HIDE DEF R
<1>3. PICK n \in B : \A m \in B : <<m, n>> \notin R
  BY <1>1, WFMin
<1>4. ASSUME NEW m \in B PROVE n =< m
  <2>1. n \in Nat /\ m \in Nat /\ ~ m < n
    BY <1>2, <1>3
  <2> QED BY <2>1
<1> QED BY <1>3, <1>4

LEMMA SmallestSet ==
  ASSUME NEW S, IsFiniteSet(S), NEW Bad, Bad \subseteq SUBSET S, Bad # {}
  PROVE  \E X \in Bad : \A Y \in Bad : Y \subseteq X => Y = X
<1>1. Bad \subseteq FiniteSubsetsOf(S)
  BY FS_Subset DEF FiniteSubsetsOf
<1> DEFINE R == StrictSubsetOrdering(S)
<1>2. IsWellFoundedOn(R, FiniteSubsetsOf(S))
  BY FS_StrictSubsetOrderingWellFounded
<1> HIDE DEF R
<1>3. PICK X \in Bad : \A Y \in Bad : <<Y, X>> \notin R
  BY <1>1, <1>2, WFMin
<1> USE DEF R
<1>4. ASSUME NEW Y \in Bad, Y \subseteq X, Y # X PROVE FALSE
  BY <1>3, <1>4 DEF StrictSubsetOrdering
<1> QED BY <1>3, <1>4

Picked(s) == CHOOSE x \in s : TRUE

SumStep(f, g, s) == IF s = {} THEN 0 ELSE f[Picked(s)] + g[s \ {Picked(s)}]

IsSum(f, S, g) == g = [s \in SUBSET S |-> SumStep(f, g, s)]

\* A sum is taken by a function over the subsets of S.
LEMMA SumUnfolds ==
  ASSUME NEW f, NEW S PROVE SumFunctionOnSet(f, S) = (CHOOSE g : IsSum(f, S, g))[S]
BY DEF SumFunctionOnSet, FoldFunctionOnSet, MapThenFoldSet, Picked, IsSum, SumStep

LEMMA PickedIn == ASSUME NEW s, s # {} PROVE Picked(s) \in s
BY DEF Picked

\* Two such functions agree where both are defined.
LEMMA SumsAgree ==
  ASSUME NEW f, NEW S, NEW T, IsFiniteSet(S), T \subseteq S, NEW g, NEW h, IsSum(f, S, g), IsSum(f, T, h)
  PROVE  \A X \in SUBSET T : g[X] = h[X]
<1> DEFINE Bad == {X \in SUBSET T : g[X] # h[X]}
<1>1. SUFFICES ASSUME Bad # {} PROVE FALSE
  OBVIOUS
<1>2. Bad \subseteq SUBSET S
  OBVIOUS
<1>3. PICK X \in Bad : \A Y \in Bad : Y \subseteq X => Y = X
  <2> HIDE DEF Bad
  <2> QED BY <1>1, <1>2, SmallestSet
<1>4. g[X] = SumStep(f, g, X) /\ h[X] = SumStep(f, h, X)
  BY <1>2 DEF IsSum
<1>5. CASE X = {}
  BY <1>3, <1>4, <1>5 DEF SumStep
<1>6. CASE X # {}
  <2>1. PICK p \in X : p = Picked(X)
    BY <1>6, PickedIn
  <2>2. X \ {p} \notin Bad
    BY <1>3
  <2>3. g[X \ {p}] = h[X \ {p}]
    BY <2>2
  <2> QED BY <1>3, <1>4, <1>6, <2>1, <2>3 DEF SumStep
<1> QED BY <1>5, <1>6

LEMMA SumExists == ASSUME NEW f, NEW S, IsFiniteSet(S) PROVE \E g : IsSum(f, S, g)
<1> DEFINE Bad == {X \in SUBSET S : ~ \E g : IsSum(f, X, g)}
           G(s) == CHOOSE g : IsSum(f, s, g)
           V(s) == G(s)[s]
<1>1. SUFFICES ASSUME Bad # {} PROVE FALSE
  OBVIOUS
<1>2. PICK X \in Bad : \A Y \in Bad : Y \subseteq X => Y = X
  <2>1. Bad \subseteq SUBSET S
    OBVIOUS
  <2> HIDE DEF Bad
  <2> QED BY <1>1, <2>1, SmallestSet
<1>3. ASSUME NEW s \in SUBSET X, s # X PROVE IsSum(f, s, G(s)) /\ IsFiniteSet(s)
  <2>1. s \in SUBSET S /\ s \notin Bad
    BY <1>2, <1>3
  <2>2. \E g : IsSum(f, s, g)
    BY <2>1
  <2> QED BY <2>1, <2>2, FS_Subset
<1> DEFINE p == Picked(X)
           new == [s \in SUBSET X |-> IF s # X THEN V(s) ELSE IF X = {} THEN 0 ELSE f[p] + V(X \ {p})]
<1>4. ASSUME NEW s \in SUBSET X PROVE new[s] = SumStep(f, new, s)
  <2>1. CASE s = X /\ X = {}
    BY <2>1 DEF SumStep
  <2>2. CASE s = X /\ X # {}
    <3>1. p \in X
      BY <2>2, PickedIn
    <3>2. new[X \ {p}] = V(X \ {p})
      BY <3>1
    <3> QED BY <2>2, <3>2 DEF SumStep
  <2>3. CASE s # X /\ s = {}
    <3>1. new[s] = G(s)[s] /\ IsSum(f, s, G(s))
      BY <1>3, <2>3
    <3> HIDE DEF G
    <3>2. G(s)[s] = SumStep(f, G(s), s)
      BY <3>1 DEF IsSum
    <3> QED BY <2>3, <3>1, <3>2 DEF SumStep
  <2>4. CASE s # X /\ s # {}
    <3>1. PICK q \in s : q = Picked(s)
      BY <2>4, PickedIn
    <3>2. PICK r : r = s \ {q}
      OBVIOUS
    <3>3. new[s] = G(s)[s] /\ new[r] = G(r)[r]
      BY <2>4, <3>1, <3>2
    <3>4. IsSum(f, s, G(s)) /\ IsSum(f, r, G(r)) /\ IsFiniteSet(s) /\ r \subseteq s
      BY <1>3, <2>4, <3>1, <3>2
    <3> HIDE DEF G, new
    <3>5. G(s)[r] = G(r)[r]
      BY <3>4, SumsAgree
    <3>6. G(s)[s] = SumStep(f, G(s), s)
      BY <3>4 DEF IsSum
    <3>7. SumStep(f, G(s), s) = f[q] + G(s)[r]
      BY <2>4, <3>1, <3>2 DEF SumStep
    <3>8. SumStep(f, new, s) = f[q] + new[r]
      BY <2>4, <3>1, <3>2 DEF SumStep
    <3> QED BY <3>3, <3>5, <3>6, <3>7, <3>8
  <2> QED BY <2>1, <2>2, <2>3, <2>4
<1>5. IsSum(f, X, new)
  <2>1. \E n : n = new
    OBVIOUS
  <2>2. PICK n : n = new
    OBVIOUS
  <2>3. n = [s \in SUBSET X |-> SumStep(f, n, s)]
    <3>1. \A s \in SUBSET X : n[s] = SumStep(f, n, s)
      BY <1>4, <2>2
    <3>2. n = [s \in SUBSET X |-> n[s]]
      BY <2>2
    <3> HIDE DEF new
    <3> QED BY <3>1, <3>2
  <2> QED BY <2>2, <2>3 DEF IsSum
<1> QED BY <1>2, <1>5

Sum(f, S) == SumFunctionOnSet(f, S)

\* One step of a sum.
LEMMA SumIsStep ==
  ASSUME NEW f, NEW S, IsFiniteSet(S)
  PROVE  /\ S = {} => Sum(f, S) = 0
         /\ S # {} => Sum(f, S) = f[Picked(S)] + Sum(f, S \ {Picked(S)})
<1> DEFINE G(s) == CHOOSE g : IsSum(f, s, g)
<1>1. ASSUME NEW s \in SUBSET S PROVE IsSum(f, s, G(s)) /\ Sum(f, s) = G(s)[s]
  BY FS_Subset, SumExists, SumUnfolds DEF Sum
<1>2. IsSum(f, S, G(S)) /\ Sum(f, S) = G(S)[S]
  BY <1>1
<1>3. PICK r : r = S \ {Picked(S)}
  OBVIOUS
<1>4. IsSum(f, r, G(r)) /\ Sum(f, r) = G(r)[r] /\ r \subseteq S
  BY <1>1, <1>3
<1> HIDE DEF G
<1>5. G(S)[r] = G(r)[r]
  BY <1>2, <1>4, SumsAgree
<1>6. G(S)[S] = SumStep(f, G(S), S)
  BY <1>2 DEF IsSum
<1>7. S # {} => G(S)[S] = f[Picked(S)] + G(S)[r]
  BY <1>3, <1>6 DEF SumStep
<1>8. S # {} => Sum(f, S) = f[Picked(S)] + Sum(f, r)
  BY <1>2, <1>4, <1>5, <1>7
<1>9. S = {} => Sum(f, S) = 0
  BY <1>2, <1>6 DEF SumStep
<1>10. Sum(f, r) = Sum(f, S \ {Picked(S)})
  BY <1>3
<1> QED BY <1>8, <1>9, <1>10

LEMMA SumIsNat ==
  ASSUME NEW S, IsFiniteSet(S), NEW f \in [S -> Nat], NEW T \in SUBSET S PROVE Sum(f, T) \in Nat
<1> DEFINE Bad == {X \in SUBSET S : Sum(f, X) \notin Nat}
<1>1. SUFFICES ASSUME Bad # {} PROVE FALSE
  OBVIOUS
<1>2. PICK X \in Bad : \A Y \in Bad : Y \subseteq X => Y = X
  <2>1. Bad \subseteq SUBSET S
    OBVIOUS
  <2> HIDE DEF Bad
  <2> QED BY <1>1, <2>1, SmallestSet
<1>3. IsFiniteSet(X)
  BY FS_Subset
<1>4. X # {}
  <2>1. Sum(f, X) \notin Nat
    BY <1>2
  <2>2. X = {} => Sum(f, X) = 0
    BY <1>3, SumIsStep
  <2> QED BY <2>1, <2>2
<1>5. PICK p \in X : p = Picked(X)
  BY <1>4, PickedIn
<1>6. Sum(f, X \ {p}) \in Nat
  <2>1. X \ {p} \notin Bad /\ X \ {p} \in SUBSET S
    BY <1>2
  <2> QED BY <2>1
<1>7. Sum(f, X) = f[p] + Sum(f, X \ {p}) /\ f[p] \in Nat
  BY <1>3, <1>4, <1>5, SumIsStep
<1> QED BY <1>2, <1>6, <1>7

\* A sum may be taken in any order.
LEMMA SumRemoves ==
  ASSUME NEW S, IsFiniteSet(S), NEW f \in [S -> Nat], NEW T \in SUBSET S, NEW x \in T
  PROVE  Sum(f, T) = f[x] + Sum(f, T \ {x})
<1> DEFINE Bad == {X \in SUBSET S : \E y \in X : Sum(f, X) # f[y] + Sum(f, X \ {y})}
<1>1. SUFFICES ASSUME Bad # {} PROVE FALSE
  OBVIOUS
<1>2. PICK X \in Bad : \A Y \in Bad : Y \subseteq X => Y = X
  <2>1. Bad \subseteq SUBSET S
    OBVIOUS
  <2> HIDE DEF Bad
  <2> QED BY <1>1, <2>1, SmallestSet
<1>3. PICK y \in X : Sum(f, X) # f[y] + Sum(f, X \ {y})
  BY <1>2
<1>4. \A Y \in SUBSET X : IsFiniteSet(Y) /\ Sum(f, Y) \in Nat
  BY FS_Subset, SumIsNat
<1>5. PICK p \in X : p = Picked(X) /\ Sum(f, X) = f[p] + Sum(f, X \ {p})
  BY <1>3, <1>4, PickedIn, SumIsStep
<1>6. p # y
  BY <1>3, <1>5
<1>7. PICK Z : Z = X \ {p, y}
  OBVIOUS
<1>8. X \ {p} \notin Bad /\ X \ {y} \notin Bad /\ X \ {p} \in SUBSET S /\ X \ {y} \in SUBSET S
  BY <1>2
<1>9. (X \ {p}) \ {y} = Z /\ (X \ {y}) \ {p} = Z /\ y \in X \ {p} /\ p \in X \ {y}
  BY <1>6, <1>7
<1>10. Sum(f, X \ {p}) = f[y] + Sum(f, Z) /\ Sum(f, X \ {y}) = f[p] + Sum(f, Z)
  BY <1>8, <1>9
<1>11. Sum(f, Z) \in Nat /\ f[p] \in Nat /\ f[y] \in Nat
  BY <1>4, <1>7
<1> QED BY <1>3, <1>5, <1>10, <1>11
-----------------------------------------------------------------------------
(* The order of the states *)

\* What there is to know of a portal: the report of each of its states.
Portal == [StateSet -> [accessible : BOOLEAN, listings : Nat, antiBot : BOOLEAN, healthy : BOOLEAN]]

\* By their number of predecessors the elements of a finite strict order get the numbers from 1.
Rank(W, B) == [t \in W |-> 1 + Cardinality({s \in W : <<s, t>> \in B})]

LEMMA RankNumbers ==
  ASSUME NEW W, IsFiniteSet(W), NEW B,
         \A s \in W : <<s, s>> \notin B,
         \A s, t, u \in W : <<s, t>> \in B /\ <<t, u>> \in B => <<s, u>> \in B,
         \A s, t \in W : s # t => <<s, t>> \in B \/ <<t, s>> \in B
  PROVE  Rank(W, B) \in Bijection(W, 1 .. Cardinality(W))
<1> DEFINE Down(t) == {s \in W : <<s, t>> \in B}
           n == Cardinality(W)
           f == Rank(W, B)
<1>1. n \in Nat /\ IsFiniteSet(1 .. n) /\ Cardinality(1 .. n) = n
  BY FS_CardinalityType, FS_Interval
<1>2. ASSUME NEW t \in W PROVE IsFiniteSet(Down(t)) /\ Cardinality(Down(t)) \in Nat
                               /\ Cardinality(Down(t)) < n /\ f[t] = 1 + Cardinality(Down(t))
  <2>1. Down(t) \in SUBSET (W \ {t})
    OBVIOUS
  <2>2. IsFiniteSet(W \ {t}) /\ Cardinality(W \ {t}) = n - 1
    BY FS_RemoveElement
  <2>3. IsFiniteSet(Down(t)) /\ Cardinality(Down(t)) =< Cardinality(W \ {t})
    BY <2>1, <2>2, FS_Subset
  <2>4. Cardinality(Down(t)) \in Nat
    BY <2>3, FS_CardinalityType
  <2>5. f[t] = 1 + Cardinality(Down(t))
    BY DEF Rank
  <2> HIDE DEF Down, f, n
  <2> QED BY <1>1, <2>2, <2>3, <2>4, <2>5
<1>3. f \in [W -> 1 .. n]
  <2>1. \A t \in W : f[t] \in 1 .. n
    <3> SUFFICES ASSUME NEW t \in W PROVE f[t] \in 1 .. n
      OBVIOUS
    <3> HIDE DEF Down, f, n
    <3> QED BY <1>1, <1>2
  <2>2. f = [t \in W |-> f[t]]
    BY DEF Rank
  <2> HIDE DEF f
  <2> QED BY <2>1, <2>2
<1>4. ASSUME NEW s \in W, NEW t \in W, <<s, t>> \in B PROVE f[s] # f[t]
  <2>1. Down(s) \cup {s} \in SUBSET Down(t) /\ s \notin Down(s)
    BY <1>4
  <2>2. Cardinality(Down(s) \cup {s}) =< Cardinality(Down(t))
    BY <1>2, <2>1, FS_Subset
  <2>3. Cardinality(Down(s) \cup {s}) = Cardinality(Down(s)) + 1
    BY <1>2, <2>1, FS_AddElement
  <2> HIDE DEF Down, f, n
  <2> QED BY <1>2, <2>2, <2>3
<1>5. f \in Injection(W, 1 .. n)
  <2>1. \A s, t \in W : s # t => f[s] # f[t]
    BY <1>4
  <2> HIDE DEF f, n
  <2> QED BY <1>3, <2>1 DEF Injection, IsInjective
<1>6. f \in Surjection(W, 1 .. n)
  <2> HIDE DEF f
  <2> QED BY <1>1, <1>5, FS_Injection
<1> QED BY <1>5, <1>6 DEF Bijection

LEMMA StatesFinite == IsFiniteSet(StateSet)
<1> DEFINE D == 1 .. Len(STATES)
           f == [i \in D |-> STATES[i]]
<1>1. Len(STATES) \in Nat /\ DOMAIN STATES = D
  BY StatesAssumption
<1>2. IsFiniteSet(D)
  BY <1>1, FS_Interval
<1>3. f \in Surjection(D, StateSet)
  BY <1>1 DEF Surjection, StateSet
<1> QED BY <1>2, <1>3, FS_Surjection

\* The order holds each state worth a visit, once.
LEMMA StatesSorted ==
  ASSUME NEW r \in Portal
  PROVE  LET W == Worthwhile(r)
             n == Cardinality(W)
             order == SortedStates(r)
         IN /\ IsFiniteSet(W) /\ n \in Nat /\ W \subseteq StateSet
            /\ order \in [1 .. n -> W] /\ Len(order) = n
            /\ \A s \in W : \E k \in 1 .. n : order[k] = s
            /\ \A k, l \in 1 .. n : order[k] = order[l] => k = l
<1> DEFINE W == Worthwhile(r)
           n == Cardinality(W)
           order == SortedStates(r)
           position(s) == CHOOSE i \in DOMAIN STATES : STATES[i] = s
           before(s, t) == \/ r[s].listings > r[t].listings
                           \/ r[s].listings = r[t].listings /\ position(s) < position(t)
           B == {st \in W \X W : before(st[1], st[2])}
           rank(t) == 1 + Cardinality({s \in W : before(s, t)})
           f == Rank(W, B)
<1>1. W \subseteq StateSet /\ IsFiniteSet(W) /\ n \in Nat
  BY StatesFinite, FS_Subset, FS_CardinalityType DEF Worthwhile
<1>2. \A s \in W : r[s].listings \in Nat
  BY <1>1 DEF Portal
<1>3. ASSUME NEW s \in W PROVE position(s) \in Nat /\ STATES[position(s)] = s
  <2>1. \E i \in DOMAIN STATES : STATES[i] = s
    BY <1>1 DEF StateSet
  <2>2. DOMAIN STATES \subseteq Nat
    BY StatesAssumption
  <2> QED BY <2>1, <2>2
<1>4. \A s, t \in W : position(s) = position(t) => s = t
  BY <1>3
<1> HIDE DEF position
<1>5. \A s, t \in W : <<s, t>> \in B <=> before(s, t)
  OBVIOUS
<1>6. /\ \A s \in W : ~ before(s, s)
      /\ \A s, t, u \in W : before(s, t) /\ before(t, u) => before(s, u)
      /\ \A s, t \in W : s # t => before(s, t) \/ before(t, s)
  <2>1. \A s \in W : ~ before(s, s)
    BY <1>2, <1>3
  <2>2. ASSUME NEW s \in W, NEW t \in W, NEW u \in W, before(s, t), before(t, u) PROVE before(s, u)
    <3>1. /\ r[s].listings \in Nat /\ r[t].listings \in Nat /\ r[u].listings \in Nat
          /\ position(s) \in Nat /\ position(t) \in Nat /\ position(u) \in Nat
      BY <1>2, <1>3
    <3> QED BY <2>2, <3>1
  <2>3. ASSUME NEW s \in W, NEW t \in W, s # t PROVE before(s, t) \/ before(t, s)
    <3>1. /\ r[s].listings \in Nat /\ r[t].listings \in Nat
          /\ position(s) \in Nat /\ position(t) \in Nat /\ position(s) # position(t)
      BY <1>2, <1>3, <1>4, <2>3
    <3> QED BY <3>1
  <2> QED BY <2>1, <2>2, <2>3
<1>7. f \in Bijection(W, 1 .. n)
  <2> HIDE DEF B, before, W
  <2> QED BY <1>1, <1>5, <1>6, RankNumbers
<1>8. \A t \in W : f[t] = rank(t)
  <2> SUFFICES ASSUME NEW t \in W PROVE f[t] = rank(t)
    OBVIOUS
  <2>1. {s \in W : <<s, t>> \in B} = {s \in W : before(s, t)}
    BY <1>5
  <2> QED BY <2>1 DEF Rank
<1>9. order = [k \in 1 .. n |-> CHOOSE t \in W : rank(t) = k]
  BY DEF SortedStates, position
<1>10. \A k \in 1 .. n : order[k] \in W /\ rank(order[k]) = k
  <2> SUFFICES ASSUME NEW k \in 1 .. n PROVE order[k] \in W /\ rank(order[k]) = k
    OBVIOUS
  <2>1. \E t \in W : f[t] = k
    BY <1>7 DEF Bijection, Surjection
  <2>2. \E t \in W : rank(t) = k
    BY <1>8, <2>1
  <2>3. order[k] = CHOOSE t \in W : rank(t) = k
    BY <1>9
  <2> HIDE DEF rank, order, W
  <2> QED BY <2>2, <2>3
<1>11. order \in [1 .. n -> W] /\ Len(order) = n
  <2>1. order \in [1 .. n -> W]
    BY <1>9, <1>10
  <2>2. order \in Seq(W)
    BY <1>1, <2>1
  <2> QED BY <1>1, <2>1, <2>2
<1>12. \A s \in W : rank(s) \in 1 .. n /\ order[rank(s)] = s
  <2> SUFFICES ASSUME NEW s \in W PROVE rank(s) \in 1 .. n /\ order[rank(s)] = s
    OBVIOUS
  <2>1. rank(s) \in 1 .. n
    BY <1>7, <1>8 DEF Bijection, Surjection
  <2>2. PICK t : t = order[rank(s)]
    OBVIOUS
  <2>3. t \in W /\ rank(t) = rank(s)
    BY <1>10, <2>1, <2>2
  <2>4. f[t] = f[s]
    BY <1>8, <2>3
  <2>5. t = s
    BY <1>7, <2>3, <2>4 DEF Bijection, Injection, IsInjective
  <2> QED BY <2>1, <2>2, <2>5
<1>13. /\ \A s \in W : \E k \in 1 .. n : order[k] = s
       /\ \A k, l \in 1 .. n : order[k] = order[l] => k = l
  <2> HIDE DEF rank, order, W, n
  <2> QED BY <1>10, <1>12
<1> QED BY <1>1, <1>11, <1>13

-----------------------------------------------------------------------------
(* The states of the workers *)

LEMMA LoadCounts ==
  ASSUME NEW r \in Portal, NEW b \in SUBSET StateSet
  PROVE  /\ Load(r, b) \in Nat
         /\ \A s \in b : /\ Load(r, b \ {s}) \in Nat
                         /\ Load(r, b) = Listings(r)[s] + Load(r, b \ {s})
                         /\ Listings(r)[s] \in Nat
<1>1. Listings(r) \in [StateSet -> Nat]
  BY DEF Listings, Portal
<1>2. \A c : Load(r, c) = Sum(Listings(r), c)
  BY DEF Load, Sum
<1>3. \A c \in SUBSET StateSet : Load(r, c) \in Nat
  BY <1>1, <1>2, StatesFinite, SumIsNat
<1>4. ASSUME NEW s \in b
      PROVE  /\ Load(r, b \ {s}) \in Nat /\ Listings(r)[s] \in Nat
             /\ Load(r, b) = Listings(r)[s] + Load(r, b \ {s})
  <2>1. Sum(Listings(r), b) = Listings(r)[s] + Sum(Listings(r), b \ {s})
    BY <1>1, StatesFinite, SumRemoves
  <2> QED BY <1>1, <1>2, <1>3, <2>1
<1> QED BY <1>3, <1>4

LEMMA LeastLoadedIsLeast ==
  ASSUME NEW r \in Portal, NEW m \in Nat \ {0}, NEW b \in [1 .. m -> SUBSET StateSet]
  PROVE  /\ LeastLoaded(r, b) \in 1 .. m
         /\ \A v \in 1 .. m : Load(r, b[LeastLoaded(r, b)]) =< Load(r, b[v])
<1>1. \A w \in 1 .. m : Load(r, b[w]) \in Nat
  BY LoadCounts
<1> DEFINE Loads == {Load(r, b[w]) : w \in 1 .. m}
<1>2. Loads \in SUBSET Nat /\ Loads # {}
  <2>1. 1 \in 1 .. m
    OBVIOUS
  <2> QED BY <1>1, <2>1
<1>3. PICK x \in Loads : \A y \in Loads : x =< y
  BY <1>2, LeastNumber
<1> DEFINE Ws == {w \in 1 .. m : Load(r, b[w]) = x}
<1>4. Ws \in SUBSET Nat /\ Ws # {}
  BY <1>3
<1>5. PICK w \in Ws : \A v \in Ws : w =< v
  BY <1>4, LeastNumber
<1>6. \A v \in 1 .. m : Load(r, b[w]) =< Load(r, b[v])
  BY <1>3, <1>5
<1>7. ASSUME NEW v \in 1 .. m, v < w PROVE Load(r, b[v]) > Load(r, b[w])
  <2>1. v \notin Ws
    BY <1>5, <1>7
  <2>2. Load(r, b[v]) # Load(r, b[w]) /\ Load(r, b[w]) =< Load(r, b[v])
    BY <1>5, <1>6, <2>1
  <2>3. Load(r, b[v]) \in Nat /\ Load(r, b[w]) \in Nat
    BY <1>1, <1>5
  <2> QED BY <2>2, <2>3
<1> DEFINE Least(u) == /\ \A v \in DOMAIN b : Load(r, b[u]) =< Load(r, b[v])
                       /\ \A v \in DOMAIN b : v < u => Load(r, b[v]) > Load(r, b[u])
<1>8. w \in DOMAIN b /\ Least(w)
  BY <1>5, <1>6, <1>7
<1>9. LeastLoaded(r, b) = CHOOSE u \in DOMAIN b : Least(u)
  BY DEF LeastLoaded
<1>10. LeastLoaded(r, b) \in DOMAIN b /\ Least(LeastLoaded(r, b))
  <2> HIDE DEF Least
  <2> QED BY <1>8, <1>9
<1> QED BY <1>10

\* The states of the first k of the order, shared out fairly.
SharedOut(r, b, m, S) ==
  /\ b \in [1 .. m -> SUBSET StateSet]
  /\ UNION {b[w] : w \in 1 .. m} = S
  /\ \A w, v \in 1 .. m : w # v =>
       /\ b[w] \cap b[v] = {}
       /\ b[w] = {} \/ \E s \in b[w] : Load(r, b[w] \ {s}) =< Load(r, b[v])

Given(r, b, s) == [b EXCEPT ![LeastLoaded(r, b)] = @ \cup {s}]

\* One more state, which goes to the worker with least to do.
LEMMA GivenKeeps ==
  ASSUME NEW r \in Portal, NEW m \in Nat \ {0}, NEW b, NEW S, SharedOut(r, b, m, S),
         NEW s \in StateSet, s \notin S
  PROVE  SharedOut(r, Given(r, b, s), m, S \cup {s})
<1> DEFINE W == 1 .. m
<1>1. b \in [W -> SUBSET StateSet] /\ UNION {b[w] : w \in W} = S
  BY DEF SharedOut
<1>2. PICK l \in W : l = LeastLoaded(r, b) /\ \A v \in W : Load(r, b[l]) =< Load(r, b[v])
  BY <1>1, LeastLoadedIsLeast
<1>3. PICK c : c = Given(r, b, s)
  OBVIOUS
<1>4. c = [b EXCEPT ![l] = b[l] \cup {s}]
  BY <1>2, <1>3 DEF Given
<1>5. c \in [W -> SUBSET StateSet] /\ c[l] = b[l] \cup {s} /\ \A w \in W : w # l => c[w] = b[w]
  BY <1>1, <1>4
<1>6. \A w \in W : s \notin b[w] /\ b[w] \subseteq S
  BY <1>1
<1>7. UNION {c[w] : w \in W} = S \cup {s}
  <2>1. ASSUME NEW t PROVE t \in UNION {c[w] : w \in W} <=> \E w \in W : t \in c[w]
    OBVIOUS
  <2>2. ASSUME NEW t PROVE t \in S <=> \E w \in W : t \in b[w]
    BY <1>1
  <2>3. ASSUME NEW t PROVE (\E w \in W : t \in c[w]) <=> t = s \/ \E w \in W : t \in b[w]
    BY <1>5
  <2> QED BY <2>1, <2>2, <2>3
<1>8. ASSUME NEW w \in W, NEW v \in W, w # v
      PROVE  /\ c[w] \cap c[v] = {}
             /\ c[w] = {} \/ \E x \in c[w] : Load(r, c[w] \ {x}) =< Load(r, c[v])
  <2>1. /\ b[w] \cap b[v] = {}
        /\ b[w] = {} \/ \E x \in b[w] : Load(r, b[w] \ {x}) =< Load(r, b[v])
    BY <1>8 DEF SharedOut
  <2>2. c[w] \cap c[v] = {}
    BY <1>5, <1>6, <1>8, <2>1
  <2>3. Load(r, b[v]) \in Nat /\ Load(r, c[v]) \in Nat /\ Load(r, b[v]) =< Load(r, c[v])
    <3>1. CASE v = l
      <4>1. b[v] = c[v] \ {s} /\ s \in c[v] /\ c[v] \in SUBSET StateSet
        BY <1>5, <1>6, <3>1
      <4>2. PICK d : d = c[v] \ {s}
        OBVIOUS
      <4>3. /\ Load(r, c[v]) \in Nat /\ Load(r, d) \in Nat /\ Listings(r)[s] \in Nat
            /\ Load(r, c[v]) = Listings(r)[s] + Load(r, d)
        BY <4>1, <4>2, LoadCounts
      <4> QED BY <4>1, <4>2, <4>3
    <3>2. CASE v # l
      BY <1>1, <1>5, <3>2, LoadCounts
    <3> QED BY <3>1, <3>2
  <2>4. CASE w = l
    <3>1. s \in c[w] /\ c[w] \ {s} = b[w]
      BY <1>5, <1>6, <2>4
    <3>2. Load(r, b[w]) \in Nat /\ Load(r, b[w]) =< Load(r, b[v])
      BY <1>1, <1>2, <2>4, LoadCounts
    <3>3. Load(r, c[w] \ {s}) =< Load(r, c[v])
      BY <2>3, <3>1, <3>2
    <3> QED BY <2>2, <3>1, <3>3
  <2>5. CASE w # l /\ b[w] # {}
    <3>1. PICK x \in b[w] : Load(r, b[w] \ {x}) =< Load(r, b[v])
      BY <2>1, <2>5
    <3>2. c[w] = b[w] /\ Load(r, b[w] \ {x}) \in Nat
      BY <1>1, <1>5, <2>5, LoadCounts
    <3>3. Load(r, c[w] \ {x}) =< Load(r, c[v])
      BY <2>3, <3>1, <3>2
    <3> QED BY <2>2, <3>1, <3>2, <3>3
  <2>6. CASE w # l /\ b[w] = {}
    BY <1>5, <2>2, <2>6
  <2> QED BY <2>4, <2>5, <2>6
<1> QED BY <1>3, <1>5, <1>7, <1>8 DEF SharedOut

LEMMA WorkersCounted ==
  ASSUME NEW r PROVE NumWorkers(r) \in Nat \ {0} /\ NumWorkers(r) =< Len(Volumes) + 1
<1> DEFINE total == SumFunction(Listings(r))
           reached == {i \in DOMAIN Volumes : total >= Volumes[i]}
<1>1. DOMAIN Volumes = 1 .. Len(Volumes) /\ Len(Volumes) \in Nat
  BY VolumesAssumption
<1>2. reached \in SUBSET (1 .. Len(Volumes))
  BY <1>1
<1>3. IsFiniteSet(1 .. Len(Volumes)) /\ Cardinality(1 .. Len(Volumes)) = Len(Volumes)
  <2>1. PICK n \in Nat : n = Len(Volumes)
    BY <1>1
  <2>2. IsFiniteSet(1 .. n) /\ Cardinality(1 .. n) = n
    BY FS_Interval
  <2> QED BY <2>1, <2>2
<1>4. IsFiniteSet(reached) /\ Cardinality(reached) =< Len(Volumes)
  BY <1>2, <1>3, FS_Subset
<1>5. Cardinality(reached) \in Nat
  BY <1>4, FS_CardinalityType
<1>6. PICK n : n = Cardinality(reached)
  OBVIOUS
<1>7. NumWorkers(r) = IF AntiBotLevel(r) = "high" /\ 1 + n > 1 THEN (1 + n) - 1 ELSE 1 + n
  BY <1>6 DEF NumWorkers
<1> HIDE DEF reached, total
<1> QED BY <1>1, <1>4, <1>5, <1>6, <1>7

\* The buckets after each of the states of an order, of n.
Buckets(r, order, n, g) ==
  g = [k \in 0 .. n |->
        IF k = 0 THEN [w \in 1 .. NumWorkers(r) |-> {}] ELSE Given(r, g[k - 1], order[k])]

LEMMA BucketsExist == ASSUME NEW r, NEW order, NEW n \in Nat PROVE \E g : Buckets(r, order, n, g)
<1> DEFINE Bad == {k \in Nat : ~ \E g : Buckets(r, order, k, g)}
<1>1. SUFFICES ASSUME Bad # {} PROVE FALSE
  OBVIOUS
<1>2. PICK k \in Bad : \A i \in Bad : k =< i
  <2>1. Bad \in SUBSET Nat
    OBVIOUS
  <2> HIDE DEF Bad
  <2> QED BY <1>1, <2>1, LeastNumber
<1> DEFINE none == [w \in 1 .. NumWorkers(r) |-> {}]
<1>3. CASE k = 0
  <2>1. PICK g : g = [i \in 0 .. 0 |-> none]
    OBVIOUS
  <2> DEFINE e(i) == IF i = 0 THEN none ELSE Given(r, g[i - 1], order[i])
  <2>2. \A i \in 0 .. 0 : g[i] = e(i)
    BY <2>1
  <2>3. g = [i \in 0 .. 0 |-> e(i)]
    BY <2>1, <2>2
  <2>4. Buckets(r, order, 0, g)
    BY <2>3 DEF Buckets
  <2> QED BY <1>2, <1>3, <2>4
<1>4. CASE k # 0
  <2>1. k \in Nat /\ k - 1 \in Nat /\ k - 1 \notin Bad
    BY <1>2, <1>4
  <2>2. PICK h : Buckets(r, order, k - 1, h)
    BY <2>1
  <2>3. PICK last : last = Given(r, h[k - 1], order[k])
    OBVIOUS
  <2>4. PICK g : g = [i \in 0 .. k |-> IF i = k THEN last ELSE h[i]]
    OBVIOUS
  <2> DEFINE e(f, i) == IF i = 0 THEN none ELSE Given(r, f[i - 1], order[i])
  <2>5. \A i \in 0 .. (k - 1) : h[i] = e(h, i)
    BY <2>2 DEF Buckets
  <2>6. ASSUME NEW i \in 0 .. k PROVE g[i] = e(g, i)
    <3>1. CASE i = k
      <4>1. g[i] = last /\ g[i - 1] = h[i - 1]
        BY <1>4, <2>1, <2>4, <3>1
      <4> QED BY <1>4, <2>3, <3>1, <4>1
    <3>2. CASE i # k /\ i # 0
      <4>1. i \in 0 .. (k - 1) /\ i - 1 \in 0 .. k /\ i - 1 # k
        BY <2>1, <3>2
      <4>2. g[i] = h[i] /\ g[i - 1] = h[i - 1]
        BY <2>4, <3>2, <4>1
      <4> QED BY <2>5, <4>1, <4>2
    <3>3. CASE i # k /\ i = 0
      <4>1. 0 \in 0 .. (k - 1) /\ g[i] = h[i]
        BY <2>1, <2>4, <3>3
      <4> QED BY <2>5, <3>3, <4>1
    <3> QED BY <3>1, <3>2, <3>3
  <2>7. g = [i \in 0 .. k |-> e(g, i)]
    <3> HIDE DEF e
    <3> QED BY <2>4, <2>6
  <2>8. Buckets(r, order, k, g)
    BY <2>7 DEF Buckets
  <2> QED BY <1>2, <2>8
<1> QED BY <1>3, <1>4

LEMMA AssignUnfolds ==
  ASSUME NEW r, Len(SortedStates(r)) \in Nat
  PROVE  \E g : /\ Buckets(r, SortedStates(r), Len(SortedStates(r)), g)
                /\ Assign(r) = g[Len(SortedStates(r))]
<1> DEFINE order == SortedStates(r)
           n == Len(order)
           G == CHOOSE g : Buckets(r, order, n, g)
<1>1. Assign(r) = G[n]
  BY DEF Assign, Buckets, Given
<1>2. Buckets(r, order, n, G)
  <2>1. n \in Nat
    OBVIOUS
  <2> HIDE DEF order, n
  <2> QED BY <2>1, BucketsExist
<1> QED BY <1>1, <1>2

\* The states worth a visit are shared out fairly.
LEMMA AssignShares ==
  ASSUME NEW r \in Portal
  PROVE  SharedOut(r, Assign(r), NumWorkers(r), Worthwhile(r))
<1>1. PICK W, order : W = Worthwhile(r) /\ order = SortedStates(r)
  OBVIOUS
<1>2. PICK n \in Nat : n = Len(order) /\ order \in [1 .. n -> W] /\ W \subseteq StateSet
  BY <1>1, StatesSorted
<1>3. /\ \A s \in W : \E k \in 1 .. n : order[k] = s
      /\ \A k, l \in 1 .. n : order[k] = order[l] => k = l
  BY <1>1, <1>2, StatesSorted
<1>4. PICK g : Buckets(r, order, n, g) /\ Assign(r) = g[n]
  BY <1>1, <1>2, AssignUnfolds
<1>5. PICK m \in Nat \ {0} : m = NumWorkers(r)
  BY WorkersCounted
<1> DEFINE First(k) == {order[i] : i \in 1 .. k}
           Bad == {k \in 0 .. n : ~ SharedOut(r, g[k], m, First(k))}
<1>6. g[0] = [w \in 1 .. m |-> {}]
  BY <1>4, <1>5 DEF Buckets
<1>7. \A k \in 1 .. n : g[k] = Given(r, g[k - 1], order[k])
  <2> SUFFICES ASSUME NEW k \in 1 .. n PROVE g[k] = Given(r, g[k - 1], order[k])
    OBVIOUS
  <2>1. k \in 0 .. n /\ k # 0
    OBVIOUS
  <2> QED BY <1>4, <2>1 DEF Buckets
<1>8. Bad = {}
  <2>1. SUFFICES ASSUME Bad # {} PROVE FALSE
    OBVIOUS
  <2>2. PICK k \in Bad : \A i \in Bad : k =< i
    <3>1. Bad \in SUBSET Nat
      OBVIOUS
    <3> HIDE DEF Bad
    <3> QED BY <2>1, <3>1, LeastNumber
  <2>3. CASE k = 0
    <3>1. First(0) = {} /\ UNION {g[0][w] : w \in 1 .. m} = {}
      BY <1>6
    <3>2. SharedOut(r, g[0], m, First(0))
      BY <1>6, <3>1 DEF SharedOut
    <3> QED BY <2>2, <2>3, <3>2
  <2>4. CASE k # 0
    <3>1. k \in 1 .. n /\ k - 1 \in 0 .. n /\ k - 1 \notin Bad
      <4>1. k \in Nat /\ k =< n /\ k > 0
        BY <2>2, <2>4
      <4>2. k \in 1 .. n /\ k - 1 \in 0 .. n /\ ~ k =< k - 1
        BY <4>1
      <4> HIDE DEF Bad
      <4> QED BY <2>2, <4>2
    <3>2. SharedOut(r, g[k - 1], m, First(k - 1))
      BY <3>1
    <3>3. First(k) = First(k - 1) \cup {order[k]} /\ order[k] \notin First(k - 1)
      <4>1. \A i \in 1 .. k : i \in 1 .. n /\ (i \in 1 .. (k - 1) \/ i = k)
        BY <3>1
      <4>2. \A i \in 1 .. (k - 1) : i \in 1 .. k /\ i \in 1 .. n /\ i # k
        BY <3>1
      <4>3. order[k] \notin First(k - 1)
        BY <1>3, <3>1, <4>2
      <4>4. First(k) = First(k - 1) \cup {order[k]}
        BY <3>1, <4>1, <4>2
      <4> QED BY <4>3, <4>4
    <3>4. order[k] \in StateSet
      BY <1>2, <3>1
    <3>5. SharedOut(r, Given(r, g[k - 1], order[k]), m, First(k - 1) \cup {order[k]})
      <4> HIDE DEF First
      <4> QED BY <3>2, <3>3, <3>4, GivenKeeps
    <3>6. SharedOut(r, g[k], m, First(k))
      BY <1>7, <3>1, <3>3, <3>5
    <3> QED BY <2>2, <3>6
  <2> QED BY <2>3, <2>4
<1>9. First(n) = W
  BY <1>2, <1>3
<1>10. SharedOut(r, g[n], m, First(n))
  BY <1>8
<1> QED BY <1>1, <1>4, <1>5, <1>9, <1>10

-----------------------------------------------------------------------------
(* Plans are made of reports, and states scraped of plans *)

\* The cycle has the visits a plan is created from, and a plan before it writes its status.
CycleFits ==
  /\ cycle.plan \in 1 .. (NumPlans + 1)
  /\ cycle.pc = "create" => cycle.visits \in Reports
  /\ cycle.pc \in {"approve", "execute", "send"} => plan[cycle.plan].status # "none"

\* A plan, once it is created, is what follows from the visits of a scout.
FromVisits(x, v) == x.report = Scouted[v].report /\ x.assignments = Scouted[v].assignments

FromReports(x) ==
  IF x.status = "none" THEN x.report = <<>> /\ x.assignments = <<>>
  ELSE \E v \in Reports : FromVisits(x, v)

\* What was scraped for the assignment w of the plan x is of its states.
CoveredFrom(x, w, t) ==
  IF t.pc = "none" THEN t.covered = {}
  ELSE w \in DOMAIN x.assignments
       /\ t.covered \subseteq IF x.assignments[w] = {} THEN StateSet ELSE x.assignments[w]

\* The inductive invariant of the assignments, beside PlanInv and JobsInv.
AssignedInv ==
  /\ CycleFits
  /\ \A p \in Plans : FromReports(plan[p])
  /\ \A p \in Plans, w \in Workers : CoveredFrom(plan[p], w, task[p][w])

LEMMA ScoutedShares ==
  ASSUME NEW v \in Reports
  PROVE  LET r == Scouted[v].report
             a == Scouted[v].assignments
             m == NumWorkers(r)
         IN /\ r \in Portal /\ r # <<>>
            /\ SharedOut(r, a, m, Worthwhile(r))
            /\ a \in Seq(SUBSET StateSet) /\ DOMAIN a = 1 .. m /\ 1 .. m \subseteq Workers
<1> DEFINE r == [s \in StateSet |-> StateReport(v[s])]
           m == NumWorkers(r)
<1>1. Scouted[v].report = r /\ Scouted[v].assignments = Assign(r)
  BY DEF Scouted
<1>2. v \in [StateSet -> Visit]
  BY ReportsAssumption
<1>3. ASSUME NEW s \in StateSet
      PROVE  StateReport(v[s]) \in [accessible : BOOLEAN, listings : Nat, antiBot : BOOLEAN, healthy : BOOLEAN]
  <2>1. v[s] \in Visit
    BY <1>2
  <2> QED BY <2>1 DEF Visit, StateReport
<1>4. r \in Portal
  BY <1>3 DEF Portal
<1>5. r # <<>>
  <2>1. STATES[1] \in StateSet
    BY StatesAssumption DEF StateSet
  <2> QED BY <2>1
<1> HIDE DEF r
<1>6. SharedOut(r, Assign(r), m, Worthwhile(r))
  BY <1>4, AssignShares
<1>7. m \in Nat \ {0} /\ m =< Len(Volumes) + 1
  BY WorkersCounted
<1>8. Assign(r) \in [1 .. m -> SUBSET StateSet]
  BY <1>6 DEF SharedOut
<1> HIDE DEF m
<1>9. Assign(r) \in Seq(SUBSET StateSet) /\ DOMAIN Assign(r) = 1 .. m
  BY <1>7, <1>8
<1>10. 1 .. m \subseteq Workers
  <2>1. Len(Volumes) \in Nat
    BY VolumesAssumption
  <2> QED BY <1>7, <2>1 DEF Workers
<1> USE DEF m
<1> QED BY <1>1, <1>4, <1>5, <1>6, <1>9, <1>10

\* The plan x of a scout.
LEMMA PlanShares ==
  ASSUME NEW x, FromReports(x), x.status # "none"
  PROVE  /\ \E v \in Reports : x.report = Scouted[v].report
         /\ x.assignments \in Seq(SUBSET StateSet) /\ DOMAIN x.assignments \subseteq Workers
         /\ SharedOut(x.report, x.assignments, NumWorkers(x.report), Worthwhile(x.report))
         /\ DOMAIN x.assignments = 1 .. NumWorkers(x.report)
<1>1. PICK v \in Reports : FromVisits(x, v)
  BY DEF FromReports
<1>2. PICK r, a : r = Scouted[v].report /\ a = Scouted[v].assignments
  OBVIOUS
<1>3. /\ SharedOut(r, a, NumWorkers(r), Worthwhile(r))
      /\ a \in Seq(SUBSET StateSet) /\ DOMAIN a = 1 .. NumWorkers(r) /\ 1 .. NumWorkers(r) \subseteq Workers
  BY <1>2, ScoutedShares
<1>4. x.report = r /\ x.assignments = a
  BY <1>1, <1>2 DEF FromVisits
<1> QED BY <1>2, <1>3, <1>4

\* A task of a message that was sent has states to scrape.
LEMMA TaskHasStates ==
  ASSUME AssignedInv, NEW p \in Plans, NEW w \in Workers, task[p][w].pc # "none"
  PROVE  plan[p].status # "none" /\ w \in DOMAIN plan[p].assignments /\ StatesOf(p, w) \subseteq StateSet
         /\ task[p][w].covered \subseteq StatesOf(p, w)
<1>1. FromReports(plan[p]) /\ CoveredFrom(plan[p], w, task[p][w])
  BY DEF AssignedInv
<1>2. w \in DOMAIN plan[p].assignments /\ task[p][w].covered \subseteq StatesOf(p, w)
  BY <1>1 DEF CoveredFrom, StatesOf
<1>3. plan[p].status # "none"
  BY <1>1, <1>2 DEF FromReports
<1>4. plan[p].assignments \in Seq(SUBSET StateSet)
  BY <1>1, <1>3, PlanShares
<1>5. plan[p].assignments[w] \subseteq StateSet
  BY <1>2, <1>4
<1> QED BY <1>2, <1>3, <1>5 DEF StatesOf

-----------------------------------------------------------------------------
(* Steps *)

\* A status is written over that of a plan that exists.
LEMMA StatusKeepsAssigned ==
  ASSUME PlanInv, AssignedInv, NEW p \in Plans, plan[p].status # "none", NEW s \in Written,
         StatusWritten(p, s), UNCHANGED task
  PROVE  /\ \A q \in Plans : FromReports(plan'[q])
         /\ \A q \in Plans, w \in Workers : CoveredFrom(plan'[q], w, task'[q][w])
         /\ \A q \in Plans : plan[q].status # "none" => plan'[q].status # "none"
<1>1. PICK R, A : plan \in PlanType(R, A)
  BY DEF PlanInv
<1>2. \A q \in Plans : /\ plan'[q].report = plan[q].report /\ plan'[q].assignments = plan[q].assignments
                       /\ plan'[q].status = IF q = p THEN s ELSE plan[q].status
  <2>1. PICK x : x = [plan[p] EXCEPT !.status = s]
    OBVIOUS
  <2>2. plan[p] \in [status : Written \cup {"none"}, report : R, assignments : A]
    BY <1>1 DEF PlanType
  <2>3. x.status = s /\ x.report = plan[p].report /\ x.assignments = plan[p].assignments
    BY <2>1, <2>2
  <2>4. plan' = [plan EXCEPT ![p] = x]
    BY <2>1 DEF StatusWritten
  <2>5. \A q \in Plans : plan'[q] = IF q = p THEN x ELSE plan[q]
    BY <1>1, <2>4 DEF PlanType
  <2> QED BY <2>3, <2>5
<1>3. ASSUME NEW q \in Plans
      PROVE  FromReports(plan'[q]) /\ (plan[q].status # "none" => plan'[q].status # "none")
  <2>1. FromReports(plan[q]) /\ (plan[q].status # "none" <=> plan'[q].status # "none")
    BY <1>2 DEF AssignedInv, Written
  <2> QED BY <1>2, <2>1 DEF FromReports, FromVisits
<1>4. ASSUME NEW q \in Plans, NEW w \in Workers PROVE CoveredFrom(plan'[q], w, task'[q][w])
  <2>1. CoveredFrom(plan[q], w, task[q][w])
    BY DEF AssignedInv
  <2> QED BY <1>2, <2>1 DEF CoveredFrom
<1> QED BY <1>3, <1>4

LEMMA DraftKeepsAssigned ==
  ASSUME PlanInv, AssignedInv, AtStatement("create"), DraftWritten, UNCHANGED task
  PROVE  /\ \A q \in Plans : FromReports(plan'[q])
         /\ \A q \in Plans, w \in Workers : CoveredFrom(plan'[q], w, task'[q][w])
         /\ \A q \in Plans : plan[q].status # "none" => plan'[q].status # "none"
         /\ plan'[cycle.plan].status # "none"
<1>1. PICK R, A : plan \in PlanType(R, A)
  BY DEF PlanInv
<1>2. cycle.pc = "create" /\ cycle.plan \in Plans /\ plan[cycle.plan].status = "none"
  BY DEF AtStatement, PlanInv, CycleAtPlan, Doing
<1>3. PICK v \in Reports : v = cycle.visits
  BY <1>2 DEF AssignedInv, CycleFits
<1>4. PICK x : x = [status |-> "draft", report |-> Scouted[v].report, assignments |-> Scouted[v].assignments]
  OBVIOUS
<1>5. x.status = "draft" /\ FromReports(x)
  BY <1>4 DEF FromReports, FromVisits
<1>6. plan' = [plan EXCEPT ![cycle.plan] = x]
  BY <1>3, <1>4 DEF DraftWritten
<1>7. \A q \in Plans : plan'[q] = IF q = cycle.plan THEN x ELSE plan[q]
  BY <1>1, <1>6 DEF PlanType
<1>8. ASSUME NEW q \in Plans, NEW w \in Workers PROVE CoveredFrom(plan'[q], w, task'[q][w])
  <2>1. CoveredFrom(plan[q], w, task[q][w]) /\ FromReports(plan[q])
    BY DEF AssignedInv
  <2>2. CASE q # cycle.plan
    BY <1>2, <1>7, <2>1, <2>2
  <2>3. CASE q = cycle.plan
    <3>1. plan[q].assignments = <<>>
      BY <1>2, <2>1, <2>3 DEF FromReports
    <3>2. task[q][w].pc = "none" /\ task[q][w].covered = {}
      BY <2>1, <3>1 DEF CoveredFrom
    <3> QED BY <1>2, <3>2 DEF CoveredFrom
  <2> QED BY <2>2, <2>3
<1>9. ASSUME NEW q \in Plans
      PROVE  FromReports(plan'[q]) /\ (plan[q].status # "none" => plan'[q].status # "none")
  BY <1>5, <1>7 DEF AssignedInv
<1> QED BY <1>2, <1>5, <1>7, <1>8, <1>9

LEMMA CycleFitsKept ==
  ASSUME PlanInv, AssignedInv,
         \A q \in Plans : plan[q].status # "none" => plan'[q].status # "none",
         \/ UNCHANGED cycle
         \/ cycle.pc \in Doing /\ cycle'.plan = cycle.plan + 1 /\ cycle'.pc \in {"scout", "phases"}
         \/ cycle'.plan = cycle.plan /\ cycle'.pc \in {"phases", "done"}
         \/ cycle'.plan = cycle.plan /\ cycle'.pc = "create" /\ cycle'.visits \in Reports
         \/ /\ cycle'.plan = cycle.plan /\ cycle'.pc \in {"approve", "execute", "send"}
            /\ plan'[cycle.plan].status # "none"
  PROVE  CycleFits'
<1>1. CycleFits /\ NumPlans \in Nat
  BY NumPlansAssumption DEF AssignedInv
<1>2. cycle.pc \in Doing => cycle.plan \in Plans
  BY DEF PlanInv, CycleAtPlan
<1>3. CASE UNCHANGED cycle
  BY <1>1, <1>2, <1>3 DEF CycleFits, Doing
<1>4. CASE cycle.pc \in Doing /\ cycle'.plan = cycle.plan + 1 /\ cycle'.pc \in {"scout", "phases"}
  BY <1>1, <1>2, <1>4 DEF CycleFits, Plans
<1> QED BY <1>1, <1>3, <1>4 DEF CycleFits

\* The steps to the next plan.
LEMMA NextPlanFits ==
  ASSUME PlanInv, cycle.pc \in Doing,
         \/ cycle' = NextPlan(cycle)
         \/ cycle' = [NextPlan(cycle) EXCEPT !.broken = TRUE]
  PROVE  cycle'.plan = cycle.plan + 1 /\ cycle'.pc \in {"scout", "phases"}
<1>1. /\ NextPlan(cycle) \in CycleType /\ NextPlan(cycle).plan = cycle.plan + 1
      /\ NextPlan(cycle).pc \in {"scout", "phases"}
  BY NextPlanMoves DEF PlanInv, CycleAtPlan
<1>2. PICK n : n = NextPlan(cycle)
  OBVIOUS
<1>3. n \in CycleType /\ n.plan = cycle.plan + 1 /\ n.pc \in {"scout", "phases"}
  BY <1>1, <1>2
<1>4. cycle' = n \/ cycle' = [n EXCEPT !.broken = TRUE]
  BY <1>2
<1> QED BY <1>3, <1>4 DEF CycleType

\* Steps that leave the plans and the tasks alone.
LEMMA QuietStepsKeepAssigned ==
  ASSUME PlanInv, AssignedInv,
         \/ ScoutPortal \/ ScoutFails \/ SendFails \/ StatementFails \/ RunPhase \/ PhaseFails
         \/ (\E q \in Requests, op \in {"approve", "cancel"} : ReadPlan(q, op)) \/ UNCHANGED vars
  PROVE  AssignedInv'
<1>1. UNCHANGED <<plan, task>>
  BY DEF ScoutPortal, ScoutFails, SendFails, StatementFails, RunPhase, PhaseFails, ReadPlan, vars
<1>2. cycle \in CycleType
  BY DEF PlanInv
<1>3. \/ UNCHANGED cycle
      \/ cycle.pc \in Doing /\ cycle'.plan = cycle.plan + 1 /\ cycle'.pc \in {"scout", "phases"}
      \/ cycle'.plan = cycle.plan /\ cycle'.pc \in {"phases", "done"}
      \/ cycle'.plan = cycle.plan /\ cycle'.pc = "create" /\ cycle'.visits \in Reports
  <2>1. CASE ScoutPortal
    <3>1. PICK v \in Reports : cycle' = [cycle EXCEPT !.pc = "create", !.visits = v]
      BY <2>1 DEF ScoutPortal
    <3>2. cycle'.plan = cycle.plan /\ cycle'.pc = "create" /\ cycle'.visits = v
      BY <1>2, <3>1 DEF CycleType
    <3> QED BY <3>2
  <2>2. CASE ScoutFails \/ SendFails \/ StatementFails
    <3>1. /\ cycle.pc \in Doing
          /\ cycle' = NextPlan(cycle) \/ cycle' = [NextPlan(cycle) EXCEPT !.broken = TRUE]
      BY <2>2 DEF ScoutFails, SendFails, StatementFails, Doing
    <3> QED BY <3>1, NextPlanFits
  <2>3. CASE RunPhase
    <3>1. PICK s : cycle' = PhaseOver([cycle EXCEPT !.done = s])
      BY <2>3 DEF RunPhase
    <3>2. PICK c, n, pc : /\ c = [cycle EXCEPT !.done = s] /\ n = c.phase + 1
                          /\ pc = IF c.phase = Len(Phases) THEN "done" ELSE "phases"
      OBVIOUS
    <3>3. cycle' = [c EXCEPT !.phase = n, !.pc = pc] /\ pc \in {"phases", "done"}
      BY <3>1, <3>2 DEF PhaseOver
    <3>4. cycle'.plan = c.plan /\ cycle'.pc = pc /\ c.plan = cycle.plan
      BY <1>2, <3>2, <3>3 DEF CycleType
    <3> QED BY <3>3, <3>4
  <2>4. CASE PhaseFails
    <3>1. PICK c, n, pc : /\ c = [cycle EXCEPT !.broken = TRUE] /\ n = c.phase + 1
                          /\ pc = IF c.phase = Len(Phases) THEN "done" ELSE "phases"
      OBVIOUS
    <3>2. cycle' = [c EXCEPT !.phase = n, !.pc = pc] /\ pc \in {"phases", "done"}
      BY <2>4, <3>1 DEF PhaseFails, PhaseOver
    <3>3. cycle'.plan = c.plan /\ cycle'.pc = pc /\ c.plan = cycle.plan
      BY <1>2, <3>1, <3>2 DEF CycleType
    <3> QED BY <3>2, <3>3
  <2>5. CASE (\E q \in Requests, op \in {"approve", "cancel"} : ReadPlan(q, op)) \/ UNCHANGED vars
    BY <2>5 DEF ReadPlan, vars
  <2> QED BY <2>1, <2>2, <2>3, <2>4, <2>5
<1>4. CycleFits'
  BY <1>1, <1>3, CycleFitsKept
<1> QED BY <1>1, <1>4 DEF AssignedInv

LEMMA PlanWritesKeepAssigned ==
  ASSUME PlanInv, AssignedInv,
         \/ CreatePlan \/ ApprovePlan \/ ExecutePlan \/ StatementFailsLate
         \/ \E q \in Requests : WritePlan(q)
  PROVE  AssignedInv'
<1>1. cycle \in CycleType
  BY DEF PlanInv
<1>2. CASE CreatePlan
  <2>1. /\ \A q \in Plans : FromReports(plan'[q])
        /\ \A q \in Plans, w \in Workers : CoveredFrom(plan'[q], w, task'[q][w])
        /\ \A q \in Plans : plan[q].status # "none" => plan'[q].status # "none"
        /\ plan'[cycle.plan].status # "none"
    BY <1>2, DraftKeepsAssigned DEF CreatePlan
  <2>2. \/ cycle.pc \in Doing /\ cycle'.plan = cycle.plan + 1 /\ cycle'.pc \in {"scout", "phases"}
        \/ cycle'.plan = cycle.plan /\ cycle'.pc = "approve"
    <3>1. cycle.pc \in Doing
      BY <1>2 DEF CreatePlan, AtStatement, Doing
    <3>2. CASE cycle' = NextPlan(cycle)
      BY <3>1, <3>2, NextPlanFits
    <3>3. CASE cycle' = [cycle EXCEPT !.pc = "approve"]
      BY <1>1, <3>3 DEF CycleType
    <3> QED BY <1>2, <3>2, <3>3 DEF CreatePlan
  <2>3. CycleFits'
    BY <2>1, <2>2, CycleFitsKept
  <2> QED BY <2>1, <2>3 DEF AssignedInv
<1>3. CASE ApprovePlan \/ ExecutePlan
  <2>1. /\ cycle.plan \in Plans /\ plan[cycle.plan].status # "none" /\ UNCHANGED task
        /\ cycle.pc \in {"approve", "execute"}
    BY <1>3 DEF ApprovePlan, ExecutePlan, AtStatement, PlanInv, CycleAtPlan, Doing, AssignedInv, CycleFits
  <2>2. PICK s \in Written : StatusWritten(cycle.plan, s)
    BY <1>3 DEF ApprovePlan, ExecutePlan, CycleWrites, StatusWritten, Written
  <2>3. /\ \A q \in Plans : FromReports(plan'[q])
        /\ \A q \in Plans, w \in Workers : CoveredFrom(plan'[q], w, task'[q][w])
        /\ \A q \in Plans : plan[q].status # "none" => plan'[q].status # "none"
    BY <2>1, <2>2, StatusKeepsAssigned
  <2>4. cycle'.plan = cycle.plan /\ cycle'.pc \in {"execute", "send"}
    <3>1. CASE ApprovePlan
      BY <1>1, <3>1 DEF ApprovePlan, CycleType
    <3>2. CASE ExecutePlan
      <4>1. PICK pc, n : pc = "send" /\ n = 1 /\ cycle' = [cycle EXCEPT !.pc = pc, !.next = n]
        BY <3>2 DEF ExecutePlan
      <4> QED BY <1>1, <4>1 DEF CycleType
    <3> QED BY <1>3, <3>1, <3>2
  <2>5. CycleFits'
    BY <2>1, <2>3, <2>4, CycleFitsKept
  <2> QED BY <2>3, <2>5 DEF AssignedInv
<1>4. CASE StatementFailsLate
  <2>1. /\ \A q \in Plans : FromReports(plan'[q])
        /\ \A q \in Plans, w \in Workers : CoveredFrom(plan'[q], w, task'[q][w])
        /\ \A q \in Plans : plan[q].status # "none" => plan'[q].status # "none"
    <3>1. UNCHANGED task
      BY <1>4 DEF StatementFailsLate
    <3>2. CASE AtStatement("create") /\ DraftWritten
      BY <3>1, <3>2, DraftKeepsAssigned
    <3>3. CASE \/ AtStatement("approve") /\ CycleWrites("draft", "approved")
               \/ AtStatement("execute") /\ CycleWrites("approved", "running")
      <4>1. cycle.plan \in Plans /\ plan[cycle.plan].status # "none"
        BY <3>3 DEF AtStatement, PlanInv, CycleAtPlan, Doing, AssignedInv, CycleFits
      <4>2. PICK s \in Written : StatusWritten(cycle.plan, s)
        BY <3>3 DEF CycleWrites, StatusWritten, Written
      <4> QED BY <3>1, <4>1, <4>2, StatusKeepsAssigned
    <3> QED BY <1>4, <3>2, <3>3 DEF StatementFailsLate
  <2>2. cycle.pc \in Doing /\ cycle' = [NextPlan(cycle) EXCEPT !.broken = TRUE]
    BY <1>4 DEF StatementFailsLate, AtStatement, Doing
  <2>3. CycleFits'
    BY <2>1, <2>2, NextPlanFits, CycleFitsKept
  <2> QED BY <2>1, <2>3 DEF AssignedInv
<1>5. CASE \E q \in Requests : WritePlan(q)
  <2>1. PICK q \in Requests : WritePlan(q)
    BY <1>5
  <2>2. PICK p, s : p = request[q].plan /\ s = IF request[q].pc = "approve" THEN "approved" ELSE "cancelled"
    OBVIOUS
  <2>3. /\ p \in Plans /\ plan[p].status # "none" /\ s \in Written
        /\ StatusWritten(p, s) /\ UNCHANGED <<task, cycle>>
    BY <2>1, <2>2 DEF WritePlan, PlanInv, RequestRead, StatusWritten, Written
  <2>4. /\ \A r \in Plans : FromReports(plan'[r])
        /\ \A r \in Plans, w \in Workers : CoveredFrom(plan'[r], w, task'[r][w])
        /\ \A r \in Plans : plan[r].status # "none" => plan'[r].status # "none"
    BY <2>3, StatusKeepsAssigned
  <2>5. CycleFits'
    BY <2>3, <2>4, CycleFitsKept
  <2> QED BY <2>4, <2>5 DEF AssignedInv
<1> QED BY <1>2, <1>3, <1>4, <1>5

\* A task is set, with states of its assignment.
LEMMA TaskKeepsAssigned ==
  ASSUME JobsInv, AssignedInv, NEW p \in Plans, NEW w \in Workers, NEW t, SetTask(p, w, t),
         CoveredFrom(plan[p], w, t), UNCHANGED plan, CycleFits'
  PROVE  AssignedInv'
<1>1. task \in [Plans -> [Workers -> Task]]
  BY DEF JobsInv, JobTypes
<1>2. task' = [task EXCEPT ![p] = [task[p] EXCEPT ![w] = t]]
  BY DEF SetTask
<1>3. \A q \in Plans, v \in Workers : task'[q][v] = IF q = p /\ v = w THEN t ELSE task[q][v]
  BY <1>1, <1>2
<1>4. ASSUME NEW q \in Plans, NEW v \in Workers PROVE CoveredFrom(plan'[q], v, task'[q][v])
  <2>1. CoveredFrom(plan[q], v, task[q][v])
    BY DEF AssignedInv
  <2> QED BY <1>3, <2>1
<1> QED BY <1>4 DEF AssignedInv

LEMMA SendTaskKeepsAssigned == ASSUME PlanInv, JobsInv, AssignedInv, SendTask PROVE AssignedInv'
<1> DEFINE p == cycle.plan
           w == cycle.next
<1>1. /\ cycle.pc = "send" /\ cycle \in CycleType /\ p \in Plans /\ plan[p].status # "none"
      /\ w \in DOMAIN plan[p].assignments /\ UNCHANGED plan
  BY DEF SendTask, PlanInv, CycleAtPlan, Doing, AssignedInv, CycleFits
<1>2. w \in Workers
  <2>1. FromReports(plan[p])
    BY <1>1 DEF AssignedInv
  <2>2. DOMAIN plan[p].assignments \subseteq Workers
    BY <1>1, <2>1, PlanShares
  <2> QED BY <1>1, <2>2
<1>3. CycleFits'
  <2>1. CASE cycle' = NextPlan(cycle)
    BY <1>1, <2>1, NextPlanFits, CycleFitsKept DEF Doing
  <2>2. CASE cycle' = [cycle EXCEPT !.next = @ + 1]
    <3>1. cycle'.plan = cycle.plan /\ cycle'.pc = "send"
      BY <1>1, <2>2 DEF CycleType
    <3> QED BY <1>1, <3>1, CycleFitsKept
  <2> QED BY <2>1, <2>2 DEF SendTask
<1>4. PICK old, pc, t : old = task[p][w] /\ pc = "queued" /\ t = [old EXCEPT !.pc = pc]
  OBVIOUS
<1>5. task \in [Plans -> [Workers -> Task]]
  BY DEF JobsInv, JobTypes
<1>6. old \in Task
  BY <1>1, <1>2, <1>4, <1>5
<1>7. t.pc = "queued" /\ t.covered = old.covered
  BY <1>4, <1>6 DEF Task
<1>8. CoveredFrom(plan[p], w, old)
  BY <1>1, <1>2, <1>4 DEF AssignedInv
<1>9. CoveredFrom(plan[p], w, t)
  BY <1>1, <1>7, <1>8 DEF CoveredFrom
<1>10. SetTask(p, w, t)
  <2>1. task' = [task EXCEPT ![p][w].pc = "queued"]
    BY DEF SendTask
  <2> QED BY <1>4, <2>1 DEF SetTask
<1> HIDE DEF p, w
<1> QED BY <1>1, <1>2, <1>3, <1>9, <1>10, TaskKeepsAssigned

LEMMA WorkerKeepsAssigned ==
  ASSUME PlanInv, JobsInv, AssignedInv, NEW p \in Plans, NEW w \in Workers,
         WorkerStep(p, w) \/ WorkerFault(p, w)
  PROVE  AssignedInv'
<1> DEFINE old == task[p][w]
<1>1. old \in Task /\ old.pc # "none" /\ UNCHANGED <<cycle, plan>>
  BY DEF WorkerStep, WorkerFault, OpenJob, Scrape, CloseJob, ScrapeFails, ActorRaises, TimeLimit,
         WorkerCrash, JobsInv, JobTypes
<1>2. /\ w \in DOMAIN plan[p].assignments /\ old.covered \subseteq StatesOf(p, w)
      /\ plan[p].status # "none"
  BY <1>1, TaskHasStates
<1>3. \E t : SetTask(p, w, t) /\ t.pc # "none" /\ t.covered \subseteq StatesOf(p, w)
  <2>1. CASE OpenJob(p, w)
    <3>1. PICK t : t = [old EXCEPT !.pc = "working", !.outcome = "none",
                                   !.rows = Append(old.rows, "running")]
      OBVIOUS
    <3>2. t.pc = "working" /\ t.covered = old.covered
      BY <1>1, <3>1 DEF Task
    <3>3. SetTask(p, w, t)
      BY <2>1, <3>1 DEF OpenJob
    <3> QED BY <1>2, <3>2, <3>3
  <2>2. CASE Scrape(p, w)
    <3>1. PICK c, pc, o, t : /\ c = old.covered \cup StatesOf(p, w) /\ pc = "closing" /\ o = "completed"
                             /\ t = [old EXCEPT !.pc = pc, !.outcome = o, !.covered = c]
      OBVIOUS
    <3>2. t.pc = "closing" /\ t.covered = c
      BY <1>1, <3>1 DEF Task
    <3>3. SetTask(p, w, t)
      BY <2>2, <3>1 DEF Scrape
    <3> QED BY <1>2, <3>1, <3>2, <3>3
  <2>3. CASE CloseJob(p, w)
    <3>1. PICK r, pc, t : /\ r = [old.rows EXCEPT ![Len(old.rows)] = old.outcome] /\ pc = "acked"
                          /\ t = [old EXCEPT !.pc = pc, !.rows = r]
      OBVIOUS
    <3>2. t.pc = "acked" /\ t.covered = old.covered
      BY <1>1, <3>1 DEF Task
    <3>3. SetTask(p, w, t)
      BY <2>3, <3>1 DEF CloseJob
    <3> QED BY <1>2, <3>2, <3>3
  <2>4. CASE ScrapeFails(p, w)
    <3>1. PICK o, pc, t : o = "failed" /\ pc = "closing" /\ t = [old EXCEPT !.pc = pc, !.outcome = o]
      OBVIOUS
    <3>2. t.pc = "closing" /\ t.covered = old.covered
      BY <1>1, <3>1 DEF Task
    <3>3. SetTask(p, w, t)
      BY <2>4, <3>1 DEF ScrapeFails
    <3> QED BY <1>2, <3>2, <3>3
  <2>5. CASE ActorRaises(p, w) \/ TimeLimit(p, w) \/ WorkerCrash(p, w)
    BY <1>2, <2>5, ActorRaisesTo, AttemptLostTo
  <2> QED BY <2>1, <2>2, <2>3, <2>4, <2>5 DEF WorkerStep, WorkerFault
<1>4. PICK t : SetTask(p, w, t) /\ t.pc # "none" /\ t.covered \subseteq StatesOf(p, w)
  BY <1>3
<1>5. CoveredFrom(plan[p], w, t)
  BY <1>2, <1>4 DEF CoveredFrom, StatesOf
<1>6. CycleFits'
  BY <1>1, CycleFitsKept
<1> QED BY <1>1, <1>4, <1>5, <1>6, TaskKeepsAssigned

LEMMA StepKeepsAssigned == PlanInv /\ JobsInv /\ AssignedInv /\ [Next]_vars => AssignedInv'
<1> SUFFICES ASSUME PlanInv, JobsInv, AssignedInv, [Next]_vars PROVE AssignedInv'
  OBVIOUS
<1>1. CASE ScoutPortal \/ ScoutFails \/ SendFails \/ StatementFails \/ RunPhase \/ PhaseFails
           \/ UNCHANGED vars
  BY <1>1, QuietStepsKeepAssigned
<1>2. CASE CreatePlan \/ ApprovePlan \/ ExecutePlan \/ StatementFailsLate
  BY <1>2, PlanWritesKeepAssigned
<1>3. CASE SendTask
  BY <1>3, SendTaskKeepsAssigned
<1>4. CASE Dashboard
  <2>1. PICK q \in Requests : WritePlan(q) \/ \E op \in {"approve", "cancel"} : ReadPlan(q, op)
    BY <1>4 DEF Dashboard
  <2>2. CASE WritePlan(q)
    BY <2>2, PlanWritesKeepAssigned
  <2>3. CASE \E op \in {"approve", "cancel"} : ReadPlan(q, op)
    BY <2>3, QuietStepsKeepAssigned
  <2> QED BY <2>1, <2>2, <2>3
<1>5. CASE \E p \in Plans, w \in Workers : WorkerStep(p, w) \/ WorkerFault(p, w)
  BY <1>5, WorkerKeepsAssigned
<1> QED BY <1>1, <1>2, <1>3, <1>4, <1>5 DEF Next, CycleStep

LEMMA StepKeepsJobs == PlanInv /\ PlanInv' /\ JobsInv /\ AssignedInv /\ [Next]_vars => JobsInv'
<1> SUFFICES ASSUME PlanInv, PlanInv', JobsInv, AssignedInv, [Next]_vars PROVE JobsInv'
  OBVIOUS
<1>1. CASE \/ ScoutPortal \/ ScoutFails \/ CreatePlan \/ ApprovePlan \/ ExecutePlan \/ SendFails
           \/ StatementFails \/ StatementFailsLate \/ RunPhase \/ PhaseFails \/ Dashboard
           \/ UNCHANGED vars
  BY <1>1, OtherStepsKeepJobs
<1>2. CASE SendTask
  BY <1>2, SendTaskKeepsJobs
<1>3. CASE \E p \in Plans, w \in Workers : WorkerStep(p, w) \/ WorkerFault(p, w)
  <2>1. PICK p \in Plans, w \in Workers : WorkerStep(p, w) \/ WorkerFault(p, w)
    BY <1>3
  <2>2. Scrape(p, w) => StatesOf(p, w) \subseteq StateSet
    BY TaskHasStates DEF Scrape
  <2>3. CASE OpenJob(p, w)
    BY <2>3, OpenJobKeeps
  <2>4. CASE Scrape(p, w) \/ ScrapeFails(p, w)
    BY <2>2, <2>4, ScrapeKeeps
  <2>5. CASE CloseJob(p, w)
    BY <2>5, CloseJobKeeps
  <2>6. CASE ActorRaises(p, w) \/ TimeLimit(p, w) \/ WorkerCrash(p, w)
    BY <2>6, FaultKeeps
  <2> QED BY <2>1, <2>3, <2>4, <2>5, <2>6 DEF WorkerStep, WorkerFault
<1> QED BY <1>1, <1>2, <1>3 DEF Next, CycleStep

LEMMA InitJobs == Init => JobsInv /\ AssignedInv
<1> SUFFICES ASSUME Init PROVE JobsInv /\ AssignedInv
  OBVIOUS
<1>1. PICK t : t = [pc |-> "none", tries |-> 0, outcome |-> "none", rows |-> <<>>, covered |-> {}]
  OBVIOUS
<1>2. t \in Task /\ t.pc = "none" /\ t.rows = <<>> /\ t.covered = {}
  BY <1>1 DEF Task
<1>3. task = [p \in Plans |-> [w \in Workers |-> t]]
  BY <1>1 DEF Init
<1>4. task \in [Plans -> [Workers -> Task]] /\ \A p \in Plans, w \in Workers : task[p][w] = t
  BY <1>2, <1>3
<1>5. used \in [EnvEvents -> Nat] /\ \A e \in EnvEvents : used[e] = 0
  BY DEF Init
<1>6. \A e \in EnvEvents : used[e] \in 0 .. Bound[e]
  BY <1>5, BoundAssumption
<1>7. Faults = 0
  BY <1>5 DEF Faults, EnvEvents
<1>8. Left = {}
  <2>1. LeftBy(t) = {}
    BY <1>2 DEF LeftBy
  <2>2. \A x : x \notin Left
    BY <1>4, <2>1, LeftMember DEF Left
  <2> QED BY <2>2
<1>9. JobsInv
  BY <1>2, <1>4, <1>5, <1>6, <1>7, <1>8, FS_EmptySet DEF JobsInv, JobTypes, Unsent, RowInHand, InHand
<1>10. CycleFits
  BY NumPlansAssumption DEF Init, CycleFits
<1>11. \A p \in Plans : FromReports(plan[p])
  BY DEF Init, FromReports
<1>12. \A p \in Plans, w \in Workers : CoveredFrom(plan[p], w, task[p][w])
  BY <1>2, <1>4 DEF CoveredFrom
<1> QED BY <1>9, <1>10, <1>11, <1>12 DEF AssignedInv

LEMMA WorkInvariant == Spec => [](PlanInv /\ JobsInv /\ AssignedInv)
<1>1. Init => PlanInv /\ JobsInv /\ AssignedInv
  BY InitPlan, InitJobs
<1>2. PlanInv /\ JobsInv /\ AssignedInv /\ [Next]_vars => (PlanInv /\ JobsInv /\ AssignedInv)'
  BY StepRefines, StepKeepsAssigned, StepKeepsJobs
<1> QED BY <1>1, <1>2, PTL DEF Spec

\* Whatever fails, each row left running is accounted for by a fault of its own.
THEOREM RunningJobsAccountedCorrect == Spec => []RunningJobsAccounted
<1>1. JobsInv => RunningJobsAccounted
  <2>1. \A p \in Plans, w \in Workers : Abandoned(p, w) = LeftBy(task[p][w])
    BY DEF Abandoned, LeftBy, InHand
  <2>2. UNION {{p} \X {w} \X Abandoned(p, w) : p \in Plans, w \in Workers} = Left
    BY <2>1 DEF Left, LeftOf
  <2> QED BY <2>2 DEF JobsInv, RunningJobsAccounted, Faults
<1> QED BY <1>1, WorkInvariant, PTL

\* Whatever the scouts find, for any number of states and of tiers, the states are shared out fairly.
THEOREM AssignmentIsFairCorrect == Spec => []AssignmentIsFair
<1>1. AssignedInv => AssignmentIsFair
  <2> SUFFICES ASSUME AssignedInv, NEW p \in Plans, plan[p].status # "none"
               PROVE  LET r == plan[p].report
                          a == plan[p].assignments
                      IN /\ UNION {a[w] : w \in DOMAIN a} = Worthwhile(r)
                         /\ \A w, v \in DOMAIN a : w # v =>
                              /\ a[w] \cap a[v] = {}
                              /\ a[w] = {} \/ \E s \in a[w] : Load(r, a[w] \ {s}) =< Load(r, a[v])
    BY DEF AssignmentIsFair
  <2>1. PICK r, a : r = plan[p].report /\ a = plan[p].assignments
    OBVIOUS
  <2>2. SharedOut(r, a, NumWorkers(r), Worthwhile(r)) /\ DOMAIN a = 1 .. NumWorkers(r)
    BY <2>1, PlanShares DEF AssignedInv
  <2> QED BY <2>1, <2>2 DEF SharedOut
<1> QED BY <1>1, WorkInvariant, PTL

\* However often their messages are handed out, workers that were all given states share none.
THEOREM StatesCoveredOnceCorrect == Spec => []StatesCoveredOnce
<1>1. AssignedInv => StatesCoveredOnce
  <2> SUFFICES ASSUME AssignedInv, NEW p \in Plans,
                      \A w \in DOMAIN plan[p].assignments : plan[p].assignments[w] # {},
                      NEW w \in Workers, NEW v \in Workers, w # v
               PROVE  task[p][w].covered \cap task[p][v].covered = {}
    BY DEF StatesCoveredOnce
  <2>1. CoveredFrom(plan[p], w, task[p][w]) /\ CoveredFrom(plan[p], v, task[p][v])
    BY DEF AssignedInv
  <2>2. CASE task[p][w].pc = "none" \/ task[p][v].pc = "none"
    BY <2>1, <2>2 DEF CoveredFrom
  <2>3. CASE task[p][w].pc # "none" /\ task[p][v].pc # "none"
    <3>1. PICK r, a : r = plan[p].report /\ a = plan[p].assignments
      OBVIOUS
    <3>2. w \in DOMAIN a /\ v \in DOMAIN a /\ plan[p].status # "none"
      BY <2>3, <3>1, TaskHasStates
    <3>3. task[p][w].covered \subseteq a[w] /\ task[p][v].covered \subseteq a[v]
      BY <2>1, <2>3, <3>1, <3>2 DEF CoveredFrom
    <3>4. SharedOut(r, a, NumWorkers(r), Worthwhile(r)) /\ DOMAIN a = 1 .. NumWorkers(r)
      BY <3>1, <3>2, PlanShares DEF AssignedInv
    <3>5. a[w] \cap a[v] = {}
      BY <3>2, <3>4 DEF SharedOut
    <3> QED BY <3>3, <3>5
  <2> QED BY <2>2, <2>3
<1> QED BY <1>1, WorkInvariant, PTL

\* Every plan, message and job has one of its states.
THEOREM TypeCorrect == Spec => []TypeOK
<1>1. PlanInv /\ JobsInv /\ AssignedInv => TypeOK
  <2> SUFFICES ASSUME PlanInv, JobsInv, AssignedInv PROVE TypeOK
    OBVIOUS
  <2>1. cycle \in Cycle
    <3>1. cycle \in CycleType /\ cycle.plan \in 1 .. (NumPlans + 1)
      BY DEF PlanInv, AssignedInv, CycleFits
    <3>2. {Phases[i] : i \in DOMAIN Phases} = {"etl", "export", "supabase"}
      <4>1. /\ DOMAIN Phases = {1, 2, 3}
            /\ Phases[1] = "etl" /\ Phases[2] = "export" /\ Phases[3] = "supabase"
        BY DEF Phases
      <4> HIDE DEF Phases
      <4> QED BY <4>1
    <3> QED BY <3>1, <3>2 DEF CycleType, Cycle, Doing
  <2>2. plan \in [Plans -> Plan]
    <3>1. PICK R, A : plan \in PlanType(R, A)
      BY DEF PlanInv
    <3>2. ASSUME NEW p \in Plans PROVE plan[p] \in Plan
      <4>1. plan[p] \in [status : Written \cup {"none"}, report : R, assignments : A] /\ FromReports(plan[p])
        BY <3>1 DEF PlanType, AssignedInv
      <4>2. plan[p].report \in {Scouted[v].report : v \in Reports} \cup {<<>>}
        BY <4>1, PlanShares DEF FromReports
      <4>3. plan[p].assignments \in Seq(SUBSET StateSet)
        <5>1. CASE plan[p].status = "none"
          <6>1. plan[p].assignments = <<>> /\ <<>> \in Seq(SUBSET StateSet)
            BY <4>1, <5>1 DEF FromReports
          <6> QED BY <6>1
        <5>2. CASE plan[p].status # "none"
          BY <4>1, <5>2, PlanShares
        <5> QED BY <5>1, <5>2
      <4> QED BY <4>1, <4>2, <4>3 DEF Plan, Status, Written
    <3> QED BY <3>1, <3>2 DEF PlanType
  <2> QED BY <2>1, <2>2 DEF PlanInv, JobsInv, JobTypes, TypeOK
<1> QED BY <1>1, WorkInvariant, PTL

=============================================================================
