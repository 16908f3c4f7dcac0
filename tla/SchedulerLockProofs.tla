------------------------- MODULE SchedulerLockProofs -------------------------
(* Proofs about SchedulerLock for any set of daemons, any lease and any poll, and drains *)
(* of any length.                                                                        *)
EXTENDS SchedulerLock, FiniteSetTheorems, TLAPS

Held == IF ttl > 0 THEN 1 ELSE 0

\* A held key admits one daemon more than there have been lapses, and its time to live
\* and the silence of an active daemon make up the lease.
LockInv ==
  /\ TypeOK
  /\ Cardinality(ActiveDaemons) =< lapses + Held
  /\ ttl > 0 => \A d \in ActiveDaemons : ttl + since[d] >= Lease

LEMMA ConstantTypes == Lease \in Nat /\ Lease > 0 /\ Poll \in Nat /\ MaxLapses \in Nat
  BY LeaseAssumption, PollAssumption, MaxLapsesAssumption

\* Any change of pc leaves finitely many daemons active.
LEMMA ActiveFinite ==
  /\ IsFiniteSet(ActiveDaemons) /\ Cardinality(ActiveDaemons) \in Nat
  /\ IsFiniteSet(ActiveDaemons') /\ Cardinality(ActiveDaemons') \in Nat
  BY DaemonsAssumption, FS_Subset, FS_CardinalityType DEF ActiveDaemons

LEMMA LockInit == Init => LockInv
  <1> SUFFICES ASSUME Init PROVE LockInv
    OBVIOUS
  <1>1. ActiveDaemons = {}
    BY DEF Init, ActiveDaemons, Active
  <1>2. Cardinality(ActiveDaemons) = 0
    BY <1>1, FS_EmptySet
  <1>3. TypeOK /\ Held = 0 /\ lapses = 0 /\ ttl = 0
    BY ConstantTypes DEF Init, TypeOK, Held
  <1> QED BY <1>1, <1>2, <1>3 DEF LockInv

\* One daemon fewer is active.
LEMMA OneLeaves ==
  ASSUME TypeOK, NEW d \in ActiveDaemons, pc' = [pc EXCEPT ![d] = "down"]
  PROVE  /\ ActiveDaemons' = ActiveDaemons \ {d}
         /\ Cardinality(ActiveDaemons') = Cardinality(ActiveDaemons) - 1
  <1>1. ActiveDaemons' = ActiveDaemons \ {d}
    BY DEF TypeOK, ActiveDaemons, Active
  <1> QED BY <1>1, ActiveFinite, FS_RemoveElement

LEMMA LockStep == LockInv /\ [Next]_vars => LockInv'
  <1> SUFFICES ASSUME LockInv, [Next]_vars PROVE LockInv'
    OBVIOUS
  <1>1. /\ ttl \in 0 .. Lease /\ pc \in [Daemons -> {"down"} \cup Active]
        /\ since \in [Daemons -> 0 .. Lease] /\ lapses \in 0 .. MaxLapses
    BY DEF LockInv, TypeOK
  <1>2. ASSUME NEW d \in Daemons, Acquire(d) PROVE LockInv'
    <2>1. ActiveDaemons' = ActiveDaemons \cup {d} /\ d \notin ActiveDaemons
      BY <1>1, <1>2 DEF Acquire, ActiveDaemons, Active
    <2>2. Cardinality(ActiveDaemons') = Cardinality(ActiveDaemons) + 1
      BY <2>1, ActiveFinite, FS_AddElement
    <2>3. Cardinality(ActiveDaemons) =< lapses
      BY <1>1, <1>2, ActiveFinite DEF Acquire, LockInv, Held
    <2>4. ttl' = Lease /\ lapses' = lapses /\ TypeOK'
      BY <1>1, <1>2, ConstantTypes DEF Acquire, TypeOK, Active
    <2>5. Held' = 1
      BY <2>4, ConstantTypes DEF Held
    <2>6. Cardinality(ActiveDaemons') =< lapses' + Held'
      BY <1>1, <2>2, <2>3, <2>4, <2>5, ActiveFinite
    <2>7. \A e \in ActiveDaemons' : ttl' + since'[e] >= Lease
      BY <2>4, ConstantTypes DEF TypeOK, ActiveDaemons
    <2> QED BY <2>4, <2>6, <2>7 DEF LockInv
  <1>3. ASSUME NEW d \in Daemons, Refresh(d) PROVE LockInv'
    <2>1. ActiveDaemons' = ActiveDaemons /\ lapses' = lapses /\ Held' = Held
      BY <1>1, <1>3, ConstantTypes DEF Refresh, ActiveDaemons, Held
    <2>2. TypeOK'
      BY <1>1, <1>3, ConstantTypes DEF Refresh, TypeOK
    <2>3. ttl' > 0 => \A e \in ActiveDaemons' : ttl' + since'[e] >= Lease
      BY <1>3, <2>2, ConstantTypes DEF Refresh, TypeOK, ActiveDaemons
    <2> QED BY <2>1, <2>2, <2>3 DEF LockInv
  <1>4. ASSUME NEW d \in Daemons, StartDrain(d) PROVE LockInv'
    <2>1. ActiveDaemons' = ActiveDaemons /\ Held' = Held /\ TypeOK'
      BY <1>1, <1>4 DEF StartDrain, ActiveDaemons, Active, Held, TypeOK
    <2> QED BY <1>4, <2>1 DEF StartDrain, LockInv
  <1>5. ASSUME NEW d \in Daemons, Release(d) \/ Crash(d) PROVE LockInv'
    <2>1. d \in ActiveDaemons /\ pc' = [pc EXCEPT ![d] = "down"]
      BY <1>5 DEF Release, Crash, ActiveDaemons, Active
    <2>2. /\ ActiveDaemons' = ActiveDaemons \ {d}
          /\ Cardinality(ActiveDaemons') = Cardinality(ActiveDaemons) - 1
      BY <2>1, OneLeaves DEF LockInv
    <2>3. TypeOK'
      BY <1>1, <1>5, ConstantTypes DEF Release, Crash, TypeOK
    <2>4. lapses' = lapses /\ (ttl' = 0 \/ ttl' = ttl)
      BY <1>5 DEF Release, Crash
    <2>5. Held \in {0, 1} /\ ((Held' = 0 /\ ttl' = 0) \/ Held' = Held)
      BY <1>1, <2>4 DEF Held
    <2>6. Cardinality(ActiveDaemons') =< lapses' + Held'
      BY <1>1, <2>2, <2>4, <2>5, ActiveFinite DEF LockInv
    <2>7. ttl' > 0 => \A e \in ActiveDaemons' : ttl' + since'[e] >= Lease
      BY <1>1, <1>5, <2>2, <2>4 DEF Release, Crash, LockInv, ActiveDaemons
    <2> QED BY <2>3, <2>6, <2>7 DEF LockInv
  <1>6. ASSUME TimePasses PROVE LockInv'
    <2>1. ActiveDaemons' = ActiveDaemons
      BY <1>6 DEF TimePasses, ActiveDaemons
    <2>2. \A d \in Daemons : since'[d] \in 0 .. Lease
      BY <1>1, <1>6, ConstantTypes DEF TimePasses
    <2>3. since' \in [Daemons -> 0 .. Lease] /\ TypeOK'
      <3>1. since' = [d \in Daemons |-> since'[d]]
        BY <1>6 DEF TimePasses
      <3>2. since' \in [Daemons -> 0 .. Lease]
        BY <2>2, <3>1
      <3>3. ttl' \in 0 .. Lease /\ lapses' \in 0 .. MaxLapses
        BY <1>1, <1>6, ConstantTypes DEF TimePasses
      <3> QED BY <1>1, <1>6, <3>2, <3>3 DEF TimePasses, TypeOK
    <2>4. Cardinality(ActiveDaemons) =< lapses' + Held'
      <3>1. CASE Lapses
        <4>1. lapses' = lapses + 1 /\ ttl = 1
          BY <1>6, <3>1 DEF TimePasses, Lapses
        <4> QED BY <1>1, <1>6, <4>1, ActiveFinite DEF TimePasses, LockInv, Held
      <3>2. CASE ~Lapses /\ ttl = 1
        <4>1. Cardinality(ActiveDaemons) = 0
          BY <3>2, FS_EmptySet DEF Lapses
        <4>2. lapses' \in Nat /\ (Held' = 0 \/ Held' = 1)
          BY <2>3, ConstantTypes DEF Held, TypeOK
        <4>3. 0 =< lapses' + Held'
          BY <4>2
        <4> QED BY <4>1, <4>3
      <3>3. CASE ~Lapses /\ ttl # 1
        <4>1. lapses' = lapses /\ Held' = Held
          BY <1>1, <1>6, <3>3 DEF TimePasses, Held
        <4> QED BY <4>1 DEF LockInv
      <3> QED BY <3>1, <3>2, <3>3
    <2>5. ASSUME ttl' > 0, NEW d \in ActiveDaemons PROVE ttl' + since'[d] >= Lease
      <3>1. ttl' = ttl - 1 /\ ttl > 0 /\ ttl + since[d] >= Lease
        BY <1>1, <1>6, <2>5 DEF TimePasses, LockInv
      <3>2. since'[d] = IF since[d] < Lease THEN since[d] + 1 ELSE Lease
        BY <1>6 DEF TimePasses, ActiveDaemons
      <3>3. since[d] \in 0 .. Lease
        BY <1>1 DEF ActiveDaemons
      <3> QED BY <1>1, <2>5, <3>1, <3>2, <3>3, ConstantTypes
    <2> QED BY <2>1, <2>3, <2>4, <2>5 DEF LockInv
  <1>7. CASE UNCHANGED vars
    BY <1>7 DEF vars, LockInv, TypeOK, ActiveDaemons, Held
  <1> QED BY <1>2, <1>3, <1>4, <1>5, <1>6, <1>7 DEF Next, Step

\* When the key runs out, whoever is active has not extended it for a lease, which a
\* running daemon with a shorter poll does not let happen.
LEMMA LapseStep ==
  ASSUME LockInv, [Next]_vars, lapses' # lapses, NEW d \in ActiveDaemons
  PROVE  since'[d] = Lease /\ (Poll < Lease => pc[d] = "draining")
  <1>1. TimePasses
    BY DEF Next, Step, Acquire, Refresh, StartDrain, Release, Crash, vars
  <1>2. ttl = 1 /\ ttl + since[d] >= Lease
    BY <1>1 DEF TimePasses, Lapses, LockInv
  <1>3. d \in Daemons /\ pc[d] \in Active /\ since[d] \in 0 .. Lease
    BY DEF LockInv, TypeOK, ActiveDaemons
  <1>4. since'[d] = IF since[d] < Lease THEN since[d] + 1 ELSE Lease
    BY <1>1, <1>3 DEF TimePasses
  <1>5. since'[d] = Lease /\ since[d] >= Lease - 1
    BY <1>2, <1>3, <1>4, ConstantTypes
  <1>6. pc[d] = "running" => since[d] < Poll
    BY <1>1, <1>3 DEF TimePasses
  <1> QED BY <1>3, <1>5, <1>6, ConstantTypes DEF Active

\* However long drains last and whatever dies: one daemon more per lapse of the key.
THEOREM LockCorrect == Spec => []OneMorePerLapse
  <1>1. LockInv => OneMorePerLapse
    <2> SUFFICES ASSUME LockInv PROVE OneMorePerLapse
      OBVIOUS
    <2>1. Held \in {0, 1} /\ lapses \in Nat
      BY ConstantTypes DEF Held, LockInv, TypeOK
    <2> QED BY <2>1, ActiveFinite DEF LockInv, OneMorePerLapse
  <1> QED BY <1>1, LockInit, LockStep, PTL DEF Spec

\* The key never runs out under a daemon that ticks.
THEOREM LapsesCorrect == Spec => LapsesInDrains
  <1>1. LockInv /\ [Next]_vars =>
          [lapses' # lapses =>
             \A d \in ActiveDaemons :
               since'[d] = Lease /\ (Poll < Lease => pc[d] = "draining")]_vars
    BY LapseStep
  <1> QED BY <1>1, LockInit, LockStep, PTL DEF Spec, LapsesInDrains
=============================================================================
