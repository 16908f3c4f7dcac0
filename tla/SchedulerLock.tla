---------------------------- MODULE SchedulerLock ----------------------------
(***************************************************************************)
(* The Redis key scheduler:lock, by which several scheduler daemons (a     *)
(* rolling deployment, a restarted container, a daemon started by hand)    *)
(* agree that one of them runs.  The key holds no owner: it is set if      *)
(* absent with a time to live, extended by every tick of the main loop and *)
(* deleted after the drain by whoever has drained.                         *)
(*                                                                         *)
(* Time is counted in units; a running daemon ticks at least every Poll    *)
(* units.  A drain awaits scrapes and lasts as long as they do.            *)
(***************************************************************************)
EXTENDS Integers, FiniteSets

CONSTANTS
  Daemons,   \* processes that may be started
  Lease,     \* the time to live of the key
  Poll,      \* the longest time between two refreshes of a running daemon
  MaxLapses  \* a bound on lapses

ASSUME DaemonsAssumption == IsFiniteSet(Daemons)
ASSUME LeaseAssumption == Lease \in Nat \ {0}
ASSUME PollAssumption == Poll \in Nat
ASSUME MaxLapsesAssumption == MaxLapses \in Nat

VARIABLES
  ttl,    \* what is left of the key's time to live; 0: there is no key
  pc,     \* where each daemon is
  since,  \* time since each daemon last set or extended the key, Lease: that or longer
  lapses  \* history: how often the key has run out while a daemon was active

vars == <<ttl, pc, since, lapses>>

Active == {"running", "draining"}
ActiveDaemons == {d \in Daemons : pc[d] \in Active}

Init ==
  /\ ttl = 0
  /\ pc = [d \in Daemons |-> "down"]
  /\ since = [d \in Daemons |-> 0]
  /\ lapses = 0

\* Mutant: the key is set without a time to live.
AcquireForever(d) ==
  /\ pc[d] = "down"
  /\ ttl = 0
  /\ ttl' = -1
  /\ pc' = [pc EXCEPT ![d] = "running"]
  /\ since' = [since EXCEPT ![d] = 0]
  /\ UNCHANGED lapses

\* Mutant: the key is set whether or not there is one.
AcquireAnyway(d) ==
  /\ pc[d] = "down"
  /\ ttl' = Lease
  /\ pc' = [pc EXCEPT ![d] = "running"]
  /\ since' = [since EXCEPT ![d] = 0]
  /\ UNCHANGED lapses

\* SET scheduler:lock 1 NX EX.  A daemon that finds the key exits and is
\* restarted by its container: it stays down.
Acquire(d) ==
  /\ pc[d] = "down"
  /\ ttl = 0
  /\ ttl' = Lease
  /\ pc' = [pc EXCEPT ![d] = "running"]
  /\ since' = [since EXCEPT ![d] = 0]
  /\ UNCHANGED lapses

\* Mutant: the tick does not extend the key.
RefreshForgotten(d) ==
  /\ pc[d] = "running"
  /\ since' = [since EXCEPT ![d] = 0]
  /\ UNCHANGED <<ttl, pc, lapses>>

\* EXPIRE at the start of every _tick: it extends a key that exists, anybody's, and
\* does not bring back one that has expired.
Refresh(d) ==
  /\ pc[d] = "running"
  /\ ttl' = IF ttl = 0 THEN 0 ELSE Lease
  /\ since' = [since EXCEPT ![d] = 0]
  /\ UNCHANGED <<pc, lapses>>

\* A signal, or an error in _tick: the main loop ends, the scrapes go on.
StartDrain(d) ==
  /\ pc[d] = "running"
  /\ pc' = [pc EXCEPT ![d] = "draining"]
  /\ UNCHANGED <<ttl, since, lapses>>

\* The scrapes have ended: DELETE scheduler:lock, whoever set it.
Release(d) ==
  /\ pc[d] = "draining"
  /\ ttl' = 0
  /\ pc' = [pc EXCEPT ![d] = "down"]
  /\ since' = [since EXCEPT ![d] = 0]
  /\ UNCHANGED lapses

\* The process dies, fails in _init_schedules, or cannot reach Redis to delete the
\* key: the key stays until it expires.
Crash(d) ==
  /\ pc[d] \in Active
  /\ pc' = [pc EXCEPT ![d] = "down"]
  /\ since' = [since EXCEPT ![d] = 0]
  /\ UNCHANGED <<ttl, lapses>>

Lapses == ttl = 1 /\ ActiveDaemons # {}

TimePasses ==
  /\ \A d \in Daemons : pc[d] = "running" => since[d] < Poll
  /\ Lapses => lapses < MaxLapses
  /\ ttl' = IF ttl > 0 THEN ttl - 1 ELSE ttl
  /\ lapses' = IF Lapses THEN lapses + 1 ELSE lapses
  /\ since' = [d \in Daemons |->
                IF pc[d] \notin Active THEN 0
                ELSE IF since[d] < Lease THEN since[d] + 1 ELSE Lease]
  /\ UNCHANGED pc

Step(d) == Acquire(d) \/ Refresh(d) \/ StartDrain(d) \/ Release(d) \/ Crash(d)

Next == TimePasses \/ \E d \in Daemons : Step(d)

Spec == Init /\ [][Next]_vars

\* Clocks advance and a container that is down keeps being restarted.
FairSpec == Spec /\ WF_vars(TimePasses) /\ WF_vars(\E d \in Daemons : Acquire(d))

-----------------------------------------------------------------------------
(* Properties *)

TypeOK ==
  /\ ttl \in 0 .. Lease
  /\ pc \in [Daemons -> {"down"} \cup Active]
  /\ since \in [Daemons -> 0 .. Lease]
  /\ lapses \in 0 .. MaxLapses

\* "To ensure single instance" (_acquire_lock): what the key achieves of it although the
\* drain of a daemon does not extend it and ends by deleting the key of whoever holds it
\* then.  Without a lapse there is one daemon that runs or has scrapes in progress; a lapse
\* lets one more in, and nothing else does.
OneMorePerLapse == Cardinality(ActiveDaemons) =< 1 + lapses

\* The key lapses only if every active daemon has been silent for a whole lease; with a
\* poll shorter than the lease (300 s and 30 s), only under daemons that are all draining.
LapsesInDrains ==
  [][lapses' # lapses =>
       \A d \in ActiveDaemons : since'[d] = Lease /\ (Poll < Lease => pc[d] = "draining")]_vars

\* The key a dead daemon leaves behind does not keep the scheduler down for good.
Recovery == (ActiveDaemons = {}) ~> (ActiveDaemons # {})
=============================================================================
