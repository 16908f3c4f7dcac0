-------------------------------- MODULE Scout --------------------------------
(***************************************************************************)
(* The scout of a portal: what one visit per state is made of, and the     *)
(* plan derived from the visits, which is the number of workers and the    *)
(* states of each (Scout.run, _scout_state, _compute_aggregates,           *)
(* _compute_recommendations, _assign_workers).                             *)
(*                                                                         *)
(* Left out: pages, hours and cost, which only inform.                     *)
(***************************************************************************)
EXTENDS Integers, FiniteSets, Sequences, Functions

CONSTANTS
  STATES,   \* the states of the portal in their order, a sequence
  Volumes   \* listings from which a further worker is used: 5000, 20000, 50000, 100000

ASSUME StatesAssumption ==
  /\ STATES \in Seq(Range(STATES)) /\ Len(STATES) > 0
  /\ \A i, j \in DOMAIN STATES : STATES[i] = STATES[j] => i = j
ASSUME VolumesAssumption == Volumes \in Seq(Nat)

StateSet == {STATES[i] : i \in DOMAIN STATES}

\* A visit: whether the page answered, answered with an error status, or raised later;
\* the count of its heading (0 if none was found), the sign of a challenge, the cards.
Visit == [answer : {"none", "error", "raises", "ok"}, count : Nat, bot : BOOLEAN, cards : BOOLEAN]

\* What is kept of a visit: nothing is counted of a page that did not answer, and a state
\* whose page raised keeps its count but is not accessible.
StateReport(v) ==
  LET read == v.answer \in {"ok", "raises"}
  IN [accessible |-> v.answer = "ok",
      listings   |-> IF read THEN v.count ELSE 0,
      antiBot    |-> read /\ v.bot,
      healthy    |-> ~(read /\ v.count > 0 /\ ~v.cards)]

Listings(r) == [s \in StateSet |-> r[s].listings]

SelectorsHealthy(r) == \A s \in StateSet : r[s].accessible => r[s].healthy

\* Thresholds of 30% and 60% of the states visited.
AntiBotLevel(r) ==
  LET n == Cardinality({s \in StateSet : r[s].antiBot})
      all == Cardinality(StateSet)
  IN CASE n = 0 -> "none"
       [] n > 0 /\ 10 * n < 3 * all -> "low"
       [] 10 * n >= 3 * all /\ 10 * n < 6 * all -> "medium"
       [] OTHER -> "high"

\* One worker more for each volume reached, one less (but one at least) when the portal
\* defends itself.
NumWorkers(r) ==
  LET total == SumFunction(Listings(r))
      byVolume == 1 + Cardinality({i \in DOMAIN Volumes : total >= Volumes[i]})
  IN IF AntiBotLevel(r) = "high" /\ byVolume > 1 THEN byVolume - 1 ELSE byVolume

\* The states worth visiting, by falling number of listings (a stable sort).
Worthwhile(r) == {s \in StateSet : r[s].accessible /\ r[s].listings > 0}

SortedStates(r) ==
  LET position(s) == CHOOSE i \in DOMAIN STATES : STATES[i] = s
      before(s, t) == \/ r[s].listings > r[t].listings
                      \/ r[s].listings = r[t].listings /\ position(s) < position(t)
      rank(t) == 1 + Cardinality({s \in Worthwhile(r) : before(s, t)})
  IN [k \in 1 .. Cardinality(Worthwhile(r)) |-> CHOOSE t \in Worthwhile(r) : rank(t) = k]

Load(r, bucket) == SumFunctionOnSet(Listings(r), bucket)

\* Mutant: the first bucket with the most load.
MostLoaded(r, buckets) ==
  CHOOSE w \in DOMAIN buckets :
    \A v \in DOMAIN buckets : Load(r, buckets[w]) >= Load(r, buckets[v])

\* The first bucket with the least load.
LeastLoaded(r, buckets) ==
  CHOOSE w \in DOMAIN buckets :
    /\ \A v \in DOMAIN buckets : Load(r, buckets[w]) =< Load(r, buckets[v])
    /\ \A v \in DOMAIN buckets : v < w => Load(r, buckets[v]) > Load(r, buckets[w])

\* Each state in turn goes to the worker with least to do.
Assign(r) ==
  LET order == SortedStates(r)
      buckets[k \in 0 .. Len(order)] ==
        IF k = 0 THEN [w \in 1 .. NumWorkers(r) |-> {}]
        ELSE LET b == buckets[k - 1] IN [b EXCEPT ![LeastLoaded(r, b)] = @ \cup {order[k]}]
  IN buckets[Len(order)]
=============================================================================
