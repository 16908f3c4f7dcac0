-------------------------- MODULE ScrapeRunProofs --------------------------
(***************************************************************************)
(* Proofs about ScrapeRun: what a run hands to the store is stored or      *)
(* counted as an error, and paging through moving result lists misses      *)
(* nothing.  The bounds on the environment play no part.                   *)
(***************************************************************************)
EXTENDS ScrapeRun, FiniteSetTheorems, SequenceTheorems, TLAPS

Underway == {"searching", "fetching", "persisting", "counting", "closing"}

\* Where a run is in its searches.
Placed(r) ==
  /\ run[r].search >= 1 /\ run[r].page >= 1
  /\ run[r].pc = "idle" => run[r].search = 1
  /\ run[r].pc \in {"fetching", "persisting", "counting"} => run[r].search =< Searches
  /\ run[r].pc = "closing" => run[r].search > Searches
  /\ run[r].status = "completed" => run[r].pc = "done" /\ run[r].search > Searches
  /\ Mode[r] = "full" => run[r].known = {}

\* A completed job reports all errors of its run.
ErrorsReported(r) ==
  run[r].status = "completed" => run[r].jobErrors = run[r].errors + run[r].scraperErrors

\* Without an error, the items the call is through with are in its transaction.
ItemsInTransaction(r) ==
  /\ Busy(r) => batch[r].next >= 1 /\ (batch[r].op # "none" => batch[r].on \in Listings)
  /\ batch[r].errors = 0 =>
       \A i \in DOMAIN batch[r].items : i < batch[r].next => batch[r].items[i] \in Flushed(r)

\* Without an error, what a full run has seen, or has handed over, is committed.
SeenIsStored(r) ==
  Mode[r] = "full" /\ run[r].errors = 0 /\ run[r].scraperErrors = 0 =>
    run[r].seen \cup run[r].hand \subseteq stored

\* Nothing has happened that may cost r a listing.
Undisturbed(r) ==
  /\ PagesSuffice(r) /\ used["delist"] = 0 /\ used["refuse"] = 0
  /\ run[r].scraperErrors = 0
  /\ Mode[r] = "full" => used["rerank"] = 0
  /\ Mode[r] = "incremental" => NewOnTop(r)

\* Position i of search s is on a page r has not come to, or on the page it has in hand.
ToCome(r, s, i) ==
  \/ s > run[r].search
  \/ s = run[r].search /\ run[r].pc = "searching"
  \/ s = run[r].search /\ run[r].pc = "fetching" /\ i > (run[r].page - 1) * PageSize
  \/ s = run[r].search /\ run[r].pc \in {"persisting", "counting"} /\ i > run[r].page * PageSize

InHand(r, l) ==
  \/ run[r].pc = "persisting" /\ l \in ToSet(batch[r].items)
  \/ run[r].pc = "counting" /\ l \in run[r].hand

Awaits(r, l) ==
  \/ InHand(r, l)
  \/ \E s \in 1 .. Searches : \E i \in DOMAIN feed[Mode[r]][s] :
       feed[Mode[r]][s][i] = l /\ ToCome(r, s, i)

\* What was listed when the run began, and is neither seen nor known, is still to come.
NothingMissed(r) ==
  (run[r].pc \in Underway \/ run[r].status = "completed") /\ Undisturbed(r) =>
    \A l \in run[r].listed : l \in run[r].known \/ l \in run[r].seen \/ Awaits(r, l)

RunInv(r) ==
  /\ Placed(r) /\ ErrorsReported(r) /\ ItemsInTransaction(r)
  /\ SeenIsStored(r) /\ NothingMissed(r)

\* The inductive invariant.
PagingInv == TypeOK /\ \A r \in Runs : RunInv(r)

-----------------------------------------------------------------------------
(* Sequences and pages *)

LEMMA ToSetTyped ==
  ASSUME NEW S, NEW s \in Seq(S)
  PROVE  ToSet(s) \subseteq S /\ \A i \in DOMAIN s : s[i] \in ToSet(s)
  BY DEF ToSet

\* A result put in moves those behind it down by one.
LEMMA PutIn ==
  ASSUME NEW S, NEW s \in Seq(S), NEW l \in S, NEW k \in 1 .. Len(s) + 1
  PROVE  LET g == InsertAt(s, k, l)
             to == [i \in DOMAIN s |-> IF i < k THEN i ELSE i + 1] IN
         /\ g \in Seq(S) /\ Len(g) = Len(s) + 1
         /\ \A i \in DOMAIN s : to[i] \in DOMAIN g /\ g[to[i]] = s[i]
<1> DEFINE g == InsertAt(s, k, l)
           a == SubSeq(s, 1, k - 1)
           b == SubSeq(s, k, Len(s))
<1>1. g = (a \o <<l>>) \o b
  BY DEF InsertAt
<1>2. Len(s) \in Nat /\ k \in Nat /\ DOMAIN s = 1 .. Len(s)
  OBVIOUS
<1>3. /\ a \in Seq(S) /\ Len(a) = k - 1
      /\ \A i \in 1 .. k - 1 : a[i] = s[i]
  <2>1. \A i \in 1 .. k - 1 : i \in 1 .. Len(s)
    BY <1>2
  <2>2. SubSeq(s, 1, k - 1) \in Seq(S)
    BY <2>1, <1>2, SubSeqProperties
  <2>3. /\ Len(SubSeq(s, 1, k - 1)) = IF 1 =< k - 1 THEN k - 1 - 1 + 1 ELSE 0
        /\ \A i \in 1 .. k - 1 - 1 + 1 : SubSeq(s, 1, k - 1)[i] = s[1 + i - 1]
    BY <1>2, <2>1, SubSeqProperties
  <2> HIDE DEF a
  <2>4. QED
    BY <1>2, <2>2, <2>3 DEF a
<1>4. /\ b \in Seq(S) /\ Len(b) = Len(s) + 1 - k
      /\ \A i \in 1 .. Len(s) + 1 - k : b[i] = s[k + i - 1]
  <2>1. \A i \in k .. Len(s) : i \in 1 .. Len(s)
    BY <1>2
  <2>2. SubSeq(s, k, Len(s)) \in Seq(S)
    BY <2>1, <1>2, SubSeqProperties
  <2>3. /\ Len(SubSeq(s, k, Len(s))) = IF k =< Len(s) THEN Len(s) - k + 1 ELSE 0
        /\ \A i \in 1 .. Len(s) - k + 1 : SubSeq(s, k, Len(s))[i] = s[k + i - 1]
    BY <1>2, <2>1, SubSeqProperties
  <2> HIDE DEF b
  <2>4. QED
    BY <1>2, <2>2, <2>3 DEF b
<1> HIDE DEF a, b
<1>5. <<l>> \in Seq(S) /\ Len(<<l>>) = 1
  OBVIOUS
<1>6. /\ a \o <<l>> \in Seq(S) /\ Len(a \o <<l>>) = k
      /\ \A i \in 1 .. k - 1 : (a \o <<l>>)[i] = s[i]
  BY <1>2, <1>3, <1>5, ConcatProperties
<1> DEFINE c == a \o <<l>>
<1> HIDE DEF c
<1>7. /\ g \in Seq(S) /\ Len(g) = Len(s) + 1
      /\ \A i \in 1 .. k - 1 : g[i] = s[i]
      /\ \A i \in k .. Len(s) : g[i + 1] = s[i]
  <2>1. c \in Seq(S) /\ Len(c) = k /\ g = c \o b
    BY <1>1, <1>6 DEF c
  <2>2. /\ c \o b \in Seq(S) /\ Len(c \o b) = Len(c) + Len(b)
        /\ \A i \in 1 .. Len(c) + Len(b) : (c \o b)[i] = IF i =< Len(c) THEN c[i] ELSE b[i - Len(c)]
    BY <2>1, <1>4, ConcatProperties
  <2>3. Len(c) + Len(b) = Len(s) + 1
    BY <1>2, <1>4, <2>1
  <2>4. ASSUME NEW i \in 1 .. k - 1 PROVE (c \o b)[i] = s[i]
    <3>1. i \in 1 .. Len(s) + 1 /\ i =< k
      BY <1>2
    <3>2. c[i] = s[i]
      BY <1>6 DEF c
    <3>3. QED
      BY <2>1, <2>2, <2>3, <3>1, <3>2
  <2>5. ASSUME NEW i \in k .. Len(s) PROVE (c \o b)[i + 1] = s[i]
    <3>1. i + 1 \in 1 .. Len(s) + 1 /\ ~(i + 1 =< k)
      BY <1>2
    <3>2. (c \o b)[i + 1] = b[i + 1 - k]
      BY <2>1, <2>2, <2>3, <3>1
    <3>3. i + 1 - k \in 1 .. Len(s) + 1 - k /\ k + (i + 1 - k) - 1 = i
      BY <1>2
    <3>4. QED
      BY <1>4, <3>2, <3>3
  <2>6. QED
    BY <2>1, <2>2, <2>3, <2>4, <2>5
<1> HIDE DEF g
<1>8. DOMAIN g = 1 .. Len(s) + 1
  BY <1>7
<1>9. ASSUME NEW i \in DOMAIN s
      PROVE  LET j == IF i < k THEN i ELSE i + 1 IN j \in DOMAIN g /\ g[j] = s[i]
  <2>1. CASE i < k
    BY <1>2, <1>7, <1>8, <2>1
  <2>2. CASE ~(i < k)
    BY <1>2, <1>7, <1>8, <2>2
  <2>3. QED
    BY <2>1, <2>2
<1>10. QED
  BY <1>7, <1>9 DEF g

LEMMA TakenOff ==
  ASSUME NEW S, NEW s \in Seq(S), NEW i \in DOMAIN s
  PROVE  RemoveAt(s, i) \in Seq(S)
<1>1. SubSeq(s, 1, i - 1) \in Seq(S)
  BY SubSeqProperties
<1>2. SubSeq(s, i + 1, Len(s)) \in Seq(S)
  BY SubSeqProperties
<1>3. QED
  BY <1>1, <1>2, ConcatProperties DEF RemoveAt

\* Where the pages begin and end.
LEMMA PageBounds ==
  ASSUME NEW p \in Nat \ {0}
  PROVE  /\ (p - 1) * PageSize \in Nat /\ p * PageSize \in Nat /\ MaxPages * PageSize \in Nat
         /\ p * PageSize = (p - 1) * PageSize + PageSize
         /\ (p + 1 - 1) * PageSize = p * PageSize
         /\ p > MaxPages => (p - 1) * PageSize >= MaxPages * PageSize
<1> USE PagesAssumption
<1>1. (p - 1) * PageSize \in Nat /\ p * PageSize \in Nat /\ MaxPages * PageSize \in Nat
  OBVIOUS
<1>2. p * PageSize = (p - 1) * PageSize + PageSize
  OBVIOUS
<1>3. p + 1 - 1 = p
  OBVIOUS
<1>4. ASSUME p > MaxPages PROVE (p - 1) * PageSize >= MaxPages * PageSize
  <2>1. PICK k \in Nat : p - 1 = MaxPages + k
    BY <1>4
  <2>2. (p - 1) * PageSize = MaxPages * PageSize + k * PageSize /\ k * PageSize \in Nat
    BY <2>1
  <2>3. QED
    BY <2>2, <1>1
<1>5. QED
  BY <1>1, <1>2, <1>3, <1>4

\* A page holds exactly the results from its first position to its last.
LEMMA PageHolds ==
  ASSUME NEW r \in Runs, TypeOK, Placed(r), run[r].search =< Searches
  PROVE  /\ PageContent(r) \in Seq(Listings)
         /\ \A i \in DOMAIN feed[Mode[r]][run[r].search] :
              i > (run[r].page - 1) * PageSize /\ i =< run[r].page * PageSize =>
                \E j \in DOMAIN PageContent(r) :
                   /\ PageContent(r)[j] = feed[Mode[r]][run[r].search][i]
                   /\ i = (run[r].page - 1) * PageSize + j
         /\ \A j \in DOMAIN PageContent(r) :
              /\ (run[r].page - 1) * PageSize + j \in DOMAIN feed[Mode[r]][run[r].search]
              /\ (run[r].page - 1) * PageSize + j =< run[r].page * PageSize
              /\ PageContent(r)[j] = feed[Mode[r]][run[r].search][(run[r].page - 1) * PageSize + j]
<1> DEFINE f == feed[Mode[r]][run[r].search]
           before == (run[r].page - 1) * PageSize
           last == run[r].page * PageSize
           end == IF last < Len(f) THEN last ELSE Len(f)
<1>1. f \in Seq(Listings)
  BY SearchesAssumption, ModeAssumption DEF TypeOK, Run, Placed
<1>2. before \in Nat /\ last \in Nat /\ last = before + PageSize /\ PageSize \in Nat
  <2>1. run[r].page \in Nat \ {0}
    BY DEF TypeOK, Run, Placed
  <2>2. QED
    BY <2>1, PageBounds, PagesAssumption
<1>3. PageContent(r) = SubSeq(f, before + 1, end)
  BY DEF PageContent
<1> HIDE DEF f, before, last
<1>4. end \in Nat /\ end =< Len(f) /\ Len(f) \in Nat
  BY <1>1, <1>2, LenProperties
<1>5. SubSeq(f, before + 1, end) \in Seq(Listings)
  BY <1>1, <1>2, <1>4, SubSeqProperties
<1>6. /\ Len(SubSeq(f, before + 1, end)) = IF before + 1 =< end THEN end - before ELSE 0
      /\ \A j \in 1 .. (end - before) : SubSeq(f, before + 1, end)[j] = f[before + j]
  BY <1>1, <1>2, <1>4, SubSeqProperties
<1>7. DOMAIN f = 1 .. Len(f)
  BY <1>1
<1>8. DOMAIN SubSeq(f, before + 1, end) = 1 .. Len(SubSeq(f, before + 1, end))
  BY <1>5
<1>9. \A j \in DOMAIN SubSeq(f, before + 1, end) :
        /\ before + j \in DOMAIN f /\ before + j =< last
        /\ SubSeq(f, before + 1, end)[j] = f[before + j]
  <2> SUFFICES ASSUME NEW j \in DOMAIN SubSeq(f, before + 1, end)
               PROVE  /\ before + j \in DOMAIN f /\ before + j =< last
                      /\ SubSeq(f, before + 1, end)[j] = f[before + j]
    OBVIOUS
  <2>1. j \in 1 .. (end - before)
    BY <1>2, <1>4, <1>6, <1>8
  <2>2. before + j =< end /\ before + j >= 1
    BY <2>1, <1>2, <1>4
  <2>3. before + j =< last /\ before + j =< Len(f)
    BY <2>1, <2>2, <1>2, <1>4
  <2>4. QED
    BY <2>1, <2>2, <2>3, <1>2, <1>4, <1>6, <1>7
<1>10. \A i \in DOMAIN f : i > before /\ i =< last =>
         \E j \in DOMAIN SubSeq(f, before + 1, end) :
            SubSeq(f, before + 1, end)[j] = f[i] /\ i = before + j
  <2> SUFFICES ASSUME NEW i \in DOMAIN f, i > before, i =< last
               PROVE  \E j \in DOMAIN SubSeq(f, before + 1, end) :
                         SubSeq(f, before + 1, end)[j] = f[i] /\ i = before + j
    OBVIOUS
  <2>1. i \in Nat /\ i =< end /\ before + 1 =< end
    BY <1>2, <1>4, <1>7
  <2>2. i - before \in 1 .. (end - before) /\ i = before + (i - before)
    BY <1>2, <1>4, <2>1
  <2>3. i - before \in DOMAIN SubSeq(f, before + 1, end)
    BY <1>6, <1>8, <2>1, <2>2
  <2>4. QED
    BY <2>2, <2>3, <1>9
<1>11. QED
  BY <1>3, <1>5, <1>9, <1>10 DEF f, before, last

\* Behind an empty page there is nothing.
LEMMA EmptyPageIsLast ==
  ASSUME NEW r \in Runs, TypeOK, Placed(r), run[r].search =< Searches, PageContent(r) = <<>>,
         NEW i \in DOMAIN feed[Mode[r]][run[r].search]
  PROVE  i =< (run[r].page - 1) * PageSize
<1> DEFINE f == feed[Mode[r]][run[r].search]
           before == (run[r].page - 1) * PageSize
           last == run[r].page * PageSize
<1>1. f \in Seq(Listings) /\ DOMAIN f = 1 .. Len(f)
  BY SearchesAssumption, ModeAssumption DEF TypeOK, Run, Placed
<1>2. before \in Nat /\ last \in Nat /\ last = before + PageSize /\ PageSize \in Nat \ {0}
  <2>1. run[r].page \in Nat \ {0}
    BY DEF TypeOK, Run, Placed
  <2>2. QED
    BY <2>1, PageBounds, PagesAssumption
<1>3. \A k \in DOMAIN f : ~(k > before /\ k =< last)
  BY PageHolds
<1> HIDE DEF f, before, last
<1>4. SUFFICES ASSUME i > before PROVE FALSE
  BY <1>1, <1>2 DEF f, before
<1>5. i \in DOMAIN f
  BY DEF f
<1>6. before + 1 \in DOMAIN f /\ before + 1 > before /\ before + 1 =< last
  BY <1>1, <1>2, <1>4, <1>5
<1>7. QED
  BY <1>3, <1>6

\* An incremental run stops only on a page with something it knows.
LEMMA StopsOnKnown ==
  ASSUME NEW r \in Runs, NEW items \in Seq(Listings), items # <<>>, ShouldStop(r, items)
  PROVE  \E j \in DOMAIN items : items[j] \in run[r].known
<1> DEFINE K == {i \in DOMAIN items : items[i] \in run[r].known}
<1>1. SUFFICES ASSUME K = {} PROVE FALSE
  OBVIOUS
<1>2. Cardinality(K) = 0
  BY <1>1, FS_EmptySet
<1>3. QED
  BY <1>2, StopAssumption DEF ShouldStop

-----------------------------------------------------------------------------
(* Frames *)

LEMMA RunFacts ==
  ASSUME PagingInv, NEW r \in Runs
  PROVE  /\ run \in [Runs -> Run] /\ run[r] \in Run
         /\ batch \in [Runs -> Batch] /\ batch[r] \in Batch
         /\ batch[r].items # <<>> <=> run[r].pc = "persisting"
         /\ batch = [batch EXCEPT ![r] = batch[r]] /\ run = [run EXCEPT ![r] = run[r]]
         /\ stored \subseteq Listings /\ TypeOK
         /\ Placed(r) /\ ErrorsReported(r) /\ ItemsInTransaction(r)
         /\ SeenIsStored(r) /\ NothingMissed(r)
         /\ feed[Mode[r]] \in [1 .. Searches -> Seq(Listings)]
  BY ModeAssumption DEF PagingInv, TypeOK, StoreTypeOK, Busy, RunInv

LEMMA RunFields ==
  ASSUME NEW y \in Run
  PROVE  /\ y.pc \in Pc /\ y.search \in Nat /\ y.page \in Nat /\ y.empty \in Nat
         /\ y.hand \in SUBSET Listings /\ y.known \in SUBSET Listings /\ y.seen \in SUBSET Listings
         /\ y.listed \in SUBSET Listings
         /\ y.errors \in Nat /\ y.scraperErrors \in Nat /\ y.pages \in Nat
         /\ y.status \in Status /\ y.jobErrors \in Nat
  BY DEF Run

\* What the environment has done, it has done.
UsedGrows ==
  used' \in [EnvEvents -> Nat] /\ \A e \in EnvEvents : used'[e] >= used[e]

LEMMA SpendGrows ==
  ASSUME TypeOK, NEW e \in EnvEvents, Spend(e)
  PROVE  UsedGrows /\ used'[e] > 0 /\ \A x \in EnvEvents \ {e} : used'[x] = used[x]
  BY DEF TypeOK, Spend, UsedGrows

LEMMA UnusedGrows == ASSUME TypeOK, UNCHANGED used PROVE UsedGrows
  BY DEF TypeOK, UsedGrows

\* A step of r does not disturb the others.
LEMMA OthersKeep ==
  ASSUME TypeOK, NEW r \in Runs, NEW q \in Runs \ {r}, RunInv(q),
         UsedGrows, UNCHANGED feed, stored \subseteq stored',
         run'[q] = run[q], batch'[q] = batch[q]
  PROVE  RunInv(q)'
<1>1. Placed(q)' /\ ErrorsReported(q)' /\ SeenIsStored(q)'
  BY DEF RunInv, Placed, ErrorsReported, SeenIsStored
<1>2. ItemsInTransaction(q)'
  BY DEF RunInv, ItemsInTransaction, Flushed, Busy
<1>3. NothingMissed(q)'
  <2> SUFFICES ASSUME run[q].pc \in Underway \/ run[q].status = "completed", Undisturbed(q)',
                      NEW l \in run[q].listed
               PROVE  l \in run[q].known \/ l \in run[q].seen \/ Awaits(q, l)'
    BY DEF NothingMissed
  <2>1. Undisturbed(q)
    BY DEF TypeOK, Undisturbed, UsedGrows, EnvEvents, PagesSuffice, NewOnTop
  <2>2. l \in run[q].known \/ l \in run[q].seen \/ Awaits(q, l)
    BY <2>1 DEF RunInv, NothingMissed
  <2>3. Awaits(q, l) => Awaits(q, l)'
    BY DEF Awaits, InHand, ToCome
  <2>4. QED
    BY <2>2, <2>3
<1>4. QED
  BY <1>1, <1>2, <1>3 DEF RunInv

\* A step of r alone.
Moves(r) ==
  /\ run'[r] \in Run /\ run' = [run EXCEPT ![r] = run'[r]]
  /\ batch'[r] \in Batch /\ batch' = [batch EXCEPT ![r] = batch'[r]]
  /\ UsedGrows /\ UNCHANGED feed

LEMMA RunMoves ==
  ASSUME PagingInv, NEW r \in Runs, Moves(r),
         batch'[r].items # <<>> <=> run'[r].pc = "persisting",
         stored \subseteq stored', stored' \subseteq Listings, RunInv(r)'
  PROVE  PagingInv'
<1>1. TypeOK'
  BY DEF Moves, PagingInv, TypeOK, StoreTypeOK, Busy, UsedGrows
<1>2. \A q \in Runs \ {r} : RunInv(q)'
  <2> TAKE q \in Runs \ {r}
  <2>1. run'[q] = run[q] /\ batch'[q] = batch[q]
    BY DEF Moves, PagingInv, TypeOK, StoreTypeOK
  <2>2. QED
    BY <2>1, OthersKeep DEF Moves, PagingInv
<1>3. QED
  BY <1>1, <1>2 DEF PagingInv

\* The next search: what was to come is behind the run, unless it is on a later one.
ToNextSearch(r) ==
  /\ run[r].pc \in {"fetching", "persisting", "counting"}
  /\ run'[r].pc = "searching" /\ run'[r].search = run[r].search + 1 /\ run'[r].page = run[r].page
  /\ run'[r].known = run[r].known /\ run'[r].listed = run[r].listed
  /\ run'[r].errors = run[r].errors /\ run'[r].scraperErrors >= run[r].scraperErrors
  /\ run'[r].status = run[r].status
  /\ run[r].seen \subseteq run'[r].seen
  /\ Mode[r] = "full" => run'[r].seen = run[r].seen
  /\ run'[r].hand \subseteq run[r].hand

OnLaterSearch(r, l) ==
  \E s \in 1 .. Searches :
    s > run[r].search /\ \E i \in DOMAIN feed[Mode[r]][s] : feed[Mode[r]][s][i] = l

LEMMA GoesOn ==
  ASSUME PagingInv, NEW r \in Runs, Moves(r), ToNextSearch(r), batch'[r].items = <<>>,
         UNCHANGED stored,
         Undisturbed(r) /\ Undisturbed(r)' =>
           \A l \in run[r].listed \ run[r].known :
             Awaits(r, l) => l \in run'[r].seen \/ OnLaterSearch(r, l)
  PROVE  PagingInv'
<1>1. run'[r].scraperErrors = 0 => run[r].scraperErrors = 0
  <2>1. run'[r].scraperErrors \in Nat /\ run[r].scraperErrors \in Nat
    BY RunFields DEF Moves, PagingInv, TypeOK
  <2>2. QED
    BY <2>1 DEF ToNextSearch
<1>2. Placed(r) /\ run[r].search \in Nat
  BY RunFields DEF PagingInv, TypeOK, RunInv
<1>3. Placed(r)'
  BY <1>2 DEF Placed, ToNextSearch
<1>4. ErrorsReported(r)' /\ ItemsInTransaction(r)'
  BY <1>3 DEF Placed, ToNextSearch, ErrorsReported, ItemsInTransaction, Busy
<1>5. SeenIsStored(r)'
  BY <1>1 DEF PagingInv, RunInv, SeenIsStored, ToNextSearch
<1>6. NothingMissed(r)'
  <2> SUFFICES ASSUME Undisturbed(r)', NEW l \in run[r].listed, l \notin run[r].known
               PROVE  l \in run'[r].seen \/ Awaits(r, l)'
    BY DEF NothingMissed, ToNextSearch
  <2>1. Undisturbed(r)
    BY <1>1 DEF PagingInv, TypeOK, Undisturbed, Moves, UsedGrows, EnvEvents, PagesSuffice, NewOnTop,
                ToNextSearch
  <2>2. l \in run[r].seen \/ Awaits(r, l)
    BY <2>1 DEF PagingInv, RunInv, NothingMissed, Underway, ToNextSearch
  <2>3. ASSUME OnLaterSearch(r, l) PROVE Awaits(r, l)'
    <3>1. PICK s \in 1 .. Searches : s > run[r].search
           /\ \E i \in DOMAIN feed[Mode[r]][s] : feed[Mode[r]][s][i] = l
      BY <2>3 DEF OnLaterSearch
    <3>2. s > run[r].search + 1 \/ s = run[r].search + 1
      BY <3>1, <1>2, SearchesAssumption
    <3>3. \A i : ToCome(r, s, i)'
      BY <3>2 DEF ToCome, ToNextSearch
    <3>4. QED
      BY <3>1, <3>3 DEF Awaits, Moves
  <2>4. QED
    BY <2>1, <2>2, <2>3 DEF ToNextSearch
<1>7. QED
  BY <1>3, <1>4, <1>5, <1>6, RunMoves DEF RunInv, ToNextSearch, PagingInv, TypeOK, StoreTypeOK

-----------------------------------------------------------------------------
(* The portal *)

\* How a result list may change under a run: its results move down, the order of any two
\* of them stays.
MovesDown(f, g) ==
  /\ f \in Seq(Listings) /\ g \in Seq(Listings) /\ Len(g) >= Len(f)
  /\ \E to \in [DOMAIN f -> Nat] :
       /\ \A i \in DOMAIN f : to[i] >= i /\ to[i] \in DOMAIN g /\ g[to[i]] = f[i]
       /\ \A i, j \in DOMAIN f : i < j => to[i] < to[j]

LEMMA InsertMovesDown ==
  ASSUME NEW f \in Seq(Listings), NEW l \in Listings, NEW k \in 1 .. Len(f) + 1
  PROVE  MovesDown(f, InsertAt(f, k, l))
<1> DEFINE g == InsertAt(f, k, l)
           to == [i \in DOMAIN f |-> IF i < k THEN i ELSE i + 1]
<1>1. /\ g \in Seq(Listings) /\ Len(g) = Len(f) + 1
      /\ \A i \in DOMAIN f : to[i] \in DOMAIN g /\ g[to[i]] = f[i]
  BY PutIn
<1>2. Len(f) \in Nat /\ k \in Nat /\ DOMAIN f = 1 .. Len(f)
  OBVIOUS
<1> HIDE DEF g
<1>3. to \in [DOMAIN f -> Nat] /\ \A i \in DOMAIN f : to[i] >= i
  BY <1>2
<1>4. \A i, j \in DOMAIN f : i < j => to[i] < to[j]
  BY <1>2
<1> HIDE DEF to
<1>5. QED
  BY <1>1, <1>2, <1>3, <1>4 DEF MovesDown, g

LEMMA StaysDown == ASSUME NEW f \in Seq(Listings) PROVE MovesDown(f, f)
<1> DEFINE to == [i \in DOMAIN f |-> i]
<1>1. Len(f) \in Nat /\ DOMAIN f = 1 .. Len(f)
  OBVIOUS
<1>2. /\ to \in [DOMAIN f -> Nat]
      /\ \A i \in DOMAIN f : to[i] >= i /\ to[i] \in DOMAIN f /\ f[to[i]] = f[i]
      /\ \A i, j \in DOMAIN f : i < j => to[i] < to[j]
  BY <1>1
<1> HIDE DEF to
<1>3. QED
  BY <1>1, <1>2 DEF MovesDown

\* A step of the portal: a run whose lists only move down misses nothing by it.
LEMMA RunRidesOut ==
  ASSUME PagingInv, NEW r \in Runs, UNCHANGED <<stored, batch, run>>, UsedGrows,
         feed'[Mode[r]] \in [1 .. Searches -> Seq(Listings)],
         Undisturbed(r)' => \A s \in 1 .. Searches : MovesDown(feed[Mode[r]][s], feed'[Mode[r]][s])
  PROVE  RunInv(r)'
<1>1. Placed(r)' /\ ErrorsReported(r)' /\ SeenIsStored(r)' /\ ItemsInTransaction(r)'
  BY DEF PagingInv, RunInv, Placed, ErrorsReported, SeenIsStored, ItemsInTransaction, Flushed, Busy
<1> DEFINE F == feed[Mode[r]]
           G == feed'[Mode[r]]
<1>2. F \in [1 .. Searches -> Seq(Listings)]
  BY RunFacts
<1>3. ASSUME Undisturbed(r)' PROVE Undisturbed(r)
  <2>1. \A s \in 1 .. Searches : MovesDown(F[s], G[s])
    BY <1>3
  <2>2. PagesSuffice(r)
    <3> SUFFICES ASSUME NEW s \in 1 .. Searches PROVE Len(F[s]) =< MaxPages * PageSize
      BY DEF PagesSuffice
    <3>1. Len(G[s]) =< MaxPages * PageSize /\ MaxPages * PageSize \in Nat
      BY <1>3, PagesAssumption DEF Undisturbed, PagesSuffice
    <3>2. Len(G[s]) >= Len(F[s]) /\ Len(F[s]) \in Nat /\ Len(G[s]) \in Nat
      BY <1>2, <2>1 DEF MovesDown
    <3>3. QED
      BY <3>1, <3>2
  <2>3. ASSUME NewOnTop(r)' PROVE NewOnTop(r)
    <3> SUFFICES ASSUME NEW s \in 1 .. Searches, NEW i \in DOMAIN F[s], NEW j \in DOMAIN F[s],
                        i < j, F[s][i] \in run[r].known
                 PROVE  F[s][j] \in run[r].known
      BY DEF NewOnTop
    <3>1. PICK to \in [DOMAIN F[s] -> Nat] :
            /\ \A x \in DOMAIN F[s] : to[x] >= x /\ to[x] \in DOMAIN G[s] /\ G[s][to[x]] = F[s][x]
            /\ \A x, y \in DOMAIN F[s] : x < y => to[x] < to[y]
      BY <2>1 DEF MovesDown
    <3>2. to[i] < to[j] /\ G[s][to[i]] \in run'[r].known
      BY <3>1
    <3>3. G[s][to[j]] \in run'[r].known
      BY <2>3, <3>1, <3>2 DEF NewOnTop
    <3>4. QED
      BY <3>1, <3>3
  <2>4. used["delist"] = 0 /\ used["refuse"] = 0 /\ (Mode[r] = "full" => used["rerank"] = 0)
    BY <1>3 DEF PagingInv, TypeOK, Undisturbed, UsedGrows, EnvEvents
  <2>5. QED
    BY <1>3, <2>2, <2>3, <2>4 DEF Undisturbed
<1>4. ASSUME Undisturbed(r)', NEW k, Awaits(r, k) PROVE Awaits(r, k)'
  <2>1. CASE InHand(r, k)
    BY <2>1 DEF Awaits, InHand
  <2>2. CASE ~InHand(r, k)
    <3>1. PICK s \in 1 .. Searches : \E i \in DOMAIN F[s] : F[s][i] = k /\ ToCome(r, s, i)
      BY <1>4, <2>2 DEF Awaits
    <3>2. PICK i \in DOMAIN F[s] : F[s][i] = k /\ ToCome(r, s, i)
      BY <3>1
    <3>3. PICK to \in [DOMAIN F[s] -> Nat] :
            \A x \in DOMAIN F[s] : to[x] >= x /\ to[x] \in DOMAIN G[s] /\ G[s][to[x]] = F[s][x]
      BY <1>4 DEF MovesDown
    <3>4. i \in Nat /\ to[i] \in Nat /\ to[i] >= i
      <4>1. F[s] \in Seq(Listings)
        BY <1>2
      <4> HIDE DEF F
      <4>2. DOMAIN F[s] \subseteq Nat
        BY <4>1
      <4>3. QED
        BY <3>2, <3>3, <4>2
    <3>5. /\ run[r].pc = "fetching" => (run[r].page - 1) * PageSize \in Nat
          /\ run[r].pc \in {"persisting", "counting"} => run[r].page * PageSize \in Nat
      <4>1. run[r].page \in Nat \ {0}
        BY DEF PagingInv, RunInv, Placed, TypeOK, Run
      <4>2. QED
        BY <4>1, PageBounds
    <3>6. ToCome(r, s, to[i])'
      BY <3>2, <3>4, <3>5 DEF ToCome
    <3>7. QED
      BY <3>2, <3>3, <3>6 DEF Awaits
  <2>3. QED
    BY <2>1, <2>2
<1>5. NothingMissed(r)'
  BY <1>3, <1>4 DEF PagingInv, RunInv, NothingMissed
<1>6. QED
  BY <1>1, <1>5 DEF RunInv

\* What the portal does touches the lists alone.
LEMMA PortalTyped ==
  ASSUME PagingInv, UNCHANGED <<stored, batch, run>>, UsedGrows,
         feed' \in [Orders -> [1 .. Searches -> Seq(Listings)]]
  PROVE  TypeOK'
  BY DEF PagingInv, TypeOK, StoreTypeOK, Busy, UsedGrows

LEMMA PublishKeeps ==
  ASSUME PagingInv, NEW s \in 1 .. Searches, NEW k \in 1 .. Len(feed["full"][s]) + 1,
         NEW l \in Listings, Publish(s, k, l)
  PROVE  PagingInv'
<1> DEFINE f == feed["incremental"][s]
           d == feed["full"][s]
<1>1. UsedGrows /\ UNCHANGED <<stored, batch, run>>
  BY SpendGrows DEF Publish, PagingInv, EnvEvents
<1>2. /\ feed' = [feed EXCEPT !["incremental"][s] = InsertAt(f, 1, l), !["full"][s] = InsertAt(d, k, l)]
      /\ feed \in [Orders -> [1 .. Searches -> Seq(Listings)]]
      /\ f \in Seq(Listings) /\ d \in Seq(Listings)
  BY DEF Publish, PagingInv, TypeOK, Orders
<1>3. MovesDown(f, InsertAt(f, 1, l)) /\ MovesDown(d, InsertAt(d, k, l))
  <2>1. 1 \in 1 .. Len(f) + 1
    BY <1>2
  <2>2. QED
    BY <1>2, <2>1, InsertMovesDown
<1>4. InsertAt(f, 1, l) \in Seq(Listings) /\ InsertAt(d, k, l) \in Seq(Listings)
  BY <1>3 DEF MovesDown
<1>5. /\ feed' \in [Orders -> [1 .. Searches -> Seq(Listings)]]
      /\ \A m \in Orders, t \in 1 .. Searches : MovesDown(feed[m][t], feed'[m][t])
  <2>1. feed' \in [Orders -> [1 .. Searches -> Seq(Listings)]]
    BY <1>2, <1>4 DEF Orders
  <2>2. /\ feed'["incremental"][s] = InsertAt(f, 1, l) /\ feed'["full"][s] = InsertAt(d, k, l)
        /\ \A m \in Orders, t \in 1 .. Searches : t # s => feed'[m][t] = feed[m][t]
    BY <1>2 DEF Orders
  <2>3. ASSUME NEW m \in Orders, NEW t \in 1 .. Searches, t # s PROVE MovesDown(feed[m][t], feed'[m][t])
    BY <1>2, <2>2, <2>3, StaysDown
  <2>4. QED
    BY <1>3, <2>1, <2>2, <2>3 DEF Orders
<1>6. \A r \in Runs : RunInv(r)'
  <2> TAKE r \in Runs
  <2>1. /\ feed'[Mode[r]] \in [1 .. Searches -> Seq(Listings)]
        /\ \A t \in 1 .. Searches : MovesDown(feed[Mode[r]][t], feed'[Mode[r]][t])
    BY <1>5, ModeAssumption
  <2>2. QED
    BY <1>1, <2>1, RunRidesOut
<1>7. QED
  BY <1>1, <1>5, <1>6, PortalTyped DEF PagingInv

LEMMA DelistKeeps ==
  ASSUME PagingInv, NEW s \in 1 .. Searches, NEW i \in DOMAIN feed["incremental"][s],
         NEW j \in DOMAIN feed["full"][s], Delist(s, i, j)
  PROVE  PagingInv'
<1> DEFINE f == feed["incremental"][s]
           d == feed["full"][s]
<1>1. UsedGrows /\ used'["delist"] > 0 /\ UNCHANGED <<stored, batch, run>>
  BY SpendGrows DEF Delist, PagingInv, EnvEvents
<1>2. /\ feed' = [feed EXCEPT !["incremental"][s] = RemoveAt(f, i), !["full"][s] = RemoveAt(d, j)]
      /\ feed \in [Orders -> [1 .. Searches -> Seq(Listings)]]
      /\ f \in Seq(Listings) /\ d \in Seq(Listings)
  BY DEF Delist, PagingInv, TypeOK, Orders
<1>3. RemoveAt(f, i) \in Seq(Listings) /\ RemoveAt(d, j) \in Seq(Listings)
  BY <1>2, TakenOff
<1>4. feed' \in [Orders -> [1 .. Searches -> Seq(Listings)]]
  BY <1>2, <1>3 DEF Orders
<1>5. \A r \in Runs : RunInv(r)'
  <2> TAKE r \in Runs
  <2>1. ~Undisturbed(r)'
    BY <1>1 DEF Undisturbed
  <2>2. QED
    BY <1>1, <1>4, <2>1, ModeAssumption, RunRidesOut
<1>6. QED
  BY <1>1, <1>4, <1>5, PortalTyped DEF PagingInv

LEMMA RerankKeeps ==
  ASSUME PagingInv, NEW s \in 1 .. Searches, NEW i \in DOMAIN feed["full"][s],
         NEW j \in DOMAIN feed["full"][s], Rerank(s, i, j)
  PROVE  PagingInv'
<1> DEFINE d == feed["full"][s]
           g == [d EXCEPT ![i] = d[j], ![j] = d[i]]
<1>1. UsedGrows /\ used'["rerank"] > 0 /\ UNCHANGED <<stored, batch, run>>
  BY SpendGrows DEF Rerank, PagingInv, EnvEvents
<1>2. /\ feed' = [feed EXCEPT !["full"][s] = g] /\ d \in Seq(Listings)
      /\ feed \in [Orders -> [1 .. Searches -> Seq(Listings)]]
  BY DEF Rerank, PagingInv, TypeOK, Orders
<1>3. g \in Seq(Listings)
  <2>1. d[i] \in Listings /\ d[j] \in Listings
    BY <1>2
  <2>2. QED
    BY <1>2, <2>1, ExceptSeq
<1>4. feed' \in [Orders -> [1 .. Searches -> Seq(Listings)]] /\ feed'["incremental"] = feed["incremental"]
  BY <1>2, <1>3 DEF Orders
<1>5. \A r \in Runs : RunInv(r)'
  <2> TAKE r \in Runs
  <2>1. CASE Mode[r] = "full"
    <3>1. ~Undisturbed(r)'
      BY <1>1, <2>1 DEF Undisturbed
    <3>2. QED
      BY <1>1, <1>4, <3>1, ModeAssumption, RunRidesOut
  <2>2. CASE Mode[r] = "incremental"
    <3>1. \A t \in 1 .. Searches : MovesDown(feed[Mode[r]][t], feed'[Mode[r]][t])
      BY <1>2, <1>4, <2>2, StaysDown DEF Orders
    <3>2. QED
      BY <1>1, <1>4, <3>1, ModeAssumption, RunRidesOut
  <2>3. QED
    BY <2>1, <2>2, ModeAssumption DEF Orders
<1>6. QED
  BY <1>1, <1>4, <1>5, PortalTyped DEF PagingInv

-----------------------------------------------------------------------------
(* The steps of a run *)

LEMMA NextSearchFields ==
  ASSUME NEW y \in Run
  PROVE  LET z == NextSearch(y) IN
         /\ z \in Run /\ z.pc = "searching" /\ z.search = y.search + 1 /\ z.page = y.page
         /\ z.known = y.known /\ z.seen = y.seen /\ z.listed = y.listed
         /\ z.errors = y.errors /\ z.status = y.status /\ z.jobErrors = y.jobErrors
         /\ z.scraperErrors = y.scraperErrors /\ z.empty = y.empty /\ z.hand = y.hand
<1>1. NextSearch(y) = [y EXCEPT !.pc = "searching", !.search = y.search + 1]
  BY DEF NextSearch
<1>2. y.search + 1 \in Nat /\ "searching" \in Pc
  BY RunFields DEF Pc
<1>3. QED
  BY <1>1, <1>2 DEF Run

\* How the actions are told to the lemmas above.
LEMMA MovesAlone ==
  ASSUME PagingInv, NEW r \in Runs, NEW x \in Run, run' = [run EXCEPT ![r] = x],
         UNCHANGED batch, UsedGrows, UNCHANGED feed
  PROVE  Moves(r) /\ run'[r] = x /\ batch'[r] = batch[r]
  BY RunFacts DEF Moves

\* A step that leaves the result lists, the store, the counts and what was seen alone.
LEMMA QuietMoves ==
  ASSUME PagingInv, NEW r \in Runs, Moves(r), UNCHANGED <<batch, stored>>,
         run'[r].pc = "persisting" <=> run[r].pc = "persisting",
         run'[r].seen = run[r].seen, run'[r].hand = run[r].hand,
         run'[r].errors = run[r].errors, run'[r].scraperErrors = run[r].scraperErrors,
         Placed(r)', ErrorsReported(r)', NothingMissed(r)'
  PROVE  PagingInv'
<1>1. ItemsInTransaction(r)'
  BY RunFacts DEF ItemsInTransaction, Flushed, Busy
<1>2. SeenIsStored(r)'
  BY RunFacts DEF SeenIsStored
<1>3. QED
  BY <1>1, <1>2, RunFacts, RunMoves DEF RunInv

LEMMA SkipKeeps == ASSUME PagingInv, NEW r \in Runs, Skip(r) PROVE PagingInv'
<1> DEFINE x == [run[r] EXCEPT !.pc = "done"]
<1>1. run' = [run EXCEPT ![r] = x] /\ UNCHANGED <<batch, feed, stored>> /\ UsedGrows
  BY RunFacts, UnusedGrows DEF Skip
<1>2. x \in Run /\ run'[r] = x /\ run[r].pc = "idle"
  <2>1. run[r].pc = "idle" /\ run[r] \in Run /\ "done" \in Pc
    BY RunFacts DEF Skip, Pc
  <2>2. x \in Run
    BY <2>1 DEF Run
  <2>3. QED
    BY <1>1, <2>1, <2>2, RunFacts
<1>3. run[r].status # "completed"
  BY <1>2, RunFacts DEF Placed
<1>4. Placed(r)' /\ ErrorsReported(r)' /\ NothingMissed(r)'
  BY <1>2, <1>3, RunFacts DEF Placed, ErrorsReported, NothingMissed, Underway
<1>5. Moves(r)
  BY <1>1, <1>2, MovesAlone
<1>6. QED
  BY <1>1, <1>2, <1>4, <1>5, RunFacts, QuietMoves DEF Run

LEMMA StartJobKeeps == ASSUME PagingInv, NEW r \in Runs, StartJob(r) PROVE PagingInv'
<1> DEFINE k == IF Mode[r] = "incremental" THEN stored ELSE {}
           x == [run[r] EXCEPT !.pc = "searching", !.status = "running", !.listed = Online(r),
                               !.known = k]
<1>1. run' = [run EXCEPT ![r] = x] /\ UNCHANGED <<batch, feed, stored>> /\ UsedGrows
  BY RunFacts, UnusedGrows DEF StartJob
<1>2. Online(r) \subseteq Listings
  <2>1. \A s \in 1 .. Searches : ToSet(feed[Mode[r]][s]) \subseteq Listings
    <3> TAKE s \in 1 .. Searches
    <3>1. feed[Mode[r]][s] \in Seq(Listings)
      BY RunFacts
    <3>2. QED
      BY <3>1, ToSetTyped
  <2>2. QED
    BY <2>1 DEF Online
<1>3. x \in Run /\ run'[r] = x /\ run[r].pc = "idle"
  <2>1. k \in SUBSET Listings /\ run[r].pc = "idle"
    BY RunFacts DEF StartJob
  <2>2. Online(r) \in SUBSET Listings /\ "searching" \in Pc /\ "running" \in Status
    BY <1>2 DEF Pc, Status
  <2> HIDE DEF k
  <2>3. run[r] \in Run
    BY RunFacts
  <2>4. x \in Run
    BY <2>1, <2>2, <2>3 DEF Run
  <2>5. QED
    BY <1>1, <2>1, <2>4, RunFacts
<1>4. Placed(r)' /\ ErrorsReported(r)'
  BY <1>3, RunFacts DEF Placed, ErrorsReported
<1>5. ASSUME NEW l \in Online(r) PROVE Awaits(r, l)'
  <2>1. PICK s \in 1 .. Searches : l \in ToSet(feed[Mode[r]][s])
    BY DEF Online
  <2>2. PICK i \in DOMAIN feed[Mode[r]][s] : feed[Mode[r]][s][i] = l
    BY <2>1 DEF ToSet
  <2>3. ToCome(r, s, i)'
    <3>1. x.search = 1 /\ x.pc = "searching" /\ s \in Nat /\ s >= 1
      BY <1>3, RunFacts, SearchesAssumption DEF Run, Placed
    <3>2. QED
      BY <3>1, <1>3 DEF ToCome
  <2>4. QED
    BY <2>2, <2>3, <1>1 DEF Awaits
<1>6. NothingMissed(r)'
  BY <1>3, <1>5 DEF NothingMissed
<1>7. Moves(r)
  BY <1>1, <1>3, MovesAlone
<1>8. QED
  BY <1>1, <1>3, <1>4, <1>6, <1>7, RunFacts, QuietMoves DEF Run

LEMMA StartSearchKeeps == ASSUME PagingInv, NEW r \in Runs, StartSearch(r) PROVE PagingInv'
<1>1. UNCHANGED <<batch, feed, stored>> /\ UsedGrows /\ run[r].pc = "searching" /\ run[r].search \in Nat
  BY RunFacts, UnusedGrows DEF StartSearch, Run
<1>2. Undisturbed(r)' => \A l \in run'[r].listed : 
        l \in run[r].known \/ l \in run[r].seen \/ Awaits(r, l)
  <2>1. run'[r].scraperErrors = run[r].scraperErrors /\ run'[r].known = run[r].known
        /\ run'[r].listed = run[r].listed /\ UNCHANGED used
    BY RunFacts DEF StartSearch, Run
  <2>2. Undisturbed(r)' => Undisturbed(r)
    BY <1>1, <2>1 DEF Undisturbed, PagesSuffice, NewOnTop
  <2>3. QED
    BY <1>1, <2>1, <2>2, RunFacts DEF NothingMissed, Underway
<1>3. CASE run[r].search > Searches
  <2> DEFINE x == [run[r] EXCEPT !.pc = "closing"]
  <2>1. run' = [run EXCEPT ![r] = x]
    BY <1>3 DEF StartSearch
  <2>2. x \in Run /\ run'[r] = x
    BY <2>1, RunFacts DEF Run, Pc
  <2>3. Placed(r)' /\ ErrorsReported(r)'
    BY <1>1, <1>3, <2>2, RunFacts DEF Placed, ErrorsReported, Run
  <2>4. \A l : ~Awaits(r, l)
    BY <1>1, <1>3, SearchesAssumption DEF Awaits, InHand, ToCome
  <2>5. NothingMissed(r)'
    BY <2>2, <2>4, <1>2, RunFacts DEF NothingMissed, Run
  <2>6. Moves(r)
    BY <1>1, <2>1, <2>2, MovesAlone
  <2>7. QED
    BY <1>1, <2>2, <2>3, <2>5, <2>6, RunFacts, QuietMoves DEF Run
<1>4. CASE ~(run[r].search > Searches)
  <2> DEFINE x == [run[r] EXCEPT !.pc = "fetching", !.page = 1, !.empty = 0]
  <2>1. run' = [run EXCEPT ![r] = x]
    BY <1>4 DEF StartSearch
  <2>2. x \in Run /\ run'[r] = x
    <3>1. run[r] \in Run /\ "fetching" \in Pc /\ 1 \in Nat /\ 0 \in Nat
      BY RunFacts DEF Pc
    <3>2. x \in Run
      BY <3>1 DEF Run
    <3>3. QED
      BY <2>1, <3>2, RunFacts
  <2>3. Placed(r)' /\ ErrorsReported(r)'
    BY <1>1, <1>4, <2>2, RunFacts, SearchesAssumption DEF Placed, ErrorsReported, Run
  <2>4. ASSUME NEW l, Awaits(r, l) PROVE Awaits(r, l)'
    <3>1. PICK s \in 1 .. Searches : \E i \in DOMAIN feed[Mode[r]][s] :
           feed[Mode[r]][s][i] = l /\ ToCome(r, s, i)
      BY <1>1, <2>4 DEF Awaits, InHand
    <3>2. PICK i \in DOMAIN feed[Mode[r]][s] : feed[Mode[r]][s][i] = l /\ ToCome(r, s, i)
      BY <3>1
    <3>3. i > (1 - 1) * PageSize
      <4>1. (1 - 1) * PageSize = 0
        BY PagesAssumption
      <4>2. i \in Nat /\ i >= 1
        <5>1. feed[Mode[r]][s] \in Seq(Listings)
          BY RunFacts
        <5>2. QED
          BY <5>1
      <4>3. QED
        BY <4>1, <4>2
    <3>4. x.pc = "fetching" /\ x.page = 1 /\ x.search = run[r].search
      BY RunFacts DEF Run
    <3>5. ToCome(r, s, i)'
      BY <1>1, <2>2, <3>2, <3>3, <3>4 DEF ToCome
    <3>6. QED
      BY <3>2, <3>5, <1>1 DEF Awaits
  <2>5. NothingMissed(r)'
    BY <2>2, <2>4, <1>2, RunFacts DEF NothingMissed, Run
  <2>6. Moves(r)
    BY <1>1, <2>1, <2>2, MovesAlone
  <2>7. QED
    BY <1>1, <2>2, <2>3, <2>5, <2>6, RunFacts, QuietMoves DEF Run
<1>5. QED
  BY <1>3, <1>4

\* The run that NextSearch leads to, whatever it counts and has seen.
LEMMA NextSearchMoves ==
  ASSUME PagingInv, NEW r \in Runs, run[r].pc \in {"fetching", "persisting", "counting"},
         Moves(r), run'[r].scraperErrors >= run[r].scraperErrors,
         run[r].seen \subseteq run'[r].seen, Mode[r] = "full" => run'[r].seen = run[r].seen,
         run'[r].hand \subseteq run[r].hand,
         LET z == NextSearch(run[r]) IN
         /\ run'[r].pc = z.pc /\ run'[r].search = z.search /\ run'[r].page = z.page
         /\ run'[r].known = z.known /\ run'[r].listed = z.listed
         /\ run'[r].errors = z.errors /\ run'[r].status = z.status
  PROVE  ToNextSearch(r)
<1>1. run[r] \in Run
  BY RunFacts
<1> DEFINE z == NextSearch(run[r])
<1>2. /\ z.pc = "searching" /\ z.search = run[r].search + 1 /\ z.page = run[r].page
      /\ z.known = run[r].known /\ z.listed = run[r].listed
      /\ z.errors = run[r].errors /\ z.status = run[r].status /\ z.jobErrors = run[r].jobErrors
  BY <1>1, NextSearchFields
<1> HIDE DEF z
<1>3. /\ run'[r].pc = z.pc /\ run'[r].search = z.search /\ run'[r].page = z.page
      /\ run'[r].known = z.known /\ run'[r].listed = z.listed
      /\ run'[r].errors = z.errors /\ run'[r].status = z.status
  BY DEF z
<1>4. QED
  BY <1>2, <1>3 DEF ToNextSearch

\* A refused page costs the rest of its search.
LEMMA FetchRefusedKeeps == ASSUME PagingInv, NEW r \in Runs, FetchRefused(r) PROVE PagingInv'
<1> DEFINE z == NextSearch(run[r])
<1>1. PICK e \in {0, 1} : run' = [run EXCEPT ![r] = [z EXCEPT !.scraperErrors = z.scraperErrors + e]]
  <2>1. PICK e \in {0, 1} : run' = [run EXCEPT ![r] = [NextSearch(run[r]) EXCEPT !.scraperErrors = @ + e]]
    BY DEF FetchRefused
  <2>2. run' = [run EXCEPT ![r] = [z EXCEPT !.scraperErrors = z.scraperErrors + e]]
    BY <2>1
  <2>3. QED
    BY <2>2
<1>2. UNCHANGED <<batch, feed, stored>> /\ UsedGrows /\ run[r].pc = "fetching" /\ used'["refuse"] > 0
  BY RunFacts, SpendGrows DEF FetchRefused, EnvEvents
<1>3. z \in Run /\ z.scraperErrors = run[r].scraperErrors /\ z.seen = run[r].seen /\ z.hand = run[r].hand
  BY RunFacts, NextSearchFields
<1> HIDE DEF z
<1> DEFINE x == [z EXCEPT !.scraperErrors = z.scraperErrors + e]
<1>4. z.scraperErrors + e \in Nat /\ z.scraperErrors + e >= run[r].scraperErrors
  BY <1>3, RunFields
<1>5. /\ x \in Run /\ x.pc = z.pc /\ x.search = z.search /\ x.page = z.page
      /\ x.known = z.known /\ x.seen = run[r].seen /\ x.hand = run[r].hand /\ x.listed = z.listed
      /\ x.errors = z.errors /\ x.status = z.status /\ x.jobErrors = z.jobErrors
      /\ x.scraperErrors >= run[r].scraperErrors
  BY <1>3, <1>4 DEF Run
<1> HIDE DEF x
<1>6. Moves(r) /\ run'[r] = x
  BY <1>1, <1>2, <1>5, MovesAlone DEF x
<1>7. ToNextSearch(r)
  BY <1>2, <1>5, <1>6, NextSearchMoves DEF z
<1>8. ~Undisturbed(r)'
  BY <1>2 DEF Undisturbed
<1>9. QED
  BY <1>2, <1>6, <1>7, <1>8, RunFacts, GoesOn

\* Behind the last page there is nothing when the pages suffice.
LEMMA LastPageDoneKeeps == ASSUME PagingInv, NEW r \in Runs, LastPageDone(r) PROVE PagingInv'
<1> DEFINE z == NextSearch(run[r])
<1>1. /\ UNCHANGED <<batch, feed, stored>> /\ UsedGrows /\ run[r].pc = "fetching"
      /\ run[r].page > MaxPages /\ run' = [run EXCEPT ![r] = z]
  BY RunFacts, UnusedGrows DEF LastPageDone
<1>2. z \in Run /\ z.scraperErrors = run[r].scraperErrors /\ z.seen = run[r].seen /\ z.hand = run[r].hand
  BY RunFacts, NextSearchFields
<1> HIDE DEF z
<1>3. Moves(r) /\ run'[r] = z
  BY <1>1, <1>2, MovesAlone
<1>4. ToNextSearch(r)
  <2>1. run[r].scraperErrors >= run[r].scraperErrors
    BY RunFacts, RunFields
  <2>2. QED
    BY <1>1, <1>2, <1>3, <2>1, NextSearchMoves DEF z
<1>5. ASSUME NEW l, Undisturbed(r), Awaits(r, l)
      PROVE  OnLaterSearch(r, l)
  <2>1. PICK s \in 1 .. Searches : \E i \in DOMAIN feed[Mode[r]][s] :
         feed[Mode[r]][s][i] = l /\ ToCome(r, s, i)
    BY <1>1, <1>5 DEF Awaits, InHand
  <2>2. PICK i \in DOMAIN feed[Mode[r]][s] : feed[Mode[r]][s][i] = l /\ ToCome(r, s, i)
    BY <2>1
  <2>3. i \in Nat /\ i =< Len(feed[Mode[r]][s]) /\ Len(feed[Mode[r]][s]) \in Nat
        /\ Len(feed[Mode[r]][s]) =< MaxPages * PageSize
    <3>1. feed[Mode[r]][s] \in Seq(Listings)
      BY RunFacts
    <3>2. QED
      BY <1>5, <3>1 DEF Undisturbed, PagesSuffice
  <2>4. ~(i > (run[r].page - 1) * PageSize)
    <3>1. run[r].page \in Nat \ {0}
      BY RunFacts, RunFields DEF Placed
    <3>2. /\ (run[r].page - 1) * PageSize >= MaxPages * PageSize
          /\ (run[r].page - 1) * PageSize \in Nat /\ MaxPages * PageSize \in Nat
      BY <1>1, <3>1, PageBounds
    <3>3. QED
      BY <2>3, <3>2
  <2>5. QED
    BY <2>2, <2>4, <1>1 DEF ToCome, OnLaterSearch
<1>6. QED
  BY <1>1, <1>3, <1>4, <1>5, RunFacts, GoesOn

-----------------------------------------------------------------------------
(* Pages *)

LEMMA PageFacts ==
  ASSUME PagingInv, NEW r \in Runs, run[r].pc \in {"fetching", "persisting", "counting"}
  PROVE  /\ run[r].page \in Nat \ {0} /\ run[r].search \in 1 .. Searches
         /\ (run[r].page - 1) * PageSize \in Nat /\ run[r].page * PageSize \in Nat
         /\ (run[r].page + 1 - 1) * PageSize = run[r].page * PageSize
         /\ (run[r].page - 1) * PageSize =< run[r].page * PageSize
         /\ feed[Mode[r]][run[r].search] \in Seq(Listings)
<1>1. run[r].page \in Nat \ {0} /\ run[r].search \in 1 .. Searches
  BY RunFacts, RunFields, SearchesAssumption DEF Placed
<1>2. feed[Mode[r]][run[r].search] \in Seq(Listings)
  BY <1>1, RunFacts
<1>3. /\ (run[r].page - 1) * PageSize \in Nat /\ run[r].page * PageSize \in Nat
      /\ (run[r].page + 1 - 1) * PageSize = run[r].page * PageSize
      /\ run[r].page * PageSize = (run[r].page - 1) * PageSize + PageSize
  BY <1>1, PageBounds
<1>4. QED
  BY <1>1, <1>2, <1>3, PagesAssumption

\* Behind an empty page nothing of its search is awaited.
LEMMA EmptyPageEnds ==
  ASSUME PagingInv, NEW r \in Runs, run[r].pc = "fetching", PageContent(r) = <<>>,
         NEW l, Awaits(r, l)
  PROVE  OnLaterSearch(r, l)
<1>1. PICK s \in 1 .. Searches : \E i \in DOMAIN feed[Mode[r]][s] :
       feed[Mode[r]][s][i] = l /\ ToCome(r, s, i)
  BY DEF Awaits, InHand
<1>2. PICK i \in DOMAIN feed[Mode[r]][s] : feed[Mode[r]][s][i] = l /\ ToCome(r, s, i)
  BY <1>1
<1>3. CASE s = run[r].search
  <2>1. i =< (run[r].page - 1) * PageSize
    BY <1>2, <1>3, RunFacts, PageFacts, EmptyPageIsLast
  <2>2. i \in Nat
    BY <1>2, <1>3, PageFacts
  <2>3. i > (run[r].page - 1) * PageSize
    BY <1>2, <1>3, PageFacts DEF ToCome
  <2>4. QED
    BY <2>1, <2>2, <2>3, PageFacts
<1>4. CASE s # run[r].search
  BY <1>2, <1>4 DEF ToCome, OnLaterSearch
<1>5. QED
  BY <1>3, <1>4

\* What is awaited when a page is fetched is on the page, behind it, or on a later search.
LEMMA PageTakes ==
  ASSUME PagingInv, NEW r \in Runs, run[r].pc = "fetching", NEW l, Awaits(r, l)
  PROVE  \/ l \in ToSet(PageContent(r))
         \/ OnLaterSearch(r, l)
         \/ \E i \in DOMAIN feed[Mode[r]][run[r].search] :
               i > run[r].page * PageSize /\ feed[Mode[r]][run[r].search][i] = l
<1>1. PICK s \in 1 .. Searches : \E i \in DOMAIN feed[Mode[r]][s] :
       feed[Mode[r]][s][i] = l /\ ToCome(r, s, i)
  BY DEF Awaits, InHand
<1>2. PICK i \in DOMAIN feed[Mode[r]][s] : feed[Mode[r]][s][i] = l /\ ToCome(r, s, i)
  BY <1>1
<1>3. CASE s = run[r].search
  <2>1. i \in Nat /\ i > (run[r].page - 1) * PageSize
    BY <1>2, <1>3, PageFacts DEF ToCome
  <2>2. CASE i > run[r].page * PageSize
    BY <1>2, <1>3, <2>2
  <2>3. CASE ~(i > run[r].page * PageSize)
    <3>1. i =< run[r].page * PageSize
      BY <2>1, <2>3, PageFacts
    <3>2. \E j \in DOMAIN PageContent(r) : PageContent(r)[j] = feed[Mode[r]][run[r].search][i]
      BY <1>2, <1>3, <2>1, <3>1, RunFacts, PageFacts, PageHolds
    <3>3. QED
      BY <1>2, <1>3, <3>2 DEF ToSet
  <2>4. QED
    BY <2>2, <2>3
<1>4. CASE s # run[r].search
  BY <1>2, <1>4 DEF ToCome, OnLaterSearch
<1>5. QED
  BY <1>3, <1>4

LEMMA SecondEmptyPageKeeps ==
  ASSUME PagingInv, NEW r \in Runs, run[r].pc = "fetching", PageContent(r) = <<>>,
         run' = [run EXCEPT ![r] = NextSearch(run[r])], UNCHANGED <<batch, stored, feed, used>>
  PROVE  PagingInv'
<1> DEFINE z == NextSearch(run[r])
<1>1. z \in Run /\ z.scraperErrors = run[r].scraperErrors /\ z.seen = run[r].seen /\ z.hand = run[r].hand
  BY RunFacts, NextSearchFields
<1>2. run' = [run EXCEPT ![r] = z]
  OBVIOUS
<1> HIDE DEF z
<1>3. Moves(r) /\ run'[r] = z
  BY <1>1, <1>2, MovesAlone, UnusedGrows, RunFacts
<1>4. ToNextSearch(r)
  <2>1. run[r].scraperErrors >= run[r].scraperErrors
    BY RunFacts, RunFields
  <2>2. QED
    BY <1>1, <1>3, <2>1, NextSearchMoves DEF z
<1>5. QED
  BY <1>3, <1>4, EmptyPageEnds, RunFacts, GoesOn

LEMMA FirstEmptyPageKeeps ==
  ASSUME PagingInv, NEW r \in Runs, run[r].pc = "fetching", PageContent(r) = <<>>,
         run' = [run EXCEPT ![r] = [run[r] EXCEPT !.empty = @ + 1, !.page = @ + 1]],
         UNCHANGED <<batch, stored, feed, used>>
  PROVE  PagingInv'
<1> DEFINE x == [run[r] EXCEPT !.empty = @ + 1, !.page = @ + 1]
<1>1. run[r] \in Run /\ run[r].empty + 1 \in Nat /\ run[r].page + 1 \in Nat
  BY RunFacts, RunFields
<1>2. /\ x \in Run /\ x.pc = "fetching" /\ x.search = run[r].search /\ x.page = run[r].page + 1
      /\ x.known = run[r].known /\ x.seen = run[r].seen /\ x.listed = run[r].listed
      /\ x.hand = run[r].hand /\ x.errors = run[r].errors /\ x.status = run[r].status /\ x.jobErrors = run[r].jobErrors
      /\ x.scraperErrors = run[r].scraperErrors
  BY <1>1 DEF Run
<1>3. run' = [run EXCEPT ![r] = x]
  OBVIOUS
<1> HIDE DEF x
<1>4. Moves(r) /\ run'[r] = x
  BY <1>2, <1>3, MovesAlone, UnusedGrows, RunFacts
<1>5. Placed(r)' /\ ErrorsReported(r)'
  BY <1>2, <1>4, RunFacts, PageFacts DEF Placed, ErrorsReported
<1>6. NothingMissed(r)'
  <2> SUFFICES ASSUME Undisturbed(r)', NEW l \in run[r].listed
               PROVE  l \in run[r].known \/ l \in run[r].seen \/ Awaits(r, l)'
    BY <1>2, <1>4 DEF NothingMissed
  <2>1. Undisturbed(r)
    BY <1>2, <1>4 DEF Undisturbed, PagesSuffice, NewOnTop
  <2>2. l \in run[r].known \/ l \in run[r].seen \/ Awaits(r, l)
    BY <2>1, RunFacts DEF NothingMissed, Underway
  <2>3. ASSUME OnLaterSearch(r, l) PROVE Awaits(r, l)'
    BY <2>3, <1>2, <1>4 DEF OnLaterSearch, Awaits, ToCome
  <2>4. QED
    BY <2>2, <2>3, EmptyPageEnds
<1>7. QED
  BY <1>2, <1>4, <1>5, <1>6, QuietMoves

\* An incremental run that stops has everything of the search that it did not know.
LEMMA StopKeeps ==
  ASSUME PagingInv, NEW r \in Runs, run[r].pc = "fetching", PageContent(r) # <<>>,
         Mode[r] = "incremental", ShouldStop(r, PageContent(r)),
         run' = [run EXCEPT ![r] = [NextSearch(run[r]) EXCEPT !.empty = 0,
                                                             !.seen = @ \cup ToSet(PageContent(r))]],
         UNCHANGED <<batch, stored, feed, used>>
  PROVE  PagingInv'
<1> DEFINE z == NextSearch(run[r])
           page == PageContent(r)
           first == (run[r].page - 1) * PageSize
           f == feed[Mode[r]][run[r].search]
<1>1. z \in Run /\ z.scraperErrors = run[r].scraperErrors /\ z.seen = run[r].seen /\ z.hand = run[r].hand
  BY RunFacts, NextSearchFields
<1>2. run' = [run EXCEPT ![r] = [z EXCEPT !.empty = 0, !.seen = z.seen \cup ToSet(page)]]
  OBVIOUS
<1>3. page \in Seq(Listings) /\ ToSet(page) \in SUBSET Listings
  BY RunFacts, PageFacts, PageHolds, ToSetTyped
<1> HIDE DEF z
<1> DEFINE seen == z.seen \cup ToSet(page)
           x == [z EXCEPT !.empty = 0, !.seen = seen]
<1>4. seen \in SUBSET Listings
  BY <1>1, <1>3, RunFields
<1> HIDE DEF seen
<1>5. /\ x \in Run /\ x.pc = z.pc /\ x.search = z.search /\ x.page = z.page
      /\ x.known = z.known /\ x.seen = seen /\ x.listed = z.listed
      /\ x.errors = z.errors /\ x.status = z.status /\ x.jobErrors = z.jobErrors
      /\ x.scraperErrors = z.scraperErrors
  BY <1>1, <1>4 DEF Run
<1>6. run' = [run EXCEPT ![r] = x]
  BY <1>2 DEF seen
<1> HIDE DEF x
<1>7. Moves(r) /\ run'[r] = x
  BY <1>5, <1>6, MovesAlone, UnusedGrows, RunFacts
<1>8. ToNextSearch(r)
  <2>1. run[r].scraperErrors >= run[r].scraperErrors
    BY RunFacts, RunFields
  <2>2. run[r].seen \subseteq seen
    BY <1>1 DEF seen
  <2>3. QED
    BY <1>1, <1>5, <1>7, <2>1, <2>2, NextSearchMoves DEF z
<1>9. ASSUME NEW l, l \notin run[r].known, Undisturbed(r), Awaits(r, l)
      PROVE  l \in seen \/ OnLaterSearch(r, l)
  <2>1. CASE \E i \in DOMAIN f : i > run[r].page * PageSize /\ f[i] = l
    <3>1. PICK i \in DOMAIN f : i > run[r].page * PageSize /\ f[i] = l
      BY <2>1
    <3>2. PICK j \in DOMAIN page : page[j] \in run[r].known
      BY <1>3, StopsOnKnown
    <3>3. first + j \in DOMAIN f /\ page[j] = f[first + j]
      BY RunFacts, PageFacts, PageHolds
    <3>4. first + j < i
      <4>1. i \in Nat /\ j \in Nat /\ first + j \in Nat
        <5>1. f \in Seq(Listings) /\ first \in Nat
          BY PageFacts
        <5>2. QED
          BY <3>1, <5>1, <1>3
      <4>2. first + j =< run[r].page * PageSize
        BY <3>2, RunFacts, PageFacts, PageHolds
      <4>3. QED
        BY <4>1, <4>2, <3>1, PageFacts
    <3>5. NewOnTop(r)
      BY <1>9 DEF Undisturbed
    <3>6. f[i] \in run[r].known
      BY <3>1, <3>2, <3>3, <3>4, <3>5, PageFacts DEF NewOnTop
    <3>7. QED
      BY <3>1, <3>6, <1>9
  <2>2. CASE l \in ToSet(page)
    BY <2>2 DEF seen
  <2>3. QED
    BY <1>9, <2>1, <2>2, PageTakes
<1>10. QED
  BY <1>5, <1>7, <1>8, <1>9, RunFacts, GoesOn

LEMMA HandOverKeeps ==
  ASSUME PagingInv, NEW r \in Runs, run[r].pc = "fetching", PageContent(r) # <<>>,
         run' = [run EXCEPT ![r] = [run[r] EXCEPT !.empty = 0, !.pc = "persisting"]],
         batch' = [batch EXCEPT ![r] = Call(PageContent(r))], UNCHANGED <<stored, feed, used>>
  PROVE  PagingInv'
<1> DEFINE x == [run[r] EXCEPT !.empty = 0, !.pc = "persisting"]
           b == Call(PageContent(r))
<1>1. /\ x \in Run /\ x.pc = "persisting" /\ x.search = run[r].search /\ x.page = run[r].page
      /\ x.known = run[r].known /\ x.seen = run[r].seen /\ x.listed = run[r].listed
      /\ x.hand = run[r].hand /\ x.errors = run[r].errors /\ x.status = run[r].status /\ x.jobErrors = run[r].jobErrors
      /\ x.scraperErrors = run[r].scraperErrors
  BY RunFacts DEF Run, Pc
<1>2. PageContent(r) \in Seq(Listings)
  BY RunFacts, PageFacts, PageHolds
<1>3. b \in Batch /\ b.items = PageContent(r) /\ b.next = 1 /\ b.op = "none"
  BY <1>2 DEF Call, Batch
<1>4. run' = [run EXCEPT ![r] = x] /\ batch' = [batch EXCEPT ![r] = b]
  OBVIOUS
<1> HIDE DEF x, b
<1>5. Moves(r) /\ run'[r] = x /\ batch'[r] = b
  <2>1. UsedGrows
    BY UnusedGrows, RunFacts
  <2>2. QED
    BY <1>1, <1>3, <1>4, <2>1, RunFacts DEF Moves
<1>6. Placed(r)' /\ ErrorsReported(r)' /\ SeenIsStored(r)'
  BY <1>1, <1>5, RunFacts, PageFacts DEF Placed, ErrorsReported, SeenIsStored
<1>7. ItemsInTransaction(r)'
  BY <1>2, <1>3, <1>5 DEF ItemsInTransaction, Busy
<1>8. NothingMissed(r)'
  <2> SUFFICES ASSUME Undisturbed(r)', NEW l \in run[r].listed
               PROVE  l \in run[r].known \/ l \in run[r].seen \/ Awaits(r, l)'
    BY <1>1, <1>5 DEF NothingMissed
  <2>1. Undisturbed(r)
    BY <1>1, <1>5 DEF Undisturbed, PagesSuffice, NewOnTop
  <2>2. l \in run[r].known \/ l \in run[r].seen \/ Awaits(r, l)
    BY <2>1, RunFacts DEF NothingMissed, Underway
  <2>3. ASSUME OnLaterSearch(r, l) PROVE Awaits(r, l)'
    BY <2>3, <1>1, <1>5 DEF OnLaterSearch, Awaits, ToCome
  <2>4. ASSUME l \in ToSet(PageContent(r)) PROVE Awaits(r, l)'
    BY <2>4, <1>1, <1>3, <1>5 DEF Awaits, InHand
  <2>5. ASSUME NEW i \in DOMAIN feed[Mode[r]][run[r].search],
               i > run[r].page * PageSize, feed[Mode[r]][run[r].search][i] = l
        PROVE  Awaits(r, l)'
    BY <2>5, <1>1, <1>5, PageFacts DEF Awaits, ToCome
  <2>6. QED
    BY <2>2, <2>3, <2>4, <2>5, PageTakes
<1>9. QED
  BY <1>1, <1>2, <1>3, <1>5, <1>6, <1>7, <1>8, RunFacts, RunMoves DEF RunInv

LEMMA FetchKeeps == ASSUME PagingInv, NEW r \in Runs, Fetch(r) PROVE PagingInv'
<1>1. run[r].pc = "fetching" /\ UNCHANGED <<stored, feed, used>>
  BY DEF Fetch
<1>2. CASE /\ PageContent(r) = <<>> /\ run[r].empty + 1 >= 2
           /\ run' = [run EXCEPT ![r] = NextSearch(run[r])] /\ UNCHANGED batch
  BY <1>1, <1>2, SecondEmptyPageKeeps
<1>3. CASE /\ PageContent(r) = <<>>
           /\ run' = [run EXCEPT ![r] = [run[r] EXCEPT !.empty = @ + 1, !.page = @ + 1]]
           /\ UNCHANGED batch
  BY <1>1, <1>3, FirstEmptyPageKeeps
<1>4. CASE /\ PageContent(r) # <<>> /\ Mode[r] = "incremental" /\ ShouldStop(r, PageContent(r))
           /\ run' = [run EXCEPT ![r] = [NextSearch(run[r]) EXCEPT !.empty = 0,
                                                              !.seen = @ \cup ToSet(PageContent(r))]]
           /\ UNCHANGED batch
  BY <1>1, <1>4, StopKeeps
<1>5. CASE /\ PageContent(r) # <<>>
           /\ run' = [run EXCEPT ![r] = [run[r] EXCEPT !.empty = 0, !.pc = "persisting"]]
           /\ batch' = [batch EXCEPT ![r] = Call(PageContent(r))]
  BY <1>1, <1>5, HandOverKeeps
<1>6. QED
  BY <1>2, <1>3, <1>4, <1>5 DEF Fetch

-----------------------------------------------------------------------------
(* The store *)

LEMMA BatchFacts ==
  ASSUME PagingInv, NEW r \in Runs
  PROVE  /\ batch[r].items \in Seq(Listings) /\ batch[r].next \in Nat
         /\ batch[r].op \in {"none", "insert", "update"} /\ batch[r].held \in SUBSET Listings
         /\ batch[r].new \in Nat /\ batch[r].updated \in Nat /\ batch[r].errors \in Nat
         /\ MoreItems(r) => batch[r].items[batch[r].next] \in Listings
         /\ Busy(r) => Flushed(r) \in SUBSET Listings
         /\ DOMAIN batch[r].items = 1 .. Len(batch[r].items) /\ Len(batch[r].items) \in Nat
<1>1. /\ batch[r].items \in Seq(Listings) /\ batch[r].next \in Nat
      /\ batch[r].op \in {"none", "insert", "update"} /\ batch[r].held \in SUBSET Listings
      /\ batch[r].new \in Nat /\ batch[r].updated \in Nat /\ batch[r].errors \in Nat
  BY RunFacts DEF Batch
<1>2. Busy(r) => batch[r].next >= 1 /\ (batch[r].op # "none" => batch[r].on \in Listings)
  BY RunFacts DEF ItemsInTransaction
<1>3. DOMAIN batch[r].items = 1 .. Len(batch[r].items) /\ Len(batch[r].items) \in Nat
  BY <1>1
<1>4. MoreItems(r) => batch[r].items[batch[r].next] \in Listings
  BY <1>1, <1>2, <1>3, ElementOfSeq DEF MoreItems
<1>5. Busy(r) => Flushed(r) \in SUBSET Listings
  BY <1>1, <1>2 DEF Flushed
<1>6. QED
  BY <1>1, <1>3, <1>4, <1>5

\* Within a page the run stays where it is.
LEMMA BatchMoves ==
  ASSUME PagingInv, NEW r \in Runs, UNCHANGED <<run, feed>>, stored' = stored, UsedGrows,
         Busy(r), batch'[r] \in Batch, batch' = [batch EXCEPT ![r] = batch'[r]],
         batch'[r].items = batch[r].items, ItemsInTransaction(r)'
  PROVE  PagingInv'
<1>1. Moves(r)
  BY RunFacts DEF Moves
<1>2. Placed(r)' /\ ErrorsReported(r)' /\ SeenIsStored(r)'
  BY RunFacts DEF Placed, ErrorsReported, SeenIsStored
<1>3. NothingMissed(r)'
  <2>1. Undisturbed(r)' => Undisturbed(r)
    <3>1. PagesSuffice(r)' => PagesSuffice(r)
      BY DEF PagesSuffice
    <3>2. NewOnTop(r)' => NewOnTop(r)
      BY DEF NewOnTop
    <3>3. used \in [EnvEvents -> Nat] /\ run' = run
      BY DEF PagingInv, TypeOK
    <3>4. \A e \in {"delist", "refuse", "rerank"} : used'[e] = 0 => used[e] = 0
      BY <3>3 DEF UsedGrows, EnvEvents
    <3>5. QED
      BY <3>1, <3>2, <3>3, <3>4 DEF Undisturbed
  <2>2. \A l : Awaits(r, l) => Awaits(r, l)'
    BY DEF Awaits, InHand, ToCome
  <2>3. QED
    BY <2>1, <2>2, RunFacts DEF NothingMissed
<1>4. QED
  BY <1>1, <1>2, <1>3, RunFacts, RunMoves DEF RunInv, Busy

LEMMA PersistItemKeeps == ASSUME PagingInv, NEW r \in Runs, PersistItem(r) PROVE PagingInv'
<1> DEFINE item == batch[r].items[batch[r].next]
           exists == item \in stored \cup Flushed(r)
           op == IF exists THEN "update" ELSE "insert"
           new == IF exists THEN batch[r].new ELSE batch[r].new + 1
           updated == IF exists THEN batch[r].updated + 1 ELSE batch[r].updated
           b == [batch[r] EXCEPT !.next = @ + 1, !.held = Flushed(r), !.op = op, !.on = item,
                                 !.new = new, !.updated = updated]
<1>1. /\ MoreItems(r) /\ Busy(r) /\ UNCHANGED <<run, feed, stored, used>>
      /\ batch' = [batch EXCEPT ![r] = b]
  BY DEF PersistItem, Upsert, MoreItems
<1>2. /\ item \in Listings /\ Flushed(r) \in SUBSET Listings /\ batch[r].next + 1 \in Nat
      /\ op \in {"insert", "update"} /\ new \in Nat /\ updated \in Nat
  BY <1>1, BatchFacts
<1> HIDE DEF item, op, new, updated
<1>3. /\ b \in Batch /\ b.items = batch[r].items /\ b.next = batch[r].next + 1
      /\ b.held = Flushed(r) /\ b.op = op /\ b.on = item /\ b.errors = batch[r].errors
  BY <1>2, RunFacts DEF Batch
<1> HIDE DEF b
<1>4. batch'[r] = b
  BY <1>1, RunFacts
<1>5. ItemsInTransaction(r)'
  <2>1. Flushed(r)' = Flushed(r) \cup {item}
    BY <1>2, <1>3, <1>4 DEF Flushed
  <2>2. \A i \in DOMAIN b.items : i < b.next => i < batch[r].next \/ i = batch[r].next
    BY <1>3, BatchFacts
  <2>3. batch[r].errors = 0 =>
          \A i \in DOMAIN batch[r].items : i < batch[r].next => batch[r].items[i] \in Flushed(r)
    BY RunFacts DEF ItemsInTransaction
  <2>4. batch[r].errors = 0 => \A i \in DOMAIN b.items : i < b.next => b.items[i] \in Flushed(r)'
    BY <2>1, <2>2, <2>3, <1>3 DEF item
  <2>5. b.next >= 1 /\ b.on \in Listings
    BY <1>2, <1>3, BatchFacts
  <2>6. QED
    BY <1>3, <1>4, <2>4, <2>5 DEF ItemsInTransaction
<1>6. QED
  BY <1>1, <1>3, <1>4, <1>5, RunFacts, UnusedGrows, BatchMoves

LEMMA PersistItemFailsKeeps == ASSUME PagingInv, NEW r \in Runs, PersistItemFails(r) PROVE PagingInv'
<1> DEFINE b == [batch[r] EXCEPT !.next = @ + 1, !.held = {}, !.op = "none", !.on = NoListing,
                                 !.errors = @ + 1]
<1>1. /\ MoreItems(r) /\ Busy(r) /\ UNCHANGED <<run, feed, stored>> 
      /\ batch' = [batch EXCEPT ![r] = b]
  BY DEF PersistItemFails, UpsertFails, MoreItems
<1>2. UsedGrows
  BY RunFacts, UnusedGrows, SpendGrows DEF PersistItemFails, EnvEvents
<1>3. batch[r].next + 1 \in Nat /\ batch[r].errors + 1 \in Nat /\ batch[r].errors + 1 # 0 /\ batch[r].next + 1 >= 1
  BY BatchFacts
<1>4. /\ b \in Batch /\ b.items = batch[r].items /\ b.next = batch[r].next + 1 /\ b.op = "none"
      /\ b.errors = batch[r].errors + 1
  BY <1>3, RunFacts DEF Batch
<1> HIDE DEF b
<1>5. batch'[r] = b
  BY <1>1, RunFacts
<1>6. ItemsInTransaction(r)'
  BY <1>3, <1>4, <1>5 DEF ItemsInTransaction
<1>7. QED
  BY <1>1, <1>2, <1>4, <1>5, <1>6, BatchMoves

LEMMA IdleBatch == Idle \in Batch /\ Idle.items = <<>>
  BY EmptySeq DEF Idle, Call, Batch

\* The page is committed: what was in hand still is, and it is stored unless an item failed.
LEMMA PersistDoneKeeps == ASSUME PagingInv, NEW r \in Runs, PersistDone(r) PROVE PagingInv'
<1> DEFINE errors == run[r].errors + batch[r].errors
           pages == run[r].pages + 1
           hand == ToSet(batch[r].items)
           x == [run[r] EXCEPT !.pc = "counting", !.pages = pages, !.errors = errors, !.hand = hand]
<1>1. /\ AllItems(r) /\ Busy(r) /\ stored' = stored \cup Flushed(r) /\ UNCHANGED <<feed, used>>
      /\ batch' = [batch EXCEPT ![r] = Idle] /\ run' = [run EXCEPT ![r] = x]
  <2>1. run' = [run EXCEPT ![r] =
          [run[r] EXCEPT !.pc = "counting", !.pages = run[r].pages + 1,
                         !.errors = run[r].errors + batch[r].errors, !.hand = ToSet(batch[r].items)]]
    BY DEF PersistDone
  <2>2. QED
    BY <2>1 DEF PersistDone, Commit, AllItems
<1>2. run[r].pc = "persisting"
  BY <1>1, RunFacts DEF Busy
<1>3. /\ errors \in Nat /\ pages \in Nat /\ hand \in SUBSET Listings
      /\ errors = 0 => run[r].errors = 0 /\ batch[r].errors = 0
  <2>1. ToSet(batch[r].items) \subseteq Listings
    BY BatchFacts, ToSetTyped
  <2>2. QED
    BY <2>1, BatchFacts, RunFacts, RunFields
<1> HIDE DEF errors, pages, hand
<1>4. /\ x \in Run /\ x.pc = "counting" /\ x.search = run[r].search /\ x.page = run[r].page
      /\ x.known = run[r].known /\ x.seen = run[r].seen /\ x.listed = run[r].listed
      /\ x.hand = hand /\ x.errors = errors /\ x.status = run[r].status
      /\ x.scraperErrors = run[r].scraperErrors
  <2>1. run[r] \in Run /\ "counting" \in Pc
    BY RunFacts DEF Pc
  <2>2. x \in Run
    BY <1>3, <2>1 DEF Run
  <2>3. QED
    BY <2>1, <2>2 DEF Run
<1> HIDE DEF x
<1>5. Moves(r) /\ run'[r] = x /\ batch'[r] = Idle
  BY <1>1, <1>4, IdleBatch, RunFacts, UnusedGrows DEF Moves
<1>6. Placed(r)' /\ ErrorsReported(r)'
  BY <1>2, <1>4, <1>5, RunFacts, PageFacts DEF Placed, ErrorsReported
<1>7. ItemsInTransaction(r)'
  BY <1>5, IdleBatch DEF ItemsInTransaction, Busy
<1>8. SeenIsStored(r)'
  <2>1. batch[r].errors = 0 => hand \subseteq Flushed(r)
    <3>1. \A i \in DOMAIN batch[r].items : i < batch[r].next
      BY <1>1, BatchFacts DEF AllItems
    <3>2. QED
      BY <3>1, RunFacts DEF ItemsInTransaction, ToSet, hand
  <2>2. QED
    BY <2>1, <1>1, <1>3, <1>4, <1>5, RunFacts DEF SeenIsStored
<1>9. NothingMissed(r)'
  <2> SUFFICES ASSUME Undisturbed(r)', NEW l \in run[r].listed
               PROVE  l \in run[r].known \/ l \in run[r].seen \/ Awaits(r, l)'
    BY <1>4, <1>5 DEF NothingMissed
  <2>1. Undisturbed(r)
    BY <1>1, <1>4, <1>5 DEF Undisturbed, PagesSuffice, NewOnTop
  <2>2. l \in run[r].known \/ l \in run[r].seen \/ Awaits(r, l)
    BY <2>1, <1>2, RunFacts DEF NothingMissed, Underway
  <2>3. ASSUME InHand(r, l) PROVE Awaits(r, l)'
    BY <2>3, <1>2, <1>4, <1>5 DEF InHand, Awaits, hand
  <2>4. \A s, i : ToCome(r, s, i) => ToCome(r, s, i)'
    BY <1>2, <1>4, <1>5 DEF ToCome
  <2>5. QED
    BY <2>2, <2>3, <2>4, <1>1 DEF Awaits
<1>10. stored' \subseteq Listings
  BY <1>1, RunFacts, BatchFacts
<1>11. QED
  BY <1>1, <1>4, <1>5, <1>6, <1>7, <1>8, <1>9, <1>10, IdleBatch, RunMoves DEF RunInv

\* What was in hand is seen.
LEMMA PageDoneKeeps == ASSUME PagingInv, NEW r \in Runs, PageDone(r) PROVE PagingInv'
<1> DEFINE seen == run[r].seen \cup run[r].hand
           jobErrors == IF UpdateDue(r) THEN run[r].errors ELSE run[r].jobErrors
           x == [run[r] EXCEPT !.pc = "fetching", !.page = run[r].page + 1, !.hand = {},
                               !.seen = seen, !.jobErrors = jobErrors]
<1>1. /\ run[r].pc = "counting" /\ UNCHANGED <<stored, batch, feed, used>>
      /\ run' = [run EXCEPT ![r] = x]
  BY DEF PageDone
<1>2. seen \in SUBSET Listings /\ jobErrors \in Nat /\ run[r].page + 1 \in Nat
  BY RunFacts, RunFields
<1> HIDE DEF seen, jobErrors
<1>3. /\ x \in Run /\ x.pc = "fetching" /\ x.search = run[r].search /\ x.page = run[r].page + 1
      /\ x.known = run[r].known /\ x.seen = seen /\ x.hand = {} /\ x.listed = run[r].listed
      /\ x.errors = run[r].errors /\ x.status = run[r].status
      /\ x.scraperErrors = run[r].scraperErrors
  <2>1. run[r] \in Run /\ "fetching" \in Pc
    BY RunFacts DEF Pc
  <2>2. x \in Run
    BY <1>2, <2>1 DEF Run
  <2>3. QED
    BY <2>1, <2>2 DEF Run
<1> HIDE DEF x
<1>4. Moves(r) /\ run'[r] = x
  BY <1>1, <1>3, MovesAlone, RunFacts, UnusedGrows
<1>5. Placed(r)' /\ ErrorsReported(r)'
  BY <1>1, <1>3, <1>4, RunFacts, PageFacts DEF Placed, ErrorsReported
<1>6. ItemsInTransaction(r)'
  BY <1>1, RunFacts DEF ItemsInTransaction, Flushed, Busy
<1>7. SeenIsStored(r)'
  BY <1>1, <1>3, <1>4, RunFacts DEF SeenIsStored, seen
<1>8. NothingMissed(r)'
  <2> SUFFICES ASSUME Undisturbed(r)', NEW l \in run[r].listed
               PROVE  l \in run[r].known \/ l \in seen \/ Awaits(r, l)'
    BY <1>3, <1>4 DEF NothingMissed
  <2>1. Undisturbed(r)
    BY <1>1, <1>3, <1>4 DEF Undisturbed, PagesSuffice, NewOnTop
  <2>2. l \in run[r].known \/ l \in run[r].seen \/ Awaits(r, l)
    BY <2>1, <1>1, RunFacts DEF NothingMissed, Underway
  <2>3. CASE l \in run[r].seen \/ InHand(r, l)
    BY <2>3, <1>1 DEF InHand, seen
  <2>4. CASE \E s \in 1 .. Searches : \E i \in DOMAIN feed[Mode[r]][s] :
               feed[Mode[r]][s][i] = l /\ ToCome(r, s, i)
    <3>1. /\ run'[r].search = run[r].search /\ run'[r].pc = "fetching"
          /\ (run'[r].page - 1) * PageSize = run[r].page * PageSize
      BY <1>1, <1>3, <1>4, PageFacts
    <3>2. \A s, i : ToCome(r, s, i) => ToCome(r, s, i)'
      BY <1>1, <3>1 DEF ToCome
    <3>3. QED
      BY <2>4, <3>2, <1>1 DEF Awaits
  <2>5. QED
    BY <2>2, <2>3, <2>4 DEF Awaits
<1>9. QED
  BY <1>1, <1>3, <1>4, <1>5, <1>6, <1>7, <1>8, RunFacts, RunMoves DEF RunInv

\* A failing update costs the rest of its search, and is counted.
LEMMA UpdateFailsKeeps == ASSUME PagingInv, NEW r \in Runs, UpdateFails(r) PROVE PagingInv'
<1> DEFINE z == NextSearch(run[r])
<1>1. PICK n \in {run[r].jobErrors, run[r].errors} :
        run' = [run EXCEPT ![r] = [z EXCEPT !.scraperErrors = z.scraperErrors + 1, !.hand = {},
                                            !.jobErrors = n]]
  BY DEF UpdateFails
<1>2. /\ run[r].pc = "counting" /\ UNCHANGED <<batch, feed, stored>> /\ UsedGrows
      /\ batch[r].items = <<>>
  BY RunFacts, SpendGrows DEF UpdateFails, EnvEvents
<1>3. z \in Run /\ z.scraperErrors = run[r].scraperErrors /\ z.seen = run[r].seen /\ z.hand = run[r].hand
  BY RunFacts, NextSearchFields
<1> HIDE DEF z
<1> DEFINE x == [z EXCEPT !.scraperErrors = z.scraperErrors + 1, !.hand = {}, !.jobErrors = n]
<1>4. /\ n \in Nat /\ z.scraperErrors + 1 \in Nat /\ z.scraperErrors + 1 >= run[r].scraperErrors
      /\ z.scraperErrors + 1 # 0
  BY <1>3, RunFacts, RunFields
<1>5. /\ x \in Run /\ x.pc = z.pc /\ x.search = z.search /\ x.page = z.page
      /\ x.known = z.known /\ x.seen = run[r].seen /\ x.hand = {} /\ x.listed = z.listed
      /\ x.errors = z.errors /\ x.status = z.status
      /\ x.scraperErrors >= run[r].scraperErrors /\ x.scraperErrors # 0
  BY <1>3, <1>4 DEF Run
<1> HIDE DEF x
<1>6. Moves(r) /\ run'[r] = x
  BY <1>1, <1>2, <1>5, MovesAlone DEF x
<1>7. ToNextSearch(r)
  BY <1>2, <1>5, <1>6, NextSearchMoves DEF z
<1>8. ~Undisturbed(r)'
  BY <1>5, <1>6 DEF Undisturbed
<1>9. QED
  BY <1>2, <1>6, <1>7, <1>8, RunFacts, GoesOn

LEMMA PersistFailsKeeps == ASSUME PagingInv, NEW r \in Runs, PersistFails(r) PROVE PagingInv'
<1> DEFINE z == NextSearch(run[r])
<1>1. run' = [run EXCEPT ![r] = [z EXCEPT !.scraperErrors = z.scraperErrors + 1]]
  BY DEF PersistFails
<1>2. /\ AllItems(r) /\ Busy(r) /\ UNCHANGED <<feed, stored>> 
      /\ batch' = [batch EXCEPT ![r] = Idle]
  BY DEF PersistFails, Abort, AllItems
<1>3. run[r].pc = "persisting" /\ UsedGrows
  BY <1>2, RunFacts, UnusedGrows, SpendGrows DEF PersistFails, Busy, EnvEvents
<1>4. z \in Run /\ z.scraperErrors = run[r].scraperErrors /\ z.seen = run[r].seen /\ z.hand = run[r].hand
  BY RunFacts, NextSearchFields
<1> HIDE DEF z
<1> DEFINE x == [z EXCEPT !.scraperErrors = z.scraperErrors + 1]
<1>5. z.scraperErrors + 1 \in Nat /\ z.scraperErrors + 1 >= run[r].scraperErrors /\ z.scraperErrors + 1 # 0
  BY <1>4, RunFields
<1>6. /\ x \in Run /\ x.pc = z.pc /\ x.search = z.search /\ x.page = z.page
      /\ x.known = z.known /\ x.seen = run[r].seen /\ x.hand = run[r].hand /\ x.listed = z.listed
      /\ x.errors = z.errors /\ x.status = z.status /\ x.jobErrors = z.jobErrors
      /\ x.scraperErrors >= run[r].scraperErrors /\ x.scraperErrors # 0
  BY <1>4, <1>5 DEF Run
<1> HIDE DEF x
<1>7. Moves(r) /\ run'[r] = x /\ batch'[r] = Idle
  BY <1>1, <1>2, <1>3, <1>6, IdleBatch, RunFacts DEF Moves, x
<1>8. ToNextSearch(r)
  BY <1>3, <1>6, <1>7, NextSearchMoves DEF z
<1>9. ~Undisturbed(r)'
  BY <1>6, <1>7 DEF Undisturbed
<1>10. QED
  BY <1>2, <1>7, <1>8, <1>9, IdleBatch, GoesOn

-----------------------------------------------------------------------------
(* The end of a run *)

\* A run that ends without completing promises nothing.
LEMMA EndsOtherwise ==
  ASSUME PagingInv, NEW r \in Runs, Moves(r), UNCHANGED stored, batch'[r].items = <<>>,
         Placed(r)', ItemsInTransaction(r)',
         run'[r].pc \in {"done", "gone"}, run'[r].status # "completed",
         run'[r].seen = run[r].seen, run'[r].hand = run[r].hand,
         run'[r].errors = run[r].errors, run'[r].scraperErrors = run[r].scraperErrors
  PROVE  PagingInv'
<1>1. ErrorsReported(r)' /\ NothingMissed(r)'
  BY DEF ErrorsReported, NothingMissed, Underway
<1>2. SeenIsStored(r)'
  BY RunFacts DEF SeenIsStored
<1>3. QED
  BY <1>1, <1>2, RunFacts, RunMoves DEF RunInv

LEMMA StartJobFailsKeeps == ASSUME PagingInv, NEW r \in Runs, StartJobFails(r) PROVE PagingInv'
<1>1. /\ run[r].pc = "idle" /\ UNCHANGED <<batch, feed, stored>> /\ UsedGrows
      /\ batch[r].items = <<>>
  BY RunFacts, SpendGrows DEF StartJobFails, EnvEvents
<1>2. PICK st \in {"none", "running"} :
        run' = [run EXCEPT ![r] = [run[r] EXCEPT !.pc = "done", !.status = st]]
  BY DEF StartJobFails
<1> DEFINE x == [run[r] EXCEPT !.pc = "done", !.status = st]
<1>3. /\ x \in Run /\ x.pc = "done" /\ x.status # "completed"
      /\ x.search = run[r].search /\ x.page = run[r].page
      /\ x.known = run[r].known /\ x.seen = run[r].seen /\ x.hand = run[r].hand
      /\ x.errors = run[r].errors /\ x.scraperErrors = run[r].scraperErrors
  BY RunFacts DEF Run, Pc, Status
<1>4. run' = [run EXCEPT ![r] = x]
  BY <1>2
<1> HIDE DEF x
<1>5. Moves(r) /\ run'[r] = x
  BY <1>1, <1>3, <1>4, MovesAlone
<1>6. Placed(r)' /\ ItemsInTransaction(r)'
  BY <1>1, <1>3, <1>5, RunFacts DEF Placed, ItemsInTransaction, Flushed, Busy
<1>7. QED
  BY <1>1, <1>3, <1>5, <1>6, EndsOtherwise

LEMMA CompleteKeeps == ASSUME PagingInv, NEW r \in Runs, Complete(r) PROVE PagingInv'
<1> DEFINE total == run[r].errors + run[r].scraperErrors
           x == [run[r] EXCEPT !.pc = "done", !.status = "completed", !.jobErrors = total]
<1>1. /\ run[r].pc = "closing" /\ run' = [run EXCEPT ![r] = x]
      /\ UNCHANGED <<batch, feed, stored>> /\ UsedGrows
  BY RunFacts, UnusedGrows DEF Complete
<1>2. /\ x \in Run /\ x.pc = "done" /\ x.status = "completed" /\ x.jobErrors = total
      /\ x.search = run[r].search /\ x.page = run[r].page
      /\ x.known = run[r].known /\ x.seen = run[r].seen /\ x.listed = run[r].listed
      /\ x.hand = run[r].hand /\ x.errors = run[r].errors /\ x.scraperErrors = run[r].scraperErrors
  <2>1. total \in Nat
    BY RunFacts, RunFields
  <2> HIDE DEF total
  <2>2. QED
    BY <2>1, RunFacts DEF Run, Pc, Status
<1> HIDE DEF x
<1>3. Moves(r) /\ run'[r] = x
  BY <1>1, <1>2, MovesAlone
<1>4. Placed(r)' /\ ErrorsReported(r)'
  BY <1>1, <1>2, <1>3, RunFacts DEF Placed, ErrorsReported
<1>5. NothingMissed(r)'
  <2> SUFFICES ASSUME Undisturbed(r)', NEW l \in run[r].listed
               PROVE  l \in run[r].known \/ l \in run[r].seen
    BY <1>2, <1>3 DEF NothingMissed
  <2>1. Undisturbed(r)
    BY <1>1, <1>2, <1>3 DEF Undisturbed, PagesSuffice, NewOnTop, Complete
  <2>2. ~Awaits(r, l)
    BY <1>1, RunFacts, RunFields, SearchesAssumption DEF Awaits, InHand, ToCome, Placed
  <2>3. QED
    BY <1>1, <2>1, <2>2, RunFacts DEF NothingMissed, Underway
<1>6. QED
  BY <1>1, <1>2, <1>3, <1>4, <1>5, QuietMoves

LEMMA ScraperRaisesKeeps == ASSUME PagingInv, NEW r \in Runs, ScraperRaises(r) PROVE PagingInv'
<1>1. /\ run[r].pc = "searching" /\ UNCHANGED <<batch, feed, stored>> /\ UsedGrows
      /\ batch[r].items = <<>>
  BY RunFacts, SpendGrows DEF ScraperRaises, EnvEvents
<1>2. PICK st \in {"stopped_budget", "failed"}, n \in Nat :
        run' = [run EXCEPT ![r] = [run[r] EXCEPT !.pc = "done", !.status = st, !.jobErrors = n]]
  BY RunFacts, RunFields DEF ScraperRaises
<1> DEFINE x == [run[r] EXCEPT !.pc = "done", !.status = st, !.jobErrors = n]
<1>3. /\ x \in Run /\ x.pc = "done" /\ x.status # "completed"
      /\ x.search = run[r].search /\ x.page = run[r].page
      /\ x.known = run[r].known /\ x.seen = run[r].seen /\ x.hand = run[r].hand
      /\ x.errors = run[r].errors /\ x.scraperErrors = run[r].scraperErrors
  BY RunFacts DEF Run, Pc, Status
<1>4. run' = [run EXCEPT ![r] = x]
  BY <1>2
<1> HIDE DEF x
<1>5. Moves(r) /\ run'[r] = x
  BY <1>1, <1>3, <1>4, MovesAlone
<1>6. Placed(r)' /\ ItemsInTransaction(r)'
  BY <1>1, <1>3, <1>5, RunFacts DEF Placed, ItemsInTransaction, Flushed, Busy
<1>7. QED
  BY <1>1, <1>3, <1>5, <1>6, EndsOtherwise

LEMMA CompleteFailsKeeps == ASSUME PagingInv, NEW r \in Runs, CompleteFails(r) PROVE PagingInv'
<1>1. /\ run[r].pc = "closing" /\ UNCHANGED <<batch, feed, stored>> /\ UsedGrows
      /\ batch[r].items = <<>>
  BY RunFacts, SpendGrows DEF CompleteFails, EnvEvents
<1>2. run[r].status # "completed"
  BY <1>1, RunFacts DEF Placed
<1>3. PICK st \in {run[r].status, "failed"}, n \in Nat :
        run' = [run EXCEPT ![r] = [run[r] EXCEPT !.pc = "done", !.status = st, !.jobErrors = n]]
  <2>1. CASE run' = [run EXCEPT ![r].pc = "done"]
    <3>1. [run[r] EXCEPT !.pc = "done"]
            = [run[r] EXCEPT !.pc = "done", !.status = run[r].status, !.jobErrors = run[r].jobErrors]
      BY RunFacts DEF Run
    <3>2. run[r].jobErrors \in Nat
      BY RunFacts, RunFields
    <3>3. QED
      BY <2>1, <3>1, <3>2
  <2>2. CASE run' = [run EXCEPT ![r] = [@ EXCEPT !.pc = "done", !.status = "failed",
                               !.jobErrors = run[r].errors + run[r].scraperErrors + 1]]
    <3>1. run[r].errors + run[r].scraperErrors + 1 \in Nat
      BY RunFacts, RunFields
    <3>2. QED
      BY <2>2, <3>1
  <2>3. QED
    BY <2>1, <2>2 DEF CompleteFails
<1> DEFINE x == [run[r] EXCEPT !.pc = "done", !.status = st, !.jobErrors = n]
<1>4. /\ x \in Run /\ x.pc = "done" /\ x.status # "completed"
      /\ x.search = run[r].search /\ x.page = run[r].page
      /\ x.known = run[r].known /\ x.seen = run[r].seen /\ x.hand = run[r].hand
      /\ x.errors = run[r].errors /\ x.scraperErrors = run[r].scraperErrors
  <2>1. run[r] \in Run /\ "done" \in Pc /\ st \in Status /\ st # "completed"
    BY <1>2, RunFacts, RunFields DEF Pc, Status
  <2>2. x \in Run
    BY <2>1 DEF Run
  <2>3. QED
    BY <2>1, <2>2 DEF Run
<1>5. run' = [run EXCEPT ![r] = x]
  BY <1>3
<1> HIDE DEF x
<1>6. Moves(r) /\ run'[r] = x
  BY <1>1, <1>4, <1>5, MovesAlone
<1>7. Placed(r)' /\ ItemsInTransaction(r)'
  BY <1>1, <1>4, <1>6, RunFacts DEF Placed, ItemsInTransaction, Flushed, Busy
<1>8. QED
  BY <1>1, <1>4, <1>6, <1>7, EndsOtherwise

LEMMA CrashKeeps == ASSUME PagingInv, NEW r \in Runs, Crash(r) PROVE PagingInv'
<1> DEFINE x == [run[r] EXCEPT !.pc = "gone"]
<1>1. /\ run[r].pc \notin {"idle", "done", "gone"} /\ UNCHANGED <<feed, stored>> /\ UsedGrows
      /\ run' = [run EXCEPT ![r] = x] /\ batch' = [batch EXCEPT ![r] = Idle]
  BY RunFacts, SpendGrows DEF Crash, Abort, EnvEvents
<1>2. /\ x \in Run /\ x.pc = "gone" /\ x.status = run[r].status
      /\ x.search = run[r].search /\ x.page = run[r].page
      /\ x.known = run[r].known /\ x.seen = run[r].seen /\ x.hand = run[r].hand
      /\ x.errors = run[r].errors /\ x.scraperErrors = run[r].scraperErrors
  BY RunFacts DEF Run, Pc
<1>3. x.status # "completed"
  BY <1>1, <1>2, RunFacts DEF Placed
<1> HIDE DEF x
<1>4. Moves(r) /\ run'[r] = x /\ batch'[r] = Idle
  BY <1>1, <1>2, IdleBatch, RunFacts DEF Moves
<1>5. Placed(r)' /\ ItemsInTransaction(r)'
  BY <1>2, <1>3, <1>4, IdleBatch, RunFacts DEF Placed, ItemsInTransaction, Busy
<1>6. QED
  BY <1>1, <1>2, <1>3, <1>4, <1>5, IdleBatch, EndsOtherwise

-----------------------------------------------------------------------------
(* The specification *)

LEMMA InitHolds == Init => PagingInv
<1> SUFFICES ASSUME Init PROVE PagingInv
  OBVIOUS
<1>1. NotStarted \in Run
  BY DEF NotStarted, Run, Pc, Status
<1>2. TypeOK
  <2>1. run \in [Runs -> Run] /\ batch \in [Runs -> Batch] /\ used \in [EnvEvents -> Nat]
    BY <1>1, IdleBatch DEF Init, StoreInit
  <2>2. \A r \in Runs : batch[r].items = <<>> /\ run[r].pc = "idle"
    BY IdleBatch DEF Init, StoreInit, NotStarted
  <2>3. QED
    BY <2>1, <2>2, FeedAssumption, StoredAssumption DEF Init, StoreInit, TypeOK, StoreTypeOK, Busy
<1>3. ASSUME NEW r \in Runs PROVE RunInv(r)
  <2>1. run[r] = NotStarted /\ batch[r] = Idle
    BY <1>3 DEF Init, StoreInit
  <2>2. Placed(r) /\ ErrorsReported(r) /\ SeenIsStored(r) /\ NothingMissed(r)
    BY <2>1 DEF NotStarted, Placed, ErrorsReported, SeenIsStored, NothingMissed, Underway
  <2>3. ItemsInTransaction(r)
    BY <2>1, IdleBatch DEF ItemsInTransaction, Busy
  <2>4. QED
    BY <2>2, <2>3 DEF RunInv
<1>4. QED
  BY <1>2, <1>3 DEF PagingInv

LEMMA StepKeeps == PagingInv /\ [Next]_vars => PagingInv'
<1> SUFFICES ASSUME PagingInv, [Next]_vars PROVE PagingInv'
  OBVIOUS
<1>1. CASE Portal
  BY <1>1, PublishKeeps, DelistKeeps, RerankKeeps DEF Portal
<1>2. ASSUME NEW r \in Runs, RunStep(r) \/ Crash(r) PROVE PagingInv'
  BY <1>2, SkipKeeps, StartJobKeeps, StartJobFailsKeeps, StartSearchKeeps, FetchKeeps, FetchRefusedKeeps,
     LastPageDoneKeeps, PersistItemKeeps, PersistItemFailsKeeps, PersistDoneKeeps,
     PersistFailsKeeps, PageDoneKeeps, UpdateFailsKeeps, CompleteKeeps, ScraperRaisesKeeps, CompleteFailsKeeps, CrashKeeps
     DEF RunStep
<1>3. CASE UNCHANGED vars
  BY <1>3 DEF vars, PagingInv, TypeOK, StoreTypeOK, Busy, RunInv, Placed, ErrorsReported,
     ItemsInTransaction, Flushed, SeenIsStored, NothingMissed, Undisturbed, PagesSuffice, NewOnTop,
     Awaits, InHand, ToCome
<1>4. QED
  BY <1>1, <1>2, <1>3 DEF Next

LEMMA PagingInvariant == Spec => []PagingInv
  BY InitHolds, StepKeeps, PTL DEF Spec

\* run_scraper, _scrape_search and upsert_raw_listings keep their types, and a page is open
\* in the store exactly while its run is persisting it.
THEOREM TypeCorrect == Spec => []TypeOK
<1>1. PagingInv => TypeOK
  BY DEF PagingInv
<1>2. QED
  BY <1>1, PagingInvariant, PTL

\* run_scraper: a full run whose job is closed as completed with no error has every listing
\* it scraped in raw_listings, whatever the database rejected and whoever wrote the same
\* listings meanwhile.
THEOREM CleanFullRunIsStoredCorrect == Spec => []CleanFullRunIsStored
<1>1. PagingInv => CleanFullRunIsStored
  <2> SUFFICES ASSUME PagingInv, NEW r \in Runs, Mode[r] = "full", Clean(r)
               PROVE  run[r].seen \subseteq stored
    BY DEF CleanFullRunIsStored
  <2>1. run[r].errors + run[r].scraperErrors = 0
    BY RunFacts DEF Clean, ErrorsReported
  <2>2. run[r].errors = 0 /\ run[r].scraperErrors = 0
    BY <2>1, RunFacts, RunFields
  <2>3. QED
    BY <2>2, RunFacts DEF SeenIsStored
<1>2. QED
  BY <1>1, PagingInvariant, PTL

\* At the end nothing is to come: what was listed and not known has been seen.
LEMMA CompletedMissedNothing ==
  ASSUME PagingInv, NEW r \in Runs, Clean(r), PagesSuffice(r), used["delist"] = 0, used["refuse"] = 0,
         Mode[r] = "full" => used["rerank"] = 0, Mode[r] = "incremental" => NewOnTop(r)
  PROVE  run[r].listed \ run[r].known \subseteq run[r].seen
<1>1. run[r].errors + run[r].scraperErrors = 0
  BY RunFacts DEF Clean, ErrorsReported
<1>2. run[r].scraperErrors = 0
  BY <1>1, RunFacts, RunFields
<1>3. Undisturbed(r)
  BY <1>2 DEF Undisturbed
<1>4. \A l : ~Awaits(r, l)
  BY RunFacts, RunFields, SearchesAssumption DEF Clean, Placed, Awaits, InHand, ToCome
<1>5. QED
  BY <1>3, <1>4, RunFacts DEF NothingMissed, Clean

\* _scrape_search: while nothing is taken off the portal, its default order stays and no page
\* is refused, a clean full run has seen all that was online when it began, however much is
\* published meanwhile and wherever it appears.
THEOREM FullRunSeesAllCorrect == Spec => []FullRunSeesAll
<1>1. PagingInv => FullRunSeesAll
  <2> SUFFICES ASSUME PagingInv, NEW r \in Runs, Mode[r] = "full", Clean(r),
                      PagesSuffice(r), used["delist"] = 0, used["rerank"] = 0, used["refuse"] = 0
               PROVE  run[r].listed \subseteq run[r].seen
    BY DEF FullRunSeesAll
  <2>1. run[r].known = {}
    BY RunFacts DEF Placed
  <2>2. QED
    BY <2>1, CompletedMissedNothing
<1>2. QED
  BY <1>1, PagingInvariant, PTL

\* KnownListingsCache.should_stop: an incremental run that stops on known listings has seen
\* every new one that was online when it began, if the portal lists the new ones first.
THEOREM IncrementalRunSeesNewCorrect == Spec => []IncrementalRunSeesNew
<1>1. PagingInv => IncrementalRunSeesNew
  BY CompletedMissedNothing DEF IncrementalRunSeesNew
<1>2. QED
  BY <1>1, PagingInvariant, PTL
=============================================================================
