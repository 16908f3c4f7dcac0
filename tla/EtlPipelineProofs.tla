-------------------------- MODULE EtlPipelineProofs --------------------------
(***************************************************************************)
(* Proofs about EtlPipeline: the clean table has one row of each listing   *)
(* unless runs overlap, no listing with a price is lost, clusters are      *)
(* whole wherever they are read, a synchronisation without errors has      *)
(* archived what it read, and prices and scores keep to their scales.      *)
(* Only the clusters rest on what the deduplication computes and only the  *)
(* types on the normalisers; the bounds on the environment play no part.   *)
(***************************************************************************)
EXTENDS EtlPipeline, FiniteSetTheorems, SequenceTheorems, WellFoundedInduction, TLAPS

RawOK == raw \in Seq(RawRow) /\ Len(raw) =< NumListings

\* A run has its columns; what its rows are is of no concern here.
PipeOK ==
  /\ DOMAIN pipe = Pipelines
  /\ \A p \in Pipelines : DOMAIN pipe[p] = {"pc", "deleted", "saw", "rows", "alone"}
  /\ \A p \in Pipelines : pipe[p].alone \in BOOLEAN

-----------------------------------------------------------------------------
(* The clean table *)

HasClean(l) == \E c \in clean : c.listing = l
Unpriced(p, l) == ~Normalized[pipe[p].saw[l].value].priced
Excused(l) == \E q \in Rebuilds : l \in DOMAIN pipe[q].saw /\ Unpriced(q, l)
Prepared(p, l) == pipe[p].pc = "commit" /\ \E c \in pipe[p].rows : c.listing = l

\* What a run holds is of the listings it saw, one row of each.
Fits(p) ==
  /\ pipe[p].pc \in {"idle", "fetch"} => pipe[p].saw = <<>> /\ pipe[p].rows = {}
  /\ DOMAIN pipe[p].saw \subseteq DOMAIN raw
  /\ pipe[p].deleted # {} => p \in Rebuilds
  /\ \A c \in pipe[p].deleted :
       c.listing \in DOMAIN raw /\ (pipe[p].pc = "commit" => c.listing \in DOMAIN pipe[p].saw)
  /\ \A c \in pipe[p].rows : c.by = p /\ c.listing \in DOMAIN pipe[p].saw
  /\ \A c, d \in pipe[p].rows : c.listing = d.listing => c = d

\* Runs under way together know it.
Apart(p) == \A q \in Pipelines \ {p} : PipeBusy(p) /\ PipeBusy(q) => ~pipe[p].alone

\* The clean rows that stay are in the way of run p only if they are of a run that was
\* under way with it.
Unshared(p) ==
  \A c \in clean \ pipe[p].deleted :
     \/ pipe[p].pc = "fetch" /\ p \in Rebuilds
     \/ pipe[p].pc = "commit" /\ \E d \in pipe[p].rows : d.listing = c.listing
     => ~pipe[p].alone /\ ~pipe[c.by].alone

\* Every listing with a price that p saw has its row, or is about to have it; a rebuild,
\* which removes rows, brings its own.
Covered(p) ==
  /\ pipe[p].pc \in {"commit", "done"} =>
       \A l \in DOMAIN pipe[p].saw : Unpriced(p, l) \/ HasClean(l) \/ Excused(l) \/ Prepared(p, l)
  /\ pipe[p].pc = "commit" /\ p \in Rebuilds =>
       \A l \in DOMAIN pipe[p].saw : Unpriced(p, l) \/ Prepared(p, l)

CleanMade ==
  \A c \in clean : c.listing \in DOMAIN raw /\ c.by \in Pipelines /\ pipe[c.by].pc = "done"

\* The inductive invariant of the pipeline.
CleanInv ==
  /\ RawOK /\ PipeOK /\ CleanMade /\ CleanOnce
  /\ \A p \in Pipelines : Fits(p) /\ Apart(p) /\ Unshared(p) /\ Covered(p)

-----------------------------------------------------------------------------
(* The archive *)

\* The archive is never ahead of the table.
Behind == \A l \in DOMAIN archive : l \in DOMAIN raw /\ archive[l].update =< raw[l].update

\* What a synchronisation read: each listing once, as it was then.
ReadOnce(s) ==
  /\ sync[s].next >= 1
  /\ sync[s].pc = "idle" => sync[s].alone /\ sync[s].next = 1
  /\ sync[s].pc = "post" => sync[s].next =< Len(sync[s].rows)
  /\ \A i \in DOMAIN sync[s].rows :
       LET x == sync[s].rows[i]
       IN x.listing \in DOMAIN raw /\ x.row.update =< raw[x.listing].update
  /\ \A i, j \in DOMAIN sync[s].rows : sync[s].rows[i].listing = sync[s].rows[j].listing => i = j

SyncApart(s) == \A t \in Syncs \ {s} : SyncBusy(s) /\ SyncBusy(t) => ~sync[s].alone

\* Row x is archived, as it is or as it was later; the archive has nothing later than x.
Archived(x) == x.listing \in DOMAIN archive /\ archive[x.listing].update >= x.row.update
NothingLater(x) == x.listing \in DOMAIN archive => archive[x.listing].update =< x.row.update

\* What has been posted is archived, and what is posted replaces nothing later.
Posted(s) ==
  /\ sync[s].errors = 0 =>
       \A i \in DOMAIN sync[s].rows :
          sync[s].pc = "done" \/ (sync[s].pc = "post" /\ i < sync[s].next) => Archived(sync[s].rows[i])
  /\ sync[s].pc = "post" => \A i \in DOMAIN sync[s].rows : NothingLater(sync[s].rows[i])

AllAlone == \A s \in Syncs : sync[s].alone

\* The inductive invariant of the archive.
ArchiveInv ==
  /\ RawOK /\ sync \in [Syncs -> Sync] /\ archive \in [DOMAIN archive -> RawRow] /\ Behind
  /\ \A s \in Syncs : ReadOnce(s) /\ SyncApart(s)
  /\ AllAlone => \A s \in Syncs : Posted(s)

-----------------------------------------------------------------------------
(* Lemmas: sequences, raw rows *)

\* A query returns what it selects, each row once.
LEMMA InSomeOrder ==
  ASSUME NEW S, IsFiniteSet(S), NEW q \in SetToSeqs(S)
  PROVE  ToSet(q) = S /\ (q = <<>> <=> S = {}) /\ q \in Seq(S)
         /\ \A i, j \in DOMAIN q : q[i] = q[j] => i = j
<1> DEFINE D == 1 .. Cardinality(S)
<1>1. Cardinality(S) \in Nat
  BY FS_CardinalityType
<1>2. q \in [D -> S] /\ \A i, j \in D : i # j => q[i] # q[j]
  BY DEF SetToSeqs
<1>3. q \in Injection(D, S)
  BY <1>2 DEF Injection, IsInjective
<1>4. IsFiniteSet(D) /\ Cardinality(D) = Cardinality(S)
  BY <1>1, FS_Interval
<1>5. q \in Surjection(D, S)
  BY <1>3, <1>4, FS_Injection
<1>6. ToSet(q) = S
  BY <1>5, <1>2 DEF Surjection, ToSet
<1>7. q = <<>> <=> S = {}
  <2>1. Cardinality(S) = 0 <=> S = {}
    BY FS_EmptySet
  <2>2. q = <<>> <=> Cardinality(S) = 0
    BY <1>1, <1>2
  <2>3. QED
    BY <2>1, <2>2
<1>8. QED
  BY <1>1, <1>2, <1>6, <1>7

LEMMA RawFacts ==
  ASSUME RawOK
  PROVE  /\ Len(raw) \in Nat /\ DOMAIN raw = 1 .. Len(raw) /\ DOMAIN raw \subseteq Listings
         /\ IsFiniteSet(DOMAIN raw)
         /\ \A l \in DOMAIN raw : raw[l] \in RawRow /\ raw[l].update \in Nat
<1>1. Len(raw) \in Nat /\ DOMAIN raw = 1 .. Len(raw)
  BY DEF RawOK
<1>2. DOMAIN raw \subseteq Listings
  BY <1>1, NumListingsAssumption DEF RawOK, Listings
<1>3. IsFiniteSet(DOMAIN raw)
  BY <1>1, FS_Interval
<1>4. \A l \in DOMAIN raw : raw[l] \in RawRow
  BY DEF RawOK
<1>5. QED
  BY <1>1, <1>2, <1>3, <1>4 DEF RawRow

\* A raw row is never removed, and its updates are counted.
RawGrows ==
  /\ RawOK' /\ DOMAIN raw \subseteq DOMAIN raw'
  /\ \A l \in DOMAIN raw : raw'[l].update \in Nat /\ raw'[l].update >= raw[l].update

LEMMA StoreGrows == ASSUME RawOK, StoreListing PROVE RawGrows
<1>1. PICK v \in Says[Len(raw) + 1] : raw' = Append(raw, [value |-> v, update |-> 0])
  BY DEF StoreListing
<1>2. Len(raw) + 1 \in Listings
  BY RawFacts, NumListingsAssumption DEF StoreListing, Listings
<1>3. v \in Values
  BY <1>2, SaysAssumption
<1>4. [value |-> v, update |-> 0] \in RawRow
  BY <1>3 DEF RawRow
<1>5. /\ raw' \in Seq(RawRow) /\ Len(raw') = Len(raw) + 1
      /\ \A l \in 1 .. Len(raw) : raw'[l] = raw[l]
  BY <1>1, <1>4, AppendProperties DEF RawOK
<1>6. DOMAIN raw' = 1 .. Len(raw')
  BY <1>5
<1>7. Len(raw') =< NumListings
  BY <1>5, RawFacts, NumListingsAssumption DEF StoreListing
<1>8. \A l \in DOMAIN raw :
        l \in DOMAIN raw' /\ raw'[l].update \in Nat /\ raw'[l].update >= raw[l].update
  BY <1>5, <1>6, RawFacts
<1>9. QED
  BY <1>5, <1>7, <1>8 DEF RawGrows, RawOK

LEMMA UpdateGrows == ASSUME RawOK, NEW l \in DOMAIN raw, UpdateListing(l) PROVE RawGrows
<1>1. PICK v \in Says[l] : raw' = [raw EXCEPT ![l] = [value |-> v, update |-> raw[l].update + 1]]
  BY DEF UpdateListing
<1> DEFINE x == [value |-> v, update |-> raw[l].update + 1]
<1>2. v \in Values
  BY RawFacts, SaysAssumption
<1>3. x \in RawRow /\ x.update \in Nat /\ x.update >= raw[l].update
  <2>1. raw[l].update \in Nat
    BY RawFacts
  <2>2. QED
    BY <1>2, <2>1 DEF RawRow
<1> HIDE DEF x
<1>4. raw' = [raw EXCEPT ![l] = x]
  BY <1>1 DEF x
<1>5. raw' \in Seq(RawRow) /\ Len(raw') = Len(raw) /\ DOMAIN raw' = DOMAIN raw
  BY <1>3, <1>4, ExceptSeq DEF RawOK
<1>6. \A k \in DOMAIN raw : raw'[k].update \in Nat /\ raw'[k].update >= raw[k].update
  BY <1>3, <1>4, RawFacts
<1>7. QED
  BY <1>5, <1>6 DEF RawGrows, RawOK

-----------------------------------------------------------------------------
(* Lemmas: the pipeline *)

\* What a run prepares is finite, one row of each listing it selected that has a price.
LEMMA PreparedOnce ==
  ASSUME RawOK, NEW p \in Pipelines, NEW q \in SetToSeqs(Priced(p))
  PROVE  /\ ToSet(q) = Priced(p) /\ q \in Seq(Priced(p)) /\ \A i, j \in DOMAIN q : q[i] = q[j] => i = j
         /\ \A x \in Priced(p) : x[1] \in Selected(p) /\ x = <<x[1], raw[x[1]].value>>
         /\ IsFiniteSet(Priced(p))
<1> DEFINE K == {k \in Selected(p) : Normalized[raw[k].value].priced}
           S == {<<l, raw[l].value>> : l \in K}
<1>1. K \subseteq DOMAIN raw
  BY DEF Selected
<1>2. IsFiniteSet(K)
  BY <1>1, RawFacts, FS_Subset
<1>3. IsFiniteSet(S)
  <2> HIDE DEF K
  <2> DEFINE f == [l \in K |-> <<l, raw[l].value>>]
  <2>1. f \in Surjection(K, S)
    BY DEF Surjection
  <2>2. QED
    BY <1>2, <2>1, FS_Surjection
<1>4. Priced(p) = S
  BY DEF Priced
<1>5. \A x \in S : x[1] \in Selected(p) /\ x = <<x[1], raw[x[1]].value>>
  OBVIOUS
<1> HIDE DEF S
<1>6. QED
  BY <1>3, <1>4, <1>5, InSomeOrder

\* The rows a run makes are of the listings it selected, one of each that has a price.
LEMMA RowsMade ==
  ASSUME RawOK, NEW p \in Pipelines, NEW q \in SetToSeqs(Priced(p))
  PROVE  /\ \A c \in CleanRows(p, q) : c.by = p /\ c.listing \in Selected(p)
         /\ \A c, d \in CleanRows(p, q) : c.listing = d.listing => c = d
         /\ \A l \in Selected(p) :
              Normalized[raw[l].value].priced => \E c \in CleanRows(p, q) : c.listing = l
<1> DEFINE S == Priced(p)
           Row(x) == [listing |-> x[1], of |-> raw[x[1]], by |-> p,
                      cluster |-> {y[1] : y \in UNION {c \in Clusters[q] : x \in c}},
                      sources |-> Cardinality({PortalOf[y[1]] :
                                     y \in (UNION {c \in Clusters[q] : x \in c}) \cup {x}})]
<1>1. CleanRows(p, q) = {Row(x) : x \in S}
  BY PreparedOnce DEF CleanRows
<1>2. \A x : Row(x).listing = x[1] /\ Row(x).by = p
  OBVIOUS
<1> HIDE DEF Row
<1>3. \A x \in S : x[1] \in Selected(p) /\ x = <<x[1], raw[x[1]].value>>
  BY PreparedOnce
<1>4. ASSUME NEW l \in Selected(p), Normalized[raw[l].value].priced
      PROVE  \E c \in CleanRows(p, q) : c.listing = l
  <2>1. <<l, raw[l].value>> \in S
    BY <1>4 DEF Priced
  <2>2. Row(<<l, raw[l].value>>) \in CleanRows(p, q)
    BY <1>1, <2>1
  <2>3. QED
    BY <2>2, <1>2
<1> HIDE DEF S
<1>5. \A c, d \in CleanRows(p, q) : c.listing = d.listing => c = d
  BY <1>1, <1>2, <1>3
<1>6. \A c \in CleanRows(p, q) : c.by = p /\ c.listing \in Selected(p)
  BY <1>1, <1>2, <1>3
<1>7. QED
  BY <1>4, <1>5, <1>6

LEMMA PipeFacts ==
  ASSUME CleanInv, NEW p \in Pipelines
  PROVE  /\ PipeOK /\ pipe[p].alone \in BOOLEAN
         /\ Fits(p) /\ Apart(p) /\ Unshared(p) /\ Covered(p)
  BY DEF CleanInv, PipeOK

LEMMA FetchKeeps == ASSUME CleanInv, NEW p \in Pipelines, Fetch(p) PROVE CleanInv'
<1>1. PICK q \in SetToSeqs(Priced(p)) :
        pipe' = [pipe EXCEPT ![p].pc = IF Selected(p) = {} THEN "done" ELSE "commit",
                             ![p].saw = raw, ![p].rows = CleanRows(p, q)]
  BY DEF Fetch
<1> DEFINE made == CleanRows(p, q)
           pc == IF Selected(p) = {} THEN "done" ELSE "commit"
<1>2. pipe[p].pc = "fetch" /\ UNCHANGED <<raw, clean>>
  BY DEF Fetch
<1>3. /\ \A c \in made : c.by = p /\ c.listing \in Selected(p)
      /\ \A c, d \in made : c.listing = d.listing => c = d
      /\ \A l \in Selected(p) : Normalized[raw[l].value].priced => \E c \in made : c.listing = l
  BY RowsMade DEF CleanInv
<1>4. pipe' = [pipe EXCEPT ![p].pc = pc, ![p].saw = raw, ![p].rows = made]
  BY <1>1
<1> HIDE DEF made, pc
<1>5. /\ pipe'[p].pc = pc /\ pipe'[p].saw = raw /\ pipe'[p].rows = made
      /\ pipe'[p].deleted = pipe[p].deleted /\ pipe'[p].alone = pipe[p].alone
      /\ \A r \in Pipelines \ {p} : pipe'[r] = pipe[r]
      /\ PipeOK'
  BY <1>4 DEF CleanInv, PipeOK
<1>6. \A r \in Pipelines : pipe'[r].alone = pipe[r].alone
  BY <1>5
<1>7. pipe[p].saw = <<>> /\ pc \in {"commit", "done"}
  BY <1>2, PipeFacts DEF Fits, pc
<1>8. CleanMade' /\ CleanOnce'
  BY <1>2, <1>5, <1>6 DEF CleanInv, CleanMade, CleanOnce
<1>9. Selected(p) \subseteq DOMAIN raw
  BY DEF Selected
<1>10. \A r \in Pipelines : Fits(r)'
  <2>1. Fits(p)'
    BY <1>2, <1>3, <1>5, <1>7, <1>9, PipeFacts DEF Fits
  <2>2. \A r \in Pipelines \ {p} : Fits(r)'
    BY <1>2, <1>5 DEF CleanInv, Fits
  <2>3. QED
    BY <2>1, <2>2
<1>11. \A r \in Pipelines : PipeBusy(r)' => PipeBusy(r)
  BY <1>2, <1>5 DEF PipeBusy
<1>12. \A r \in Pipelines : Apart(r)'
  BY <1>6, <1>11 DEF CleanInv, Apart
<1>13. \A r \in Pipelines : Unshared(r)'
  <2>1. Unshared(p)'
    <3>1. \A c \in clean : c.by \in Pipelines
      BY DEF CleanInv, CleanMade
    <3>2. CASE p \in Rebuilds
      BY <3>1, <3>2, <1>2, <1>5, <1>6, PipeFacts DEF Unshared
    <3>3. CASE p \notin Rebuilds
      <4>1. \A c \in clean : c.listing \notin Selected(p)
        BY <3>3 DEF Selected
      <4>2. QED
        BY <4>1, <1>2, <1>3, <1>5, <1>7 DEF Unshared
    <3>4. QED
      BY <3>2, <3>3
  <2>2. \A r \in Pipelines \ {p} : Unshared(r)'
    BY <1>2, <1>5, <1>6 DEF CleanInv, CleanMade, Unshared
  <2>3. QED
    BY <2>1, <2>2
<1>14. \A l : Excused(l) => Excused(l)'
  BY <1>2, <1>5, <1>7, RebuildsAssumption DEF Excused, Unpriced
<1>15. \A r \in Pipelines : Covered(r)'
  <2>1. \A l \in Selected(p) : Unpriced(p, l)' \/ (pc = "commit" /\ \E c \in made : c.listing = l)
    BY <1>3, <1>5 DEF Unpriced, pc
  <2>2. \A l \in DOMAIN raw \ Selected(p) : p \notin Rebuilds /\ HasClean(l)
    BY DEF Selected, HasClean
  <2>3. Covered(p)'
    BY <2>1, <2>2, <1>2, <1>5 DEF Covered, Prepared, HasClean
  <2>4. \A r \in Pipelines \ {p} : Covered(r)'
    BY <1>2, <1>5, <1>14 DEF CleanInv, Covered, Unpriced, Prepared, HasClean
  <2>5. QED
    BY <2>3, <2>4
<1>16. QED
  BY <1>2, <1>5, <1>8, <1>10, <1>12, <1>13, <1>15 DEF CleanInv, RawOK

LEMMA CommitKeeps == ASSUME CleanInv, NEW p \in Pipelines, Commit(p) PROVE CleanInv'
<1>1. /\ pipe[p].pc = "commit" /\ clean' = (clean \ pipe[p].deleted) \cup pipe[p].rows
      /\ pipe' = [pipe EXCEPT ![p].pc = "done"] /\ UNCHANGED raw
  BY DEF Commit
<1>2. /\ pipe'[p].pc = "done" /\ PipeOK'
      /\ \A r \in Pipelines : /\ pipe'[r].saw = pipe[r].saw /\ pipe'[r].rows = pipe[r].rows
                             /\ pipe'[r].deleted = pipe[r].deleted /\ pipe'[r].alone = pipe[r].alone
      /\ \A r \in Pipelines \ {p} : pipe'[r].pc = pipe[r].pc
  BY <1>1 DEF CleanInv, PipeOK
<1>3. /\ \A c \in pipe[p].rows : c.by = p /\ c.listing \in DOMAIN pipe[p].saw
      /\ \A c, d \in pipe[p].rows : c.listing = d.listing => c = d
      /\ DOMAIN pipe[p].saw \subseteq DOMAIN raw
      /\ \A c \in pipe[p].deleted : c.listing \in DOMAIN pipe[p].saw
      /\ pipe[p].deleted # {} => p \in Rebuilds
  BY <1>1, PipeFacts DEF Fits
<1>4. CleanMade'
  BY <1>1, <1>2, <1>3 DEF CleanInv, CleanMade
<1>5. \A c \in clean \ pipe[p].deleted, d \in pipe[p].rows :
        c.listing = d.listing => ~pipe[p].alone /\ ~pipe[c.by].alone
  BY <1>1, PipeFacts DEF Unshared
<1>6. CleanOnce'
  <2> SUFFICES ASSUME NEW c \in clean', NEW d \in clean', c # d, c.listing = d.listing
               PROVE  ~pipe[c.by].alone /\ ~pipe[d.by].alone
    BY <1>2, <1>4 DEF CleanOnce, CleanMade
  <2>1. CASE c \in clean \ pipe[p].deleted /\ d \in clean \ pipe[p].deleted
    BY <2>1 DEF CleanInv, CleanOnce
  <2>2. CASE c \in pipe[p].rows /\ d \in clean \ pipe[p].deleted
    BY <2>2, <1>3, <1>5
  <2>3. CASE c \in clean \ pipe[p].deleted /\ d \in pipe[p].rows
    BY <2>3, <1>3, <1>5
  <2>4. CASE c \in pipe[p].rows /\ d \in pipe[p].rows
    BY <2>4, <1>3
  <2>5. QED
    BY <1>1, <2>1, <2>2, <2>3, <2>4
<1>7. \A r \in Pipelines : Fits(r)'
  <2> SUFFICES ASSUME NEW r \in Pipelines PROVE Fits(r)'
    OBVIOUS
  <2>1. pipe'[r].pc = pipe[r].pc \/ pipe'[r].pc = "done"
    BY <1>2
  <2>2. QED
    BY <2>1, <1>1, <1>2, PipeFacts DEF Fits
<1>8. \A r \in Pipelines : PipeBusy(r)' => PipeBusy(r)
  BY <1>2 DEF PipeBusy
<1>9. \A r \in Pipelines : Apart(r)'
  BY <1>2, <1>8 DEF CleanInv, Apart
<1>10. \A r \in Pipelines : Unshared(r)'
  <2>1. Unshared(p)'
    BY <1>2 DEF Unshared
  <2> SUFFICES ASSUME NEW r \in Pipelines \ {p}, NEW c \in clean' \ pipe[r].deleted,
                      \/ pipe[r].pc = "fetch" /\ r \in Rebuilds
                      \/ pipe[r].pc = "commit" /\ \E d \in pipe[r].rows : d.listing = c.listing
               PROVE  ~pipe[r].alone /\ ~pipe[c.by].alone
    BY <2>1, <1>2, <1>4 DEF Unshared, CleanMade
  <2>2. CASE c \in clean
    BY <2>2, PipeFacts DEF Unshared
  <2>3. CASE c \in pipe[p].rows
    <3>1. PipeBusy(r) /\ PipeBusy(p)
      BY <1>1 DEF PipeBusy
    <3>2. ~pipe[r].alone /\ ~pipe[p].alone
      BY <3>1, PipeFacts DEF Apart
    <3>3. QED
      BY <2>3, <3>2, <1>3
  <2>4. QED
    BY <1>1, <2>2, <2>3
<1>11. \A r \in Pipelines : \A l : Unpriced(r, l)' = Unpriced(r, l)
  BY <1>2 DEF Unpriced
<1>12. \A l : Excused(l) => Excused(l)'
  BY <1>2, <1>11, RebuildsAssumption DEF Excused
<1>13. \A l : Prepared(p, l) => HasClean(l)'
  BY <1>1 DEF Prepared, HasClean
<1>14. \A l : HasClean(l) => HasClean(l)' \/ Excused(l)'
  <2> SUFFICES ASSUME NEW l, HasClean(l), ~HasClean(l)' PROVE Excused(l)
    BY <1>12
  <2>1. PICK c \in clean : c.listing = l
    BY DEF HasClean
  <2>2. c \in pipe[p].deleted
    BY <2>1, <1>1 DEF HasClean
  <2>3. p \in Rebuilds /\ l \in DOMAIN pipe[p].saw
    BY <2>1, <2>2, <1>3
  <2>4. Unpriced(p, l)
    BY <2>3, <1>1, <1>13, PipeFacts DEF Covered
  <2>5. QED
    BY <2>3, <2>4 DEF Excused
<1>15. \A r \in Pipelines : Covered(r)'
  <2>1. Covered(p)'
    BY <1>1, <1>2, <1>11, <1>12, <1>13, <1>14, PipeFacts DEF Covered
  <2>2. ASSUME NEW r \in Pipelines \ {p} PROVE Covered(r)'
    <3>1. \A l : Prepared(r, l)' = Prepared(r, l)
      BY <1>2 DEF Prepared
    <3>2. QED
      BY <3>1, <1>2, <1>11, <1>12, <1>14, PipeFacts DEF Covered
  <2>3. QED
    BY <2>1, <2>2
<1>16. QED
  BY <1>1, <1>2, <1>4, <1>6, <1>7, <1>9, <1>10, <1>15 DEF CleanInv, RawOK

LEMMA BeginPipelineKeeps == ASSUME CleanInv, NEW p \in Pipelines, BeginPipeline(p) PROVE CleanInv'
<1> DEFINE deleted == IF p \in Rebuilds THEN clean ELSE {}
           others == {q \in Pipelines \ {p} : PipeBusy(q)}
<1>1. /\ pipe[p].pc = "idle" /\ pipe' = Begin(p, "fetch", deleted) /\ UNCHANGED <<raw, clean>>
  BY DEF BeginPipeline
<1>2. pipe' = [q \in Pipelines |->
        IF q = p THEN [pipe[p] EXCEPT !.pc = "fetch", !.deleted = deleted, !.alone = others = {}]
        ELSE [pipe[q] EXCEPT !.alone = pipe[q].alone /\ q \notin others]]
  BY <1>1 DEF Begin
<1>3. /\ pipe'[p].pc = "fetch" /\ pipe'[p].deleted = deleted /\ pipe'[p].alone = (others = {})
      /\ pipe'[p].saw = pipe[p].saw /\ pipe'[p].rows = pipe[p].rows
      /\ DOMAIN pipe'[p] = {"pc", "deleted", "saw", "rows", "alone"}
  BY <1>2 DEF CleanInv, PipeOK
<1>4. \A q \in Pipelines \ {p} :
        /\ pipe'[q].pc = pipe[q].pc /\ pipe'[q].deleted = pipe[q].deleted
        /\ pipe'[q].saw = pipe[q].saw /\ pipe'[q].rows = pipe[q].rows
        /\ pipe'[q].alone = (pipe[q].alone /\ q \notin others)
        /\ DOMAIN pipe'[q] = {"pc", "deleted", "saw", "rows", "alone"}
  BY <1>2 DEF CleanInv, PipeOK
<1>5. PipeOK'
  <2>1. DOMAIN pipe' = Pipelines
    BY <1>2
  <2> HIDE DEF others
  <2>2. QED
    BY <2>1, <1>3, <1>4 DEF PipeOK
<1>6. \A q \in Pipelines \ {p} : ~pipe[q].alone => ~pipe'[q].alone
  BY <1>4
<1>7. \A c \in clean : c.by \in Pipelines \ {p} /\ c.listing \in DOMAIN raw
  BY <1>1 DEF CleanInv, CleanMade
<1>8. CleanMade' /\ CleanOnce'
  BY <1>1, <1>4, <1>6, <1>7 DEF CleanInv, CleanMade, CleanOnce
<1>9. pipe[p].saw = <<>> /\ pipe[p].rows = {}
  BY <1>1, PipeFacts DEF Fits
<1>10. \A r \in Pipelines : Fits(r)'
  <2>1. Fits(p)'
    BY <1>1, <1>3, <1>7, <1>9 DEF Fits
  <2>2. \A r \in Pipelines \ {p} : Fits(r)'
    BY <1>1, <1>4 DEF CleanInv, Fits
  <2>3. QED
    BY <2>1, <2>2
<1>11. \A r \in Pipelines : Apart(r)'
  <2>1. \A q \in Pipelines \ {p} : PipeBusy(q)' => q \in others
    BY <1>4 DEF PipeBusy
  <2>2. \A q \in Pipelines \ {p} : PipeBusy(q)' => ~pipe'[p].alone /\ ~pipe'[q].alone
    BY <2>1, <1>3, <1>4
  <2>3. \A q \in Pipelines \ {p} : PipeBusy(q)' => PipeBusy(q)
    BY <1>4 DEF PipeBusy
  <2>4. QED
    BY <2>2, <2>3, <1>6 DEF CleanInv, Apart
<1>12. \A r \in Pipelines : Unshared(r)'
  <2>1. Unshared(p)'
    BY <1>1, <1>3 DEF Unshared
  <2>2. \A r \in Pipelines \ {p} : Unshared(r)'
    BY <1>1, <1>4, <1>6, <1>7 DEF CleanInv, Unshared
  <2>3. QED
    BY <2>1, <2>2
<1>13. \A r \in Pipelines : \A l : Unpriced(r, l)' = Unpriced(r, l)
  BY <1>3, <1>4 DEF Unpriced
<1>14. \A l : Excused(l)' = Excused(l)
  BY <1>3, <1>4, <1>13, RebuildsAssumption DEF Excused
<1>15. \A r \in Pipelines : Covered(r)'
  <2>1. Covered(p)'
    BY <1>3 DEF Covered
  <2>2. \A r \in Pipelines \ {p} : Covered(r)'
    BY <1>1, <1>4, <1>13, <1>14 DEF CleanInv, Covered, Prepared, HasClean
  <2>3. QED
    BY <2>1, <2>2
<1>16. QED
  BY <1>1, <1>5, <1>8, <1>10, <1>11, <1>12, <1>15 DEF CleanInv, RawOK

LEMMA PipelineFailsKeeps == ASSUME CleanInv, NEW p \in Pipelines, PipelineFails(p) PROVE CleanInv'
<1>1. PipeBusy(p) /\ pipe' = [pipe EXCEPT ![p].pc = "failed"] /\ UNCHANGED <<raw, clean>>
  BY DEF PipelineFails
<1>2. /\ pipe'[p].pc = "failed" /\ PipeOK'
      /\ \A r \in Pipelines : /\ pipe'[r].saw = pipe[r].saw /\ pipe'[r].rows = pipe[r].rows
                             /\ pipe'[r].deleted = pipe[r].deleted /\ pipe'[r].alone = pipe[r].alone
      /\ \A r \in Pipelines \ {p} : pipe'[r].pc = pipe[r].pc
  BY <1>1 DEF CleanInv, PipeOK
<1>3. CleanMade' /\ CleanOnce'
  BY <1>1, <1>2 DEF CleanInv, CleanMade, CleanOnce, PipeBusy
<1>4. \A r \in Pipelines : pipe'[r].pc = pipe[r].pc \/ pipe'[r].pc = "failed"
  BY <1>2
<1>5. \A r \in Pipelines : Fits(r)' /\ Apart(r)'
  BY <1>1, <1>2, <1>4 DEF CleanInv, Fits, Apart, PipeBusy
<1>6. \A r \in Pipelines : Unshared(r)'
  BY <1>1, <1>2, <1>4 DEF CleanInv, CleanMade, Unshared
<1>7. \A r \in Pipelines : \A l : Unpriced(r, l)' = Unpriced(r, l)
  BY <1>2 DEF Unpriced
<1>8. \A l : Excused(l)' = Excused(l)
  BY <1>2, <1>7, RebuildsAssumption DEF Excused
<1>9. \A r \in Pipelines : Covered(r)'
  BY <1>1, <1>2, <1>4, <1>7, <1>8 DEF CleanInv, Covered, Prepared, HasClean
<1>10. QED
  BY <1>1, <1>2, <1>3, <1>5, <1>6, <1>9 DEF CleanInv, RawOK

\* What the scrapes store meanwhile does not disturb the runs.
LEMMA ScrapesKeepClean == ASSUME CleanInv, RawGrows, UNCHANGED <<clean, pipe>> PROVE CleanInv'
<1>1. PipeOK' /\ CleanOnce' /\ CleanMade'
  BY DEF CleanInv, PipeOK, CleanOnce, CleanMade, RawGrows
<1>2. \A p \in Pipelines : Fits(p)' /\ Apart(p)' /\ Unshared(p)'
  BY DEF CleanInv, Fits, Apart, PipeBusy, Unshared, RawGrows
<1>3. \A p \in Pipelines : Covered(p)'
  BY DEF CleanInv, Covered, Unpriced, HasClean, Excused, Prepared
<1>4. QED
  BY <1>1, <1>2, <1>3 DEF CleanInv, RawGrows

LEMMA ElsewhereKeepsClean == ASSUME CleanInv, UNCHANGED <<raw, clean, pipe>> PROVE CleanInv'
<1>1. RawGrows
  BY RawFacts DEF CleanInv, RawGrows, RawOK
<1>2. QED
  BY <1>1, ScrapesKeepClean

LEMMA InitClean == Init => CleanInv
<1> SUFFICES ASSUME Init PROVE CleanInv
  OBVIOUS
<1>1. raw = <<>> /\ clean = {}
  BY DEF Init
<1>2. \A p \in Pipelines : /\ pipe[p].pc = "idle" /\ pipe[p].deleted = {} /\ pipe[p].saw = <<>>
                         /\ pipe[p].rows = {} /\ pipe[p].alone = TRUE
                         /\ DOMAIN pipe[p] = {"pc", "deleted", "saw", "rows", "alone"}
  BY DEF Init
<1>3. PipeOK
  BY <1>2 DEF Init, PipeOK
<1>4. RawOK /\ CleanMade /\ CleanOnce
  BY <1>1, EmptySeq, NumListingsAssumption DEF RawOK, CleanMade, CleanOnce
<1>5. \A p \in Pipelines : Fits(p) /\ Apart(p) /\ Unshared(p) /\ Covered(p)
  BY <1>1, <1>2 DEF Fits, Apart, PipeBusy, Unshared, Covered
<1>6. QED
  BY <1>3, <1>4, <1>5 DEF CleanInv

LEMMA StepKeepsClean == CleanInv /\ [Next]_vars => CleanInv'
<1> SUFFICES ASSUME CleanInv, [Next]_vars PROVE CleanInv'
  OBVIOUS
<1>1. CASE StoreListing
  BY <1>1, StoreGrows, ScrapesKeepClean DEF CleanInv, StoreListing
<1>2. ASSUME NEW l \in DOMAIN raw, UpdateListing(l) PROVE CleanInv'
  BY <1>2, UpdateGrows, ScrapesKeepClean DEF CleanInv, UpdateListing
<1>3. ASSUME NEW p \in Pipelines, BeginPipeline(p) \/ Fetch(p) \/ Commit(p) \/ PipelineFails(p)
      PROVE  CleanInv'
  BY <1>3, BeginPipelineKeeps, FetchKeeps, CommitKeeps, PipelineFailsKeeps
<1>4. CASE Export
  BY <1>4, ElsewhereKeepsClean DEF Export
<1>5. ASSUME NEW s \in Syncs,
             ReadRows(s) \/ PostBatch(s) \/ PostFails(s) \/ AnswerLost(s) \/ SyncBreaks(s)
      PROVE  CleanInv'
  BY <1>5, ElsewhereKeepsClean DEF ReadRows, PostBatch, PostFails, AnswerLost, SyncBreaks
<1>6. CASE UNCHANGED vars
  BY <1>6, ElsewhereKeepsClean DEF vars
<1>7. QED
  BY <1>1, <1>2, <1>3, <1>4, <1>5, <1>6 DEF Next

LEMMA CleanInvariant == Spec => []CleanInv
  BY InitClean, StepKeepsClean, PTL DEF Spec

\* run_pipeline: nothing but two runs that were under way together gives a listing two clean
\* rows, although no constraint of clean_listings stands against it.
THEOREM CleanOnceCorrect == Spec => []CleanOnce
<1>1. CleanInv => CleanOnce
  BY DEF CleanInv
<1>2. QED
  BY <1>1, CleanInvariant, PTL

\* run_pipeline: a listing with a price that a finished run saw has a clean row, whatever runs,
\* rebuilds and failures came between, unless a rebuild saw it without one.
THEOREM PricedIsCleanCorrect == Spec => []PricedIsClean
<1>1. CleanInv => PricedIsClean
  BY DEF CleanInv, PricedIsClean, Covered, Unpriced, HasClean, Excused, Prepared
<1>2. QED
  BY <1>1, CleanInvariant, PTL

-----------------------------------------------------------------------------
(* Least counterexamples *)

LEMMA LeastNumber == ASSUME NEW B \in SUBSET Nat, B # {} PROVE \E n \in B : \A m \in B : n =< m
<1> DEFINE R == {ss \in Nat \X Nat : ss[1] < ss[2]}
<1>1. IsWellFoundedOn(R, Nat)
  BY NatLessThanWellFounded DEF OpToRel
<1>2. \A n, m \in Nat : n < m => <<n, m>> \in R
  OBVIOUS
<1> HIDE DEF R
<1>3. PICK n \in B : \A m \in B : <<m, n>> \notin R
  BY <1>1, WFMin
<1>4. ASSUME NEW m \in B PROVE n =< m
  <2>1. n \in Nat /\ m \in Nat /\ ~ m < n
    BY <1>2, <1>3
  <2> QED BY <2>1
<1> QED BY <1>3, <1>4

-----------------------------------------------------------------------------
(* Lemmas: the clusters of a batch *)

\* The body of the loop of find_duplicates, and the loop up to the k-th listing.
Around(batch, order, i, F) ==
  {order[i]} \cup {order[j] : j \in {k \in (i + 1) .. Len(order) :
     /\ order[k] \notin UNION F
     /\ SameHome(batch[order[i]], batch[order[k]])}}
Taken(batch, order, i, F) ==
  IF order[i] \in UNION F THEN F ELSE F \cup {Around(batch, order, i, F)}
Loop(batch, order, k, g) == g = [i \in 0 .. k |-> IF i = 0 THEN {} ELSE Taken(batch, order, i, g[i - 1])]

LEMMA LoopExists == ASSUME NEW batch, NEW order, NEW n \in Nat PROVE \E g : Loop(batch, order, n, g)
<1> DEFINE Bad == {k \in Nat : ~ \E g : Loop(batch, order, k, g)}
<1>1. SUFFICES ASSUME Bad # {} PROVE FALSE
  OBVIOUS
<1>2. PICK k \in Bad : \A i \in Bad : k =< i
  <2>1. Bad \in SUBSET Nat
    OBVIOUS
  <2> HIDE DEF Bad
  <2> QED BY <1>1, <2>1, LeastNumber
<1> DEFINE e(f, i) == IF i = 0 THEN {} ELSE Taken(batch, order, i, f[i - 1])
<1>3. CASE k = 0
  <2>1. PICK g : g = [i \in 0 .. 0 |-> {}]
    OBVIOUS
  <2>2. \A i \in 0 .. 0 : g[i] = e(g, i)
    BY <2>1
  <2>3. g = [i \in 0 .. 0 |-> e(g, i)]
    BY <2>1, <2>2
  <2>4. Loop(batch, order, 0, g)
    BY <2>3 DEF Loop
  <2> QED BY <1>2, <1>3, <2>4
<1>4. CASE k # 0
  <2>1. k \in Nat /\ k - 1 \in Nat /\ k - 1 \notin Bad
    BY <1>2, <1>4
  <2>2. PICK h : Loop(batch, order, k - 1, h)
    BY <2>1
  <2>3. PICK last : last = Taken(batch, order, k, h[k - 1])
    OBVIOUS
  <2>4. PICK g : g = [i \in 0 .. k |-> IF i = k THEN last ELSE h[i]]
    OBVIOUS
  <2>5. \A i \in 0 .. (k - 1) : h[i] = e(h, i)
    BY <2>2 DEF Loop
  <2>6. ASSUME NEW i \in 0 .. k PROVE g[i] = e(g, i)
    <3>1. CASE i = k
      <4>1. g[i] = last /\ g[i - 1] = h[i - 1]
        BY <1>4, <2>1, <2>4, <3>1
      <4> QED BY <1>4, <2>3, <3>1, <4>1
    <3>2. CASE i # k /\ i # 0
      <4>1. i \in 0 .. (k - 1) /\ i - 1 \in 0 .. k /\ i - 1 # k
        BY <2>1, <3>2
      <4>2. g[i] = h[i] /\ g[i - 1] = h[i - 1]
        BY <2>4, <3>2, <4>1
      <4> QED BY <2>5, <4>1, <4>2
    <3>3. CASE i # k /\ i = 0
      <4>1. 0 \in 0 .. (k - 1) /\ g[i] = h[i]
        BY <2>1, <2>4, <3>3
      <4> QED BY <2>5, <3>3, <4>1
    <3> QED BY <3>1, <3>2, <3>3
  <2>7. g = [i \in 0 .. k |-> e(g, i)]
    <3> HIDE DEF e
    <3> QED BY <2>4, <2>6
  <2>8. Loop(batch, order, k, g)
    BY <2>7 DEF Loop
  <2> QED BY <1>2, <2>8
<1> QED BY <1>3, <1>4

LEMMA FindDuplicatesLoops ==
  ASSUME NEW batch, NEW order, Len(order) \in Nat
  PROVE  \E g : Loop(batch, order, Len(order), g) /\ FindDuplicates(batch, order) = g[Len(order)]
<1> DEFINE n == Len(order)
           G == CHOOSE g : Loop(batch, order, n, g)
<1>1. FindDuplicates(batch, order) = G[n]
  BY DEF FindDuplicates, Loop, Taken, Around
<1>2. Loop(batch, order, n, G)
  <2>1. n \in Nat
    OBVIOUS
  <2> HIDE DEF n
  <2> QED BY <2>1, LoopExists
<1> QED BY <1>1, <1>2

\* After the k-th listing of the batch: the first k are in clusters, which are disjoint and
\* built around one of them; what is like a listing that is alone is in another's cluster.
Grouped(batch, order, n, k, F) ==
  /\ UNION F \subseteq {order[i] : i \in 1 .. n}
  /\ \A i \in 1 .. k : order[i] \in UNION F
  /\ \A c, d \in F : \A x \in c : x \in d => c = d
  /\ \A c \in F : \E i \in 1 .. k :
       order[i] \in c /\ \A x \in c \ {order[i]} : SameHome(batch[order[i]], batch[x])
  /\ \A i \in 1 .. k : \A j \in 1 .. n :
       i < j /\ {order[i]} \in F /\ SameHome(batch[order[i]], batch[order[j]]) =>
         \E d \in F : order[j] \in d /\ d # {order[j]}

LEMMA TakenGroups ==
  ASSUME NEW batch, NEW order, NEW n \in Nat, Len(order) = n,
         \A i, j \in 1 .. n : order[i] = order[j] => i = j,
         NEW k \in 1 .. n, NEW F, Grouped(batch, order, n, k - 1, F)
  PROVE  Grouped(batch, order, n, k, Taken(batch, order, k, F))
<1>1. /\ UNION F \subseteq {order[i] : i \in 1 .. n}
      /\ \A i \in 1 .. (k - 1) : order[i] \in UNION F
      /\ \A c, d \in F : \A x \in c : x \in d => c = d
  BY DEF Grouped
<1>2. \A c \in F : \E i \in 1 .. (k - 1) :
        order[i] \in c /\ \A x \in c \ {order[i]} : SameHome(batch[order[i]], batch[x])
  BY DEF Grouped
<1>3. \A i \in 1 .. (k - 1) : \A j \in 1 .. n :
        i < j /\ {order[i]} \in F /\ SameHome(batch[order[i]], batch[order[j]]) =>
          \E d \in F : order[j] \in d /\ d # {order[j]}
  BY DEF Grouped
<1>4. \A i \in 1 .. k : i = k \/ i \in 1 .. (k - 1)
  OBVIOUS
<1>5. \A i \in 1 .. (k - 1) : i \in 1 .. k /\ i \in 1 .. n /\ i < k
  OBVIOUS
<1>6. CASE order[k] \in UNION F
  <2>1. Taken(batch, order, k, F) = F
    BY <1>6 DEF Taken
  <2>2. \A i \in 1 .. k : order[i] \in UNION F
    BY <1>1, <1>4, <1>6
  <2>3. \A c \in F : \E i \in 1 .. k :
          order[i] \in c /\ \A x \in c \ {order[i]} : SameHome(batch[order[i]], batch[x])
    BY <1>2, <1>5
  <2>4. {order[k]} \notin F
    <3>1. SUFFICES ASSUME {order[k]} \in F PROVE FALSE
      OBVIOUS
    <3>2. PICK i \in 1 .. (k - 1) : order[i] \in {order[k]}
      BY <1>2, <3>1
    <3> QED BY <1>5, <3>2
  <2>5. \A i \in 1 .. k : \A j \in 1 .. n :
          i < j /\ {order[i]} \in F /\ SameHome(batch[order[i]], batch[order[j]]) =>
            \E d \in F : order[j] \in d /\ d # {order[j]}
    BY <1>3, <1>4, <2>4
  <2> QED BY <1>1, <2>1, <2>2, <2>3, <2>5 DEF Grouped
<1>7. CASE order[k] \notin UNION F
  <2>1. PICK A : A = Around(batch, order, k, F)
    OBVIOUS
  <2>2. PICK G : G = F \cup {A}
    OBVIOUS
  <2>3. Taken(batch, order, k, F) = G
    BY <1>7, <2>1, <2>2 DEF Taken
  <2>4. order[k] \in A
    BY <2>1 DEF Around
  <2>5. \A x \in A \ {order[k]} : \E j \in 1 .. n :
          x = order[j] /\ j > k /\ x \notin UNION F /\ SameHome(batch[order[k]], batch[x])
    <3>1. \A x \in A \ {order[k]} : \E j \in (k + 1) .. n :
            x = order[j] /\ x \notin UNION F /\ SameHome(batch[order[k]], batch[x])
      BY <2>1 DEF Around
    <3>2. \A j \in (k + 1) .. n : j \in 1 .. n /\ j > k
      OBVIOUS
    <3> QED BY <3>1, <3>2
  <2>6. \A j \in 1 .. n : j > k /\ order[j] \notin UNION F /\ SameHome(batch[order[k]], batch[order[j]])
          => order[j] \in A
    <3> SUFFICES ASSUME NEW j \in 1 .. n, j > k, order[j] \notin UNION F,
                        SameHome(batch[order[k]], batch[order[j]])
                 PROVE  order[j] \in A
      OBVIOUS
    <3>1. j \in (k + 1) .. n
      OBVIOUS
    <3> QED BY <2>1, <3>1 DEF Around
  <2>7. \A x \in A : x \notin UNION F
    BY <1>7, <2>5
  <2>8. UNION G \subseteq {order[i] : i \in 1 .. n}
    <3>1. A \subseteq {order[i] : i \in 1 .. n}
      BY <2>5
    <3> QED BY <1>1, <2>2, <3>1
  <2>9. \A i \in 1 .. k : order[i] \in UNION G
    BY <1>1, <1>4, <2>2, <2>4
  <2>10. \A c, d \in G : \A x \in c : x \in d => c = d
    BY <1>1, <2>2, <2>7
  <2>11. ASSUME NEW c \in G
         PROVE  \E i \in 1 .. k : order[i] \in c /\ \A x \in c \ {order[i]} : SameHome(batch[order[i]], batch[x])
    <3>1. CASE c \in F
      BY <1>2, <1>5, <3>1
    <3>2. CASE c = A
      BY <2>4, <2>5, <3>2
    <3> QED BY <2>2, <3>1, <3>2
  <2>12. ASSUME NEW i \in 1 .. k, NEW j \in 1 .. n, i < j, {order[i]} \in G,
                SameHome(batch[order[i]], batch[order[j]])
         PROVE  \E d \in G : order[j] \in d /\ d # {order[j]}
    <3>1. CASE i \in 1 .. (k - 1)
      <4>1. {order[i]} \in F
        <5>1. order[i] \in UNION F
          BY <1>1, <3>1
        <5> QED BY <2>2, <2>7, <2>12, <5>1
      <4> QED BY <1>3, <2>2, <2>12, <3>1, <4>1
    <3>2. CASE i = k
      <4>1. order[j] # order[k]
        BY <1>5, <2>12, <3>2
      <4>2. A = {order[k]}
        BY <1>7, <2>2, <2>12, <3>2
      <4>3. order[j] \in UNION F
        BY <2>6, <2>12, <3>2, <4>1, <4>2
      <4>4. PICK d \in F : order[j] \in d
        BY <4>3
      <4>5. PICK m \in 1 .. (k - 1) : order[m] \in d
        BY <1>2
      <4>6. m # j /\ m \in 1 .. n
        BY <1>5, <2>12, <3>2, <4>5
      <4>7. d # {order[j]}
        BY <4>5, <4>6
      <4> QED BY <2>2, <4>4, <4>7
    <3> QED BY <1>4, <3>1, <3>2
  <2> HIDE DEF Taken
  <2>13. Grouped(batch, order, n, k, G)
    BY <2>8, <2>9, <2>10, <2>11, <2>12 DEF Grouped
  <2> QED BY <2>3, <2>13
<1> QED BY <1>6, <1>7

LEMMA FindDuplicatesGroups ==
  ASSUME NEW batch, NEW order, NEW n \in Nat, Len(order) = n,
         \A i, j \in 1 .. n : order[i] = order[j] => i = j
  PROVE  Grouped(batch, order, n, n, FindDuplicates(batch, order))
<1>1. PICK g : Loop(batch, order, n, g) /\ FindDuplicates(batch, order) = g[n]
  BY FindDuplicatesLoops
<1> DEFINE Bad == {k \in 0 .. n : ~ Grouped(batch, order, n, k, g[k])}
<1>2. g[0] = {} /\ \A k \in 1 .. n : g[k] = Taken(batch, order, k, g[k - 1])
  <2>1. \A k \in 0 .. n : g[k] = IF k = 0 THEN {} ELSE Taken(batch, order, k, g[k - 1])
    BY <1>1 DEF Loop
  <2>2. \A k \in 1 .. n : k \in 0 .. n /\ k # 0
    OBVIOUS
  <2> QED BY <2>1, <2>2
<1>3. Bad = {}
  <2>1. SUFFICES ASSUME Bad # {} PROVE FALSE
    OBVIOUS
  <2>2. PICK k \in Bad : \A i \in Bad : k =< i
    <3>1. Bad \in SUBSET Nat
      OBVIOUS
    <3> HIDE DEF Bad
    <3> QED BY <2>1, <3>1, LeastNumber
  <2>3. CASE k = 0
    BY <1>2, <2>2, <2>3 DEF Grouped
  <2>4. CASE k # 0
    <3>1. k \in 1 .. n /\ k - 1 \in 0 .. n /\ ~ k =< k - 1
      BY <2>2, <2>4
    <3>2. Grouped(batch, order, n, k - 1, g[k - 1])
      BY <2>2, <3>1
    <3>3. Grouped(batch, order, n, k, Taken(batch, order, k, g[k - 1]))
      BY <3>1, <3>2, TakenGroups
    <3> QED BY <1>2, <2>2, <3>1, <3>3
  <2> QED BY <2>3, <2>4
<1> QED BY <1>1, <1>3

LEMMA SameHomeSymmetric == ASSUME NEW a, NEW b, SameHome(a, b) PROVE SameHome(b, a)
<1>1. \A x, y : {x, y} = {y, x}
  OBVIOUS
<1>2. \A x, y, t : Ratio(x, y, t) => Ratio(y, x, t)
  BY <1>1 DEF Ratio
<1>3. \A x, y : AreaSimilar(x, y) => AreaSimilar(y, x)
  BY <1>2 DEF AreaSimilar
<1>4. \A x, y : PriceSimilar(x, y) => PriceSimilar(y, x)
  BY <1>2 DEF PriceSimilar
<1>5. \A x, y : AddressSimilar(x, y) => AddressSimilar(y, x)
  BY DEF AddressSimilar
<1> QED BY <1>3, <1>4, <1>5 DEF SameHome

\* A run's order of what it prepared is one of those the clusters are known for.
LEMMA PreparedInOrder ==
  ASSUME RawOK, NEW p \in Pipelines, NEW q \in SetToSeqs(Priced(p))
  PROVE  /\ q \in Orders
         /\ \E n \in Nat : q \in [1 .. n -> Priced(p)] /\ Len(q) = n
         /\ Priced(p) \subseteq Listings \X Values
         /\ \A x, y \in Priced(p) : x[1] = y[1] => x = y
<1> DEFINE S == Priced(p)
           n == Len(q)
           K == {k \in Selected(p) : Normalized[raw[k].value].priced}
<1>1. /\ ToSet(q) = S /\ q \in Seq(S) /\ \A i, j \in DOMAIN q : q[i] = q[j] => i = j
      /\ \A x \in S : x[1] \in Selected(p) /\ x = <<x[1], raw[x[1]].value>>
      /\ IsFiniteSet(S)
  BY PreparedOnce
<1>2. n \in Nat /\ q \in [1 .. n -> S] /\ DOMAIN q = 1 .. n
  BY <1>1
<1>3. S \subseteq Listings \X Values
  <2>1. \A l \in Selected(p) : l \in Listings /\ raw[l].value \in Values
    <3>1. \A l \in Selected(p) : l \in DOMAIN raw
      BY DEF Selected
    <3>2. \A l \in DOMAIN raw : l \in Listings /\ raw[l] \in RawRow
      BY NumListingsAssumption DEF RawOK, Listings
    <3> QED BY <3>1, <3>2 DEF RawRow
  <2> HIDE DEF S
  <2> QED BY <1>1, <2>1
<1>4. \A x, y \in S : x[1] = y[1] => x = y
  <2> HIDE DEF S
  <2> QED BY <1>1
<1>5. n =< NumListings
  <2> DEFINE f == [i \in 1 .. n |-> q[i][1]]
  <2>1. IsFiniteSet(Listings) /\ Cardinality(Listings) = NumListings
    BY NumListingsAssumption, FS_Interval DEF Listings
  <2>2. IsFiniteSet(1 .. n) /\ Cardinality(1 .. n) = n
    BY <1>2, FS_Interval
  <2>3. f \in Injection(1 .. n, Listings)
    <3> HIDE DEF S, n
    <3>1. \A i \in 1 .. n : q[i] \in S /\ q[i][1] \in Listings
      BY <1>2, <1>3
    <3>2. \A i, j \in 1 .. n : q[i][1] = q[j][1] => i = j
      BY <1>1, <1>2, <1>4, <3>1
    <3> QED BY <3>1, <3>2 DEF Injection, IsInjective
  <2> HIDE DEF f, n
  <2> QED BY <2>1, <2>2, <2>3, FS_Injection
<1>6. q \in SeqOf(Listings \X Values, NumListings)
  <2>1. n \in 0 .. NumListings /\ q \in [1 .. n -> Listings \X Values]
    BY <1>2, <1>3, <1>5, NumListingsAssumption
  <2> HIDE DEF n
  <2> QED BY <2>1 DEF SeqOf
<1>7. \A i, j \in DOMAIN q : i # j => q[i][1] # q[j][1]
  <2> HIDE DEF S, n
  <2> QED BY <1>1, <1>2, <1>4
<1> HIDE DEF S, n
<1>8. q \in Orders
  BY <1>6, <1>7 DEF Orders
<1> USE DEF S, n
<1> QED BY <1>2, <1>3, <1>4, <1>8

\* The clusters of the rows a run makes are whole.
LEMMA RowsWhole ==
  ASSUME RawOK, NEW p \in Pipelines, NEW q \in SetToSeqs(Priced(p))
  PROVE  WholeClusters(CleanRows(p, q))
<1>1. PICK S : S = Priced(p)
  OBVIOUS
<1>2. /\ q \in Orders /\ S \subseteq Listings \X Values
      /\ \A x, y \in S : x[1] = y[1] => x = y
      /\ ToSet(q) = S /\ \A i, j \in DOMAIN q : q[i] = q[j] => i = j
      /\ \A x \in S : x = <<x[1], raw[x[1]].value>>
  BY <1>1, PreparedInOrder, PreparedOnce
<1>3. PICK n \in Nat : q \in [1 .. n -> S] /\ Len(q) = n
  BY <1>1, PreparedInOrder
<1>4. PICK batch : batch = [x \in S |-> Entry(x)]
  OBVIOUS
<1>5. PICK F : F = FindDuplicates(batch, q)
  OBVIOUS
<1>6. Clusters[q] = {c \in F : Cardinality(c) > 1}
  BY <1>2, <1>4, <1>5 DEF Clusters
<1>7. Grouped(batch, q, n, n, F)
  BY <1>2, <1>3, <1>5, FindDuplicatesGroups
<1>8. \A x \in S : \E i \in 1 .. n : x = q[i]
  BY <1>2, <1>3 DEF ToSet
<1>9. UNION F = S
  BY <1>3, <1>7, <1>8 DEF Grouped
<1>10. \A x, y \in S : SameHome(batch[x], batch[y]) <=> <<x, y>> \in Alike
  BY <1>2, <1>4 DEF Alike
<1> DEFINE Of(x) == UNION {c \in Clusters[q] : x \in c}
<1>11. ASSUME NEW x \in S
       PROVE  \/ Of(x) \in F /\ x \in Of(x) /\ \A y \in Of(x) : y \in S /\ Of(y) = Of(x)
              \/ Of(x) = {} /\ {x} \in F
  <2>1. \A c, d \in F : \A y \in c : y \in d => c = d
    BY <1>7 DEF Grouped
  <2>2. PICK c \in F : x \in c
    BY <1>9
  <2>3. c \subseteq S
    BY <1>9
  <2>4. CASE Cardinality(c) > 1
    <3>1. \A y \in c : {d \in Clusters[q] : y \in d} = {c}
      BY <1>6, <2>1, <2>2, <2>4
    <3>2. \A y \in c : Of(y) = c
      BY <3>1
    <3> QED BY <2>2, <2>3, <3>2
  <2>5. CASE ~ (Cardinality(c) > 1)
    <3>1. {d \in Clusters[q] : x \in d} = {}
      BY <1>6, <2>1, <2>2, <2>5
    <3>2. IsFiniteSet(c)
      BY <1>1, <2>3, PreparedOnce, FS_Subset
    <3>3. c = {x}
      <4>1. IsFiniteSet({x}) /\ Cardinality({x}) = 1 /\ {x} \subseteq c
        BY <2>2, FS_Singleton
      <4>2. Cardinality(c) \in Nat /\ Cardinality({x}) =< Cardinality(c)
        BY <3>2, <4>1, FS_Subset, FS_CardinalityType
      <4>3. Cardinality(c) = Cardinality({x})
        BY <2>5, <4>1, <4>2
      <4> QED BY <3>2, <4>1, <4>3, FS_Subset
    <3> QED BY <2>2, <3>1, <3>3
  <2> QED BY <2>4, <2>5
<1> DEFINE Row(x) == [listing |-> x[1], of |-> raw[x[1]], by |-> p, cluster |-> {y[1] : y \in Of(x)},
                      sources |-> Cardinality({PortalOf[y[1]] : y \in Of(x) \cup {x}})]
<1>12. PICK R : R = CleanRows(p, q)
  OBVIOUS
<1>13. R = {Row(x) : x \in S}
  BY <1>2, <1>12 DEF CleanRows
<1>14. \A x : /\ Row(x).listing = x[1] /\ Row(x).of = raw[x[1]] /\ Row(x).by = p
              /\ Row(x).cluster = {y[1] : y \in Of(x)}
              /\ Row(x).sources = Cardinality({PortalOf[y[1]] : y \in Of(x) \cup {x}})
  OBVIOUS
<1> HIDE DEF Row, Of
<1>15. \A x \in S : Key(Row(x)) = x
  BY <1>2, <1>14 DEF Key
<1>16. ASSUME NEW c \in R, c.cluster # {}
       PROVE  LET mates == {d \in R : d.by = c.by /\ d.listing \in c.cluster}
              IN /\ {d.listing : d \in mates} = c.cluster
                 /\ \A d \in mates : d.cluster = c.cluster
                 /\ Cardinality({PortalOf[d.listing] : d \in mates}) = c.sources
                 /\ \E a \in mates : \A d \in mates \ {a} : <<Key(a), Key(d)>> \in Alike
  <2> DEFINE mates == {d \in R : d.by = c.by /\ d.listing \in c.cluster}
  <2>1. PICK x \in S : c = Row(x)
    BY <1>13
  <2>2. PICK f : f = Of(x)
    OBVIOUS
  <2>3. f \in F /\ x \in f /\ f \subseteq S /\ \A y \in f : Of(y) = f
    <3>1. Of(x) # {}
      BY <1>14, <1>16, <2>1
    <3> QED BY <1>11, <2>2, <3>1
  <2>4. c.cluster = {y[1] : y \in f} /\ c.by = p
    BY <1>14, <2>1, <2>2
  <2>5. mates = {Row(y) : y \in f}
    <3>1. \A y \in f : Row(y) \in mates
      BY <1>13, <1>14, <2>3, <2>4
    <3>2. ASSUME NEW d \in mates PROVE \E y \in f : d = Row(y)
      <4>1. PICK y \in S : d = Row(y)
        BY <1>13
      <4>2. PICK z \in f : y[1] = z[1]
        BY <1>14, <2>4, <4>1
      <4>3. y = z
        BY <1>2, <2>3, <4>2
      <4> QED BY <4>1, <4>3
    <3> HIDE DEF mates
    <3> QED BY <3>1, <3>2
  <2> HIDE DEF mates
  <2>6. {d.listing : d \in mates} = c.cluster
    BY <1>14, <2>4, <2>5
  <2>7. \A d \in mates : d.cluster = c.cluster
    BY <1>14, <2>3, <2>4, <2>5
  <2>8. Cardinality({PortalOf[d.listing] : d \in mates}) = c.sources
    <3>1. f \cup {x} = f
      BY <2>3
    <3>2. c.sources = Cardinality({PortalOf[y[1]] : y \in f})
      BY <1>14, <2>1, <2>2, <3>1
    <3>3. {PortalOf[d.listing] : d \in mates} = {PortalOf[y[1]] : y \in f}
      BY <1>14, <2>5
    <3> QED BY <3>2, <3>3
  <2>9. \E a \in mates : \A d \in mates \ {a} : <<Key(a), Key(d)>> \in Alike
    <3>1. PICK i \in 1 .. n : q[i] \in f /\ \A y \in f \ {q[i]} : SameHome(batch[q[i]], batch[y])
      BY <1>7, <2>3 DEF Grouped
    <3>2. Row(q[i]) \in mates
      BY <2>5, <3>1
    <3>3. ASSUME NEW d \in mates \ {Row(q[i])} PROVE <<Key(Row(q[i])), Key(d)>> \in Alike
      <4>1. PICK y \in f : d = Row(y)
        BY <2>5
      <4>2. y # q[i] /\ y \in S /\ q[i] \in S
        BY <2>3, <3>1, <3>3, <4>1
      <4> QED BY <1>10, <1>15, <3>1, <4>1, <4>2
    <3> QED BY <3>2, <3>3
  <2> USE DEF mates
  <2> QED BY <2>6, <2>7, <2>8, <2>9
<1>17. ASSUME NEW c \in R, NEW d \in R, c.cluster = {}, d.cluster = {}
       PROVE  <<Key(c), Key(d)>> \notin Alike
  <2>1. PICK x \in S, y \in S : c = Row(x) /\ d = Row(y)
    BY <1>13
  <2>2. {x} \in F /\ {y} \in F
    <3>1. ASSUME NEW z \in S, Row(z).cluster = {} PROVE Of(z) = {}
      <4>1. Row(z).cluster = {w[1] : w \in Of(z)}
        BY <1>14
      <4>2. ASSUME NEW w \in Of(z) PROVE FALSE
        <5>1. w[1] \in {v[1] : v \in Of(z)}
          OBVIOUS
        <5> QED BY <3>1, <4>1, <5>1
      <4> QED BY <4>2
    <3>2. \A z \in S : Of(z) = {} => {z} \in F
      BY <1>11
    <3> QED BY <1>17, <2>1, <3>1, <3>2
  <2>3. PICK i \in 1 .. n, j \in 1 .. n : x = q[i] /\ y = q[j]
    BY <1>8
  <2>4. \A k, l \in 1 .. n :
          k < l /\ {q[k]} \in F /\ {q[l]} \in F => ~ SameHome(batch[q[k]], batch[q[l]])
    BY <1>7 DEF Grouped
  <2>5. i < j \/ j < i \/ i = j
    OBVIOUS
  <2>6. ~ SameHome(batch[x], batch[y])
    <3>1. CASE i < j
      BY <2>2, <2>3, <2>4, <3>1
    <3>2. CASE j < i
      BY <2>2, <2>3, <2>4, <3>2, SameHomeSymmetric
    <3>3. CASE i = j
      BY <2>3, <3>3 DEF SameHome
    <3> QED BY <2>5, <3>1, <3>2, <3>3
  <2> QED BY <1>10, <1>15, <2>1, <2>6
<1>18. WholeClusters(R)
  BY <1>16, <1>17 DEF WholeClusters
<1> QED BY <1>12, <1>18

-----------------------------------------------------------------------------
(* Whole clusters *)

\* S holds the rows of completed runs, and of each of them all.
Settled(S, P) ==
  \A c \in S : c.by \in Pipelines /\ P[c.by].pc = "done" /\ c \in P[c.by].rows /\ P[c.by].rows \subseteq S

\* The inductive invariant of the clusters.
WholeInv ==
  /\ CleanInv
  /\ Settled(clean, pipe) /\ Settled(exported, pipe)
  /\ \A p \in Pipelines : Settled(pipe[p].deleted, pipe) /\ WholeClusters(pipe[p].rows)

LEMMA SettledIsWhole ==
  ASSUME NEW S, NEW P, Settled(S, P),
         \A p \in Pipelines : WholeClusters(P[p].rows) /\ \A c \in P[p].rows : c.by = p
  PROVE  WholeClusters(S)
<1>1. \A c \in S : c.by \in Pipelines /\ c \in P[c.by].rows /\ P[c.by].rows \subseteq S
  BY DEF Settled
<1>2. ASSUME NEW c \in S, c.cluster # {}
      PROVE  LET mates == {d \in S : d.by = c.by /\ d.listing \in c.cluster}
             IN /\ {d.listing : d \in mates} = c.cluster
                /\ \A d \in mates : d.cluster = c.cluster
                /\ Cardinality({PortalOf[d.listing] : d \in mates}) = c.sources
                /\ \E a \in mates : \A d \in mates \ {a} : <<Key(a), Key(d)>> \in Alike
  <2>1. PICK R : R = P[c.by].rows
    OBVIOUS
  <2>2. c \in R /\ R \subseteq S /\ WholeClusters(R)
    BY <1>1, <2>1
  <2>3. \A d \in S : d.by = c.by => d \in R
    BY <1>1, <2>1
  <2>4. {d \in S : d.by = c.by /\ d.listing \in c.cluster} = {d \in R : d.by = c.by /\ d.listing \in c.cluster}
    BY <2>2, <2>3
  <2>5. LET mates == {d \in R : d.by = c.by /\ d.listing \in c.cluster}
        IN /\ {d.listing : d \in mates} = c.cluster
           /\ \A d \in mates : d.cluster = c.cluster
           /\ Cardinality({PortalOf[d.listing] : d \in mates}) = c.sources
           /\ \E a \in mates : \A d \in mates \ {a} : <<Key(a), Key(d)>> \in Alike
    BY <1>2, <2>2 DEF WholeClusters
  <2> QED BY <2>4, <2>5
<1>3. ASSUME NEW c \in S, NEW d \in S, c.by = d.by, c.cluster = {}, d.cluster = {}
      PROVE  <<Key(c), Key(d)>> \notin Alike
  <2>1. c \in P[c.by].rows /\ d \in P[c.by].rows /\ WholeClusters(P[c.by].rows)
    BY <1>1, <1>3
  <2> QED BY <1>3, <2>1 DEF WholeClusters
<1> QED BY <1>2, <1>3 DEF WholeClusters

\* What completed runs hold does not change.
LEMMA SettledStays ==
  ASSUME NEW S, NEW P, NEW Q, Settled(S, P),
         \A p \in Pipelines : P[p].pc = "done" => Q[p].pc = "done" /\ Q[p].rows = P[p].rows
  PROVE  Settled(S, Q)
  BY DEF Settled

LEMMA SettledWithout ==
  ASSUME NEW S, NEW D, NEW P, Settled(S, P), Settled(D, P),
         \A p \in Pipelines : \A c \in P[p].rows : c.by = p
  PROVE  Settled(S \ D, P)
<1> SUFFICES ASSUME NEW c \in S \ D
             PROVE  /\ c.by \in Pipelines /\ P[c.by].pc = "done" /\ c \in P[c.by].rows
                    /\ P[c.by].rows \subseteq S \ D
  BY DEF Settled
<1>1. c.by \in Pipelines /\ P[c.by].pc = "done" /\ c \in P[c.by].rows /\ P[c.by].rows \subseteq S
  BY DEF Settled
<1>2. ASSUME NEW d \in P[c.by].rows, d \in D PROVE FALSE
  <2>1. d.by = c.by
    BY <1>1, <1>2
  <2>2. P[d.by].rows \subseteq D
    BY <1>2 DEF Settled
  <2> QED BY <1>1, <2>1, <2>2
<1> QED BY <1>1, <1>2

\* The rows of a run are added all at once.
LEMMA SettledWith ==
  ASSUME NEW S, NEW P, NEW p \in Pipelines, Settled(S, P), P[p].pc = "done",
         \A c \in P[p].rows : c.by = p
  PROVE  Settled(S \cup P[p].rows, P)
  BY DEF Settled

LEMMA RowsAreOwn == ASSUME CleanInv PROVE \A p \in Pipelines : \A c \in pipe[p].rows : c.by = p
  BY DEF CleanInv, Fits

LEMMA FetchKeepsWhole == ASSUME WholeInv, CleanInv', NEW p \in Pipelines, Fetch(p) PROVE WholeInv'
<1>1. PICK q \in SetToSeqs(Priced(p)) :
        pipe' = [pipe EXCEPT ![p].pc = IF Selected(p) = {} THEN "done" ELSE "commit",
                             ![p].saw = raw, ![p].rows = CleanRows(p, q)]
  BY DEF Fetch
<1> DEFINE made == CleanRows(p, q)
           pc == IF Selected(p) = {} THEN "done" ELSE "commit"
<1>2. WholeClusters(made)
  BY RowsWhole DEF WholeInv, CleanInv
<1>3. pipe[p].pc = "fetch" /\ UNCHANGED <<clean, exported>>
  BY DEF Fetch
<1>4. pipe' = [pipe EXCEPT ![p].pc = pc, ![p].saw = raw, ![p].rows = made]
  BY <1>1
<1> HIDE DEF made, pc
<1>5. /\ pipe'[p].rows = made /\ pipe'[p].deleted = pipe[p].deleted
      /\ \A r \in Pipelines \ {p} : pipe'[r] = pipe[r]
  BY <1>4 DEF WholeInv, CleanInv, PipeOK
<1>6. \A r \in Pipelines : pipe[r].pc = "done" => pipe'[r].pc = "done" /\ pipe'[r].rows = pipe[r].rows
  BY <1>3, <1>5
<1>7. \A S : Settled(S, pipe) => Settled(S, pipe')
  BY <1>6, SettledStays
<1>8. Settled(clean', pipe') /\ Settled(exported', pipe')
  BY <1>3, <1>7 DEF WholeInv
<1>9. \A r \in Pipelines : Settled(pipe'[r].deleted, pipe') /\ WholeClusters(pipe'[r].rows)
  BY <1>2, <1>5, <1>7 DEF WholeInv
<1> QED BY <1>8, <1>9 DEF WholeInv

LEMMA CommitKeepsWhole == ASSUME WholeInv, CleanInv', NEW p \in Pipelines, Commit(p) PROVE WholeInv'
<1>1. /\ pipe[p].pc = "commit" /\ clean' = (clean \ pipe[p].deleted) \cup pipe[p].rows
      /\ pipe' = [pipe EXCEPT ![p].pc = "done"] /\ UNCHANGED exported
  BY DEF Commit
<1>2. /\ pipe'[p].pc = "done" /\ pipe'[p].rows = pipe[p].rows /\ pipe'[p].deleted = pipe[p].deleted
      /\ \A r \in Pipelines \ {p} : pipe'[r] = pipe[r]
  BY <1>1 DEF WholeInv, CleanInv, PipeOK
<1>3. \A r \in Pipelines : pipe[r].pc = "done" => pipe'[r].pc = "done" /\ pipe'[r].rows = pipe[r].rows
  BY <1>2
<1>4. \A S : Settled(S, pipe) => Settled(S, pipe')
  BY <1>3, SettledStays
<1>5. \A r \in Pipelines : \A c \in pipe[r].rows : c.by = r
  BY RowsAreOwn DEF WholeInv
<1>6. Settled(clean \ pipe[p].deleted, pipe)
  BY <1>5, SettledWithout DEF WholeInv
<1>7. PICK S : S = clean \ pipe[p].deleted
  OBVIOUS
<1>8. Settled(S \cup pipe'[p].rows, pipe')
  <2>1. Settled(S, pipe')
    BY <1>4, <1>6, <1>7
  <2>2. \A c \in pipe'[p].rows : c.by = p
    BY <1>2, <1>5
  <2> QED BY <1>2, <2>1, <2>2, SettledWith
<1>9. Settled(clean', pipe')
  BY <1>1, <1>2, <1>7, <1>8
<1>10. Settled(exported', pipe')
  BY <1>1, <1>4 DEF WholeInv
<1>11. \A r \in Pipelines : Settled(pipe'[r].deleted, pipe') /\ WholeClusters(pipe'[r].rows)
  BY <1>2, <1>4 DEF WholeInv
<1> QED BY <1>9, <1>10, <1>11 DEF WholeInv

\* The other steps of a run leave the rows it has made, and it may see the table to delete.
LEMMA RunsOnKeepsWhole ==
  ASSUME WholeInv, CleanInv', NEW p \in Pipelines, BeginPipeline(p) \/ PipelineFails(p)
  PROVE  WholeInv'
<1>1. UNCHANGED <<clean, exported>> /\ pipe[p].pc # "done"
  BY DEF BeginPipeline, PipelineFails, PipeBusy
<1>2. \A r \in Pipelines :
        /\ pipe'[r].rows = pipe[r].rows
        /\ r # p => pipe'[r].pc = pipe[r].pc
        /\ pipe'[r].deleted = pipe[r].deleted \/ pipe'[r].deleted = clean \/ pipe'[r].deleted = {}
  <2>1. CASE BeginPipeline(p)
    <3>1. pipe' = Begin(p, "fetch", IF p \in Rebuilds THEN clean ELSE {})
      BY <2>1 DEF BeginPipeline
    <3> QED BY <3>1 DEF Begin, WholeInv, CleanInv, PipeOK
  <2>2. CASE PipelineFails(p)
    <3>1. pipe' = [pipe EXCEPT ![p].pc = "failed"]
      BY <2>2 DEF PipelineFails
    <3> QED BY <3>1 DEF WholeInv, CleanInv, PipeOK
  <2> QED BY <2>1, <2>2
<1>3. \A r \in Pipelines : pipe[r].pc = "done" => pipe'[r].pc = "done" /\ pipe'[r].rows = pipe[r].rows
  BY <1>1, <1>2
<1>4. \A S : Settled(S, pipe) => Settled(S, pipe')
  BY <1>3, SettledStays
<1>5. Settled(clean', pipe') /\ Settled(exported', pipe')
  BY <1>1, <1>4 DEF WholeInv
<1>6. Settled({}, pipe')
  BY DEF Settled
<1>7. \A r \in Pipelines : Settled(pipe'[r].deleted, pipe') /\ WholeClusters(pipe'[r].rows)
  BY <1>2, <1>4, <1>6 DEF WholeInv
<1> QED BY <1>5, <1>7 DEF WholeInv

LEMMA InitWhole == Init => WholeInv
<1> SUFFICES ASSUME Init PROVE WholeInv
  OBVIOUS
<1>1. clean = {} /\ exported = {} /\ \A p \in Pipelines : pipe[p].deleted = {} /\ pipe[p].rows = {}
  BY DEF Init
<1>2. Settled({}, pipe) /\ WholeClusters({})
  BY DEF Settled, WholeClusters
<1> QED BY <1>1, <1>2, InitClean DEF WholeInv

LEMMA StepKeepsWhole == WholeInv /\ [Next]_vars => WholeInv'
<1> SUFFICES ASSUME WholeInv, [Next]_vars PROVE WholeInv'
  OBVIOUS
<1>1. CleanInv'
  BY StepKeepsClean DEF WholeInv
<1>2. CASE UNCHANGED <<clean, pipe>> /\ (exported' = exported \/ exported' = clean)
  BY <1>1, <1>2 DEF WholeInv
<1>3. CASE \E p \in Pipelines : BeginPipeline(p) \/ Fetch(p) \/ Commit(p) \/ PipelineFails(p)
  BY <1>1, <1>3, FetchKeepsWhole, CommitKeepsWhole, RunsOnKeepsWhole
<1>4. CASE StoreListing \/ (\E l \in DOMAIN raw : UpdateListing(l)) \/ Export
  BY <1>2, <1>4 DEF StoreListing, UpdateListing, Export
<1>5. CASE \E s \in Syncs : ReadRows(s) \/ PostBatch(s) \/ PostFails(s) \/ AnswerLost(s) \/ SyncBreaks(s)
  BY <1>2, <1>5 DEF ReadRows, PostBatch, PostFails, AnswerLost, SyncBreaks
<1>6. CASE UNCHANGED vars
  BY <1>2, <1>6 DEF vars
<1> QED BY <1>3, <1>4, <1>5, <1>6 DEF Next

\* In the table and in every export a clean row stands with all rows of its cluster, built
\* around one of them, and two rows of a run that are one home are not both without one.
THEOREM ClustersAreWholeCorrect == Spec => []ClustersAreWhole
<1>1. WholeInv => ClustersAreWhole
  <2> SUFFICES ASSUME WholeInv PROVE ClustersAreWhole
    OBVIOUS
  <2>1. \A p \in Pipelines : WholeClusters(pipe[p].rows) /\ \A c \in pipe[p].rows : c.by = p
    BY RowsAreOwn DEF WholeInv
  <2>2. WholeClusters(clean) /\ WholeClusters(exported)
    BY <2>1, SettledIsWhole DEF WholeInv
  <2> QED BY <2>2 DEF ClustersAreWhole
<1> QED BY InitWhole, StepKeepsWhole, <1>1, PTL DEF Spec

-----------------------------------------------------------------------------
(* Lemmas: the synchronisation *)

LEMMA SyncFacts ==
  ASSUME ArchiveInv, NEW s \in Syncs
  PROVE  /\ sync[s] \in Sync /\ sync[s].pc \in {"idle", "post", "done", "failed"}
         /\ sync[s].rows \in Seq([listing : Listings, row : RawRow])
         /\ DOMAIN sync[s].rows = 1 .. Len(sync[s].rows) /\ Len(sync[s].rows) \in Nat
         /\ sync[s].next \in Nat /\ sync[s].errors \in Nat /\ sync[s].alone \in BOOLEAN
         /\ \A i \in DOMAIN sync[s].rows :
              sync[s].rows[i].row \in RawRow /\ sync[s].rows[i].row.update \in Nat
         /\ ReadOnce(s) /\ SyncApart(s)
<1>1. sync[s] \in Sync /\ ReadOnce(s) /\ SyncApart(s)
  BY DEF ArchiveInv
<1>2. sync[s].rows \in Seq([listing : Listings, row : RawRow])
  BY <1>1 DEF Sync
<1>3. DOMAIN sync[s].rows = 1 .. Len(sync[s].rows) /\ Len(sync[s].rows) \in Nat
  BY <1>2
<1>4. \A i \in DOMAIN sync[s].rows : sync[s].rows[i] \in [listing : Listings, row : RawRow]
  <2> DEFINE Pair == [listing : Listings, row : RawRow]
  <2>1. sync[s].rows \in Seq(Pair)
    BY <1>2
  <2> HIDE DEF Pair
  <2>2. \A i \in DOMAIN sync[s].rows : sync[s].rows[i] \in Pair
    BY <2>1
  <2>3. QED
    BY <2>2 DEF Pair
<1>5. \A i \in DOMAIN sync[s].rows :
        sync[s].rows[i].row \in RawRow /\ sync[s].rows[i].row.update \in Nat
  BY <1>4 DEF RawRow
<1>6. QED
  BY <1>1, <1>2, <1>3, <1>5 DEF Sync

\* A batch holds the rows from the next one on, at least one.
LEMMA BatchHolds ==
  ASSUME ArchiveInv, NEW s \in Syncs, SyncBusy(s)
  PROVE  /\ Len(Batch(s)) \in Nat \ {0}
         /\ \A i \in DOMAIN sync[s].rows :
              sync[s].next =< i /\ i < sync[s].next + BatchSize => sync[s].rows[i] \in ToSet(Batch(s))
         /\ \A x \in ToSet(Batch(s)) : \E i \in DOMAIN sync[s].rows :
              sync[s].next =< i /\ x = sync[s].rows[i]
<1> DEFINE Pair == [listing : Listings, row : RawRow]
           rows == sync[s].rows
           next == sync[s].next
           last == Min({next + BatchSize - 1, Len(rows)})
<1>1. next \in Nat \ {0} /\ Len(rows) \in Nat /\ next =< Len(rows) /\ BatchSize \in Nat \ {0}
  BY SyncFacts, BatchSizeAssumption DEF SyncBusy, ReadOnce
<1>2. rows \in Seq(Pair) /\ DOMAIN rows = 1 .. Len(rows)
  BY SyncFacts
<1>3. Batch(s) = SubSeq(rows, next, last)
  BY DEF Batch
<1> HIDE DEF Pair, rows, next
<1>4. \A a, b \in Nat : Min({a, b}) = IF a =< b THEN a ELSE b
  BY DEF Min
<1>5. next + BatchSize - 1 \in Nat
  BY <1>1
<1>6. /\ last \in Nat /\ last =< Len(rows) /\ next =< last
      /\ last = next + BatchSize - 1 \/ last = Len(rows)
  BY <1>1, <1>4, <1>5
<1> HIDE DEF last
<1>7. /\ SubSeq(rows, next, last) \in Seq(Pair)
      /\ Len(SubSeq(rows, next, last)) = last - next + 1
      /\ \A j \in 1 .. (last - next + 1) : SubSeq(rows, next, last)[j] = rows[next + j - 1]
  <2>1. next \in Int /\ last \in Int /\ next =< last /\ \A i \in next .. last : rows[i] \in Pair
    <3>1. next \in Nat \ {0} /\ last \in Nat /\ next =< last /\ last =< Len(rows) /\ Len(rows) \in Nat
      BY <1>1, <1>6
    <3>2. \A i \in next .. last : i \in 1 .. Len(rows)
      BY <3>1
    <3>3. \A i \in 1 .. Len(rows) : rows[i] \in Pair
      BY <1>2
    <3> QED BY <3>1, <3>2, <3>3
  <2>2. /\ SubSeq(rows, next, last) \in Seq(Pair)
        /\ Len(SubSeq(rows, next, last)) = IF next =< last THEN last - next + 1 ELSE 0
        /\ \A i \in 1 .. last - next + 1 : SubSeq(rows, next, last)[i] = rows[next + i - 1]
    BY <2>1, SubSeqProperties
  <2> QED BY <2>1, <2>2
<1>8. DOMAIN Batch(s) = 1 .. (last - next + 1)
  BY <1>3, <1>7
<1>9. Len(Batch(s)) \in Nat \ {0}
  BY <1>1, <1>3, <1>6, <1>7
<1>10. ASSUME NEW i \in DOMAIN rows, next =< i, i < next + BatchSize
       PROVE  rows[i] \in ToSet(Batch(s))
  <2>0. i \in Nat /\ i =< Len(rows)
    BY <1>1, <1>2
  <2>1. i \in Nat /\ i =< last
    BY <2>0, <1>1, <1>6, <1>10
  <2>2. i - next + 1 \in 1 .. (last - next + 1) /\ next + (i - next + 1) - 1 = i
    BY <2>1, <1>1, <1>6, <1>10
  <2>3. Batch(s)[i - next + 1] = rows[i]
    BY <2>2, <1>3, <1>7
  <2>4. QED
    BY <2>2, <2>3, <1>8 DEF ToSet
<1>11. ASSUME NEW x \in ToSet(Batch(s))
       PROVE  \E i \in DOMAIN rows : next =< i /\ x = rows[i]
  <2>1. PICK j \in 1 .. (last - next + 1) : x = Batch(s)[j]
    BY <1>8, <1>11 DEF ToSet
  <2>2. x = rows[next + j - 1]
    BY <2>1, <1>3, <1>7
  <2>3. next + j - 1 \in 1 .. Len(rows) /\ next =< next + j - 1
    BY <2>1, <1>1, <1>6
  <2>4. QED
    BY <2>2, <2>3, <1>2
<1>12. QED
  BY <1>9, <1>10, <1>11 DEF rows, next

LEMMA BatchStored ==
  ASSUME ArchiveInv, NEW s \in Syncs, SyncBusy(s), archive' = Upserted(s)
  PROVE  /\ archive' \in [DOMAIN archive' -> RawRow]
         /\ DOMAIN archive \subseteq DOMAIN archive'
         /\ \A i \in DOMAIN sync[s].rows :
              sync[s].next =< i /\ i < sync[s].next + BatchSize =>
                LET x == sync[s].rows[i]
                IN x.listing \in DOMAIN archive' /\ archive'[x.listing] = x.row
         /\ \A l \in DOMAIN archive' :
              \/ l \in DOMAIN archive /\ archive'[l] = archive[l]
              \/ \E i \in DOMAIN sync[s].rows :
                    sync[s].rows[i].listing = l /\ archive'[l] = sync[s].rows[i].row
<1> DEFINE rows == sync[s].rows
           L == {x.listing : x \in ToSet(Batch(s))}
           chosen(l) == CHOOSE x \in ToSet(Batch(s)) : x.listing = l
<1>1. archive' = [l \in DOMAIN archive \cup L |-> IF l \in L THEN chosen(l).row ELSE archive[l]]
  BY DEF Upserted
<1>2. \A l \in L : chosen(l) \in ToSet(Batch(s)) /\ chosen(l).listing = l
  OBVIOUS
<1> HIDE DEF chosen
<1>3. /\ DOMAIN archive' = L \cup DOMAIN archive
      /\ \A l \in L : archive'[l] = chosen(l).row
      /\ \A l \in DOMAIN archive \ L : archive'[l] = archive[l]
  BY <1>1
<1>4. archive' = [l \in DOMAIN archive' |-> archive'[l]]
  BY <1>1
<1> HIDE DEF L
<1>5. \A l \in L : \E i \in DOMAIN rows : rows[i].listing = l /\ archive'[l] = rows[i].row
  BY <1>2, <1>3, BatchHolds
<1>6. ASSUME NEW i \in DOMAIN rows, sync[s].next =< i, i < sync[s].next + BatchSize
      PROVE  rows[i].listing \in DOMAIN archive' /\ archive'[rows[i].listing] = rows[i].row
  <2>1. rows[i] \in ToSet(Batch(s))
    BY <1>6, BatchHolds
  <2>2. rows[i].listing \in L
    BY <2>1 DEF L
  <2>3. PICK k \in DOMAIN rows : /\ rows[k].listing = rows[i].listing
                              /\ archive'[rows[i].listing] = rows[k].row
    BY <2>2, <1>5
  <2>4. k = i
    BY <2>3, SyncFacts DEF ReadOnce
  <2>5. QED
    BY <2>2, <2>3, <2>4, <1>3
<1>7. \A l \in DOMAIN archive' : archive'[l] \in RawRow
  BY <1>3, <1>5, SyncFacts DEF ArchiveInv
<1>8. archive' \in [DOMAIN archive' -> RawRow]
  BY <1>4, <1>7
<1>9. QED
  BY <1>3, <1>5, <1>6, <1>8

\* A batch goes out: what was archived is replaced by nothing earlier, if no other
\* synchronisation is under way.
LEMMA BatchDone ==
  ASSUME ArchiveInv, NEW s \in Syncs, SyncBusy(s), NEW e \in Nat, sync' = AfterBatch(s, e),
         UNCHANGED raw, archive' = Upserted(s) \/ (UNCHANGED archive /\ e # 0)
  PROVE  ArchiveInv'
<1> DEFINE rows == sync[s].rows
           next == sync[s].next + BatchSize
           pc == IF next > Len(rows) THEN "done" ELSE "post"
<1>1. /\ sync[s].pc = "post" /\ next \in Nat /\ next >= 1 /\ Len(rows) \in Nat
      /\ sync[s].errors + e \in Nat /\ (sync[s].errors + e = 0 => sync[s].errors = 0 /\ e = 0)
      /\ DOMAIN rows = 1 .. Len(rows)
  BY SyncFacts, BatchSizeAssumption DEF SyncBusy, ReadOnce
<1>2. sync' = [sync EXCEPT ![s].next = next, ![s].errors = sync[s].errors + e, ![s].pc = pc]
  BY DEF AfterBatch
<1> DEFINE x == [sync[s] EXCEPT !.next = next, !.errors = sync[s].errors + e, !.pc = pc]
<1>3. sync' = [sync EXCEPT ![s] = x]
  BY <1>2 DEF ArchiveInv
<1>4. pc \in {"post", "done"} /\ (pc = "post" => next =< Len(rows)) /\ (pc = "done" => next > Len(rows))
  BY <1>1
<1> HIDE DEF pc, next
<1>5. /\ x \in Sync /\ x.pc = pc /\ x.next = next /\ x.rows = rows
      /\ x.errors = sync[s].errors + e /\ x.alone = sync[s].alone
  BY <1>1, <1>4, SyncFacts DEF Sync
<1> HIDE DEF x, rows
<1>6. /\ sync' \in [Syncs -> Sync] /\ sync'[s] = x
      /\ \A t \in Syncs \ {s} : sync'[t] = sync[t]
  BY <1>3, <1>5 DEF ArchiveInv
<1>7. rows' = rows
  BY <1>5, <1>6 DEF rows
<1>8. \A i, j \in DOMAIN rows : rows[i].listing = rows[j].listing => i = j
  BY SyncFacts DEF ReadOnce, rows
<1>9. /\ archive' \in [DOMAIN archive' -> RawRow] /\ DOMAIN archive \subseteq DOMAIN archive'
      /\ \A l \in DOMAIN archive' :
           \/ l \in DOMAIN archive /\ archive'[l] = archive[l]
           \/ \E i \in DOMAIN rows : rows[i].listing = l /\ archive'[l] = rows[i].row
  BY BatchStored DEF ArchiveInv, rows
<1>10. ASSUME e = 0, NEW i \in DOMAIN rows, sync[s].next =< i, i < next
      PROVE  rows[i].listing \in DOMAIN archive' /\ archive'[rows[i].listing] = rows[i].row
  BY <1>10, BatchStored DEF rows, next
<1>11. Behind'
  BY <1>9, SyncFacts DEF ArchiveInv, Behind, ReadOnce, rows
<1>12. \A t \in Syncs : ReadOnce(t)'
  <2>1. ReadOnce(s)'
    <3>1. \A i \in DOMAIN rows : /\ rows[i].listing \in DOMAIN raw
                                 /\ rows[i].row.update =< raw[rows[i].listing].update
      BY SyncFacts DEF ReadOnce, rows
    <3>2. /\ sync'[s].next = next /\ sync'[s].pc = pc /\ sync'[s].rows = rows
          /\ \A i, j \in DOMAIN rows : rows[i].listing = rows[j].listing => i = j
      BY <1>5, <1>6, <1>8
    <3>3. next >= 1 /\ pc # "idle" /\ (pc = "post" => next =< Len(rows)) /\ raw' = raw
      BY <1>1, <1>4
    <3> QED BY <3>1, <3>2, <3>3 DEF ReadOnce
  <2>2. \A t \in Syncs \ {s} : ReadOnce(t)'
    BY <1>6 DEF ArchiveInv, ReadOnce
  <2>3. QED
    BY <2>1, <2>2
<1>13. \A t \in Syncs : SyncApart(t)'
  <2>1. \A t \in Syncs : SyncBusy(t)' => SyncBusy(t)
    BY <1>1, <1>6 DEF SyncBusy
  <2>2. \A t \in Syncs : sync'[t].alone = sync[t].alone
    BY <1>5, <1>6
  <2>3. QED
    BY <2>1, <2>2 DEF ArchiveInv, SyncApart
<1>14. ASSUME AllAlone' PROVE \A t \in Syncs : Posted(t)'
  <2>1. AllAlone
    BY <1>5, <1>6, <1>14 DEF AllAlone
  <2>2. \A t \in Syncs : Posted(t)
    BY <2>1 DEF ArchiveInv
  <2>3. \A i \in DOMAIN rows : NothingLater(rows[i])
    BY <1>1, <2>2 DEF Posted, rows
  <2>4. \A l \in DOMAIN archive : l \in DOMAIN archive' /\ archive'[l].update >= archive[l].update
    <3> SUFFICES ASSUME NEW l \in DOMAIN archive PROVE archive'[l].update >= archive[l].update
      BY <1>9
    <3>1. archive[l].update \in Nat /\ archive'[l].update \in Nat
      BY <1>9 DEF ArchiveInv, RawRow
    <3>2. CASE archive'[l] = archive[l]
      BY <3>1, <3>2
    <3>3. CASE \E i \in DOMAIN rows : rows[i].listing = l /\ archive'[l] = rows[i].row
      BY <3>1, <3>3, <2>3 DEF NothingLater
    <3>4. QED
      BY <1>9, <3>2, <3>3
  <2>5. Posted(s)'
    <3>1. ASSUME NEW i \in DOMAIN rows PROVE NothingLater(rows[i])'
      <4>1. rows[i].row.update \in Nat
        BY SyncFacts DEF rows
      <4>2. ASSUME rows[i].listing \in DOMAIN archive'
            PROVE  archive'[rows[i].listing].update =< rows[i].row.update
        <5>1. CASE /\ rows[i].listing \in DOMAIN archive
                   /\ archive'[rows[i].listing] = archive[rows[i].listing]
          BY <5>1, <2>3 DEF NothingLater
        <5>2. CASE \E k \in DOMAIN rows : /\ rows[k].listing = rows[i].listing
                                        /\ archive'[rows[i].listing] = rows[k].row
          BY <5>2, <4>1, <1>8
        <5>3. QED
          BY <4>2, <5>1, <5>2, <1>9
      <4>3. QED
        BY <4>2, <1>7 DEF NothingLater
    <3>2. ASSUME sync[s].errors + e = 0, NEW i \in DOMAIN rows,
                 pc = "done" \/ (pc = "post" /\ i < next)
          PROVE  Archived(rows[i])'
      <4>1. rows[i].row.update \in Nat /\ i \in Nat /\ sync[s].next \in Nat
        BY SyncFacts DEF rows
      <4>2. i < next
        BY <3>2, <4>1, <1>1, <1>4
      <4>3. CASE sync[s].next =< i
        BY <4>1, <4>2, <4>3, <3>2, <1>1, <1>10, <1>7 DEF Archived
      <4>4. CASE i < sync[s].next
        <5>1. Archived(rows[i])
          BY <4>4, <3>2, <1>1, <2>2 DEF Posted, rows
        <5>2. /\ archive[rows[i].listing].update \in Nat
              /\ archive'[rows[i].listing].update \in Nat
          BY <5>1, <1>9 DEF ArchiveInv, RawRow, Archived
        <5>3. QED
          BY <5>1, <5>2, <4>1, <2>4, <1>7 DEF Archived
      <4>5. QED
        BY <4>1, <4>3, <4>4
    <3>3. QED
      BY <3>1, <3>2, <1>5, <1>6, <1>7 DEF Posted
  <2>6. ASSUME NEW t \in Syncs \ {s} PROVE Posted(t)'
    <3>1. sync[t].pc # "post"
      BY <1>1, <2>1 DEF ArchiveInv, SyncApart, SyncBusy, AllAlone
    <3>2. ASSUME NEW i \in DOMAIN sync[t].rows, Archived(sync[t].rows[i])
          PROVE  Archived(sync[t].rows[i])'
      <4>1. sync[t].rows[i].row.update \in Nat
        BY SyncFacts
      <4>2. /\ archive[sync[t].rows[i].listing].update \in Nat
            /\ archive'[sync[t].rows[i].listing].update \in Nat
        BY <3>2, <1>9 DEF ArchiveInv, RawRow, Archived
      <4>3. QED
        BY <3>2, <4>1, <4>2, <2>4, <1>6 DEF Archived
    <3>3. QED
      BY <3>1, <3>2, <2>2, <1>6 DEF Posted
  <2>7. QED
    BY <2>5, <2>6
<1>15. QED
  BY <1>6, <1>9, <1>11, <1>12, <1>13, <1>14 DEF ArchiveInv, RawOK

LEMMA ReadRowsKeeps == ASSUME ArchiveInv, NEW s \in Syncs, ReadRows(s) PROVE ArchiveInv'
<1> DEFINE W == {l \in DOMAIN raw : Archivable(l)}
           others == {t \in Syncs \ {s} : SyncBusy(t)}
           Pair == [listing : Listings, row : RawRow]
           Rows(ids) == [i \in DOMAIN ids |-> [listing |-> ids[i], row |-> raw[ids[i]]]]
<1>1. PICK ids \in SetToSeqs(W) :
        sync' = [t \in Syncs |->
          IF t = s
          THEN [sync[s] EXCEPT !.pc = IF Rows(ids) = <<>> THEN "done" ELSE "post",
                               !.rows = Rows(ids), !.alone = others = {}]
          ELSE [sync[t] EXCEPT !.alone = sync[t].alone /\ t \notin others]]
  BY DEF ReadRows
<1>2. sync[s].pc = "idle" /\ UNCHANGED <<raw, archive>>
  BY DEF ReadRows
<1> DEFINE rows == Rows(ids)
           pc == IF rows = <<>> THEN "done" ELSE "post"
           alone == others = {}
           x == [sync[s] EXCEPT !.pc = pc, !.rows = rows, !.alone = alone]
<1>3. ids \in Seq(W) /\ \A i, j \in DOMAIN ids : ids[i] = ids[j] => i = j
  <2>1. IsFiniteSet(W)
    BY RawFacts, FS_Subset DEF ArchiveInv
  <2>2. QED
    BY <2>1, InSomeOrder
<1>4. /\ DOMAIN rows = DOMAIN ids /\ Len(ids) \in Nat /\ DOMAIN ids = 1 .. Len(ids)
      /\ \A i \in DOMAIN ids : rows[i].listing = ids[i] /\ rows[i].row = raw[ids[i]]
  BY <1>3
<1>5. \A i \in DOMAIN ids : ids[i] \in W
  BY <1>3
<1>6. \A i \in DOMAIN ids : rows[i] \in Pair
  BY <1>5, RawFacts DEF ArchiveInv
<1> HIDE DEF W, Pair
<1>7. rows \in Seq(Pair) /\ Len(rows) = Len(ids)
  <2>1. rows \in [1 .. Len(ids) -> Pair]
    BY <1>4, <1>6
  <2> HIDE DEF rows
  <2>2. QED
    BY <2>1, <1>4
<1>8. rows # <<>> => Len(rows) >= 1
  BY <1>4, <1>7
<1>9. DOMAIN rows = 1 .. Len(rows)
  BY <1>4, <1>7
<1>10. \A i \in DOMAIN rows :
         rows[i].listing \in DOMAIN raw /\ rows[i].row = raw[rows[i].listing]
  BY <1>4, <1>5 DEF W
<1>11. \A i, j \in DOMAIN rows : rows[i].listing = rows[j].listing => i = j
  BY <1>3, <1>4
<1>12. sync' = [t \in Syncs |-> IF t = s THEN x
                             ELSE [sync[t] EXCEPT !.alone = sync[t].alone /\ t \notin others]]
  BY <1>1
<1> HIDE DEF rows, alone
<1>13. pc \in {"post", "done"} /\ (pc = "post" => rows # <<>>) /\ (pc = "done" => rows = <<>>)
       /\ alone \in BOOLEAN
  BY DEF alone
<1> HIDE DEF pc
<1>14. /\ x \in Sync /\ x.pc = pc /\ x.rows = rows /\ x.alone = alone
       /\ x.next = sync[s].next /\ x.errors = sync[s].errors
  BY <1>7, <1>13, SyncFacts DEF Sync, Pair
<1> HIDE DEF x
<1>15. sync'[s] = x
  BY <1>12
<1>16. \A t \in Syncs \ {s} :
         /\ sync'[t] \in Sync /\ sync'[t].pc = sync[t].pc /\ sync'[t].rows = sync[t].rows
         /\ sync'[t].next = sync[t].next /\ sync'[t].errors = sync[t].errors
         /\ sync'[t].alone = (sync[t].alone /\ t \notin others)
  <2> SUFFICES ASSUME NEW t \in Syncs \ {s}
               PROVE  LET y == sync'[t] IN
                      /\ y \in Sync /\ y.pc = sync[t].pc /\ y.rows = sync[t].rows
                      /\ y.next = sync[t].next /\ y.errors = sync[t].errors
                      /\ y.alone = (sync[t].alone /\ t \notin others)
    OBVIOUS
  <2> DEFINE both == sync[t].alone /\ t \notin others
  <2>1. sync'[t] = [sync[t] EXCEPT !.alone = both]
    BY <1>12
  <2>2. both \in BOOLEAN
    OBVIOUS
  <2> HIDE DEF both
  <2>3. QED
    <3>1. LET y == [sync[t] EXCEPT !.alone = both] IN
          /\ y \in Sync /\ y.pc = sync[t].pc /\ y.rows = sync[t].rows
          /\ y.next = sync[t].next /\ y.errors = sync[t].errors /\ y.alone = both
      BY <2>2, SyncFacts DEF Sync
    <3>2. QED
      BY <2>1, <3>1 DEF both
<1>17. sync' \in [Syncs -> Sync]
  <2>1. \A t \in Syncs : sync'[t] \in Sync
    BY <1>14, <1>15, <1>16
  <2>2. sync' = [t \in Syncs |-> sync'[t]]
    BY <1>12
  <2>3. QED
    BY <2>1, <2>2
<1>18. \A t \in Syncs : ReadOnce(t)'
  <2>1. ReadOnce(s)'
    <3>1. \A i \in DOMAIN rows : rows[i].row.update =< raw[rows[i].listing].update
      BY <1>10, RawFacts DEF ArchiveInv
    <3>2. sync[s].next = 1 /\ Len(rows) \in Nat
      BY <1>2, <1>7, SyncFacts DEF ReadOnce
    <3>3. x.next >= 1 /\ x.pc # "idle" /\ (x.pc = "post" => x.next =< Len(x.rows))
      BY <3>2, <1>8, <1>13, <1>14
    <3>4. QED
      BY <3>1, <3>3, <1>2, <1>10, <1>11, <1>14, <1>15 DEF ReadOnce
  <2>2. ASSUME NEW t \in Syncs \ {s} PROVE ReadOnce(t)'
    <3>1. ReadOnce(t)
      BY DEF ArchiveInv
    <3>2. sync'[t].pc = "idle" => sync'[t].alone /\ sync'[t].next = 1
      BY <3>1, <1>16 DEF SyncBusy, ReadOnce
    <3>3. QED
      BY <3>1, <3>2, <1>2, <1>16 DEF ReadOnce
  <2>3. QED
    BY <2>1, <2>2
<1>19. \A t \in Syncs : SyncApart(t)'
  <2>1. \A t \in Syncs \ {s} : SyncBusy(t)' => t \in others
    BY <1>16 DEF SyncBusy
  <2>2. \A t \in Syncs \ {s} : SyncBusy(t)' => ~sync'[s].alone /\ ~sync'[t].alone
    BY <2>1, <1>14, <1>15, <1>16 DEF alone
  <2>3. \A t \in Syncs \ {s} : SyncBusy(t)' => SyncBusy(t)
    BY <1>16 DEF SyncBusy
  <2>4. \A t \in Syncs \ {s} : ~sync[t].alone => ~sync'[t].alone
    BY <1>16
  <2>5. QED
    BY <2>2, <2>3, <2>4 DEF ArchiveInv, SyncApart
<1>20. ASSUME AllAlone' PROVE \A t \in Syncs : Posted(t)'
  <2>1. AllAlone
    <3>1. sync[s].alone
      BY <1>2, SyncFacts DEF ReadOnce
    <3>2. \A t \in Syncs \ {s} : sync[t].alone
      BY <1>16, <1>20 DEF AllAlone
    <3>3. QED
      BY <3>1, <3>2 DEF AllAlone
  <2>2. \A t \in Syncs \ {s} : Posted(t)'
    BY <2>1, <1>2, <1>16 DEF ArchiveInv, Posted, Archived, NothingLater
  <2>3. Posted(s)'
    <3>1. \A i \in DOMAIN rows : NothingLater(rows[i])
      BY <1>10 DEF ArchiveInv, Behind, NothingLater
    <3>2. \A i \in DOMAIN rows : ~(pc = "done") /\ ~(i < sync[s].next)
      <4>1. sync[s].next = 1
        BY <1>2, SyncFacts DEF ReadOnce
      <4>2. Len(rows) \in Nat /\ (pc = "done" => Len(rows) = 0)
        BY <1>7, <1>13
      <4>3. QED
        BY <4>1, <4>2, <1>9
    <3>3. QED
      BY <3>1, <3>2, <1>2, <1>14, <1>15 DEF Posted, NothingLater
  <2>4. QED
    BY <2>2, <2>3
<1>21. QED
  BY <1>2, <1>17, <1>18, <1>19, <1>20 DEF ArchiveInv, RawOK, Behind

LEMMA SyncBreaksKeeps == ASSUME ArchiveInv, NEW s \in Syncs, SyncBreaks(s) PROVE ArchiveInv'
<1>1. sync' = [sync EXCEPT ![s].pc = "failed"] /\ UNCHANGED <<raw, archive>> /\ SyncBusy(s)
  BY DEF SyncBreaks
<1>2. /\ sync' \in [Syncs -> Sync] /\ sync'[s].pc = "failed"
      /\ \A t \in Syncs : /\ sync'[t].rows = sync[t].rows /\ sync'[t].next = sync[t].next
                         /\ sync'[t].errors = sync[t].errors /\ sync'[t].alone = sync[t].alone
      /\ \A t \in Syncs \ {s} : sync'[t].pc = sync[t].pc
  <2> DEFINE x == [sync[s] EXCEPT !.pc = "failed"]
  <2>1. /\ x \in Sync /\ x.pc = "failed" /\ x.rows = sync[s].rows /\ x.next = sync[s].next
        /\ x.errors = sync[s].errors /\ x.alone = sync[s].alone
    BY SyncFacts DEF Sync
  <2>2. sync' = [sync EXCEPT ![s] = x]
    BY <1>1
  <2> HIDE DEF x
  <2>3. QED
    BY <2>1, <2>2 DEF ArchiveInv
<1>3. \A t \in Syncs : ReadOnce(t)' /\ SyncApart(t)'
  BY <1>1, <1>2 DEF ArchiveInv, ReadOnce, SyncApart, SyncBusy
<1>4. AllAlone' => \A t \in Syncs : Posted(t)'
  BY <1>1, <1>2 DEF ArchiveInv, AllAlone, Posted, Archived, NothingLater
<1>5. QED
  BY <1>1, <1>2, <1>3, <1>4 DEF ArchiveInv, RawOK, Behind

LEMMA ScrapesKeepArchive == ASSUME ArchiveInv, RawGrows, UNCHANGED <<sync, archive>> PROVE ArchiveInv'
<1>1. Behind'
  <2>1. \A l \in DOMAIN archive : archive[l].update \in Nat
    BY DEF ArchiveInv, RawRow
  <2>2. \A l \in DOMAIN raw : raw[l].update \in Nat
    BY RawFacts DEF ArchiveInv
  <2>3. QED
    BY <2>1, <2>2 DEF ArchiveInv, Behind, RawGrows
<1>2. \A s \in Syncs : ReadOnce(s)'
  <2> SUFFICES ASSUME NEW s \in Syncs PROVE ReadOnce(s)'
    OBVIOUS
  <2>1. \A i \in DOMAIN sync[s].rows :
          LET x == sync[s].rows[i]
          IN x.listing \in DOMAIN raw' /\ x.row.update =< raw'[x.listing].update
    BY SyncFacts, RawFacts DEF ArchiveInv, ReadOnce, RawGrows
  <2>2. QED
    BY <2>1, SyncFacts DEF ReadOnce
<1>3. \A s \in Syncs : SyncApart(s)'
  BY DEF ArchiveInv, SyncApart, SyncBusy
<1>4. AllAlone' => \A s \in Syncs : Posted(s)'
  BY DEF ArchiveInv, AllAlone, Posted, Archived, NothingLater
<1>5. QED
  BY <1>1, <1>2, <1>3, <1>4 DEF ArchiveInv, RawGrows

LEMMA ElsewhereKeepsArchive == ASSUME ArchiveInv, UNCHANGED <<raw, sync, archive>> PROVE ArchiveInv'
<1>1. RawGrows
  BY RawFacts DEF ArchiveInv, RawGrows, RawOK
<1>2. QED
  BY <1>1, ScrapesKeepArchive

LEMMA InitArchive == Init => ArchiveInv
<1> SUFFICES ASSUME Init PROVE ArchiveInv
  OBVIOUS
<1>1. raw = <<>> /\ DOMAIN archive = {} /\ archive = [l \in {} |-> 0]
  BY DEF Init
<1> DEFINE x == [pc |-> "idle", rows |-> <<>>, next |-> 1, errors |-> 0, alone |-> TRUE]
<1>2. sync = [s \in Syncs |-> x]
  BY DEF Init
<1>3. x \in Sync /\ x.pc = "idle" /\ x.rows = <<>> /\ x.next = 1 /\ x.alone = TRUE
  BY EmptySeq DEF Sync
<1> HIDE DEF x
<1>4. sync \in [Syncs -> Sync] /\ \A s \in Syncs : sync[s] = x
  BY <1>2, <1>3
<1>5. \A s \in Syncs : ReadOnce(s) /\ SyncApart(s) /\ Posted(s)
  BY <1>3, <1>4 DEF ReadOnce, SyncApart, SyncBusy, Posted
<1>6. RawOK
  BY <1>1, EmptySeq, NumListingsAssumption DEF RawOK
<1>7. archive \in [DOMAIN archive -> RawRow] /\ Behind
  BY <1>1 DEF Behind
<1>8. QED
  BY <1>4, <1>5, <1>6, <1>7 DEF ArchiveInv

LEMMA StepKeepsArchive == ArchiveInv /\ [Next]_vars => ArchiveInv'
<1> SUFFICES ASSUME ArchiveInv, [Next]_vars PROVE ArchiveInv'
  OBVIOUS
<1>1. CASE StoreListing
  BY <1>1, StoreGrows, ScrapesKeepArchive DEF ArchiveInv, StoreListing
<1>2. ASSUME NEW l \in DOMAIN raw, UpdateListing(l) PROVE ArchiveInv'
  BY <1>2, UpdateGrows, ScrapesKeepArchive DEF ArchiveInv, UpdateListing
<1>3. ASSUME NEW p \in Pipelines, BeginPipeline(p) \/ Fetch(p) \/ Commit(p) \/ PipelineFails(p)
      PROVE  ArchiveInv'
  BY <1>3, ElsewhereKeepsArchive DEF BeginPipeline, Fetch, Commit, PipelineFails
<1>4. CASE Export
  BY <1>4, ElsewhereKeepsArchive DEF Export
<1>5. ASSUME NEW s \in Syncs, PostBatch(s) \/ PostFails(s) \/ AnswerLost(s) PROVE ArchiveInv'
  <2>1. SyncBusy(s) /\ UNCHANGED raw
    BY <1>5 DEF PostBatch, PostFails, AnswerLost
  <2>2. Len(Batch(s)) \in Nat \ {0}
    BY <2>1, BatchHolds
  <2>3. CASE PostBatch(s)
    <3>1. sync' = AfterBatch(s, 0) /\ archive' = Upserted(s)
      BY <2>3 DEF PostBatch
    <3>2. QED
      BY <2>1, <3>1, BatchDone
  <2>4. CASE PostFails(s) \/ AnswerLost(s)
    <3>1. /\ sync' = AfterBatch(s, Len(Batch(s)))
          /\ archive' = Upserted(s) \/ UNCHANGED archive
      BY <2>4 DEF PostFails, AnswerLost
    <3>2. QED
      BY <2>1, <2>2, <3>1, BatchDone
  <2>5. QED
    BY <1>5, <2>3, <2>4
<1>6. ASSUME NEW s \in Syncs, ReadRows(s) \/ SyncBreaks(s) PROVE ArchiveInv'
  BY <1>6, ReadRowsKeeps, SyncBreaksKeeps
<1>7. CASE UNCHANGED vars
  BY <1>7, ElsewhereKeepsArchive DEF vars
<1>8. QED
  BY <1>1, <1>2, <1>3, <1>4, <1>5, <1>6, <1>7 DEF Next

LEMMA ArchiveInvariant == Spec => []ArchiveInv
  BY InitArchive, StepKeepsArchive, PTL DEF Spec

\* sync_to_supabase: while synchronisations do not overlap, one that reports no error has
\* archived every row that qualified when it read, as it was then or later.
THEOREM ArchiveFreshCorrect == Spec => []ArchiveFresh
<1>1. ArchiveInv => ArchiveFresh
  <2> SUFFICES ASSUME ArchiveInv, AllAlone, NEW s \in Syncs, sync[s].pc = "done", sync[s].errors = 0,
                      NEW x \in ToSet(sync[s].rows)
               PROVE  x.listing \in DOMAIN archive /\ archive[x.listing].update >= x.row.update
    BY DEF ArchiveFresh, AllAlone
  <2>1. PICK i \in DOMAIN sync[s].rows : x = sync[s].rows[i]
    BY DEF ToSet
  <2>2. Archived(x)
    BY <2>1 DEF ArchiveInv, Posted
  <2>3. QED
    BY <2>2 DEF Archived
<1>2. QED
  BY <1>1, ArchiveInvariant, PTL

-----------------------------------------------------------------------------
(* Prices and scores *)

\* Within its scales whatever is absent or odd.
LEMMA CompletenessInScale == ASSUME NEW d PROVE CalculateCompleteness(d) \in 0 .. 100
<1> DEFINE W(n, filled) == IF filled THEN n ELSE 0
<1>1. /\ FieldWeights["property_type"] = 10 /\ FieldWeights["operation"] = 5
      /\ FieldWeights["municipality"] = 8 /\ FieldWeights["neighborhood"] = 7
      /\ FieldWeights["bedrooms"] = 8 /\ FieldWeights["construction"] = 10
      /\ FieldWeights["land"] = 5 /\ FieldWeights["rest"] = 23
  BY DEF FieldWeights
<1>2. CalculateCompleteness(d) =
        W(10, d["property_type"] # Absent) + W(5, d["operation"] # Absent) +
        W(8, d["municipality"] # Absent) + W(7, d["neighborhood"] # Absent) +
        W(8, d["bedrooms"] # 0) + W(10, d["construction"] # 0) + W(5, d["land"] # 0) + W(23, d["rest"] # 0)
  BY <1>1 DEF CalculateCompleteness
<1>3. \A n \in 0 .. 100 : \A filled : W(n, filled) \in 0 .. n
  OBVIOUS
<1> HIDE DEF W
<1>4. /\ W(10, d["property_type"] # Absent) \in 0 .. 10 /\ W(5, d["operation"] # Absent) \in 0 .. 5
      /\ W(8, d["municipality"] # Absent) \in 0 .. 8 /\ W(7, d["neighborhood"] # Absent) \in 0 .. 7
      /\ W(8, d["bedrooms"] # 0) \in 0 .. 8 /\ W(10, d["construction"] # 0) \in 0 .. 10
      /\ W(5, d["land"] # 0) \in 0 .. 5 /\ W(23, d["rest"] # 0) \in 0 .. 23
  BY <1>3
<1> QED BY <1>2, <1>4

LEMMA QualityInScale == ASSUME NEW d PROVE CalculateQuality(d) \in 0 .. 100
<1> DEFINE P(n, applies) == IF applies THEN n ELSE 0
           a == P(20, d.operation = <<"venta">> /\ d.price_mxn < 100000)
           b == P(10, d.operation = <<"renta">> /\ d.price_mxn > 1000000)
           c == P(15, d.land > 0 /\ d.construction > 5 * d.land)
           e == P(10, d.price_per_m2 # 0 /\ (d.price_per_m2 < 2000 \/ d.price_per_m2 > 300000))
           f == P(8, d.rest = 0)
           g == P(15, TRUE)
           h == P(15, d.price_mxn = 0)
<1>1. CalculateQuality(d) = 100 - a - b - c - e - f - g - h
  BY DEF CalculateQuality
<1>2. /\ a \in 0 .. 20 /\ b \in 0 .. 10 /\ c \in 0 .. 15 /\ e \in 0 .. 10 /\ f \in 0 .. 8
      /\ g \in 0 .. 15 /\ h \in 0 .. 15
  <2>1. \A n \in 0 .. 100 : \A applies : P(n, applies) \in 0 .. n
    OBVIOUS
  <2>0. g \in 0 .. 15
    OBVIOUS
  <2> HIDE DEF P
  <2>2. a \in 0 .. 20
    BY <2>1
  <2>3. b \in 0 .. 10 /\ e \in 0 .. 10
    BY <2>1
  <2>4. c \in 0 .. 15
    BY <2>1
  <2>6. h \in 0 .. 15
    BY <2>1
  <2>5. f \in 0 .. 8
    BY <2>1
  <2> HIDE DEF a, b, c, e, f, g, h
  <2> QED BY <2>0, <2>2, <2>3, <2>4, <2>5, <2>6
<1> HIDE DEF a, b, c, e, f, g, h
<1> QED BY <1>1, <1>2

\* A price is tested once it is in pesos.
LEMMA PriceInBounds ==
  ASSUME NEW price \in Int, NEW currency, NEW operation,
         NormalizePrice(price, currency, operation) # NoPrice
  PROVE  /\ NormalizePrice(price, currency, operation).mxn > 0
         /\ Plausible(NormalizePrice(price, currency, operation).mxn, operation)
<1> DEFINE both == Converted(price, currency)
<1>1. price > 0 /\ Plausible(both.mxn, operation) /\ NormalizePrice(price, currency, operation) = both
  BY DEF NormalizePrice
<1>2. both.mxn = IF currency = "USD" THEN (price * 35) \div 2 ELSE price
  BY DEF Converted
<1>3. (price * 35) \div 2 > 0
  BY <1>1
<1>4. both.mxn > 0
  BY <1>1, <1>2, <1>3
<1> QED BY <1>1, <1>4

LEMMA ListingInScale ==
  ASSUME NEW v \in Values, Normalized[v].priced
  PROVE  /\ Normalized[v].price_mxn > 0 /\ Plausible(Normalized[v].price_mxn, Normalized[v].operation)
         /\ Normalized[v].completeness \in 0 .. 100 /\ Normalized[v].quality \in 0 .. 100
<1> DEFINE r == RawOf[v]
           state == NormalizeState(r.state)
           operation == NormalizeOperation(r.operation)
           price == NormalizePrice(r.price, r.currency, operation)
           town == NormalizeMunicipality(r.municipality, state)
           area == NormalizeNeighborhood(r.neighborhood)
           kind == NormalizePropertyType(r.property_type)
           rate == PricePerM2(price.mxn, r)
           has == price # NoPrice
           d == [state_code |-> state, municipality |-> town, neighborhood |-> area,
                 property_type |-> kind, operation |-> operation,
                 price_mxn |-> price.mxn, price_per_m2 |-> rate,
                 construction |-> r.construction, land |-> r.land, bedrooms |-> r.bedrooms,
                 rest |-> r.rest, street |-> r.street, priced |-> has,
                 completeness |-> 0, quality |-> 0]
           full == CalculateCompleteness(d)
           good == CalculateQuality(d)
<1>1. Normalized[v] = [d EXCEPT !.completeness = full, !.quality = good]
  BY DEF Normalized, NormalizeListing
<1>2. full \in 0 .. 100 /\ good \in 0 .. 100
  BY CompletenessInScale, QualityInScale
<1>3. r.price \in Int
  BY PricesAssumption
<1> HIDE DEF full, good, r, state, price, town, area, kind, rate, operation, has
<1>4. /\ Normalized[v].price_mxn = price.mxn /\ Normalized[v].operation = operation
      /\ Normalized[v].priced = has
      /\ Normalized[v].completeness = full /\ Normalized[v].quality = good
  BY <1>1
<1>5. price # NoPrice
  BY <1>4 DEF has
<1>6. price.mxn > 0 /\ Plausible(price.mxn, operation)
  BY <1>3, <1>5, PriceInBounds DEF price
<1> QED BY <1>2, <1>4, <1>6

-----------------------------------------------------------------------------
(* Types *)

PricedRow == {c \in CleanRow : Normalized[c.of.value].priced}

\* No more errors than rows posted.
ErrorsCounted(s) ==
  /\ sync[s].errors =< Len(sync[s].rows)
  /\ sync[s].pc \in {"idle", "post"} => sync[s].errors < sync[s].next

\* The inductive invariant of the types.
TypedInv ==
  /\ WholeInv /\ ArchiveInv
  /\ used \in [EnvEvents -> Nat]
  /\ \A p \in Pipelines : pipe[p].saw \in Seq(RawRow) /\ pipe[p].rows \subseteq PricedRow
  /\ \A s \in Syncs : ErrorsCounted(s)

LEMMA SpendCounts ==
  ASSUME used \in [EnvEvents -> Nat], NEW e \in EnvEvents, Spend(e) PROVE used' \in [EnvEvents -> Nat]
  BY DEF Spend

LEMMA RowsTyped ==
  ASSUME RawOK, NEW p \in Pipelines, NEW q \in SetToSeqs(Priced(p))
  PROVE  CleanRows(p, q) \subseteq PricedRow
<1>1. PICK S : S = Priced(p)
  OBVIOUS
<1>2. /\ q \in Orders /\ S \subseteq Listings \X Values /\ IsFiniteSet(S) /\ ToSet(q) = S
      /\ \A i, j \in DOMAIN q : q[i] = q[j] => i = j
      /\ \A x \in S : x[1] \in Selected(p) /\ x = <<x[1], raw[x[1]].value>>
  BY <1>1, PreparedInOrder, PreparedOnce
<1>3. PICK n \in Nat : q \in [1 .. n -> S] /\ Len(q) = n
  BY <1>1, PreparedInOrder
<1>4. \A c \in Clusters[q] : c \subseteq S
  <2>1. PICK F : F = FindDuplicates([x \in ToSet(q) |-> Entry(x)], q)
    OBVIOUS
  <2>2. Grouped([x \in ToSet(q) |-> Entry(x)], q, n, n, F)
    BY <1>2, <1>3, <2>1, FindDuplicatesGroups
  <2>3. UNION F \subseteq S
    BY <1>3, <2>2 DEF Grouped
  <2>4. Clusters[q] \subseteq F
    BY <1>2, <2>1 DEF Clusters
  <2> QED BY <2>3, <2>4
<1> DEFINE Of(x) == UNION {c \in Clusters[q] : x \in c}
           Mates(x) == {y[1] : y \in Of(x)}
           Sources(x) == Cardinality({PortalOf[y[1]] : y \in Of(x) \cup {x}})
           Row(x) == [listing |-> x[1], of |-> raw[x[1]], by |-> p, cluster |-> Mates(x),
                      sources |-> Sources(x)]
<1>5. CleanRows(p, q) = {Row(x) : x \in S}
  BY <1>2 DEF CleanRows
<1>6. ASSUME NEW x \in S PROVE Row(x) \in PricedRow
  <2>1. Of(x) \subseteq S
    BY <1>4
  <2>2. Mates(x) \subseteq Listings
    BY <1>2, <2>1
  <2>3. Sources(x) \in Nat
    <3>1. PICK f : f = Of(x) \cup {x}
      OBVIOUS
    <3>2. IsFiniteSet(f)
      BY <1>2, <2>1, <3>1, FS_Subset
    <3> DEFINE g == [y \in f |-> PortalOf[y[1]]]
               T == {PortalOf[y[1]] : y \in f}
    <3>3. g \in Surjection(f, T)
      BY DEF Surjection
    <3>4. IsFiniteSet(T)
      BY <3>2, <3>3, FS_Surjection
    <3>5. Cardinality(T) \in Nat
      BY <3>4, FS_CardinalityType
    <3> QED BY <3>1, <3>5
  <2>4. x[1] \in DOMAIN raw
    BY <1>2 DEF Selected
  <2>5. x[1] \in Listings /\ raw[x[1]] \in RawRow
    BY <2>4, RawFacts
  <2>6. Normalized[raw[x[1]].value].priced
    BY <1>1 DEF Priced
  <2> HIDE DEF Mates, Sources
  <2>7. Row(x) \in CleanRow /\ Row(x).of = raw[x[1]]
    BY <2>2, <2>3, <2>5 DEF CleanRow
  <2> HIDE DEF Row
  <2> QED BY <2>6, <2>7 DEF PricedRow
<1> HIDE DEF Row
<1> QED BY <1>5, <1>6

LEMMA PipelineTyped ==
  ASSUME TypedInv, NEW p \in Pipelines,
         BeginPipeline(p) \/ Fetch(p) \/ Commit(p) \/ PipelineFails(p)
  PROVE  /\ used' \in [EnvEvents -> Nat] /\ UNCHANGED sync
         /\ \A r \in Pipelines : pipe'[r].saw \in Seq(RawRow) /\ pipe'[r].rows \subseteq PricedRow
<1>1. PipeOK /\ RawOK
  BY DEF TypedInv, WholeInv, CleanInv
<1>2. CASE Fetch(p)
  <2>1. PICK q \in SetToSeqs(Priced(p)) :
          pipe' = [pipe EXCEPT ![p].pc = IF Selected(p) = {} THEN "done" ELSE "commit",
                               ![p].saw = raw, ![p].rows = CleanRows(p, q)]
    BY <1>2 DEF Fetch
  <2>2. CleanRows(p, q) \subseteq PricedRow
    BY <1>1, RowsTyped
  <2>3. /\ pipe'[p].saw = raw /\ pipe'[p].rows = CleanRows(p, q)
        /\ \A r \in Pipelines \ {p} : pipe'[r] = pipe[r]
    <3> DEFINE made == CleanRows(p, q)
               pc == IF Selected(p) = {} THEN "done" ELSE "commit"
    <3>1. pipe' = [pipe EXCEPT ![p].pc = pc, ![p].saw = raw, ![p].rows = made]
      BY <2>1
    <3> HIDE DEF made, pc
    <3>2. pipe'[p].saw = raw /\ pipe'[p].rows = made /\ \A r \in Pipelines \ {p} : pipe'[r] = pipe[r]
      BY <1>1, <3>1 DEF PipeOK
    <3> QED BY <3>2 DEF made
  <2>4. UNCHANGED <<used, sync>> /\ raw \in Seq(RawRow)
    BY <1>1, <1>2 DEF Fetch, RawOK
  <2> QED BY <2>2, <2>3, <2>4 DEF TypedInv
<1>3. CASE BeginPipeline(p) \/ PipelineFails(p) \/ Commit(p)
  <2>1. \A r \in Pipelines : pipe'[r].saw = pipe[r].saw /\ pipe'[r].rows = pipe[r].rows
    <3>1. CASE BeginPipeline(p)
      <4>1. pipe' = Begin(p, "fetch", IF p \in Rebuilds THEN clean ELSE {})
        BY <3>1 DEF BeginPipeline
      <4> QED BY <1>1, <4>1 DEF Begin, PipeOK
    <3>2. CASE PipelineFails(p) \/ Commit(p)
      <4>1. pipe' = [pipe EXCEPT ![p].pc = "failed"] \/ pipe' = [pipe EXCEPT ![p].pc = "done"]
        BY <3>2 DEF PipelineFails, Commit
      <4> QED BY <1>1, <4>1 DEF PipeOK
    <3> QED BY <1>3, <3>1, <3>2
  <2>2. used' \in [EnvEvents -> Nat] /\ UNCHANGED sync
    <3>1. "rebuild" \in EnvEvents /\ "commitFails" \in EnvEvents
      BY DEF EnvEvents
    <3>2. used' = used \/ Spend("rebuild") \/ Spend("commitFails")
      BY <1>3 DEF BeginPipeline, PipelineFails, Commit
    <3>3. UNCHANGED sync
      BY <1>3 DEF BeginPipeline, PipelineFails, Commit
    <3> QED BY <3>1, <3>2, <3>3, SpendCounts DEF TypedInv
  <2> QED BY <2>1, <2>2 DEF TypedInv
<1> QED BY <1>2, <1>3

\* A batch adds no more errors than it has rows.
LEMMA BatchCounts ==
  ASSUME TypedInv, NEW s \in Syncs, SyncBusy(s), NEW e \in 0 .. Len(Batch(s)), sync' = AfterBatch(s, e)
  PROVE  \A t \in Syncs : ErrorsCounted(t)'
<1> DEFINE rows == sync[s].rows
           next == sync[s].next
           last == Min({next + BatchSize - 1, Len(rows)})
           pc == IF next + BatchSize > Len(rows) THEN "done" ELSE "post"
<1>0. ArchiveInv /\ ErrorsCounted(s)
  BY DEF TypedInv
<1>1. next \in Nat \ {0} /\ Len(rows) \in Nat /\ next =< Len(rows) /\ BatchSize \in Nat \ {0}
  BY <1>0, SyncFacts, BatchSizeAssumption DEF SyncBusy, ReadOnce
<1>2. sync[s].errors \in Nat /\ sync[s].errors < next
  BY <1>0, SyncFacts DEF SyncBusy, ErrorsCounted
<1>3. \A a, b \in Nat : Min({a, b}) = IF a =< b THEN a ELSE b
  BY DEF Min
<1>4. next + BatchSize - 1 \in Nat
  BY <1>1
<1>5. last \in Nat /\ last =< Len(rows) /\ next =< last /\ last =< next + BatchSize - 1
  <2>1. last = IF next + BatchSize - 1 =< Len(rows) THEN next + BatchSize - 1 ELSE Len(rows)
    BY <1>1, <1>3, <1>4
  <2> HIDE DEF last, next, rows
  <2> QED BY <1>1, <2>1
<1>6. Len(Batch(s)) = last - next + 1
  <2> DEFINE Pair == [listing : Listings, row : RawRow]
  <2>1. rows \in Seq(Pair)
    BY <1>0, SyncFacts
  <2>2. Batch(s) = SubSeq(rows, next, last)
    BY DEF Batch
  <2> HIDE DEF rows, next, last, Pair
  <2> QED BY <1>1, <1>5, <2>1, <2>2, SubSeqProperties
<1>7. PICK m \in Nat : m = sync[s].errors + e
  BY <1>1, <1>2, <1>5, <1>6
<1>8. m =< Len(rows) /\ m < next + BatchSize
  <2> HIDE DEF last, next, rows
  <2> QED BY <1>1, <1>2, <1>5, <1>6, <1>7
<1>9. sync' = [sync EXCEPT ![s].next = next + BatchSize, ![s].errors = m, ![s].pc = pc]
  BY <1>7 DEF AfterBatch
<1> HIDE DEF pc
<1>10. /\ sync'[s].next = next + BatchSize /\ sync'[s].errors = m /\ sync'[s].rows = rows
       /\ \A t \in Syncs \ {s} : sync'[t] = sync[t]
  <2> DEFINE k == next + BatchSize
  <2>1. sync' = [sync EXCEPT ![s].next = k, ![s].errors = m, ![s].pc = pc]
    BY <1>9
  <2>2. sync \in [Syncs -> Sync]
    BY <1>0 DEF ArchiveInv
  <2> HIDE DEF k
  <2>3. /\ sync'[s].next = k /\ sync'[s].errors = m /\ sync'[s].rows = rows
        /\ \A t \in Syncs \ {s} : sync'[t] = sync[t]
    BY <2>1, <2>2 DEF Sync
  <2> QED BY <2>3 DEF k
<1>11. ErrorsCounted(s)'
  <2> HIDE DEF rows, next
  <2> QED BY <1>8, <1>10 DEF ErrorsCounted
<1>12. \A t \in Syncs \ {s} : ErrorsCounted(t)'
  BY <1>10 DEF TypedInv, ErrorsCounted
<1> QED BY <1>11, <1>12

LEMMA SyncTyped ==
  ASSUME TypedInv, NEW s \in Syncs,
         ReadRows(s) \/ PostBatch(s) \/ PostFails(s) \/ AnswerLost(s) \/ SyncBreaks(s)
  PROVE  /\ used' \in [EnvEvents -> Nat] /\ UNCHANGED pipe
         /\ \A t \in Syncs : ErrorsCounted(t)'
<1>0. sync \in [Syncs -> Sync] /\ ArchiveInv
  BY DEF TypedInv, ArchiveInv
<1>1. used' \in [EnvEvents -> Nat] /\ UNCHANGED pipe
  <2>1. {"sync", "postFails", "syncBreaks"} \subseteq EnvEvents
    BY DEF EnvEvents
  <2>2. used' = used \/ Spend("sync") \/ Spend("postFails") \/ Spend("syncBreaks")
    BY DEF ReadRows, PostBatch, PostFails, AnswerLost, SyncBreaks
  <2>3. UNCHANGED pipe
    BY DEF ReadRows, PostBatch, PostFails, AnswerLost, SyncBreaks
  <2> QED BY <2>1, <2>2, <2>3, SpendCounts DEF TypedInv
<1>2. CASE PostBatch(s) \/ PostFails(s) \/ AnswerLost(s)
  <2>1. SyncBusy(s) /\ (sync' = AfterBatch(s, 0) \/ sync' = AfterBatch(s, Len(Batch(s))))
    BY <1>2 DEF PostBatch, PostFails, AnswerLost
  <2>2. 0 \in 0 .. Len(Batch(s)) /\ Len(Batch(s)) \in 0 .. Len(Batch(s))
    BY <1>0, <2>1, BatchHolds
  <2>3. \A t \in Syncs : ErrorsCounted(t)'
    BY <2>1, <2>2, BatchCounts
  <2> QED BY <1>1, <2>3
<1>3. CASE SyncBreaks(s)
  <2>1. sync' = [sync EXCEPT ![s].pc = "failed"]
    BY <1>3 DEF SyncBreaks
  <2>2. /\ sync'[s].pc = "failed" /\ sync'[s].rows = sync[s].rows /\ sync'[s].errors = sync[s].errors
        /\ \A t \in Syncs \ {s} : sync'[t] = sync[t]
    BY <1>0, <2>1 DEF Sync
  <2>3. \A t \in Syncs : ErrorsCounted(t)'
    BY <2>2 DEF TypedInv, ErrorsCounted
  <2> QED BY <1>1, <2>3
<1>4. CASE ReadRows(s)
  <2>1. sync[s].pc = "idle" /\ sync[s].next = 1 /\ sync[s].errors = 0
    <3>1. sync[s].pc = "idle" /\ sync[s].next = 1 /\ sync[s].errors \in Nat /\ sync[s].errors < sync[s].next
      BY <1>0, <1>4, SyncFacts DEF ReadRows, ReadOnce, TypedInv, ErrorsCounted
    <3> QED BY <3>1
  <2>2. /\ sync'[s].errors = 0 /\ sync'[s].next = 1 /\ Len(sync'[s].rows) \in Nat
        /\ \A t \in Syncs \ {s} : /\ sync'[t].pc = sync[t].pc /\ sync'[t].rows = sync[t].rows
                               /\ sync'[t].errors = sync[t].errors /\ sync'[t].next = sync[t].next
    <3>1. PICK ids \in SetToSeqs({l \in DOMAIN raw : Archivable(l)}) :
                     LET rows == [i \in DOMAIN ids |-> [listing |-> ids[i], row |-> raw[ids[i]]]]
                         others == {t \in Syncs \ {s} : SyncBusy(t)}
                     IN /\ \A i, j \in DOMAIN ids : i < j => ids[i] < ids[j]
                        /\ sync' = [t \in Syncs |->
                             IF t = s
                             THEN [sync[s] EXCEPT !.pc = IF rows = <<>> THEN "done" ELSE "post",
                                                  !.rows = rows, !.alone = others = {}]
                             ELSE [sync[t] EXCEPT !.alone = @ /\ t \notin others]]
      BY <1>4, Zenon DEF ReadRows
    <3> DEFINE rows == [i \in DOMAIN ids |-> [listing |-> ids[i], row |-> raw[ids[i]]]]
               others == {t \in Syncs \ {s} : SyncBusy(t)}
               pc == IF rows = <<>> THEN "done" ELSE "post"
               alone == others = {}
               still(t) == sync[t].alone /\ t \notin others
    <3>2. sync' = [t \in Syncs |-> IF t = s THEN [sync[s] EXCEPT !.pc = pc, !.rows = rows, !.alone = alone]
                                  ELSE [sync[t] EXCEPT !.alone = still(t)]]
      BY <3>1
    <3> HIDE DEF rows, pc, alone, still
    <3>3. sync'[s].errors = sync[s].errors /\ sync'[s].next = sync[s].next
      BY <1>0, <3>2 DEF Sync
    <3>4. \A t \in Syncs \ {s} : /\ sync'[t].pc = sync[t].pc /\ sync'[t].rows = sync[t].rows
                               /\ sync'[t].errors = sync[t].errors /\ sync'[t].next = sync[t].next
      BY <1>0, <3>2 DEF Sync
    <3>5. ArchiveInv'
      BY <1>0, <1>4, ReadRowsKeeps
    <3>6. Len(sync'[s].rows) \in Nat
      BY <3>5 DEF ArchiveInv, Sync
    <3> QED BY <2>1, <3>3, <3>4, <3>6
  <2>3. ErrorsCounted(s)'
    BY <2>2 DEF ErrorsCounted
  <2>4. \A t \in Syncs \ {s} : ErrorsCounted(t)'
    BY <2>2 DEF TypedInv, ErrorsCounted
  <2> QED BY <1>1, <2>3, <2>4
<1> QED BY <1>2, <1>3, <1>4

LEMMA InitTyped == Init => TypedInv
<1> SUFFICES ASSUME Init PROVE TypedInv
  OBVIOUS
<1>1. used \in [EnvEvents -> Nat]
  BY DEF Init
<1>2. \A p \in Pipelines : pipe[p].saw \in Seq(RawRow) /\ pipe[p].rows \subseteq PricedRow
  <2>1. \A p \in Pipelines : pipe[p].saw = <<>> /\ pipe[p].rows = {}
    BY DEF Init
  <2>2. <<>> \in Seq(RawRow)
    OBVIOUS
  <2> QED BY <2>1, <2>2
<1>3. \A s \in Syncs : ErrorsCounted(s)
  BY DEF Init, ErrorsCounted
<1> QED BY <1>1, <1>2, <1>3, InitWhole, InitArchive DEF TypedInv

LEMMA StepKeepsTyped == TypedInv /\ [Next]_vars => TypedInv'
<1> SUFFICES ASSUME TypedInv, [Next]_vars PROVE TypedInv'
  OBVIOUS
<1>1. WholeInv' /\ ArchiveInv'
  BY StepKeepsWhole, StepKeepsArchive DEF TypedInv
<1>2. CASE \E p \in Pipelines : BeginPipeline(p) \/ Fetch(p) \/ Commit(p) \/ PipelineFails(p)
  BY <1>1, <1>2, PipelineTyped DEF TypedInv, ErrorsCounted
<1>3. CASE \E s \in Syncs : ReadRows(s) \/ PostBatch(s) \/ PostFails(s) \/ AnswerLost(s) \/ SyncBreaks(s)
  BY <1>1, <1>3, SyncTyped DEF TypedInv
<1>4. CASE UNCHANGED <<pipe, sync>> /\ (used' = used \/ Spend("update") \/ Spend("export"))
  <2>1. "update" \in EnvEvents /\ "export" \in EnvEvents
    BY DEF EnvEvents
  <2>2. used' \in [EnvEvents -> Nat]
    BY <1>4, <2>1, SpendCounts DEF TypedInv
  <2> QED BY <1>1, <1>4, <2>2 DEF TypedInv, ErrorsCounted
<1>5. CASE StoreListing \/ (\E l \in DOMAIN raw : UpdateListing(l)) \/ Export \/ UNCHANGED vars
  BY <1>4, <1>5 DEF StoreListing, UpdateListing, Export, vars
<1> QED BY <1>2, <1>3, <1>5 DEF Next

\* The variables are what they should be, and a clean row has a price within the bounds of
\* its operation, in pesos whatever its currency, and scores within their scales.
THEOREM TypeCorrect == Spec => []TypeOK
<1>1. TypedInv => TypeOK
  <2> SUFFICES ASSUME TypedInv PROVE TypeOK
    OBVIOUS
  <2>1. RawOK /\ WholeInv /\ ArchiveInv
    BY DEF TypedInv, ArchiveInv
  <2>2. clean \subseteq PricedRow /\ exported \subseteq PricedRow
    BY <2>1 DEF TypedInv, WholeInv, Settled
  <2>3. clean \subseteq CleanRow /\ exported \subseteq CleanRow
    BY <2>2 DEF PricedRow
  <2>4. \A p \in Pipelines : pipe[p].saw \in Seq(RawRow) /\ pipe[p].rows \subseteq CleanRow
    BY DEF TypedInv, PricedRow
  <2>5. \A s \in Syncs : sync[s].pc \in {"idle", "post", "done", "failed"} /\ sync[s].errors =< Len(sync[s].rows)
    BY <2>1, SyncFacts DEF TypedInv, ErrorsCounted
  <2>6. DOMAIN archive \subseteq DOMAIN raw /\ \A l \in DOMAIN archive : archive[l] \in RawRow
    BY <2>1 DEF ArchiveInv, Behind
  <2>7. ASSUME NEW c \in clean
        PROVE  LET d == Normalized[c.of.value]
               IN /\ d.price_mxn > 0 /\ Plausible(d.price_mxn, d.operation)
                  /\ d.completeness \in 0 .. 100 /\ d.quality \in 0 .. 100
    <3>1. c.of.value \in Values /\ Normalized[c.of.value].priced
      BY <2>2 DEF PricedRow, CleanRow, RawRow
    <3> QED BY <3>1, ListingInScale
  <2>8. used \in [EnvEvents -> Nat] /\ raw \in Seq(RawRow) /\ Len(raw) =< NumListings
    BY <2>1 DEF TypedInv, RawOK
  <2> QED BY <2>3, <2>4, <2>5, <2>6, <2>7, <2>8 DEF TypeOK
<1> QED BY InitTyped, StepKeepsTyped, <1>1, PTL DEF Spec
=============================================================================
