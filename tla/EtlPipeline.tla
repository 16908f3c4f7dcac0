----------------------------- MODULE EtlPipeline -----------------------------
(***************************************************************************)
(* raw_listings -> clean_listings -> CSV, and raw_listings -> the archive. *)
(*                                                                         *)
(* A pipeline, of the full cycle, of "etl" or a rebuild by hand, is one    *)
(* transaction: it selects raw rows, normalises and clusters them in       *)
(* memory and adds their clean rows.  Scrapes go on writing raw rows, and  *)
(* nothing keeps two pipelines, or two synchronisations (each scrape ends  *)
(* with one), from overlapping.                                            *)
(***************************************************************************)
EXTENDS Dedup

CONSTANTS
  NumListings, \* listing l is the l-th to be created
  PortalOf,    \* [1 .. NumListings -> portals]
  Values,      \* what a raw row may say
  Says,        \* [1 .. NumListings -> SUBSET Values]: what the row of a listing may say
  RawOf,       \* [Values -> the columns of the row]
  Pipelines,   \* runs of run_pipeline
  Rebuilds,    \* those of them with full_rebuild
  Syncs,       \* runs of sync_to_supabase
  BatchSize,   \* BATCH_SIZE
  Bound,       \* [EnvEvents -> Nat]: how often the environment may act
  EnvKinds     \* in how many of these ways it may act in one behaviour

EnvEvents == {"update", "rebuild", "sync", "export", "commitFails", "postFails", "syncBreaks"}
Listings == 1 .. NumListings

ASSUME NumListingsAssumption == NumListings \in Nat
ASSUME SaysAssumption == Says \in [Listings -> SUBSET Values]
ASSUME PricesAssumption == \A v \in Values : RawOf[v].price \in Int
ASSUME RebuildsAssumption == Rebuilds \subseteq Pipelines
ASSUME BatchSizeAssumption == BatchSize \in Nat \ {0}

VARIABLES
  raw,      \* raw_listings: the row of each listing stored, with the number of its update
  clean,    \* clean_listings
  pipe,     \* the runs of the pipeline
  sync,     \* the runs of the synchronisation
  archive,  \* mined_listings of the archive, by listing
  exported, \* the clean rows of the last export
  used      \* how often each environment event has happened

vars == <<raw, clean, pipe, sync, archive, exported, used>>

-----------------------------------------------------------------------------

\* What _normalize_listing makes of each value.
Normalized == [v \in Values |-> NormalizeListing(RawOf[v])]

\* A listing as the engine sees it; which ones it takes for one home.
Entry(x) == [portal |-> PortalOf[x[1]], data |-> Normalized[x[2]]]
Alike == {p \in (Listings \X Values) \X (Listings \X Values) : SameHome(Entry(p[1]), Entry(p[2]))}

\* The clusters of more than one listing, for each order in which a run may prepare rows.
Orders == {q \in SeqOf(Listings \X Values, NumListings) : \A i, j \in DOMAIN q : i # j => q[i][1] # q[j][1]}
Clusters ==
  [q \in Orders |-> {c \in FindDuplicates([x \in ToSet(q) |-> Entry(x)], q) : Cardinality(c) > 1}]

RawRow == [value : Values, update : Nat]

\* of: what the row was made from; cluster: dedup_cluster_id, none when empty.
CleanRow ==
  [listing : Listings, of : RawRow, by : Pipelines, cluster : SUBSET Listings, sources : Nat]

\* deleted: the clean rows its DELETE found; saw: the raw rows it could see; batch: the
\* prepared rows; alone: no other run has been under way with it.
Pipe ==
  [pc : {"idle", "fetch", "commit", "done", "failed"}, deleted : SUBSET CleanRow,
   saw : UNION {[S -> RawRow] : S \in SUBSET Listings}, rows : SUBSET CleanRow, alone : BOOLEAN]

\* rows: what the query returned; next: the first row not posted.
Sync ==
  [pc : {"idle", "post", "done", "failed"}, rows : Seq([listing : Listings, row : RawRow]),
   next : Nat, errors : Nat, alone : BOOLEAN]

Spend(e) ==
  /\ used[e] < Bound[e]
  /\ Cardinality({x \in EnvEvents : used[x] > 0} \cup {e}) =< EnvKinds
  /\ used' = [used EXCEPT ![e] = @ + 1]

Init ==
  /\ raw = <<>>
  /\ clean = {}
  /\ pipe = [p \in Pipelines |-> [pc |-> "idle", deleted |-> {}, saw |-> <<>>, rows |-> {}, alone |-> TRUE]]
  /\ sync = [s \in Syncs |-> [pc |-> "idle", rows |-> <<>>, next |-> 1, errors |-> 0, alone |-> TRUE]]
  /\ archive = [l \in {} |-> 0]
  /\ exported = {}
  /\ used = [e \in EnvEvents |-> 0]

-----------------------------------------------------------------------------
(* The scrapes' writes *)

\* A scrape stores the next listing.
StoreListing ==
  /\ Len(raw) < NumListings
  /\ \E v \in Says[Len(raw) + 1] : raw' = Append(raw, [value |-> v, update |-> 0])
  /\ UNCHANGED <<clean, pipe, sync, archive, exported, used>>

\* A scrape stores what it finds new about a listing.
UpdateListing(l) ==
  /\ Spend("update")
  /\ \E v \in Says[l] : raw' = [raw EXCEPT ![l] = [value |-> v, update |-> raw[l].update + 1]]
  /\ UNCHANGED <<clean, pipe, sync, archive, exported>>

-----------------------------------------------------------------------------
(* run_pipeline *)

PipeBusy(p) == pipe[p].pc \in {"fetch", "commit"}

\* p starts at pc; it and those under way are not alone.
Begin(p, pc, deleted) ==
  LET others == {q \in Pipelines \ {p} : PipeBusy(q)}
  IN [q \in Pipelines |->
        IF q = p THEN [pipe[p] EXCEPT !.pc = pc, !.deleted = deleted, !.alone = others = {}]
        ELSE [pipe[q] EXCEPT !.alone = @ /\ q \notin others]]

\* Mutant: the DELETE is committed at once.
BeginPipelineCommitted(p) ==
  /\ pipe[p].pc = "idle"
  /\ IF p \in Rebuilds THEN Spend("rebuild") ELSE UNCHANGED used
  /\ pipe' = Begin(p, "fetch", IF p \in Rebuilds THEN clean ELSE {})
  /\ clean' = IF p \in Rebuilds THEN {} ELSE clean
  /\ UNCHANGED <<raw, sync, archive, exported>>

\* The DELETE of a rebuild, within its transaction.
BeginPipeline(p) ==
  /\ pipe[p].pc = "idle"
  /\ IF p \in Rebuilds THEN Spend("rebuild") ELSE UNCHANGED used
  /\ pipe' = Begin(p, "fetch", IF p \in Rebuilds THEN clean ELSE {})
  /\ UNCHANGED <<raw, clean, sync, archive, exported>>

\* Mutant: an incremental run takes up again the rows that are in no cluster yet.
SelectedUnclustered(p) ==
  {l \in DOMAIN raw : p \in Rebuilds \/ \A c \in clean : c.listing = l => c.cluster = {}}

\* The raw rows run p processes.
Selected(p) == {l \in DOMAIN raw : p \in Rebuilds \/ \A c \in clean : c.listing # l}

\* What run p prepares: listings without a plausible price are skipped.  (A row whose
\* cleaning raises is counted and skipped as well; with the columns' types none can.)
Priced(p) == {<<l, raw[l].value>> : l \in {k \in Selected(p) : Normalized[raw[k].value].priced}}

\* The clean rows of what was prepared in the order q.
CleanRows(p, q) ==
  LET ClusterOf(x) == UNION {c \in Clusters[q] : x \in c}
  IN {[listing |-> x[1], of |-> raw[x[1]], by |-> p, cluster |-> {y[1] : y \in ClusterOf(x)},
       sources |-> Cardinality({PortalOf[y[1]] : y \in ClusterOf(x) \cup {x}})] : x \in ToSet(q)}

\* The query has no order of its own.  Without a raw row to process a run returns at once.
Fetch(p) ==
  /\ pipe[p].pc = "fetch"
  /\ \E order \in SetToSeqs(Priced(p)) :
        pipe' = [pipe EXCEPT ![p].pc = IF Selected(p) = {} THEN "done" ELSE "commit",
                             ![p].saw = raw,
                             ![p].rows = CleanRows(p, order)]
  /\ UNCHANGED <<raw, clean, sync, archive, exported, used>>

\* All rows of the run at once.
Commit(p) ==
  /\ pipe[p].pc = "commit"
  /\ clean' = (clean \ pipe[p].deleted) \cup pipe[p].rows
  /\ pipe' = [pipe EXCEPT ![p].pc = "done"]
  /\ UNCHANGED <<raw, sync, archive, exported, used>>

\* A statement fails or the process dies: nothing of the run stays.
PipelineFails(p) ==
  /\ PipeBusy(p)
  /\ Spend("commitFails")
  /\ pipe' = [pipe EXCEPT ![p].pc = "failed"]
  /\ UNCHANGED <<raw, clean, sync, archive, exported>>

-----------------------------------------------------------------------------
(* export_to_s3, export_to_file *)

\* After a run of the cycle, also one that failed: one query, written to the bucket, or to a
\* file when the upload fails; an installation without a bucket exports nothing.
Export ==
  /\ \E p \in Pipelines : pipe[p].pc \in {"done", "failed"}
  /\ Spend("export")
  /\ exported' = clean
  /\ UNCHANGED <<raw, clean, pipe, sync, archive>>

-----------------------------------------------------------------------------
(* sync_to_supabase *)

SyncBusy(s) == sync[s].pc = "post"

\* Rows whose portal gave neither operation nor type are not archived.
Archivable(l) == RawOf[raw[l].value].operation # Absent /\ RawOf[raw[l].value].property_type # Absent

\* The query: all archivable rows by their creation.
ReadRows(s) ==
  /\ sync[s].pc = "idle"
  /\ Spend("sync")
  /\ \E ids \in SetToSeqs({l \in DOMAIN raw : Archivable(l)}) :
       LET rows == [i \in DOMAIN ids |-> [listing |-> ids[i], row |-> raw[ids[i]]]]
           others == {t \in Syncs \ {s} : SyncBusy(t)}
       IN /\ \A i, j \in DOMAIN ids : i < j => ids[i] < ids[j]
          /\ sync' = [t \in Syncs |->
               IF t = s
               THEN [sync[s] EXCEPT !.pc = IF rows = <<>> THEN "done" ELSE "post", !.rows = rows,
                                    !.alone = others = {}]
               ELSE [sync[t] EXCEPT !.alone = @ /\ t \notin others]]
  /\ UNCHANGED <<raw, clean, pipe, archive, exported>>

Batch(s) == SubSeq(sync[s].rows, sync[s].next, Min({sync[s].next + BatchSize - 1, Len(sync[s].rows)}))

\* s after its batch, of which so many rows were in error.
AfterBatch(s, errors) ==
  LET next == sync[s].next + BatchSize
  IN [sync EXCEPT ![s].next = next, ![s].errors = @ + errors,
                  ![s].pc = IF next > Len(sync[s].rows) THEN "done" ELSE "post"]

\* The archive after upsert_mined_listings: what the batch says of each listing replaces
\* what was there.
Upserted(s) ==
  LET posted == {x.listing : x \in ToSet(Batch(s))}
  IN [l \in DOMAIN archive \cup posted |->
        IF l \in posted THEN (CHOOSE x \in ToSet(Batch(s)) : x.listing = l).row ELSE archive[l]]

\* A batch is archived and the answer arrives.
PostBatch(s) ==
  /\ SyncBusy(s)
  /\ archive' = Upserted(s)
  /\ sync' = AfterBatch(s, 0)
  /\ UNCHANGED <<raw, clean, pipe, exported, used>>

\* Mutant: only a refused connection counts, not an answer other than 200.
PostFailsUncounted(s) ==
  /\ SyncBusy(s)
  /\ Spend("postFails")
  /\ \E errors \in {0, Len(Batch(s))} : sync' = AfterBatch(s, errors)
  /\ UNCHANGED <<raw, clean, pipe, archive, exported>>

\* The service refuses the batch or cannot be reached: it is counted, and the next follows.
PostFails(s) ==
  /\ SyncBusy(s)
  /\ Spend("postFails")
  /\ sync' = AfterBatch(s, Len(Batch(s)))
  /\ UNCHANGED <<raw, clean, pipe, archive, exported>>

\* The answer was lost: what was archived counts as an error.
AnswerLost(s) ==
  /\ SyncBusy(s)
  /\ Spend("postFails")
  /\ archive' = Upserted(s)
  /\ sync' = AfterBatch(s, Len(Batch(s)))
  /\ UNCHANGED <<raw, clean, pipe, exported>>

\* An exception the loop does not catch, or the end of the process.
SyncBreaks(s) ==
  /\ SyncBusy(s)
  /\ Spend("syncBreaks")
  /\ sync' = [sync EXCEPT ![s].pc = "failed"]
  /\ UNCHANGED <<raw, clean, pipe, archive, exported>>

-----------------------------------------------------------------------------

Next ==
  \/ StoreListing
  \/ \E l \in DOMAIN raw : UpdateListing(l)
  \/ \E p \in Pipelines : BeginPipeline(p) \/ Fetch(p) \/ Commit(p) \/ PipelineFails(p)
  \/ Export
  \/ \E s \in Syncs : ReadRows(s) \/ PostBatch(s) \/ PostFails(s) \/ AnswerLost(s) \/ SyncBreaks(s)

Spec == Init /\ [][Next]_vars

-----------------------------------------------------------------------------
(* Properties *)

\* State what the variables may be; a clean row's price is within the bounds of its
\* operation, in pesos whatever its currency, and its scores are within their scales
\* (normalize_price, calculate_completeness, calculate_quality).
TypeOK ==
  /\ raw \in Seq(RawRow) /\ Len(raw) =< NumListings
  /\ clean \subseteq CleanRow /\ exported \subseteq CleanRow
  /\ \A p \in Pipelines : pipe[p].saw \in Seq(RawRow) /\ pipe[p].rows \subseteq CleanRow
  /\ \A s \in Syncs : sync[s].pc \in {"idle", "post", "done", "failed"} /\ sync[s].errors =< Len(sync[s].rows)
  /\ DOMAIN archive \subseteq DOMAIN raw /\ \A l \in DOMAIN archive : archive[l] \in RawRow
  /\ used \in [EnvEvents -> Nat]
  /\ \A c \in clean :
       LET d == Normalized[c.of.value]
       IN /\ d.price_mxn > 0 /\ Plausible(d.price_mxn, d.operation)
          /\ d.completeness \in 0 .. 100 /\ d.quality \in 0 .. 100

\* "Only listings not yet in clean" (pipeline.py:58): nothing but two runs that were under
\* way together gives a listing two clean rows; clean_listings has no constraint against it.
CleanOnce ==
  \A c, d \in clean :
     c # d /\ c.listing = d.listing => ~pipe[c.by].alone /\ ~pipe[d.by].alone

\* Every listing with a price that a finished run saw has a clean row, whatever runs,
\* rebuilds and failures came between, unless a rebuild saw it when it had no price.
PricedIsClean ==
  \A p \in Pipelines : pipe[p].pc = "done" =>
     \A l \in DOMAIN pipe[p].saw :
        \/ ~Normalized[pipe[p].saw[l].value].priced
        \/ \E c \in clean : c.listing = l
        \/ \E q \in Rebuilds : /\ l \in DOMAIN pipe[q].saw
                               /\ ~Normalized[pipe[q].saw[l].value].priced

\* The clusters of a table and of an export are whole: a clean row that counts several
\* sources stands with the rows of its cluster, of as many portals, made in one run, and
\* two rows of a run that are the same home of two portals are not both without one.
Key(c) == <<c.listing, c.of.value>>
WholeClusters(rows) ==
  /\ \A c \in rows : c.cluster # {} =>
       LET mates == {d \in rows : d.by = c.by /\ d.listing \in c.cluster}
       IN /\ {d.listing : d \in mates} = c.cluster
          /\ \A d \in mates : d.cluster = c.cluster
          /\ Cardinality({PortalOf[d.listing] : d \in mates}) = c.sources
          /\ \E a \in mates : \A d \in mates \ {a} :
               <<Key(a), Key(d)>> \in Alike
  /\ \A c, d \in rows : c.by = d.by /\ c.cluster = {} /\ d.cluster = {} =>
       <<Key(c), Key(d)>> \notin Alike

ClustersAreWhole == WholeClusters(clean) /\ WholeClusters(exported)

\* A synchronisation that reports no error has archived every row that qualified when it
\* read, as it was then or later (supabase.py:86), unless synchronisations have overlapped:
\* then the rows that one read earlier may replace those another has sent.
ArchiveFresh ==
  (\A s \in Syncs : sync[s].alone) =>
     \A s \in Syncs : sync[s].pc = "done" /\ sync[s].errors = 0 =>
        \A x \in ToSet(sync[s].rows) :
           x.listing \in DOMAIN archive /\ archive[x.listing].update >= x.row.update

\* "If False, only new/updated" (pipeline.py:42): after an incremental run that was alone,
\* the clean row of a listing is made from what the raw row said when the run read it.
UpdatedIsClean ==
  \A p \in Pipelines \ Rebuilds : pipe[p].pc = "done" /\ pipe[p].alone =>
     \A c \in clean : c.listing \in DOMAIN pipe[p].saw => c.of.update >= pipe[p].saw[c.listing].update
=============================================================================
