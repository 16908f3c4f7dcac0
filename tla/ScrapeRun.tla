------------------------------ MODULE ScrapeRun ------------------------------
(***************************************************************************)
(* run_scraper for one portal, by several callers at once (the scheduler,  *)
(* a plan worker, the command line), with the cards-only HTTP scraper: a   *)
(* run goes through its searches page by page and hands each page to       *)
(* ListingStore.  The portal publishes and removes listings meanwhile; its *)
(* result pages are slices of a list: newest first for an incremental run, *)
(* which asks for that order, and for a full run in the order the portal   *)
(* has by default, which it may change.                                    *)
(*                                                                         *)
(* Left out: what is parsed from a page, delays, the copy to Supabase     *)
(* after some pages (it does not touch this state, nor can it fail), the   *)
(* counters of the job other than its errors.                              *)
(***************************************************************************)
EXTENDS ListingStore, SequencesExt

CONSTANTS
  Searches,       \* number of searches (state and operation) of a run
  Mode,           \* [Runs -> {"full", "incremental"}]
  PageSize,       \* cards on a result page
  MaxPages,       \* max_pages
  StopKnown,      \* threshold of should_stop: 10
  MinKnown,       \* known listings the 80% rule asks for: 5
  UpdateEvery,    \* pages between two updates of the job's counters: 5
  InitialFeed,    \* [Orders -> [1 .. Searches -> Seq(Listings)]]
  InitialStored,  \* rows of earlier runs
  Bound,          \* [EnvEvents -> Nat]: how often the environment may act
  EnvKinds        \* in how many of these ways it may act in one behaviour

EnvEvents == {"publish", "delist", "rerank", "refuse", "raise", "fault", "crash"}

\* The mode of a run chooses the order of its results.
Orders == {"full", "incremental"}

ASSUME SearchesAssumption == Searches \in Nat \ {0}
ASSUME ModeAssumption == Mode \in [Runs -> Orders]
ASSUME PagesAssumption == PageSize \in Nat \ {0} /\ MaxPages \in Nat \ {0}
ASSUME StopAssumption == StopKnown \in Nat \ {0} /\ MinKnown \in Nat \ {0}
ASSUME UpdateAssumption == UpdateEvery \in Nat \ {0}
ASSUME FeedAssumption == InitialFeed \in [Orders -> [1 .. Searches -> Seq(Listings)]]
ASSUME StoredAssumption == InitialStored \subseteq Listings
ASSUME BoundAssumption == Bound \in [EnvEvents -> Nat]

VARIABLES
  feed,   \* the result lists of each search, in either order
  run,    \* the runs and their scrape_jobs rows
  used    \* how often each environment event has happened

vars == <<stored, batch, feed, run, used>>

-----------------------------------------------------------------------------

Pc == {"idle", "searching", "fetching", "persisting", "counting", "closing", "done", "gone"}
Status == {"none", "running", "completed", "stopped_budget", "failed"}

\* known: the KnownListingsCache; empty: consecutive_empty; hand: the items of a page
\* that is stored; seen: the items scrape() returns; errors, pages: total_stats; scraperErrors: scraper.stats["errors"];
\* status, jobErrors: the row.  listed: what its searches listed when the run began, a
\* history variable.
Run ==
  [pc : Pc, search : Nat, page : Nat, empty : Nat,
   known : SUBSET Listings, hand : SUBSET Listings, seen : SUBSET Listings,
   listed : SUBSET Listings,
   errors : Nat, scraperErrors : Nat, pages : Nat, status : Status, jobErrors : Nat]

NotStarted ==
  [pc |-> "idle", search |-> 1, page |-> 1, empty |-> 0,
   known |-> {}, hand |-> {}, seen |-> {}, listed |-> {},
   errors |-> 0, scraperErrors |-> 0, pages |-> 0, status |-> "none", jobErrors |-> 0]

Online(r) == UNION {ToSet(feed[Mode[r]][s]) : s \in 1 .. Searches}

Spend(e) ==
  /\ used[e] < Bound[e]
  /\ Cardinality({x \in EnvEvents : used[x] > 0} \cup {e}) =< EnvKinds
  /\ used' = [used EXCEPT ![e] = @ + 1]

Init ==
  /\ StoreInit(InitialStored)
  /\ feed = InitialFeed
  /\ run = [r \in Runs |-> NotStarted]
  /\ used = [e \in EnvEvents |-> 0]

-----------------------------------------------------------------------------
(* The portal *)

\* A new listing is the first of the newest, and anywhere in the default order.
Publish(s, i, l) ==
  /\ l \notin ToSet(feed["incremental"][s])
  /\ Spend("publish")
  /\ feed' = [feed EXCEPT !["incremental"][s] = InsertAt(@, 1, l), !["full"][s] = InsertAt(@, i, l)]
  /\ UNCHANGED <<stored, batch, run>>

Delist(s, i, j) ==
  /\ feed["incremental"][s][i] = feed["full"][s][j]
  /\ Spend("delist")
  /\ feed' = [feed EXCEPT !["incremental"][s] = RemoveAt(@, i), !["full"][s] = RemoveAt(@, j)]
  /\ UNCHANGED <<stored, batch, run>>

\* Two results change places in the default order.
Rerank(s, i, j) ==
  LET f == feed["full"][s] IN
  /\ Spend("rerank")
  /\ feed' = [feed EXCEPT !["full"][s] = [f EXCEPT ![i] = f[j], ![j] = f[i]]]
  /\ UNCHANGED <<stored, batch, run>>

-----------------------------------------------------------------------------
(* run_scraper up to the scraper *)

\* Disabled, unknown or inactive portal: no job.
Skip(r) ==
  /\ run[r].pc = "idle"
  /\ run' = [run EXCEPT ![r].pc = "done"]
  /\ UNCHANGED <<stored, batch, feed, used>>

\* The cache is loaded and the job row committed.
StartJob(r) ==
  /\ run[r].pc = "idle"
  /\ run' = [run EXCEPT ![r] =
       [@ EXCEPT !.pc = "searching", !.status = "running", !.listed = Online(r),
                 !.known = IF Mode[r] = "incremental" THEN stored ELSE {}]]
  /\ UNCHANGED <<stored, batch, feed, used>>

\* The row cannot be written, or not be read back: no handler is there yet.
StartJobFails(r) ==
  /\ run[r].pc = "idle"
  /\ Spend("fault")
  /\ \E st \in {"none", "running"} : run' = [run EXCEPT ![r] = [@ EXCEPT !.pc = "done", !.status = st]]
  /\ UNCHANGED <<stored, batch, feed>>

-----------------------------------------------------------------------------
(* The scraper: scrape() and _scrape_search() *)

\* The next search, or the end of scrape().
StartSearch(r) ==
  /\ run[r].pc = "searching"
  /\ run' = [run EXCEPT ![r] =
       IF @.search > Searches THEN [@ EXCEPT !.pc = "closing"]
       ELSE [@ EXCEPT !.pc = "fetching", !.page = 1, !.empty = 0]]
  /\ UNCHANGED <<stored, batch, feed, used>>

\* Mutant: pages counted from zero, the first one skipped.
PageContentFromZero(r) ==
  LET f == feed[Mode[r]][run[r].search]
      first == run[r].page * PageSize + 1
      last == (run[r].page + 1) * PageSize IN
  SubSeq(f, first, IF last < Len(f) THEN last ELSE Len(f))

\* Mutant: the results are not sorted by recency.
PageContentOldestFirst(r) ==
  LET f == feed[Mode[r]][run[r].search]
      first == (run[r].page - 1) * PageSize + 1
      last == run[r].page * PageSize IN
  [i \in 1 .. Len(SubSeq(f, first, IF last < Len(f) THEN last ELSE Len(f))) |->
     f[Len(f) + 2 - first - i]]

\* What the portal answers for a page now.
PageContent(r) ==
  LET f == feed[Mode[r]][run[r].search]
      first == (run[r].page - 1) * PageSize + 1
      last == run[r].page * PageSize IN
  SubSeq(f, first, IF last < Len(f) THEN last ELSE Len(f))

\* KnownListingsCache.should_stop
ShouldStop(r, items) ==
  LET known == Cardinality({i \in DOMAIN items : items[i] \in run[r].known}) IN
  \/ items = <<>>
  \/ known >= StopKnown
  \/ 5 * known >= 4 * Len(items) /\ known >= MinKnown

NextSearch(x) == [x EXCEPT !.pc = "searching", !.search = @ + 1]

\* The page is fetched: an empty one is the end only after another, a mostly known one
\* ends an incremental search, any other is handed to the store.
Fetch(r) ==
  LET items == PageContent(r)
      x == run[r] IN
  /\ x.pc = "fetching"
  /\ x.page =< MaxPages
  /\ \/ /\ items = <<>>
        /\ run' = [run EXCEPT ![r] = IF x.empty + 1 >= 2 THEN NextSearch(x)
                                     ELSE [x EXCEPT !.empty = @ + 1, !.page = @ + 1]]
        /\ UNCHANGED batch
     \/ /\ items # <<>>
        /\ Mode[r] = "incremental" /\ ShouldStop(r, items)
        /\ run' = [run EXCEPT ![r] = [NextSearch(x) EXCEPT !.empty = 0,
                                                          !.seen = @ \cup ToSet(items)]]
        /\ UNCHANGED batch
     \/ /\ items # <<>>
        /\ ~(Mode[r] = "incremental" /\ ShouldStop(r, items))
        /\ run' = [run EXCEPT ![r] = [x EXCEPT !.empty = 0, !.pc = "persisting"]]
        /\ batch' = [batch EXCEPT ![r] = Call(items)]
  /\ UNCHANGED <<stored, feed, used>>

\* No page: the retries are used up (an error), or the portal refuses or blocks (none).
FetchRefused(r) ==
  /\ run[r].pc = "fetching"
  /\ run[r].page =< MaxPages
  /\ Spend("refuse")
  /\ \E e \in {0, 1} :
       run' = [run EXCEPT ![r] = [NextSearch(run[r]) EXCEPT !.scraperErrors = @ + e]]
  /\ UNCHANGED <<stored, batch, feed>>

LastPageDone(r) ==
  /\ run[r].pc = "fetching"
  /\ run[r].page > MaxPages
  /\ run' = [run EXCEPT ![r] = NextSearch(@)]
  /\ UNCHANGED <<stored, batch, feed, used>>

-----------------------------------------------------------------------------
(* persist_page *)

PersistItem(r) ==
  /\ Upsert(r)
  /\ UNCHANGED <<feed, run, used>>

PersistItemFails(r) ==
  /\ \/ FlushFails(r) /\ UNCHANGED used
     \/ Spend("fault")
  /\ UpsertFails(r)
  /\ UNCHANGED <<feed, run>>

\* The page is committed and counted.
PersistDone(r) ==
  /\ Commit(r)
  /\ run' = [run EXCEPT ![r] =
       [run[r] EXCEPT !.pc = "counting", !.pages = @ + 1, !.errors = @ + batch[r].errors,
                      !.hand = ToSet(batch[r].items)]]
  /\ UNCHANGED <<feed, used>>

UpdateDue(r) == run[r].pages % UpdateEvery = 0

\* Every UpdateEvery pages the job's row is told the errors; the search goes on.
PageDone(r) ==
  /\ run[r].pc = "counting"
  /\ run' = [run EXCEPT ![r] =
       [run[r] EXCEPT !.pc = "fetching", !.page = @ + 1, !.hand = {}, !.seen = @ \cup run[r].hand,
                      !.jobErrors = IF UpdateDue(r) THEN run[r].errors ELSE @]]
  /\ UNCHANGED <<stored, batch, feed, used>>

\* The update raises through persist_page, or the quality check after it: the page is
\* stored, and its search is over like that of a page that is not.
UpdateFails(r) ==
  /\ run[r].pc = "counting" /\ UpdateDue(r)
  /\ Spend("fault")
  /\ \E n \in {run[r].jobErrors, run[r].errors} :
       run' = [run EXCEPT ![r] = [NextSearch(run[r]) EXCEPT !.scraperErrors = @ + 1, !.hand = {},
                                                            !.jobErrors = n]]
  /\ UNCHANGED <<stored, batch, feed>>

\* The commit raises through persist_page: the search is over, the next one begins.
PersistFails(r) ==
  /\ AllItems(r)
  /\ \/ FlushFails(r) /\ UNCHANGED used
     \/ Spend("fault")
  /\ Abort(r)
  /\ run' = [run EXCEPT ![r] = [NextSearch(run[r]) EXCEPT !.scraperErrors = @ + 1]]
  /\ UNCHANGED feed

-----------------------------------------------------------------------------
(* The end of run_scraper *)

Complete(r) ==
  /\ run[r].pc = "closing"
  /\ run' = [run EXCEPT ![r] =
       [@ EXCEPT !.pc = "done", !.status = "completed",
                 !.jobErrors = run[r].errors + run[r].scraperErrors]]
  /\ UNCHANGED <<stored, batch, feed, used>>

\* The scrapers that use a browser open it between two searches, outside their try: the
\* proxy budget is used up, or the browser does not start.
ScraperRaises(r) ==
  /\ run[r].pc = "searching"
  /\ run[r].search =< Searches
  /\ Spend("raise")
  /\ \/ run' = [run EXCEPT ![r] = [@ EXCEPT !.pc = "done", !.status = "stopped_budget",
                                            !.jobErrors = run[r].errors]]
     \/ run' = [run EXCEPT ![r] = [@ EXCEPT !.pc = "done", !.status = "failed",
                                            !.jobErrors = 1]]
  /\ UNCHANGED <<stored, batch, feed>>

\* The commit of "completed" fails: the except block closes the job as failed, or
\* fails as well.
CompleteFails(r) ==
  /\ run[r].pc = "closing"
  /\ Spend("fault")
  /\ \/ run' = [run EXCEPT ![r].pc = "done"]
     \/ run' = [run EXCEPT ![r] = [@ EXCEPT !.pc = "done", !.status = "failed",
                                            !.jobErrors = run[r].errors
                                                          + run[r].scraperErrors + 1]]
  /\ UNCHANGED <<stored, batch, feed>>

\* The process of a run dies.
Crash(r) ==
  /\ run[r].pc \notin {"idle", "done", "gone"}
  /\ Spend("crash")
  /\ Abort(r)
  /\ run' = [run EXCEPT ![r].pc = "gone"]
  /\ UNCHANGED feed

-----------------------------------------------------------------------------

RunStep(r) ==
  \/ Skip(r) \/ StartJob(r) \/ StartJobFails(r) \/ StartSearch(r)
  \/ Fetch(r) \/ FetchRefused(r) \/ LastPageDone(r)
  \/ PersistItem(r) \/ PersistItemFails(r) \/ PersistDone(r) \/ PersistFails(r)
  \/ PageDone(r) \/ UpdateFails(r)
  \/ Complete(r) \/ ScraperRaises(r) \/ CompleteFails(r)

Portal ==
  \E s \in 1 .. Searches :
    \/ \E l \in Listings : \E i \in 1 .. Len(feed["full"][s]) + 1 : Publish(s, i, l)
    \/ \E i \in DOMAIN feed["incremental"][s], j \in DOMAIN feed["full"][s] : Delist(s, i, j)
    \/ \E i, j \in DOMAIN feed["full"][s] : i < j /\ Rerank(s, i, j)

Next == Portal \/ \E r \in Runs : RunStep(r) \/ Crash(r)

Spec == Init /\ [][Next]_vars

\* A run that has begun goes on while it can; beginning one, crashes and what the portal
\* does are never owed.
FairSpec == Spec /\ \A r \in Runs : WF_vars(run[r].pc # "idle" /\ RunStep(r))

-----------------------------------------------------------------------------
(* Properties *)

TypeOK ==
  /\ StoreTypeOK
  /\ feed \in [Orders -> [1 .. Searches -> Seq(Listings)]]
  /\ run \in [Runs -> Run]
  /\ used \in [EnvEvents -> Nat]
  /\ \A r \in Runs : Busy(r) <=> run[r].pc = "persisting"

Clean(r) == run[r].status = "completed" /\ run[r].jobErrors = 0

\* "Persist items to DB after each page" (persist_page): a run that reports no error
\* has stored every listing it scraped.
CleanRunIsStored == \A r \in Runs : Clean(r) => run[r].seen \subseteq stored

\* The same for full runs, whatever the database rejects and whoever writes the same
\* listings at the same time: rollbacks, unique violations, deadlocks and failing
\* commits are all counted before anything is lost.
CleanFullRunIsStored ==
  \A r \in Runs : Mode[r] = "full" /\ Clean(r) => run[r].seen \subseteq stored

PagesSuffice(r) == \A s \in 1 .. Searches : Len(feed[Mode[r]][s]) =< MaxPages * PageSize

\* Paging does not lose what moves: as long as nothing is taken off the portal, its default
\* order stays and no page is refused, a full run without errors has seen every listing
\* that was online when it began, although new ones, wherever they appear, push others
\* from page to page.
FullRunSeesAll ==
  \A r \in Runs :
    /\ Mode[r] = "full" /\ Clean(r) /\ PagesSuffice(r)
    /\ used["delist"] = 0 /\ used["rerank"] = 0 /\ used["refuse"] = 0
    => run[r].listed \subseteq run[r].seen

\* "Stop on known" (run_scraper): an incremental run has seen every listing that was new
\* to it, wherever it stopped, whatever the default order does.  It rests on the order it
\* asks for: what the run did not know was on top of what it knew.
NewOnTop(r) ==
  \A s \in 1 .. Searches : \A i, j \in DOMAIN feed[Mode[r]][s] :
    i < j /\ feed[Mode[r]][s][i] \in run[r].known => feed[Mode[r]][s][j] \in run[r].known

IncrementalRunSeesNew ==
  \A r \in Runs :
    /\ Mode[r] = "incremental" /\ Clean(r) /\ NewOnTop(r) /\ PagesSuffice(r)
    /\ used["delist"] = 0 /\ used["refuse"] = 0
    => run[r].listed \ run[r].known \subseteq run[r].seen

\* A run ends: no two runs wait for each other's rows for ever, no search goes on.
RunEnds == \A r \in Runs : run[r].pc # "idle" ~> run[r].pc \in {"done", "gone"}
=============================================================================
