--------------------------- MODULE PortalScrapers ---------------------------
(***************************************************************************)
(* One run of the scraper of a portal: the browsers it launches, rotates   *)
(* and closes, the pages it reads, the budget it asks, the items it hands  *)
(* to its caller.  The caller is run_scraper (which stores every page), a  *)
(* plan worker (which stores what scrape() returns) or run_enrichment      *)
(* (which visits the detail pages of incomplete rows).  Pages are refused, *)
(* blocked or empty, connections fail, browsers die, rows are not stored,  *)
(* and the database fails under the session that holds the job's row.      *)
(***************************************************************************)
EXTENDS PortalPages

CONSTANTS
  RunPortals,     \* the portals a behaviour may be about
  Callers,        \* who may call: "runner", "worker", "enrich"
  Details,        \* values of visit_detail
  Modes,          \* "full", "incremental"
  Known,          \* rows of earlier runs
  Pages,          \* what a page may show: a set of sequences of cards
  PageSize,       \* most cards of a page
  States,         \* number of states of a run
  Operations,     \* number of operations per state
  MaxPages,       \* max_pages, and the scrolls of the infinite page
  Budget,         \* budget of the tracker
  RotateAfter,    \* thresholds _next_rotation_threshold may draw
  BlockLimit,     \* consecutive blocks that end an operation: 15
  Retries,        \* max_retries on a blocked page: 3
  StaleLimit,     \* scrolls without news that end a search: 3
  CallbackEvery,  \* scrolls between two callbacks: 10
  CallbackTail,   \* items of such a callback: 20
  Targets,        \* incomplete rows of an enrichment
  Bound,          \* [EnvEvents -> Nat]
  EnvKinds        \* in how many of these ways the environment may act

EnvEvents == {"launch", "orphan", "crash", "raise", "detail", "persist", "session", "bytes", "ban", "expire"}
BrowserPortals == RunPortals \ (Scrolling \cup Browserless)

ASSUME PortalsAssumption == RunPortals \subseteq Portals
ASSUME CallersAssumption == Callers \subseteq {"runner", "worker", "enrich"}
ASSUME CountsAssumption ==
  /\ {MaxPages, Budget, StaleLimit, CallbackEvery, CallbackTail, Targets} \subseteq Nat
  /\ RotateAfter \subseteq Nat /\ RotateAfter # {}
\* A run without states or operations of its own takes those of the configuration.
ASSUME LimitsAssumption == {States, Operations, BlockLimit, Retries} \subseteq Nat \ {0}
ASSUME PagesAssumption ==
  Pages \subseteq Seq(Card) /\ PageSize \in Nat /\ \A cards \in Pages : Len(cards) =< PageSize
ASSUME BoundAssumption == Bound \in [EnvEvents -> Nat] /\ EnvKinds \in Nat

VARIABLES
  job,      \* the run and its row
  pc,       \* where it is
  at,       \* its state, operation and page
  browser,  \* _current_browser
  rot,      \* the counters of the scraper object
  page,     \* the answer being worked on
  found,    \* items of the search in progress
  total,    \* items of the run: returned, stored, and made of pages read
  seen,     \* _seen_ids
  spent,    \* the tracker, and the fetches that came to nothing
  used      \* how often each environment event has happened

vars == <<job, pc, at, browser, rot, page, found, total, seen, spent, used>>

-----------------------------------------------------------------------------

None == [l \in Listings |-> 0]
Count(ids, l) == Cardinality({i \in DOMAIN ids : ids[i] = l})
Distinct(ids) ==
  LET s == {ids[i] : i \in DOMAIN ids} IN
  CHOOSE f \in [1 .. Cardinality(s) -> s] : \A i, j \in DOMAIN f : i # j => f[i] # f[j]
Plus(bag, ids) == [l \in Listings |-> bag[l] + Count(ids, l)]

Init ==
  /\ job \in [portal : RunPortals, caller : Callers, detail : Details, mode : Modes,
              row : {"none"}, outcome : {"running"}, errors : {0}]
  /\ job.mode = "incremental" => job.portal \in {"inmuebles24", "properstar_http"}
  /\ job.portal = "properstar_http" => job.caller = "runner" /\ ~job.detail
  /\ pc = "start"
  /\ at = [state |-> IF job.portal \in Scrolling THEN States ELSE 1, op |-> 1, pg |-> 1]
  /\ browser = [open |-> 0, orphans |-> 0, live |-> FALSE]
  /\ rot = [since |-> 0, after |-> CHOOSE n \in RotateAfter : TRUE, blocks |-> 0,
            empty |-> 0, tries |-> 0, prev |-> 0, visits |-> 0, cookies |-> "none"]
  /\ page = Empty
  /\ found = <<>>
  /\ total = [returned |-> None, stored |-> None, kept |-> None]
  /\ seen = {}
  /\ spent = [counted |-> 0, late |-> 0, blocked |-> 0, search |-> <<0, 0>>]
  /\ used = [e \in EnvEvents |-> 0]

Spend(e) ==
  /\ used[e] < Bound[e]
  /\ Cardinality({x \in EnvEvents : used[x] > 0} \cup {e}) =< EnvKinds
  /\ used' = [used EXCEPT ![e] = @ + 1]

-----------------------------------------------------------------------------
(* BandwidthTracker: one for the process, whoever calls *)

OverBudget == spent.counted >= Budget

\* check_budget, which the scrapers ask only for a portal behind the proxy.
BudgetRefuses == UsesProxy(job.portal) /\ OverBudget

\* add_bytes, once per response; late and blocked are history: fetches begun with the
\* budget gone, and the fetches in a row the portal blocked in an operation.
AddBytes(s, blocked) ==
  [s EXCEPT !.counted = IF UsesProxy(job.portal) THEN @ + 1 ELSE @,
            !.late = IF BudgetRefuses THEN @ + 1 ELSE @,
            !.search = IF blocked THEN <<at.state, at.op>> ELSE <<0, 0>>,
            !.blocked = IF ~blocked THEN 0
                        ELSE IF s.search = <<at.state, at.op>> THEN @ + 1 ELSE 1]

\* Another run of the process spends the same tracker.
OtherRun ==
  /\ pc # "ended"
  /\ Spend("bytes")
  /\ spent' = [spent EXCEPT !.counted = @ + 1]
  /\ UNCHANGED <<job, pc, at, browser, rot, page, found, total, seen>>

BrowserDies ==
  /\ browser.live
  /\ Spend("crash")
  /\ browser' = [browser EXCEPT !.live = FALSE, !.open = @ - 1]
  /\ UNCHANGED <<job, pc, at, rot, page, found, total, seen, spent>>

-----------------------------------------------------------------------------
(* Browsers *)

\* create_stealth_browser; a context that cannot be made leaves its browser behind.
Launched(b) == [b EXCEPT !.open = @ + 1, !.live = TRUE]
LaunchFails(b) ==
  \/ Spend("launch") /\ browser' = b
  \/ Spend("orphan") /\ browser' = [b EXCEPT !.orphans = @ + 1]

\* Mutant: the handle is forgotten without closing the browser.
ClosedForgotten(b) == [b EXCEPT !.live = FALSE]

\* _close_browser: whatever fails in it is swallowed.
Closed(b) == [b EXCEPT !.open = IF b.live THEN @ - 1 ELSE @, !.live = FALSE]

-----------------------------------------------------------------------------
(* The row of the job, and the session that holds it from its first commit to its last *)

\* The row is committed and read back outside every try; the caller goes on or raises.
OpenJob ==
  /\ pc = "start"
  /\ \/ /\ job' = [job EXCEPT !.row = "running"]
        /\ pc' = IF job.caller = "enrich" THEN "enrichStart" ELSE "state"
        /\ UNCHANGED used
     \/ /\ Spend("session")
        /\ \E r \in {"none", "running"} : job' = [job EXCEPT !.row = r, !.errors = @ + 1]
        /\ pc' = "ended"
  /\ UNCHANGED <<at, browser, rot, page, found, total, seen, spent>>

\* An exception leaves scrape(): what it collected is gone.  The handlers of the caller
\* are left to write status.
Raise(status) ==
  /\ pc' = "closing"
  /\ job' = [job EXCEPT !.outcome = status, !.errors = @ + 1]
  /\ UNCHANGED <<at, rot, page, found, total, seen, spent>>

\* The last commit.  When it fails its statement is lost, or only its acknowledgement;
\* the handler of run_scraper that answers a failed completion commits on the same session.
CloseRow ==
  /\ pc = "closing"
  /\ pc' = "ended"
  /\ \/ job' = [job EXCEPT !.row = job.outcome] /\ UNCHANGED used
     \/ /\ Spend("session")
        /\ \/ \E r \in {"running", job.outcome} : job' = [job EXCEPT !.row = r]
           \/ /\ job.caller = "runner" /\ job.outcome = "completed"
              /\ job' = [job EXCEPT !.row = "failed"]
  /\ UNCHANGED <<at, browser, rot, page, found, total, seen, spent>>

-----------------------------------------------------------------------------
(* The states of a run *)

\* The counters _init_browser_for_state resets: not all scrapers reset all.
FreshCounters(p, n) ==
  CASE p = "icasas" -> rot
    [] p = "properstar" -> [rot EXCEPT !.since = 0, !.after = n]
    [] OTHER -> [rot EXCEPT !.since = 0, !.after = n, !.blocks = 0]

\* The next state and its browser, outside the try of the loop; three scrapers ask the
\* budget first.  icasas has one browser, the HTTP scrapers have none; a worker calls
\* scrape(), which mercadolibre does not have.
InitBrowserForState ==
  /\ pc = "state" /\ at.state =< States
  /\ IF job.portal \in {"lamudi", "propiedades", "vivanuncios"} /\ BudgetRefuses
     THEN /\ Raise(IF job.caller = "worker" THEN "failed" ELSE "stopped_budget")
          /\ UNCHANGED <<browser, used>>
     ELSE IF job.portal = "mercadolibre" /\ job.caller = "worker"
     THEN Raise("failed") /\ UNCHANGED <<browser, used>>
     ELSE \/ job.portal \notin Browserless /\ LaunchFails(browser) /\ Raise("failed")
          \/ /\ browser' = IF job.portal \in Browserless THEN browser ELSE Launched(browser)
             /\ \E n \in RotateAfter : rot' = FreshCounters(job.portal, n)
             /\ pc' = "page"
             /\ at' = [at EXCEPT !.op = 1, !.pg = 1]
             /\ UNCHANGED <<job, page, found, total, seen, spent, used>>

\* A worker stores what scrape() returned, in the session that holds its row: when that
\* fails its handler marks the row as failed and commits on the same session.
Return ==
  /\ pc = "state" /\ at.state > States
  /\ \/ /\ pc' = "closing"
        /\ job' = [job EXCEPT !.outcome = "completed"]
        /\ total' = IF job.caller = "worker" THEN [total EXCEPT !.stored = total.returned] ELSE total
        /\ UNCHANGED used
     \/ /\ job.caller = "worker" /\ Spend("session")
        /\ pc' = "ended"
        /\ \E r \in {"running", "failed"} : job' = [job EXCEPT !.row = r, !.errors = @ + 1]
        /\ total' \in {total, [total EXCEPT !.stored = total.returned]}
  /\ UNCHANGED <<at, browser, rot, page, found, seen, spent>>

-----------------------------------------------------------------------------
(* The loops over states, operations and pages *)

NextPage(r) ==
  /\ pc' = "page"
  /\ at' = [at EXCEPT !.pg = @ + 1]
  /\ rot' = [r EXCEPT !.tries = 0]

\* Mutant: one operation too many.
NextSearchRunsOn ==
  LET last == at.op > Operations IN
  /\ found' = <<>>
  /\ at' = IF last THEN [at EXCEPT !.state = @ + 1] ELSE [at EXCEPT !.op = @ + 1, !.pg = 1]
  /\ pc' = IF last THEN "state" ELSE "page"
  /\ browser' = IF last THEN Closed(browser) ELSE browser
  /\ rot' = [rot EXCEPT !.empty = 0, !.tries = 0, !.blocks = 0, !.prev = 0]

\* The next search; with the last one of a state its browser is closed.
NextSearch ==
  LET last == at.op = Operations IN
  /\ found' = <<>>
  /\ at' = IF last THEN [at EXCEPT !.state = @ + 1] ELSE [at EXCEPT !.op = @ + 1, !.pg = 1]
  /\ pc' = IF last THEN "state" ELSE "page"
  /\ browser' = IF last THEN Closed(browser) ELSE browser
  /\ rot' = [rot EXCEPT !.empty = 0, !.tries = 0, !.blocks = 0, !.prev = 0]

\* The search returns its items.
EndSearch(ids) ==
  /\ NextSearch
  /\ total' = [total EXCEPT !.returned = Plus(@, ids)]

\* An exception leaves the search, and its items are lost: the state ends, or with a
\* try per search the search.  The HTTP scraper of properstar does not count it.
SearchError ==
  /\ job' = IF job.portal = "properstar_http" THEN job ELSE [job EXCEPT !.errors = @ + 1]
  /\ IF job.portal \in Scrolling \cup Browserless
     THEN NextSearch
     ELSE /\ found' = <<>>
          /\ at' = [at EXCEPT !.state = @ + 1]
          /\ pc' = "state"
          /\ browser' = Closed(browser)
          /\ UNCHANGED rot
  /\ UNCHANGED <<page, total, seen>>

\* except Exception of the page loop: the next page, after three in properstar the end.
PageError(ids, r) ==
  /\ job' = [job EXCEPT !.errors = @ + 1]
  /\ IF job.portal = "properstar" /\ r.empty >= 2
     THEN EndSearch(ids)
     ELSE /\ NextPage(IF job.portal = "properstar" THEN [r EXCEPT !.empty = @ + 1] ELSE r)
          /\ found' = ids
          /\ UNCHANGED <<browser, total>>

-----------------------------------------------------------------------------
(* The browser scrapers *)

\* Mutant: the budget is not asked before a page.
MaybeRotateRefusesNever == FALSE

\* _maybe_rotate asks the budget; properstar does not call it.
MaybeRotateRefuses == BudgetRefuses /\ job.portal # "properstar"

RotationDue == UsesProxy(job.portal) /\ job.portal # "inmuebles24" /\ rot.since >= rot.after

\* _rotate_session: the old browser is closed first.
RotateSession(b) ==
  \/ /\ browser' = Launched(Closed(b))
     /\ \E n \in RotateAfter : rot' = [rot EXCEPT !.since = 0, !.after = n]
     /\ pc' = "fetch"
     /\ UNCHANGED <<job, at, found, used>>
  \/ /\ LaunchFails(Closed(b))
     /\ pc' = "state"
     /\ job' = [job EXCEPT !.errors = @ + 1]
     /\ at' = [at EXCEPT !.state = @ + 1]
     /\ found' = <<>>
     /\ UNCHANGED rot

\* The head of the page loop, outside its try: an exception costs the whole state.
BeginPage ==
  /\ pc = "page" /\ job.portal \in BrowserPortals
  /\ \/ /\ at.pg > MaxPages
        /\ EndSearch(found) /\ UNCHANGED <<job, page, seen, used>>
     \/ /\ at.pg =< MaxPages /\ (MaybeRotateRefuses \/ (~RotationDue /\ ~browser.live))
        /\ SearchError /\ UNCHANGED used
     \/ /\ at.pg =< MaxPages /\ ~MaybeRotateRefuses /\ RotationDue
        /\ RotateSession(browser) /\ UNCHANGED <<page, total, seen>>
     \/ /\ at.pg =< MaxPages /\ ~MaybeRotateRefuses /\ ~RotationDue /\ browser.live
        /\ pc' = "fetch" /\ UNCHANGED <<job, at, browser, rot, page, found, total, seen, used>>
  /\ UNCHANGED spent

Answers ==
  {[status |-> 200, captcha |-> FALSE, cards |-> c] : c \in Pages}
  \cup {[status |-> 503, captcha |-> FALSE, cards |-> c] : c \in Pages}
  \cup {[status |-> s, captcha |-> c, cards |-> <<>>] : s \in {0, 200, 403, 404}, c \in BOOLEAN}

\* An empty page ends the search; in properstar the second one in a row does.
EmptyPage ==
  IF job.portal = "properstar" /\ rot.empty = 0
  THEN /\ NextPage([rot EXCEPT !.empty = 1]) /\ UNCHANGED <<browser, found, total>>
  ELSE EndSearch(found)

\* The scraper finds nothing on the page: no cards, and in propiedades none to visit.
Nothing(cards) ==
  cards = <<>> \/ (job.portal = "propiedades" /\ Items(job.portal, cards, job.detail) = <<>>)

\* goto and what is made of the answer; a retry of a blocked page comes here again.
Fetch ==
  /\ pc = "fetch"
  /\ \/ /\ IF browser.live THEN Spend("raise") ELSE UNCHANGED used
        /\ PageError(found, rot) /\ UNCHANGED <<page, seen, spent>>
     \/ /\ browser.live
        /\ \E a \in Answers : LET s == SearchPage(job.portal, a) IN
             /\ spent' = AddBytes(spent, s.blocked)
             /\ IF s.blocked
                THEN /\ pc' = "blocked"
                     /\ UNCHANGED <<at, browser, rot, page, found, total>>
                ELSE IF Nothing(s.cards)
                THEN EmptyPage /\ UNCHANGED page
                ELSE /\ pc' = "got"
                     /\ page' = s
                     /\ total' = [total EXCEPT !.kept = Plus(@, Items(job.portal, s.cards, job.detail))]
                     /\ rot' = [rot EXCEPT !.blocks = 0, !.empty = 0, !.visits = 0]
                     /\ UNCHANGED <<at, browser, found>>
        /\ UNCHANGED <<job, seen, used>>

\* Mutant: the blocks in a row do not end the search.
LimitReachedNever(n) == FALSE

LimitReached(n) == n >= BlockLimit

\* inmuebles24 tries a blocked page again with another address, three times, then goes
\* on to the next page without a word in its errors.
RetryBlocked ==
  /\ pc = "blocked"
  /\ IF rot.tries = Retries
     THEN NextPage(rot) /\ UNCHANGED <<job, browser, found, total>>
     ELSE IF LimitReached(rot.blocks + 1)
     THEN EndSearch(found) /\ UNCHANGED job
     ELSE IF ~browser.live
     THEN PageError(found, [rot EXCEPT !.blocks = @ + 1])
     ELSE /\ pc' = "fetch"
          /\ rot' = [rot EXCEPT !.blocks = @ + 1, !.tries = @ + 1]
          /\ UNCHANGED <<job, at, browser, found, total>>
  /\ UNCHANGED <<page, seen, spent, used>>

-----------------------------------------------------------------------------
(* The items of a page *)

\* Mutant: the batch is the tail of the search for every portal.
BatchTail(ids) == LastItems(Len(page.cards), found \o ids)

\* What the callback is given: vivanuncios takes as many items from the end of the
\* search as the page had cards.
Batch(ids) ==
  IF job.portal = "vivanuncios" THEN LastItems(Len(page.cards), found \o ids) ELSE ids

\* on_page_scraped, which only run_scraper sets.
Stored(t, ids) ==
  IF job.caller = "runner" THEN [t EXCEPT !.stored = Plus(@, ids)] ELSE t

StopsIncremental(ids) ==
  job.mode = "incremental" /\ Known # {} /\ ShouldStop(Known, ids)

\* The cards of the page whose detail page is opened, one after the other.
ToVisit == IF job.detail THEN Visited(job.portal, page.cards) ELSE <<>>

\* One detail page: its bytes count like those of any response, and the budget is not
\* asked.  A page that fails is replaced by what the card says.
VisitDetail ==
  /\ pc = "got" /\ job.portal \in BrowserPortals
  /\ rot.visits < Len(ToVisit) /\ browser.live
  /\ rot' = [rot EXCEPT !.visits = @ + 1]
  /\ \/ spent' = AddBytes(spent, FALSE) /\ UNCHANGED <<job, used>>
     \/ /\ Spend("detail")
        /\ spent' \in {spent, AddBytes(spent, FALSE)}
        /\ job' = [job EXCEPT !.errors = @ + 1]
  /\ UNCHANGED <<pc, at, browser, page, found, total, seen>>

\* No detail page can be opened any more, or one cannot be closed: the items of the page
\* are lost, but for those vivanuncios has already put to the others.
VisitsFail ==
  /\ pc = "got" /\ job.portal \in BrowserPortals
  /\ \/ browser.live /\ ToVisit # <<>> /\ Spend("raise")
     \/ ~browser.live /\ rot.visits < Len(ToVisit) /\ UNCHANGED used
  /\ LET ids == Items(job.portal, page.cards, job.detail) IN
     PageError(IF job.portal = "vivanuncios" THEN found \o Those(ids, 1 .. rot.visits) ELSE found,
               rot)
  /\ UNCHANGED <<page, seen, spent>>

\* The items of the page: the incremental stop, the callback, the counters.
FinishPage ==
  LET ids == Items(job.portal, page.cards, job.detail) IN
  /\ pc = "got" /\ job.portal \in BrowserPortals
  /\ rot.visits = Len(ToVisit)
  /\ \/ /\ StopsIncremental(ids)
        /\ EndSearch(found \o Those(ids, {i \in DOMAIN ids : ids[i] \notin Known}))
        /\ UNCHANGED <<job, used>>
     \/ /\ ~StopsIncremental(ids)
        /\ job.caller = "runner" /\ Spend("persist")
        /\ PageError(IF job.portal = "vivanuncios" THEN found \o ids ELSE found, rot)
     \/ /\ ~StopsIncremental(ids)
        /\ total' = Stored(total, Batch(ids))
        /\ found' = found \o ids
        /\ NextPage([rot EXCEPT !.since = @ + 1])
        /\ UNCHANGED <<job, browser, used>>
  /\ UNCHANGED <<page, seen, spent>>

-----------------------------------------------------------------------------
(* icasas: an infinite page *)

\* An exception of a scroll is swallowed, and what was found is handed over; one of the
\* page itself ends the search.
Scroll ==
  /\ pc = "page" /\ job.portal \in Scrolling
  /\ \/ /\ ~browser.live /\ at.pg = 1
        /\ SearchError /\ UNCHANGED <<spent, used>>
     \/ /\ \/ at.pg > MaxPages /\ UNCHANGED used
           \/ ~browser.live /\ at.pg > 1 /\ UNCHANGED used
           \/ browser.live /\ Spend("raise")
        /\ pc' = "scrolled"
        /\ UNCHANGED <<job, at, browser, rot, page, found, total, seen, spent>>
     \/ /\ browser.live /\ at.pg =< MaxPages
        /\ \E cards \in Pages :
             LET new == {i \in DOMAIN cards : ParseListingText(cards[i]) /\ cards[i].id \notin seen}
                 ids == Ids(Those(cards, new))
                 stale == IF Len(cards) = rot.prev THEN rot.empty + 1 ELSE 0
                 due == at.pg % CallbackEvery = 0 /\ found \o ids # <<>>
                 read == [total EXCEPT !.kept = Plus(@, ids)]
                 r == [rot EXCEPT !.empty = stale, !.prev = Len(cards)] IN
             /\ found' = found \o ids
             /\ spent' = AddBytes(spent, FALSE)
             /\ IF stale >= StaleLimit
                THEN /\ pc' = "scrolled" /\ total' = read /\ rot' = r
                     /\ UNCHANGED <<at, used>>
                ELSE \/ /\ NextPage(r)
                        /\ total' = IF due THEN Stored(read, LastItems(CallbackTail, found \o ids))
                                   ELSE read
                        /\ UNCHANGED used
                     \/ /\ due /\ job.caller = "runner" /\ Spend("persist")
                        /\ pc' = "scrolled" /\ total' = read /\ rot' = r
                        /\ UNCHANGED at
        /\ UNCHANGED <<job, browser, page, seen>>

\* The final callback gets all of it again; scrape() keeps what is new.
FinishScroll ==
  /\ pc = "scrolled"
  /\ \/ /\ found # <<>> /\ job.caller = "runner" /\ Spend("persist")
        /\ SearchError /\ UNCHANGED spent
     \/ LET new == Distinct(found) IN
        /\ NextSearch
        /\ total' = [Stored(total, found) EXCEPT !.returned = Plus(@, new)]
        /\ seen' = seen \cup {new[i] : i \in DOMAIN new}
        /\ UNCHANGED <<job, page, spent, used>>

-----------------------------------------------------------------------------
(* mercadolibre: the structured data of a page, over HTTP *)

\* _seen_ids takes them before they are stored.
Fresh(cards) ==
  LET new == {i \in DOMAIN cards : ParseLdListing(cards[i]) /\ cards[i].id \notin seen} IN
  Distinct(Ids(Those(cards, new)))

ScrapeLdPage ==
  /\ pc = "page" /\ job.portal = "mercadolibre"
  /\ \/ /\ at.pg > MaxPages
        /\ EndSearch(found) /\ UNCHANGED <<job, seen, used>>
     \/ /\ at.pg =< MaxPages /\ Spend("raise")
        /\ \/ EndSearch(found) /\ UNCHANGED <<job, seen>>
           \/ SearchError
     \/ /\ at.pg =< MaxPages
        /\ \E a \in Answers : LET new == Fresh(MercadoLibrePage(a))
                                read == [total EXCEPT !.kept = Plus(@, new)] IN
             /\ seen' = seen \cup {new[i] : i \in DOMAIN new}
             /\ \/ /\ new = <<>>
                   /\ EndSearch(found) /\ UNCHANGED <<job, used>>
                \/ /\ new # <<>>
                   /\ found' = found \o new
                   /\ total' = Stored(read, new)
                   /\ NextPage(rot) /\ UNCHANGED <<job, browser, used>>
                \/ /\ new # <<>> /\ job.caller = "runner" /\ Spend("persist")
                   /\ job' = [job EXCEPT !.errors = @ + 1]
                   /\ total' = read
                   /\ NextSearch
  /\ UNCHANGED <<page, spent>>

-----------------------------------------------------------------------------
(* properstar over HTTP, with the cookies of a browser *)

CookiesExpire ==
  /\ rot.cookies # "none"
  /\ Spend("expire")
  /\ rot' = [rot EXCEPT !.cookies = "none"]
  /\ UNCHANGED <<job, pc, at, browser, page, found, total, seen, spent>>

\* Without valid cookies a browser of its own fetches them, behind the proxy.
SolveChallenge ==
  /\ pc = "page" /\ job.portal = "properstar_http"
  /\ at.pg =< MaxPages /\ rot.cookies = "none"
  /\ \/ browser' = Launched(browser) /\ pc' = "solving" /\ UNCHANGED used
     \/ LaunchFails(browser) /\ pc' = "unsolved"
  /\ UNCHANGED <<job, at, rot, page, found, total, seen, spent>>

\* Its page is read and both are closed, whatever the page raises; a context that cannot
\* be closed leaves the browser behind.
CloseBridge ==
  /\ pc = "solving" /\ job.portal = "properstar_http"
  /\ \E c \in {"none", "good"} : rot' = [rot EXCEPT !.cookies = c]
  /\ spent' \in {spent, [spent EXCEPT !.counted = @ + 1]}
  /\ \/ /\ browser.live
        /\ browser' = Closed(browser) /\ pc' = "solved" /\ UNCHANGED used
     \/ /\ IF browser.live THEN Spend("raise") ELSE UNCHANGED used
        /\ browser' = Closed(browser) /\ pc' = "unsolved"
     \/ /\ browser.live /\ Spend("orphan")
        /\ browser' = [Closed(browser) EXCEPT !.orphans = @ + 1] /\ pc' = "unsolved"
  /\ UNCHANGED <<job, at, page, found, total, seen>>

\* What it raised ends the search.
BridgeFails ==
  /\ pc = "unsolved" /\ job.portal = "properstar_http"
  /\ SearchError /\ UNCHANGED <<spent, used>>

\* CookieBridge.get, with valid cookies or those just fetched; that the portal refused
\* them does not make them invalid.
BridgePage ==
  /\ job.portal = "properstar_http"
  /\ \/ /\ pc = "page" /\ at.pg > MaxPages
        /\ EndSearch(found) /\ UNCHANGED <<job, page, used>>
     \/ /\ pc = "page" /\ at.pg =< MaxPages /\ rot.cookies = "refused"
        /\ EndSearch(found) /\ UNCHANGED <<job, page, used>>
     \/ /\ pc = "solved" \/ (pc = "page" /\ at.pg =< MaxPages /\ rot.cookies = "good")
        /\ Spend("ban")
        /\ pc' = "got" /\ page' = Empty
        /\ rot' = [rot EXCEPT !.cookies = IF @ = "none" THEN "none" ELSE "refused"]
        /\ UNCHANGED <<job, at, browser, found, total>>
     \/ /\ pc = "solved" \/ (pc = "page" /\ at.pg =< MaxPages /\ rot.cookies = "good")
        /\ \E a \in Answers : page' = SearchPage(job.portal, a)
        /\ total' = [total EXCEPT !.kept = Plus(@, Ids(page'.cards))]
        /\ pc' = "got"
        /\ UNCHANGED <<job, at, browser, rot, found, used>>
  /\ UNCHANGED <<seen, spent>>

\* The page that ends an incremental run is handed over too.
FinishBridgePage ==
  LET ids == Ids(page.cards) IN
  /\ pc = "got" /\ job.portal = "properstar_http"
  /\ \/ /\ ids = <<>>
        /\ EndSearch(found) /\ UNCHANGED <<job, page, used>>
     \/ /\ ids # <<>> /\ Spend("persist")
        /\ SearchError
     \/ /\ ids # <<>>
        /\ IF StopsIncremental(ids)
           THEN /\ NextSearch
                /\ total' = [Stored(total, ids) EXCEPT !.returned = Plus(@, found \o ids)]
           ELSE /\ found' = found \o ids
                /\ total' = Stored(total, ids)
                /\ NextPage(rot) /\ UNCHANGED browser
        /\ UNCHANGED <<job, page, used>>
  /\ UNCHANGED <<seen, spent>>

-----------------------------------------------------------------------------
(* run_enrichment *)

\* Whatever ended the visits, the browser is closed and the row is to be completed.
CloseEnrichment ==
  /\ pc' = "closing"
  /\ job' = [job EXCEPT !.outcome = "completed"]
  /\ UNCHANGED at

\* A portal without a detail parser is left after its row is written.
StartEnrichment ==
  /\ pc = "enrichStart"
  /\ \/ /\ job.portal \in {"mercadolibre", "icasas"}
        /\ pc' = "ended" /\ UNCHANGED <<job, at, browser, rot, used>>
     \/ /\ job.portal \notin {"mercadolibre", "icasas"}
        /\ \/ /\ job.portal \in {"lamudi", "propiedades", "vivanuncios"} /\ BudgetRefuses
              /\ CloseEnrichment /\ UNCHANGED <<browser, rot, used>>
           \/ LaunchFails(browser) /\ CloseEnrichment /\ UNCHANGED rot
           \/ /\ browser' = Launched(browser)
              /\ \E n \in RotateAfter : rot' = FreshCounters(job.portal, n)
              /\ pc' = "enrich" /\ UNCHANGED <<job, at, used>>
  /\ UNCHANGED <<page, found, total, seen, spent>>

\* One incomplete row.  inmuebles24 has no context between pages, so its first target
\* ends the run.  The tracker asked first is the caller's, which only the command line
\* has fed.
EnrichTarget ==
  /\ pc = "enrich"
  /\ \/ /\ \/ at.pg > Targets \/ OverBudget \/ job.portal = "inmuebles24" \/ ~browser.live
        /\ browser' = Closed(browser)
        /\ CloseEnrichment /\ UNCHANGED <<rot, spent, used>>
     \/ /\ at.pg =< Targets /\ browser.live /\ ~BudgetRefuses /\ job.portal # "inmuebles24"
        /\ RotationDue /\ LaunchFails(Closed(browser))
        /\ CloseEnrichment /\ UNCHANGED <<rot, spent>>
     \/ /\ at.pg =< Targets /\ browser.live /\ ~BudgetRefuses /\ job.portal # "inmuebles24"
        /\ browser' = IF RotationDue THEN Launched(Closed(browser)) ELSE browser
        /\ spent' = AddBytes(spent, FALSE)
        /\ at' = [at EXCEPT !.pg = @ + 1]
        /\ LET since == IF RotationDue THEN 0 ELSE rot.since IN
           \/ /\ rot' = [rot EXCEPT !.since = since + 1] /\ UNCHANGED <<job, used>>
           \/ /\ rot' = [rot EXCEPT !.since = since] /\ UNCHANGED <<job, used>>
           \/ /\ rot' = [rot EXCEPT !.since = since]
              /\ Spend("raise") \/ Spend("persist")
              /\ job' = [job EXCEPT !.errors = @ + 1]
        /\ UNCHANGED pc
  /\ UNCHANGED <<page, found, total, seen>>

-----------------------------------------------------------------------------

Ended == pc = "ended" /\ UNCHANGED vars

Next ==
  \/ OpenJob \/ InitBrowserForState \/ Return \/ CloseRow
  \/ BeginPage \/ Fetch \/ RetryBlocked \/ VisitDetail \/ VisitsFail \/ FinishPage
  \/ Scroll \/ FinishScroll
  \/ ScrapeLdPage
  \/ SolveChallenge \/ CloseBridge \/ BridgeFails \/ BridgePage \/ FinishBridgePage
  \/ StartEnrichment \/ EnrichTarget
  \/ OtherRun \/ BrowserDies \/ CookiesExpire
  \/ Ended

Spec == Init /\ [][Next]_vars

-----------------------------------------------------------------------------
(* Properties *)

\* The run is somewhere in its loops, no further than their bounds.
TypeOK ==
  /\ pc \in {"start", "state", "page", "fetch", "blocked", "got", "scrolled", "solving", "solved",
             "unsolved", "enrichStart", "enrich", "closing", "ended"}
  /\ job.row \in {"none", "running", "completed", "stopped_budget", "failed"}
  /\ at.state \in 1 .. States + 1 /\ at.op \in 1 .. Operations
  /\ browser \in [open : Nat, orphans : Nat, live : BOOLEAN]
  /\ {found[i] : i \in DOMAIN found} \cup seen \subseteq Listings
  /\ \A b \in {"returned", "stored", "kept"} : total[b] \in [Listings -> Nat]

\* "Caller is responsible for closing both" (shared/stealth/browser.py:95): a run has one
\* browser at a time, the one of the cookie bridge included, and however it ends, whatever
\* raised, refused or died on the way, it has closed every browser it was given, rotated
\* ones included.  Left behind is only one whose context could not be made, or in the
\* cookie bridge closed.  Its job row is closed too, unless the database failed under the
\* session that holds it, or an enrichment left a portal that has no detail parser.
NothingLeftOpen ==
  /\ browser.open =< 1 /\ browser.orphans =< used["orphan"]
  /\ pc = "ended" =>
    /\ browser.open = 0
    /\ job.row \in {"none", "running"} =>
         \/ used["session"] > 0
         \/ job.caller = "enrich" /\ job.portal \in {"mercadolibre", "icasas"}

\* The portals whose scraper hands an item to its caller once for every page it was on.
Once == Portals \ {"icasas", "vivanuncios"}

\* A scrape that ends without a word in its errors has stored every item it made of the
\* pages it read, and no more often than it read it.  (Not so for inmuebles24 in
\* incremental mode, whose last page is not handed over, and for the HTTP scraper of
\* properstar, which does not count its errors.)
StoredAsRead ==
  pc = "ended" /\ job.caller # "enrich" /\ job.errors = 0 =>
    \/ job.portal = "properstar_http" \/ (job.portal = "inmuebles24" /\ job.mode = "incremental")
    \/ \A l \in Listings :
         /\ total.kept[l] > 0 => total.stored[l] > 0
         /\ job.portal \in Once => total.stored[l] = total.kept[l]

\* What a run reads to no use is bounded: fetches with the budget spent (the page it was
\* asked for before, the retries of it and its detail pages, none of which ask), and pages
\* in a row a portal blocks (the counter leaves out the first answer of each page).
WastedFetchesBounded ==
  /\ spent.late =< 1 + (IF job.portal = "inmuebles24" THEN Retries ELSE 0)
                     + (IF job.detail THEN PageSize ELSE 0)
  /\ spent.blocked =< BlockLimit - 1 + ((BlockLimit + Retries - 1) \div Retries)
=============================================================================
