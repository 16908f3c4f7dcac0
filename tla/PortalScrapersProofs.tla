------------------------- MODULE PortalScrapersProofs -------------------------
(***************************************************************************)
(* Proofs about PortalScrapers, for any portals, callers, pages, limits    *)
(* and faults: a run has one browser at a time and closes every one it was *)
(* given; it keeps to its loops and their bounds; what it fetches to no    *)
(* use is bounded; what it reads it has stored when it ends without an     *)
(* error.                                                                  *)
(***************************************************************************)
EXTENDS PortalScrapers, FiniteSetTheorems, SequenceTheorems, WellFoundedInduction, TLAPS

NoParser == {"mercadolibre", "icasas"}

Rows == {"none", "running", "completed", "stopped_budget", "failed"}
Closings == {"completed", "stopped_budget", "failed"}
Outcomes == Closings \cup {"running"}
JobType == [portal : RunPortals, caller : Callers, detail : Details, mode : Modes,
            row : Rows, outcome : Outcomes, errors : Nat]
BrowserType == [open : Nat, orphans : Nat, live : BOOLEAN]

\* The handle tells what is open.
Sound(b) ==
  /\ b \in BrowserType
  /\ b.live => b.open = 1
  /\ ~b.live => b.open = 0

\* Between states, before and after the run there is no browser.
Idle == {"start", "state", "enrichStart", "unsolved", "closing", "ended"}

\* The HTTP scraper of properstar has a browser only while it solves a challenge.
BridgeOnly(j, p, b) == j.portal = "properstar_http" => j.caller = "runner" /\ (b.live => p = "solving")

RowClosed(j, u) ==
  j.row \in {"none", "running"} =>
    u["session"] > 0 \/ (j.caller = "enrich" /\ j.portal \in NoParser)

\* The inductive invariant.
OpenInv ==
  /\ job \in JobType
  /\ Sound(browser)
  /\ BridgeOnly(job, pc, browser)
  /\ pc \in Idle => ~browser.live
  /\ pc \in {"enrichStart", "enrich"} => job.caller = "enrich"
  /\ pc = "closing" => job.outcome \in Closings
  /\ pc = "ended" => RowClosed(job, used)

-----------------------------------------------------------------------------
(* The browser handle *)

LEMMA SetHandle ==
  ASSUME NEW b \in BrowserType, NEW n \in Nat, NEW l \in BOOLEAN
  PROVE  /\ [b EXCEPT !.open = n, !.live = l] \in BrowserType
         /\ [b EXCEPT !.open = n, !.live = l].open = n
         /\ [b EXCEPT !.open = n, !.live = l].live = l
  BY DEF BrowserType

LEMMA ClosedSound == ASSUME NEW b, Sound(b)
                     PROVE  Sound(Closed(b)) /\ ~Closed(b).live
<1> DEFINE n == IF b.live THEN b.open - 1 ELSE b.open
           c == [b EXCEPT !.open = n, !.live = FALSE]
<1>1. b \in BrowserType /\ n \in Nat /\ n = 0
  BY DEF Sound, BrowserType
<1>2. Closed(b) = c
  BY DEF Closed
<1>3. c \in BrowserType /\ c.open = n /\ c.live = FALSE
  <2> HIDE DEF n
  <2>1. FALSE \in BOOLEAN
    OBVIOUS
  <2> QED BY <1>1, <2>1, SetHandle
<1> HIDE DEF c, n
<1> QED BY <1>1, <1>2, <1>3 DEF Sound

LEMMA LaunchedSound == ASSUME NEW b, Sound(b), ~b.live
                       PROVE  Sound(Launched(b)) /\ Launched(b).live
<1> DEFINE n == b.open + 1
           c == [b EXCEPT !.open = n, !.live = TRUE]
<1>1. b \in BrowserType /\ n \in Nat /\ n = 1
  BY DEF Sound, BrowserType
<1>2. Launched(b) = c
  BY DEF Launched
<1>3. c \in BrowserType /\ c.open = n /\ c.live = TRUE
  <2> HIDE DEF n
  <2>1. TRUE \in BOOLEAN
    OBVIOUS
  <2> QED BY <1>1, <2>1, SetHandle
<1> HIDE DEF c, n
<1> QED BY <1>1, <1>2, <1>3 DEF Sound

LEMMA LaunchFailsSound == ASSUME NEW b, Sound(b), ~b.live, LaunchFails(b)
                          PROVE  Sound(browser') /\ ~browser'.live
  BY DEF Sound, LaunchFails, BrowserType

-----------------------------------------------------------------------------
(* What the ends of pages and searches keep *)

\* The run goes on to one of its loops; at most its count of errors has moved.
JobGoes == job' = job \/ job' = [job EXCEPT !.errors = @ + 1]
Goes ==
  /\ JobGoes
  /\ Sound(browser')
  /\ job.portal = "properstar_http" => ~browser'.live
  /\ \/ pc' \in {"state", "page", "fetch", "blocked", "got", "scrolled"}
     \/ pc' = "enrich" /\ job.caller = "enrich"
  /\ pc' = "state" => ~browser'.live

LEMMA GoesOn == ASSUME OpenInv, Goes PROVE OpenInv'
<1>1. job' \in JobType /\ job'.portal = job.portal /\ job'.caller = job.caller
  BY DEF OpenInv, Goes, JobGoes, JobType
<1>2. BridgeOnly(job', pc', browser')
  BY <1>1 DEF OpenInv, Goes, BridgeOnly
<1> QED BY <1>1, <1>2 DEF OpenInv, Goes, Idle

LEMMA NextSearchGoes == ASSUME OpenInv, pc # "solving", NextSearch, JobGoes PROVE Goes
<1>1. Sound(Closed(browser)) /\ ~Closed(browser).live
  BY ClosedSound DEF OpenInv
<1> QED BY <1>1 DEF NextSearch, Goes, OpenInv, BridgeOnly

LEMMA SearchErrorGoes == ASSUME OpenInv, pc # "solving", SearchError PROVE Goes
<1>1. JobGoes
  BY DEF SearchError, JobGoes
<1>2. CASE job.portal \in Scrolling \cup Browserless
  BY <1>1, <1>2, NextSearchGoes DEF SearchError
<1>3. CASE job.portal \notin Scrolling \cup Browserless
  <2>1. Sound(Closed(browser)) /\ ~Closed(browser).live
    BY ClosedSound DEF OpenInv
  <2> QED BY <1>1, <1>3, <2>1 DEF SearchError, Goes
<1> QED BY <1>2, <1>3

LEMMA PageErrorGoes == ASSUME OpenInv, pc # "solving", NEW ids, NEW r, PageError(ids, r) PROVE Goes
<1>1. JobGoes
  BY DEF PageError, JobGoes
<1>2. CASE job.portal = "properstar" /\ r.empty >= 2
  BY <1>1, <1>2, NextSearchGoes DEF PageError, EndSearch
<1>3. CASE ~(job.portal = "properstar" /\ r.empty >= 2)
  <2>1. browser' = browser /\ pc' = "page"
    BY <1>3 DEF PageError, NextPage
  <2> QED BY <1>1, <2>1 DEF Goes, OpenInv, BridgeOnly
<1> QED BY <1>2, <1>3

-----------------------------------------------------------------------------
(* What the ends of a run keep *)

\* The run is over but for the row.
Closes ==
  /\ pc' = "closing"
  /\ job' \in JobType /\ job'.outcome \in Closings
  /\ job'.portal = job.portal /\ job'.caller = job.caller
  /\ Sound(browser') /\ ~browser'.live

LEMMA ClosesKeeps == ASSUME OpenInv, Closes PROVE OpenInv'
  BY DEF Closes, OpenInv, Idle, BridgeOnly

LEMMA RaiseCloses ==
  ASSUME OpenInv, NEW o \in Closings, Raise(o), Sound(browser'), ~browser'.live
  PROVE  Closes
<1> DEFINE n == job.errors + 1
           j == [job EXCEPT !.outcome = o, !.errors = n]
<1>1. job \in JobType /\ n \in Nat /\ o \in Outcomes
  BY DEF OpenInv, JobType, Outcomes
<1>2. job' = j /\ pc' = "closing"
  BY DEF Raise
<1>3. j \in JobType /\ j.outcome = o /\ j.portal = job.portal /\ j.caller = job.caller
  <2> HIDE DEF n
  <2> QED BY <1>1 DEF JobType
<1> HIDE DEF j
<1> QED BY <1>2, <1>3 DEF Closes

LEMMA CompletedCloses ==
  ASSUME OpenInv, Sound(browser'), ~browser'.live, pc' = "closing",
         job' = [job EXCEPT !.outcome = "completed"]
  PROVE  Closes
<1> DEFINE o == "completed"
           j == [job EXCEPT !.outcome = o]
<1>1. job \in JobType /\ o \in Outcomes /\ o \in Closings
  BY DEF OpenInv, Outcomes, Closings
<1>2. j \in JobType /\ j.outcome = o /\ j.portal = job.portal /\ j.caller = job.caller
  <2> HIDE DEF o
  <2> QED BY <1>1 DEF JobType
<1>3. job' = j
  OBVIOUS
<1> HIDE DEF o, j
<1> QED BY <1>1, <1>2, <1>3 DEF Closes

\* The row is as the closing was to leave it, or the session has failed.
LEMMA EndsKeeps ==
  ASSUME OpenInv, pc \in Idle, pc' = "ended", browser' = browser, NEW r \in Rows, NEW n \in Nat,
         \/ job' = [job EXCEPT !.row = r]
         \/ job' = [job EXCEPT !.row = r, !.errors = n],
         r \in {"none", "running"} => used'["session"] > 0
  PROVE  OpenInv'
<1>1. job \in JobType /\ Sound(browser) /\ ~browser.live
  BY DEF OpenInv
<1>2. /\ job' \in JobType /\ job'.row = r
      /\ job'.portal = job.portal /\ job'.caller = job.caller
  BY <1>1 DEF JobType
<1>3. BridgeOnly(job', pc', browser') /\ RowClosed(job', used')
  BY <1>1, <1>2 DEF OpenInv, BridgeOnly, RowClosed
<1> QED BY <1>1, <1>2, <1>3 DEF OpenInv, Idle

\* Events are counted, and never uncounted.
Counted == used \in [EnvEvents -> Nat]
Counts == used' = used \/ \E e \in EnvEvents : Spend(e)

LEMMA CountsFacts ==
  ASSUME Counted, Counts
  PROVE  Counted' /\ \A e \in EnvEvents : used[e] =< used'[e]
<1>1. CASE used' = used
  BY <1>1 DEF Counted
<1>2. CASE \E e \in EnvEvents : Spend(e)
  <2>1. PICK e \in EnvEvents : Spend(e)
    BY <1>2
  <2>2. used' = [used EXCEPT ![e] = used[e] + 1]
    BY <2>1 DEF Spend
  <2>3. \A x \in EnvEvents : used'[x] = IF x = e THEN used[x] + 1 ELSE used[x]
    BY <2>2 DEF Counted
  <2>4. used' \in [EnvEvents -> Nat]
    BY <2>2 DEF Counted
  <2> QED BY <2>3, <2>4 DEF Counted
<1> QED BY <1>1, <1>2 DEF Counts

LEMMA SpendFacts ==
  ASSUME Counted, NEW e \in EnvEvents, Spend(e)
  PROVE  /\ used'[e] = used[e] + 1 /\ used'[e] \in Nat /\ used'[e] > 0
         /\ \A x \in EnvEvents \ {e} : used'[x] = used[x]
<1>1. used[e] \in Nat /\ used' = [used EXCEPT ![e] = used[e] + 1]
  BY DEF Counted, Spend
<1> QED BY <1>1 DEF Counted

-----------------------------------------------------------------------------
(* The actions *)

LEMMA SessionEvent == "session" \in EnvEvents /\ "orphan" \in EnvEvents
  BY DEF EnvEvents

LEMMA OpenJobKeeps == ASSUME OpenInv, Counted, OpenJob PROVE OpenInv'
<1>1. job \in JobType /\ Sound(browser) /\ ~browser.live /\ browser' = browser /\ pc = "start"
  BY DEF OpenJob, OpenInv, Idle
<1>2. CASE job' = [job EXCEPT !.row = "running"] /\ pc' = IF job.caller = "enrich" THEN "enrichStart" ELSE "state"
  <2>1. job' \in JobType /\ job'.portal = job.portal /\ job'.caller = job.caller
    BY <1>1, <1>2 DEF JobType, Rows
  <2> QED BY <1>1, <1>2, <2>1 DEF OpenInv, BridgeOnly, Idle
<1>3. CASE Spend("session") /\ pc' = "ended"
  <2>1. PICK r \in {"none", "running"} : job' = [job EXCEPT !.row = r, !.errors = @ + 1]
    BY <1>1, <1>3 DEF OpenJob
  <2>2. job.errors + 1 \in Nat /\ r \in Rows
    BY <1>1 DEF JobType, Rows
  <2>3. used'["session"] > 0
    BY <1>3, SpendFacts, SessionEvent
  <2>4. pc \in Idle
    BY <1>1 DEF Idle
  <2> QED BY <1>1, <1>3, <2>1, <2>2, <2>3, <2>4, EndsKeeps
<1> QED BY <1>2, <1>3 DEF OpenJob

LEMMA CloseRowKeeps == ASSUME OpenInv, Counted, CloseRow PROVE OpenInv'
<1>1. pc \in Idle /\ pc' = "ended" /\ browser' = browser /\ job.outcome \in Closings
  BY DEF CloseRow, OpenInv, Idle
<1>2. PICK r \in Rows : /\ job' = [job EXCEPT !.row = r]
                        /\ r = "running" => Spend("session")
                        /\ r # "none"
  <2>1. job.outcome \in Rows \ {"none", "running"} /\ "running" \in Rows /\ "failed" \in Rows
    BY <1>1 DEF Rows, Closings
  <2> QED BY <2>1 DEF CloseRow
<1>3. r \in {"none", "running"} => used'["session"] > 0
  BY <1>2, SpendFacts, SessionEvent
<1> QED BY <1>1, <1>2, <1>3, EndsKeeps

LEMMA InitBrowserKeeps == ASSUME OpenInv, InitBrowserForState PROVE OpenInv'
<1>1. Sound(browser) /\ ~browser.live
  BY DEF InitBrowserForState, OpenInv, Idle
<1>2. CASE job.portal \in {"lamudi", "propiedades", "vivanuncios"} /\ BudgetRefuses
  <2> DEFINE s == IF job.caller = "worker" THEN "failed" ELSE "stopped_budget"
  <2>1. s \in Closings
    BY DEF Closings
  <2>2. Raise(s) /\ browser' = browser
    BY <1>2 DEF InitBrowserForState
  <2> HIDE DEF s
  <2> QED BY <1>1, <2>1, <2>2, RaiseCloses, ClosesKeeps
<1>3. CASE Raise("failed") /\ (browser' = browser \/ LaunchFails(browser))
  <2>1. Sound(browser') /\ ~browser'.live
    BY <1>1, <1>3, LaunchFailsSound
  <2>2. "failed" \in Closings
    BY DEF Closings
  <2> QED BY <1>3, <2>1, <2>2, RaiseCloses, ClosesKeeps
<1>4. CASE /\ browser' = IF job.portal \in Browserless THEN browser ELSE Launched(browser)
           /\ pc' = "page" /\ UNCHANGED job
  <2>1. Sound(browser')
    BY <1>1, <1>4, LaunchedSound
  <2>2. job.portal = "properstar_http" => ~browser'.live
    BY <1>1, <1>4 DEF Browserless
  <2> QED BY <1>4, <2>1, <2>2, GoesOn DEF Goes, JobGoes
<1> QED BY <1>2, <1>3, <1>4 DEF InitBrowserForState

LEMMA ReturnKeeps == ASSUME OpenInv, Counted, Return PROVE OpenInv'
<1>1. Sound(browser') /\ ~browser'.live /\ browser' = browser /\ pc \in Idle
  BY DEF Return, OpenInv, Idle
<1>2. CASE pc' = "closing" /\ job' = [job EXCEPT !.outcome = "completed"]
  BY <1>1, <1>2, CompletedCloses, ClosesKeeps
<1>3. CASE Spend("session") /\ pc' = "ended"
  <2>1. PICK r \in {"running", "failed"} : job' = [job EXCEPT !.row = r, !.errors = @ + 1]
    BY <1>3 DEF Return
  <2>2. job.errors + 1 \in Nat /\ r \in Rows
    BY DEF OpenInv, JobType, Rows
  <2>3. used'["session"] > 0
    BY <1>3, SpendFacts, SessionEvent
  <2> QED BY <1>1, <1>3, <2>1, <2>2, <2>3, EndsKeeps
<1> QED BY <1>2, <1>3 DEF Return

LEMMA BeginPageKeeps == ASSUME OpenInv, BeginPage PROVE OpenInv'
<1>0. pc # "solving" /\ job.portal # "properstar_http"
  BY DEF BeginPage, BrowserPortals, Browserless
<1>1. CASE EndSearch(found) /\ UNCHANGED job
  BY <1>0, <1>1, NextSearchGoes, GoesOn DEF EndSearch, JobGoes
<1>2. CASE SearchError
  BY <1>0, <1>2, SearchErrorGoes, GoesOn
<1>3. CASE RotateSession(browser)
  <2>1. Sound(Closed(browser)) /\ ~Closed(browser).live
    BY ClosedSound DEF OpenInv
  <2>2. Sound(Launched(Closed(browser)))
    BY <2>1, LaunchedSound
  <2>3. LaunchFails(Closed(browser)) => Sound(browser') /\ ~browser'.live
    BY <2>1, LaunchFailsSound
  <2> QED BY <1>0, <1>3, <2>2, <2>3, GoesOn DEF RotateSession, Goes, JobGoes
<1>4. CASE pc' = "fetch" /\ UNCHANGED <<job, browser>>
  BY <1>0, <1>4, GoesOn DEF Goes, JobGoes, OpenInv, BridgeOnly
<1> QED BY <1>1, <1>2, <1>3, <1>4 DEF BeginPage

LEMMA FetchKeeps == ASSUME OpenInv, Fetch PROVE OpenInv'
<1>0. pc # "solving"
  BY DEF Fetch
<1>1. CASE PageError(found, rot)
  BY <1>0, <1>1, PageErrorGoes, GoesOn
<1>2. CASE pc' \in {"blocked", "got"} /\ UNCHANGED <<job, browser>>
  BY <1>0, <1>2, GoesOn DEF Goes, JobGoes, OpenInv, BridgeOnly
<1>3. CASE EmptyPage /\ UNCHANGED job
  <2>1. CASE job.portal = "properstar" /\ rot.empty = 0
    BY <1>0, <1>3, <2>1, GoesOn DEF EmptyPage, NextPage, Goes, JobGoes, OpenInv, BridgeOnly
  <2>2. CASE ~(job.portal = "properstar" /\ rot.empty = 0)
    BY <1>0, <1>3, <2>2, NextSearchGoes, GoesOn DEF EmptyPage, EndSearch, JobGoes
  <2> QED BY <2>1, <2>2
<1> QED BY <1>1, <1>2, <1>3 DEF Fetch

LEMMA RetryBlockedKeeps == ASSUME OpenInv, RetryBlocked PROVE OpenInv'
<1>0. pc # "solving"
  BY DEF RetryBlocked
<1>1. CASE pc' \in {"page", "fetch"} /\ UNCHANGED <<job, browser>>
  BY <1>0, <1>1, GoesOn DEF Goes, JobGoes, OpenInv, BridgeOnly
<1>2. CASE EndSearch(found) /\ UNCHANGED job
  BY <1>0, <1>2, NextSearchGoes, GoesOn DEF EndSearch, JobGoes
<1>3. CASE \E r : PageError(found, r)
  BY <1>0, <1>3, PageErrorGoes, GoesOn
<1> QED BY <1>1, <1>2, <1>3 DEF RetryBlocked, NextPage

LEMMA FinishPageKeeps == ASSUME OpenInv, FinishPage PROVE OpenInv'
<1>0. pc # "solving"
  BY DEF FinishPage
<1>1. CASE \E ids : PageError(ids, rot)
  BY <1>0, <1>1, PageErrorGoes, GoesOn
<1>2. CASE (\E ids : EndSearch(ids)) /\ UNCHANGED job
  BY <1>0, <1>2, NextSearchGoes, GoesOn DEF EndSearch, JobGoes
<1>3. CASE pc' = "page" /\ browser' = browser /\ JobGoes
  BY <1>0, <1>3, GoesOn DEF Goes, OpenInv, BridgeOnly
<1> QED BY <1>1, <1>2, <1>3 DEF FinishPage, NextPage, JobGoes

LEMMA VisitsFailKeeps == ASSUME OpenInv, VisitsFail PROVE OpenInv'
<1>1. pc # "solving" /\ \E ids : PageError(ids, rot)
  BY DEF VisitsFail
<1> QED BY <1>1, PageErrorGoes, GoesOn

\* A step that stays in its loop with the browser it has.
LEMMA StaysKeeps ==
  ASSUME OpenInv, pc # "solving", UNCHANGED browser, JobGoes,
         pc' \in {"page", "fetch", "blocked", "got", "scrolled"}
  PROVE  OpenInv'
  BY GoesOn DEF Goes, OpenInv, BridgeOnly

LEMMA VisitDetailKeeps == ASSUME OpenInv, VisitDetail PROVE OpenInv'
<1>1. pc # "solving" /\ pc' = "got" /\ browser' = browser /\ JobGoes
  BY DEF VisitDetail, JobGoes
<1> QED BY <1>1, StaysKeeps

LEMMA SearchOverKeeps == ASSUME OpenInv, pc # "solving", NextSearch, JobGoes PROVE OpenInv'
  BY NextSearchGoes, GoesOn

LEMMA ScrollKeeps == ASSUME OpenInv, Scroll PROVE OpenInv'
<1>0. pc # "solving"
  BY DEF Scroll
<1>1. CASE SearchError
  BY <1>0, <1>1, SearchErrorGoes, GoesOn
<1>2. CASE pc' \in {"scrolled", "page"} /\ UNCHANGED <<job, browser>>
  BY <1>0, <1>2, StaysKeeps DEF JobGoes
<1> QED BY <1>1, <1>2 DEF Scroll, NextPage

LEMMA FinishScrollKeeps == ASSUME OpenInv, FinishScroll PROVE OpenInv'
<1>0. pc # "solving"
  BY DEF FinishScroll
<1>1. CASE SearchError
  BY <1>0, <1>1, SearchErrorGoes, GoesOn
<1>2. CASE NextSearch /\ UNCHANGED job
  BY <1>0, <1>2, SearchOverKeeps DEF JobGoes
<1> QED BY <1>1, <1>2 DEF FinishScroll

LEMMA ScrapeLdPageKeeps == ASSUME OpenInv, ScrapeLdPage PROVE OpenInv'
<1>0. pc # "solving"
  BY DEF ScrapeLdPage
<1>1. CASE SearchError
  BY <1>0, <1>1, SearchErrorGoes, GoesOn
<1>2. CASE NextSearch /\ JobGoes
  BY <1>0, <1>2, SearchOverKeeps
<1>3. CASE pc' = "page" /\ UNCHANGED <<job, browser>>
  BY <1>0, <1>3, StaysKeeps DEF JobGoes
<1> QED BY <1>1, <1>2, <1>3 DEF ScrapeLdPage, EndSearch, NextPage, JobGoes

LEMMA BridgePageKeeps == ASSUME OpenInv, BridgePage PROVE OpenInv'
<1>0. pc # "solving"
  BY DEF BridgePage
<1>1. CASE SearchError
  BY <1>0, <1>1, SearchErrorGoes, GoesOn
<1>2. CASE NextSearch /\ UNCHANGED job
  BY <1>0, <1>2, SearchOverKeeps DEF JobGoes
<1>3. CASE pc' = "got" /\ UNCHANGED <<job, browser>>
  BY <1>0, <1>3, StaysKeeps DEF JobGoes
<1> QED BY <1>1, <1>2, <1>3 DEF BridgePage, EndSearch

LEMMA SolveChallengeKeeps == ASSUME OpenInv, SolveChallenge PROVE OpenInv'
<1>1. /\ Sound(browser) /\ ~browser.live /\ UNCHANGED job
      /\ job \in JobType /\ job.caller = "runner"
  BY DEF SolveChallenge, OpenInv, BridgeOnly
<1>2. CASE browser' = Launched(browser) /\ pc' = "solving"
  <2>1. Sound(browser')
    BY <1>1, <1>2, LaunchedSound
  <2> QED BY <1>1, <1>2, <2>1 DEF OpenInv, Idle, BridgeOnly
<1>3. CASE LaunchFails(browser) /\ pc' = "unsolved"
  <2>1. Sound(browser') /\ ~browser'.live
    BY <1>1, <1>3, LaunchFailsSound
  <2> QED BY <1>1, <1>3, <2>1 DEF OpenInv, Idle, BridgeOnly
<1> QED BY <1>2, <1>3 DEF SolveChallenge

LEMMA CloseBridgeKeeps == ASSUME OpenInv, CloseBridge PROVE OpenInv'
<1>1. Sound(Closed(browser)) /\ ~Closed(browser).live
  BY ClosedSound DEF OpenInv
<1>2. Sound([Closed(browser) EXCEPT !.orphans = @ + 1]) /\ ~[Closed(browser) EXCEPT !.orphans = @ + 1].live
  BY <1>1 DEF Sound, BrowserType
<1>3. Sound(browser') /\ ~browser'.live
  BY <1>1, <1>2 DEF CloseBridge
<1>4. pc' \in {"solved", "unsolved"} /\ UNCHANGED job
  BY DEF CloseBridge
<1> QED BY <1>3, <1>4 DEF OpenInv, Idle, BridgeOnly

LEMMA BridgeFailsKeeps == ASSUME OpenInv, BridgeFails PROVE OpenInv'
<1>1. pc # "solving" /\ SearchError
  BY DEF BridgeFails
<1> QED BY <1>1, SearchErrorGoes, GoesOn

LEMMA FinishBridgePageKeeps == ASSUME OpenInv, FinishBridgePage PROVE OpenInv'
<1>0. pc # "solving"
  BY DEF FinishBridgePage
<1>1. CASE SearchError
  BY <1>0, <1>1, SearchErrorGoes, GoesOn
<1>2. CASE NextSearch /\ UNCHANGED job
  BY <1>0, <1>2, SearchOverKeeps DEF JobGoes
<1>3. CASE pc' = "page" /\ UNCHANGED <<job, browser>>
  BY <1>0, <1>3, StaysKeeps DEF JobGoes
<1> QED BY <1>1, <1>2, <1>3 DEF FinishBridgePage, EndSearch, NextPage

LEMMA StartEnrichmentKeeps == ASSUME OpenInv, StartEnrichment PROVE OpenInv'
<1>1. /\ pc = "enrichStart" /\ job.caller = "enrich" /\ Sound(browser) /\ ~browser.live
      /\ job.portal # "properstar_http"
  BY DEF StartEnrichment, OpenInv, Idle, BridgeOnly
<1>2. CASE job.portal \in NoParser /\ pc' = "ended" /\ UNCHANGED <<job, browser>>
  BY <1>1, <1>2 DEF OpenInv, RowClosed, Idle, BridgeOnly
<1>3. CASE CloseEnrichment /\ (browser' = browser \/ LaunchFails(browser))
  <2>1. Sound(browser') /\ ~browser'.live
    BY <1>1, <1>3, LaunchFailsSound
  <2> QED BY <1>3, <2>1, CompletedCloses, ClosesKeeps DEF CloseEnrichment
<1>4. CASE browser' = Launched(browser) /\ pc' = "enrich" /\ UNCHANGED job
  <2>1. Sound(browser')
    BY <1>1, <1>4, LaunchedSound
  <2> QED BY <1>1, <1>4, <2>1, GoesOn DEF Goes, JobGoes
<1> QED BY <1>2, <1>3, <1>4 DEF StartEnrichment, NoParser

LEMMA EnrichTargetKeeps == ASSUME OpenInv, EnrichTarget PROVE OpenInv'
<1>1. /\ Sound(browser) /\ Sound(Closed(browser)) /\ ~Closed(browser).live
      /\ job.caller = "enrich" /\ job.portal # "properstar_http"
  BY ClosedSound DEF OpenInv, EnrichTarget, BridgeOnly
<1>2. CASE CloseEnrichment /\ (browser' = Closed(browser) \/ LaunchFails(Closed(browser)))
  <2>1. Sound(browser') /\ ~browser'.live
    BY <1>1, <1>2, LaunchFailsSound
  <2> QED BY <1>2, <2>1, CompletedCloses, ClosesKeeps DEF CloseEnrichment
<1>3. CASE /\ browser' = IF RotationDue THEN Launched(Closed(browser)) ELSE browser
           /\ pc = "enrich" /\ UNCHANGED pc /\ JobGoes
  <2>1. Sound(browser')
    BY <1>1, <1>3, LaunchedSound
  <2> QED BY <1>1, <1>3, <2>1, GoesOn DEF Goes
<1> QED BY <1>2, <1>3 DEF EnrichTarget, JobGoes

\* A browser that dies leaves nothing open.
LEMMA BrowserDiesKeeps == ASSUME OpenInv, BrowserDies PROVE OpenInv'
<1> DEFINE n == browser.open - 1
           b == [browser EXCEPT !.live = FALSE, !.open = n]
<1>1. browser \in BrowserType /\ n \in Nat /\ n = 0
  BY DEF BrowserDies, OpenInv, Sound, BrowserType
<1>2. browser' = b /\ UNCHANGED <<job, pc>>
  BY DEF BrowserDies
<1>3. b \in BrowserType /\ b.open = n /\ b.live = FALSE
  <2> HIDE DEF n
  <2> QED BY <1>1 DEF BrowserType
<1> HIDE DEF b, n
<1>4. pc # "ended"
  BY DEF BrowserDies, OpenInv, Idle
<1> QED BY <1>1, <1>2, <1>3, <1>4 DEF OpenInv, Sound, BridgeOnly

-----------------------------------------------------------------------------

LEMMA InitOpen == Init => OpenInv /\ Counted
<1> SUFFICES ASSUME Init PROVE OpenInv /\ Counted
  OBVIOUS
<1>1. job \in JobType /\ pc = "start" /\ (job.portal = "properstar_http" => job.caller = "runner")
  BY DEF Init, JobType, Rows, Outcomes
<1>2. Sound(browser) /\ ~browser.live
  BY DEF Init, Sound, BrowserType
<1>3. Counted
  BY DEF Init, Counted
<1> QED BY <1>1, <1>2, <1>3 DEF OpenInv, BridgeOnly

LEMMA StepCounts == ASSUME [Next]_vars PROVE Counts
<1> USE DEF EnvEvents, Counts
<1>1. CASE OpenJob \/ InitBrowserForState \/ Return \/ CloseRow
  BY <1>1 DEF OpenJob, InitBrowserForState, LaunchFails, Return, CloseRow
<1>2. CASE BeginPage \/ Fetch \/ RetryBlocked \/ VisitDetail \/ VisitsFail \/ FinishPage
  BY <1>2 DEF BeginPage, RotateSession, LaunchFails, Fetch, RetryBlocked, VisitDetail, VisitsFail,
              FinishPage
<1>3. CASE Scroll \/ FinishScroll \/ ScrapeLdPage
  BY <1>3 DEF Scroll, FinishScroll, ScrapeLdPage
<1>4. CASE SolveChallenge \/ CloseBridge \/ BridgeFails \/ BridgePage \/ FinishBridgePage
  BY <1>4 DEF SolveChallenge, LaunchFails, CloseBridge, BridgeFails, BridgePage, FinishBridgePage
<1>5. CASE StartEnrichment \/ EnrichTarget
  BY <1>5 DEF StartEnrichment, EnrichTarget, LaunchFails
<1>6. CASE OtherRun \/ BrowserDies \/ CookiesExpire \/ Ended \/ UNCHANGED vars
  BY <1>6 DEF OtherRun, BrowserDies, CookiesExpire, Ended, vars
<1> QED BY <1>1, <1>2, <1>3, <1>4, <1>5, <1>6 DEF Next

LEMMA StepKeeps == OpenInv /\ Counted /\ [Next]_vars => OpenInv' /\ Counted'
<1> SUFFICES ASSUME OpenInv, Counted, [Next]_vars PROVE OpenInv' /\ Counted'
  OBVIOUS
<1>1. Counted' /\ used["session"] =< used'["session"] /\ {used["session"], used'["session"]} \subseteq Nat
  BY StepCounts, CountsFacts, SessionEvent DEF Counted
<1>2. CASE UNCHANGED <<job, pc, browser>>
  BY <1>1, <1>2 DEF OpenInv, RowClosed, Sound, BridgeOnly
<1>3. CASE OpenJob \/ InitBrowserForState \/ Return \/ CloseRow
  BY <1>1, <1>3, OpenJobKeeps, InitBrowserKeeps, ReturnKeeps, CloseRowKeeps
<1>4. CASE BeginPage \/ Fetch \/ RetryBlocked \/ VisitDetail \/ VisitsFail \/ FinishPage
  BY <1>1, <1>4, BeginPageKeeps, FetchKeeps, RetryBlockedKeeps, VisitDetailKeeps, VisitsFailKeeps,
     FinishPageKeeps
<1>5. CASE Scroll \/ FinishScroll \/ ScrapeLdPage
  BY <1>1, <1>5, ScrollKeeps, FinishScrollKeeps, ScrapeLdPageKeeps
<1>6. CASE SolveChallenge \/ CloseBridge \/ BridgeFails \/ BridgePage \/ FinishBridgePage
  BY <1>1, <1>6, SolveChallengeKeeps, CloseBridgeKeeps, BridgeFailsKeeps, BridgePageKeeps,
     FinishBridgePageKeeps
<1>7. CASE StartEnrichment \/ EnrichTarget
  BY <1>1, <1>7, StartEnrichmentKeeps, EnrichTargetKeeps
<1>8. CASE BrowserDies
  BY <1>1, <1>8, BrowserDiesKeeps
<1>9. CASE OtherRun \/ CookiesExpire \/ Ended
  BY <1>2, <1>9 DEF OtherRun, CookiesExpire, Ended, vars
<1> QED BY <1>1, <1>2, <1>3, <1>4, <1>5, <1>6, <1>7, <1>8, <1>9 DEF Next, vars

LEMMA OpenInvariant == Spec => [](OpenInv /\ Counted)
  BY InitOpen, StepKeeps, PTL DEF Spec

-----------------------------------------------------------------------------
(* The browsers left behind *)

OrphanInv == browser.orphans =< used["orphan"]

\* A browser left behind has its event.
OrphanStep ==
  \/ browser'.orphans = browser.orphans
  \/ Spend("orphan") /\ browser'.orphans = browser.orphans + 1

LEMMA HandleOrphans ==
  ASSUME NEW b \in BrowserType
  PROVE  Closed(b).orphans = b.orphans /\ Launched(b).orphans = b.orphans
  BY DEF BrowserType, Closed, Launched

LEMMA LaunchFailsOrphans ==
  ASSUME OpenInv, NEW b \in BrowserType, b.orphans = browser.orphans, LaunchFails(b)
  PROVE  OrphanStep
  BY DEF BrowserType, LaunchFails, OrphanStep

LEMMA StepOrphans == ASSUME OpenInv, [Next]_vars PROVE OrphanStep
<1>1. browser \in BrowserType /\ Closed(browser) \in BrowserType
  BY ClosedSound DEF OpenInv, Sound
<1>2. /\ Closed(browser).orphans = browser.orphans /\ Launched(browser).orphans = browser.orphans
      /\ Launched(Closed(browser)).orphans = browser.orphans
  BY <1>1, HandleOrphans
<1>3. CASE browser' \in {browser, Closed(browser), Launched(browser), Launched(Closed(browser))}
  BY <1>2, <1>3 DEF OrphanStep
<1>4. CASE LaunchFails(browser) \/ LaunchFails(Closed(browser))
  BY <1>1, <1>2, <1>4, LaunchFailsOrphans
<1>5. CASE NextSearch \/ SearchError \/ (\E ids, r : PageError(ids, r))
  BY <1>3, <1>5 DEF NextSearch, SearchError, PageError, EndSearch
<1>6. CASE OpenJob \/ InitBrowserForState \/ Return \/ CloseRow
  BY <1>3, <1>4, <1>6 DEF OpenJob, InitBrowserForState, Return, CloseRow
<1>7. CASE BeginPage
  BY <1>3, <1>4, <1>5, <1>7 DEF BeginPage, RotateSession, EndSearch
<1>8. CASE Fetch \/ RetryBlocked \/ VisitDetail \/ VisitsFail \/ FinishPage
  BY <1>3, <1>5, <1>8 DEF Fetch, EmptyPage, EndSearch, RetryBlocked, VisitDetail, VisitsFail, FinishPage
<1>9. CASE Scroll \/ FinishScroll \/ ScrapeLdPage
  BY <1>3, <1>5, <1>9 DEF Scroll, FinishScroll, ScrapeLdPage, EndSearch
<1>10. CASE CloseBridge
  <2>1. [Closed(browser) EXCEPT !.orphans = @ + 1].orphans = browser.orphans + 1
    BY <1>1, <1>2 DEF BrowserType
  <2> QED BY <1>3, <1>10, <2>1 DEF CloseBridge, OrphanStep
<1>11. CASE SolveChallenge \/ BridgeFails \/ BridgePage \/ FinishBridgePage
  BY <1>3, <1>4, <1>5, <1>11 DEF SolveChallenge, BridgeFails, BridgePage, FinishBridgePage, EndSearch
<1>12. CASE StartEnrichment \/ EnrichTarget
  BY <1>3, <1>4, <1>12 DEF StartEnrichment, EnrichTarget
<1>13. CASE BrowserDies
  BY <1>1, <1>13 DEF BrowserDies, BrowserType, OrphanStep
<1>14. CASE OtherRun \/ CookiesExpire \/ Ended \/ UNCHANGED vars
  BY <1>3, <1>14 DEF OtherRun, CookiesExpire, Ended, vars
<1> QED BY <1>6, <1>7, <1>8, <1>9, <1>10, <1>11, <1>12, <1>13, <1>14 DEF Next

LEMMA StepKeepsOrphans == OpenInv /\ Counted /\ OrphanInv /\ [Next]_vars => OrphanInv'
<1> SUFFICES ASSUME OpenInv, Counted, OrphanInv, [Next]_vars PROVE OrphanInv'
  OBVIOUS
<1>1. used["orphan"] \in Nat /\ used'["orphan"] \in Nat /\ used["orphan"] =< used'["orphan"]
  BY StepCounts, CountsFacts, SessionEvent DEF Counted
<1>2. Spend("orphan") => used'["orphan"] = used["orphan"] + 1
  BY SpendFacts, SessionEvent
<1>3. browser.orphans \in Nat
  BY DEF OpenInv, Sound, BrowserType
<1> QED BY <1>1, <1>2, <1>3, StepOrphans DEF OrphanStep, OrphanInv

\* A run never has two browsers, and however it ends it has closed every browser it was
\* given (but for the contexts that could not be made or closed) and its job row (but for a
\* failing session, and run_enrichment of a portal without a detail parser).
THEOREM NothingLeftOpenCorrect == Spec => []NothingLeftOpen
<1>1. Init => OrphanInv
  BY SessionEvent DEF Init, OrphanInv
<1>2. Spec => []OrphanInv
  BY <1>1, StepKeepsOrphans, OpenInvariant, PTL DEF Spec
<1>3. OpenInv /\ OrphanInv => NothingLeftOpen
  BY DEF OpenInv, OrphanInv, Sound, BrowserType, NothingLeftOpen, Idle, RowClosed, NoParser
<1> QED BY <1>2, <1>3, OpenInvariant, PTL

-----------------------------------------------------------------------------
(* Least counterexamples *)

LEMMA LeastNumber == ASSUME NEW B \in SUBSET Nat, B # {} PROVE \E n \in B : \A m \in B : n =< m
<1> DEFINE R == {ss \in Nat \X Nat : ss[1] < ss[2]}
<1>1. IsWellFoundedOn(R, Nat)
  BY NatLessThanWellFounded DEF OpToRel
<1>2. \A n, m \in Nat : n < m => <<n, m>> \in R
  OBVIOUS
<1> HIDE DEF R
<1>3. PICK n \in B : \A m \in B : <<m, n>> \notin R
  BY <1>1, WFMin
<1>4. ASSUME NEW m \in B PROVE n =< m
  <2>1. n \in Nat /\ m \in Nat /\ ~ m < n
    BY <1>2, <1>3
  <2> QED BY <2>1
<1> QED BY <1>3, <1>4

-----------------------------------------------------------------------------
(* Lemmas: elements at positions *)

\* One element more, and the recursion of Those up to the k-th.
Taken(s, at_, k, t) == IF k \in at_ THEN Append(t, s[k]) ELSE t
Upto(s, at_, k, g) ==
  g = [n \in 0 .. k |-> IF n = 0 THEN <<>> ELSE Taken(s, at_, n, g[n - 1])]

LEMMA UptoExists == ASSUME NEW s, NEW I, NEW n \in Nat PROVE \E g : Upto(s, I, n, g)
<1> DEFINE Bad == {k \in Nat : ~ \E g : Upto(s, I, k, g)}
<1>1. SUFFICES ASSUME Bad # {} PROVE FALSE
  OBVIOUS
<1>2. PICK k \in Bad : \A i \in Bad : k =< i
  <2>1. Bad \in SUBSET Nat
    OBVIOUS
  <2> HIDE DEF Bad
  <2> QED BY <1>1, <2>1, LeastNumber
<1> DEFINE e(f, i) == IF i = 0 THEN <<>> ELSE Taken(s, I, i, f[i - 1])
<1>3. CASE k = 0
  <2>1. PICK g : g = [i \in 0 .. 0 |-> <<>>]
    OBVIOUS
  <2>2. \A i \in 0 .. 0 : g[i] = e(g, i)
    BY <2>1
  <2>3. g = [i \in 0 .. 0 |-> e(g, i)]
    BY <2>1, <2>2
  <2>4. Upto(s, I, 0, g)
    BY <2>3 DEF Upto
  <2> QED BY <1>2, <1>3, <2>4
<1>4. CASE k # 0
  <2>1. k \in Nat /\ k - 1 \in Nat /\ k - 1 \notin Bad
    BY <1>2, <1>4
  <2>2. PICK h : Upto(s, I, k - 1, h)
    BY <2>1
  <2>3. PICK last : last = Taken(s, I, k, h[k - 1])
    OBVIOUS
  <2>4. PICK g : g = [i \in 0 .. k |-> IF i = k THEN last ELSE h[i]]
    OBVIOUS
  <2>5. \A i \in 0 .. (k - 1) : h[i] = e(h, i)
    BY <2>2 DEF Upto
  <2>6. ASSUME NEW i \in 0 .. k PROVE g[i] = e(g, i)
    <3>1. CASE i = k
      <4>1. g[i] = last /\ g[i - 1] = h[i - 1]
        BY <1>4, <2>1, <2>4, <3>1
      <4> QED BY <1>4, <2>3, <3>1, <4>1
    <3>2. CASE i # k /\ i # 0
      <4>1. i \in 0 .. (k - 1) /\ i - 1 \in 0 .. k /\ i - 1 # k
        BY <2>1, <3>2
      <4>2. g[i] = h[i] /\ g[i - 1] = h[i - 1]
        BY <2>4, <3>2, <4>1
      <4> QED BY <2>5, <4>1, <4>2
    <3>3. CASE i # k /\ i = 0
      <4>1. 0 \in 0 .. (k - 1) /\ g[i] = h[i]
        BY <2>1, <2>4, <3>3
      <4> QED BY <2>5, <3>3, <4>1
    <3> QED BY <3>1, <3>2, <3>3
  <2>7. g = [i \in 0 .. k |-> e(g, i)]
    <3> HIDE DEF e
    <3> QED BY <2>4, <2>6
  <2>8. Upto(s, I, k, g)
    BY <2>7 DEF Upto
  <2> QED BY <1>2, <2>8
<1> QED BY <1>3, <1>4

\* What is taken of a sequence is a sequence of its elements, and no longer.
LEMMA ThoseFacts ==
  ASSUME NEW S, NEW s \in Seq(S), NEW I
  PROVE  Those(s, I) \in Seq(S) /\ Len(Those(s, I)) =< Len(s)
<1> DEFINE n == Len(s)
           G == CHOOSE g : Upto(s, I, n, g)
           Good(k) == G[k] \in Seq(S) /\ Len(G[k]) =< k
           Bad == {k \in 0 .. n : ~Good(k)}
<1>1. n \in Nat
  OBVIOUS
<1>2. Those(s, I) = G[n]
  BY DEF Those, Upto, Taken
<1>3. Upto(s, I, n, G)
  <2> HIDE DEF n
  <2> QED BY <1>1, UptoExists
<1>4. \A k \in 0 .. n : G[k] = IF k = 0 THEN <<>> ELSE Taken(s, I, k, G[k - 1])
  <2> HIDE DEF G
  <2> QED BY <1>3 DEF Upto
<1> HIDE DEF G
<1>5. Good(0)
  <2>1. G[0] = <<>>
    BY <1>1, <1>4
  <2> QED BY <2>1
<1>6. ASSUME NEW k \in 1 .. n, Good(k - 1) PROVE Good(k)
  <2>1. G[k] = Taken(s, I, k, G[k - 1]) /\ s[k] \in S
    BY <1>4
  <2>2. PICK t : t = G[k - 1]
    OBVIOUS
  <2>3. t \in Seq(S) /\ Len(t) =< k - 1
    BY <1>6, <2>2
  <2>4. Append(t, s[k]) \in Seq(S) /\ Len(Append(t, s[k])) = Len(t) + 1 /\ Len(t) \in Nat
    BY <2>1, <2>3
  <2>5. G[k] = Append(t, s[k]) \/ G[k] = t
    BY <2>1, <2>2 DEF Taken
  <2>6. Len(t) + 1 =< k /\ Len(t) =< k
    <3>1. k \in Int
      BY <1>1
    <3> HIDE DEF n
    <3> QED BY <2>3, <2>4, <3>1
  <2>7. G[k] \in Seq(S) /\ Len(G[k]) =< k
    BY <2>3, <2>4, <2>5, <2>6
  <2> QED BY <2>7
<1>7. Bad = {}
  <2>1. SUFFICES ASSUME Bad # {} PROVE FALSE
    OBVIOUS
  <2>2. PICK k \in Bad : \A i \in Bad : k =< i
    <3>1. Bad \in SUBSET Nat
      BY <1>1
    <3> HIDE DEF Bad
    <3> QED BY <2>1, <3>1, LeastNumber
  <2>3. k \in 0 .. n /\ ~Good(k)
    OBVIOUS
  <2> HIDE DEF Good
  <2>4. k # 0
    BY <1>5, <2>3
  <2>5. k \in 1 .. n /\ k - 1 \in 0 .. n /\ ~ k =< k - 1
    BY <1>1, <2>3, <2>4
  <2>6. Good(k - 1)
    BY <2>2, <2>5
  <2> QED BY <1>6, <2>3, <2>5, <2>6
<1>8. Good(n)
  <2> HIDE DEF Good
  <2> QED BY <1>1, <1>7
<1> QED BY <1>2, <1>8

LEMMA IdsFacts ==
  ASSUME NEW cards \in Seq(Card)
  PROVE  Ids(cards) \in Seq(Listings) /\ Len(Ids(cards)) = Len(cards)
<1>1. DOMAIN cards = 1 .. Len(cards) /\ Len(cards) \in Nat
  OBVIOUS
<1>2. \A i \in 1 .. Len(cards) : cards[i] \in Card
  OBVIOUS
<1>3. \A c \in Card : c.id \in Listings
  BY DEF Card
<1> QED BY <1>1, <1>2, <1>3 DEF Ids

-----------------------------------------------------------------------------
(* Lemmas: what is made of a page *)

PageType == [blocked : BOOLEAN, cards : Seq(Card)]

LEMMA AnswersTyped == \A a \in Answers : a.cards \in Seq(Card) /\ Len(a.cards) =< PageSize
<1>1. /\ <<>> \in Seq(Card) /\ Len(<<>>) = 0 /\ PageSize \in Nat
      /\ \A c \in Pages : c \in Seq(Card) /\ Len(c) =< PageSize
  BY PagesAssumption
<1>2. \A a \in Answers : a.cards \in Pages \/ a.cards = <<>>
  BY DEF Answers
<1>3. 0 =< PageSize
  BY <1>1
<1> QED BY <1>1, <1>2, <1>3

\* Only the scraper of one portal tells that it is blocked.
LEMMA SearchPageTyped ==
  ASSUME NEW p, NEW a \in Answers
  PROVE  /\ SearchPage(p, a) \in PageType
         /\ SearchPage(p, a).blocked => p = "inmuebles24"
<1>1. a.cards \in Seq(Card) /\ <<>> \in Seq(Card)
  BY AnswersTyped
<1>2. \A c \in Seq(Card) : Shown(c) \in PageType /\ ~Shown(c).blocked
  BY DEF Shown, PageType
<1>3. Empty \in PageType /\ ~Empty.blocked /\ Blocked \in PageType
  BY <1>1 DEF Empty, Blocked, PageType
<1>4. \A I : Those(a.cards, I) \in Seq(Card)
  BY <1>1, ThoseFacts
<1>5. Inmuebles24Page(a) \in PageType
  BY <1>1, <1>2, <1>3 DEF Inmuebles24Page
<1>6. /\ LamudiPage(a) \in PageType /\ ~LamudiPage(a).blocked
      /\ PropiedadesPage(a) \in PageType /\ ~PropiedadesPage(a).blocked
      /\ VivanunciosPage(a) \in PageType /\ ~VivanunciosPage(a).blocked
  BY <1>1, <1>2, <1>3 DEF LamudiPage, PropiedadesPage, VivanunciosPage
<1>7. ProperstarPage(a) \in PageType /\ ~ProperstarPage(a).blocked
  BY <1>2, <1>3, <1>4 DEF ProperstarPage
<1>8. Shown(ParseSearchHtml(a)) \in PageType /\ ~Shown(ParseSearchHtml(a)).blocked
  BY <1>1, <1>2, <1>4 DEF ParseSearchHtml
<1> QED BY <1>5, <1>6, <1>7, <1>8 DEF SearchPage

\* No page is longer than the longest.
LEMMA SearchPageSize ==
  ASSUME NEW p, NEW a \in Answers
  PROVE  Len(SearchPage(p, a).cards) =< PageSize
<1>1. a.cards \in Seq(Card) /\ Len(a.cards) =< PageSize /\ Len(<<>>) = 0 /\ PageSize \in Nat
  BY AnswersTyped, PagesAssumption
<1>2. \A I : Len(Those(a.cards, I)) =< PageSize
  <2> TAKE I
  <2>1. Those(a.cards, I) \in Seq(Card) /\ Len(Those(a.cards, I)) =< Len(a.cards)
    BY <1>1, ThoseFacts
  <2>2. Len(Those(a.cards, I)) \in Nat /\ Len(a.cards) \in Nat
    BY <1>1, <2>1
  <2> QED BY <1>1, <2>1, <2>2
<1>3. \A c : Shown(c).cards = c
  BY DEF Shown
<1>4. Empty.cards = <<>> /\ Blocked.cards = <<>>
  BY DEF Empty, Blocked
<1>5. Len(Inmuebles24Page(a).cards) =< PageSize
  BY <1>1, <1>3, <1>4 DEF Inmuebles24Page
<1>6. /\ Len(LamudiPage(a).cards) =< PageSize /\ Len(PropiedadesPage(a).cards) =< PageSize
      /\ Len(VivanunciosPage(a).cards) =< PageSize
  BY <1>1, <1>3, <1>4 DEF LamudiPage, PropiedadesPage, VivanunciosPage
<1>7. Len(ProperstarPage(a).cards) =< PageSize
  BY <1>1, <1>2, <1>3, <1>4 DEF ProperstarPage
<1>8. Len(Shown(ParseSearchHtml(a)).cards) =< PageSize
  BY <1>1, <1>2, <1>3 DEF ParseSearchHtml
<1> QED BY <1>5, <1>6, <1>7, <1>8 DEF SearchPage

LEMMA ItemsFacts ==
  ASSUME NEW p, NEW cards \in Seq(Card), NEW d
  PROVE  Items(p, cards, d) \in Seq(Listings) /\ Len(Items(p, cards, d)) =< Len(cards)
<1>1. Linked(cards) \in Seq(Card) /\ Len(Linked(cards)) =< Len(cards)
  BY ThoseFacts DEF Linked
<1>2. Ids(Linked(cards)) \in Seq(Listings) /\ Len(Ids(Linked(cards))) =< Len(cards)
  BY <1>1, IdsFacts
<1>3. Ids(cards) \in Seq(Listings) /\ Len(Ids(cards)) =< Len(cards)
  BY IdsFacts
<1> QED BY <1>2, <1>3 DEF Items

-----------------------------------------------------------------------------
(* Lemmas: counting items *)

Has(ids, l) == \E i \in DOMAIN ids : ids[i] = l

LEMMA CountFacts ==
  ASSUME NEW ids \in Seq(Listings), NEW l
  PROVE  Count(ids, l) \in Nat /\ (Count(ids, l) > 0 <=> Has(ids, l))
<1> DEFINE at_ == {i \in DOMAIN ids : ids[i] = l}
<1>1. DOMAIN ids = 1 .. Len(ids) /\ Len(ids) \in Nat
  OBVIOUS
<1>2. IsFiniteSet(at_)
  <2>1. IsFiniteSet(1 .. Len(ids))
    BY <1>1, FS_Interval
  <2>2. at_ \subseteq 1 .. Len(ids)
    BY <1>1
  <2> HIDE DEF at_
  <2> QED BY <2>1, <2>2, FS_Subset
<1>3. Cardinality(at_) \in Nat /\ (Cardinality(at_) = 0 <=> at_ = {})
  BY <1>2, FS_CardinalityType, FS_EmptySet
<1>4. Count(ids, l) = Cardinality(at_)
  BY DEF Count
<1>5. Has(ids, l) <=> at_ # {}
  BY DEF Has
<1> HIDE DEF at_
<1> QED BY <1>3, <1>4, <1>5

\* The second part is counted at positions moved by the length of the first.
LEMMA CountJoined ==
  ASSUME NEW s \in Seq(Listings), NEW t \in Seq(Listings), NEW l
  PROVE  Count(s \o t, l) = Count(s, l) + Count(t, l)
<1> DEFINE n == Len(s)
           A == {i \in DOMAIN s : s[i] = l}
           B == {i \in DOMAIN t : t[i] = l}
           C == {i \in DOMAIN (s \o t) : (s \o t)[i] = l}
           M == {n + i : i \in B}
           f == [i \in B |-> n + i]
<1>1. n \in Nat /\ DOMAIN s = 1 .. n /\ DOMAIN t = 1 .. Len(t) /\ Len(t) \in Nat
  OBVIOUS
<1>2. IsFiniteSet(A) /\ IsFiniteSet(B)
  <2>1. IsFiniteSet(1 .. n) /\ IsFiniteSet(1 .. Len(t))
    BY <1>1, FS_Interval
  <2>2. A \subseteq 1 .. n /\ B \subseteq 1 .. Len(t)
    BY <1>1
  <2> HIDE DEF A, B, n
  <2> QED BY <2>1, <2>2, FS_Subset
<1>3. f \in Bijection(B, M)
  <2>1. f \in [B -> M] /\ \A i, j \in B : f[i] = f[j] => i = j
    BY <1>1
  <2>2. \A m \in M : \E i \in B : f[i] = m
    OBVIOUS
  <2> HIDE DEF f, M, B
  <2>3. f \in Injection(B, M) /\ f \in Surjection(B, M)
    BY <2>1, <2>2 DEF Injection, IsInjective, Surjection
  <2> QED BY <2>3 DEF Bijection
<1>4. IsFiniteSet(M) /\ Cardinality(M) = Cardinality(B)
  <2> HIDE DEF f, M, B
  <2> QED BY <1>2, <1>3, FS_Bijection DEF ExistsBijection
<1>5. C = A \cup M /\ A \cap M = {}
  <2>1. DOMAIN (s \o t) = 1 .. (n + Len(t))
    OBVIOUS
  <2>2. \A i \in 1 .. (n + Len(t)) : (s \o t)[i] = IF i =< n THEN s[i] ELSE t[i - n]
    OBVIOUS
  <2>3. ASSUME NEW i \in C PROVE i \in A \cup M
    <3>1. i \in 1 .. (n + Len(t)) /\ (s \o t)[i] = l
      BY <2>1
    <3>2. CASE i =< n
      BY <1>1, <2>2, <3>1, <3>2
    <3>3. CASE ~ i =< n
      <4>1. i - n \in 1 .. Len(t) /\ n + (i - n) = i /\ t[i - n] = l
        BY <1>1, <2>2, <3>1, <3>3
      <4>2. i - n \in B
        BY <1>1, <4>1
      <4> QED BY <4>1, <4>2
    <3> QED BY <3>2, <3>3
  <2>4. ASSUME NEW i \in A PROVE i \in C /\ i \notin M
    <3>1. i \in 1 .. (n + Len(t)) /\ i =< n /\ s[i] = l
      BY <1>1
    <3>2. i \in C
      BY <2>1, <2>2, <3>1
    <3>3. \A j \in B : n + j > n
      BY <1>1
    <3> QED BY <1>1, <3>1, <3>2, <3>3
  <2>5. ASSUME NEW j \in B PROVE n + j \in C
    <3>1. n + j \in 1 .. (n + Len(t)) /\ ~ n + j =< n /\ (n + j) - n = j /\ t[j] = l
      BY <1>1
    <3>2. (s \o t)[n + j] = l
      BY <2>2, <3>1
    <3> QED BY <2>1, <3>1, <3>2
  <2> HIDE DEF A, B, C
  <2> QED BY <2>3, <2>4, <2>5
<1>6. Cardinality(C) = Cardinality(A) + Cardinality(B)
  <2> HIDE DEF A, B, C, M
  <2>1. Cardinality(A \cup M) = Cardinality(A) + Cardinality(M) - Cardinality(A \cap M)
    BY <1>2, <1>4, FS_Union
  <2>2. Cardinality({}) = 0 /\ Cardinality(A) \in Nat /\ Cardinality(B) \in Nat
    BY <1>2, FS_EmptySet, FS_CardinalityType
  <2>3. Cardinality(A \cup M) = Cardinality(A) + Cardinality(B) - 0
    BY <1>4, <1>5, <2>1, <2>2
  <2> QED BY <1>5, <2>2, <2>3
<1> QED BY <1>6 DEF Count

Bag == [Listings -> Nat]

LEMMA PlusFacts ==
  ASSUME NEW bag \in Bag, NEW ids \in Seq(Listings)
  PROVE  /\ Plus(bag, ids) \in Bag
         /\ \A l \in Listings : Plus(bag, ids)[l] = bag[l] + Count(ids, l)
<1>1. \A l \in Listings : Count(ids, l) \in Nat
  BY CountFacts
<1> QED BY <1>1 DEF Plus, Bag

LEMMA DistinctFacts ==
  ASSUME NEW ids \in Seq(Listings)
  PROVE  /\ Distinct(ids) \in Seq(Listings)
         /\ \A l : Has(Distinct(ids), l) <=> Has(ids, l)
<1> DEFINE s == {ids[i] : i \in DOMAIN ids}
           n == Cardinality(s)
           P(f) == \A i, j \in DOMAIN f : i # j => f[i] # f[j]
           d == CHOOSE f \in [1 .. n -> s] : P(f)
<1>1. IsFiniteSet(s)
  <2>1. DOMAIN ids = 1 .. Len(ids) /\ Len(ids) \in Nat
    OBVIOUS
  <2>2. IsFiniteSet(DOMAIN ids)
    BY <2>1, FS_Interval
  <2>3. ids \in Surjection(DOMAIN ids, s)
    BY <2>1 DEF Surjection
  <2> QED BY <2>2, <2>3, FS_Surjection
<1>2. s \subseteq Listings
  OBVIOUS
<1>3. Distinct(ids) = d
  BY DEF Distinct
<1>4. \A l : l \in s <=> Has(ids, l)
  BY DEF Has
<1> HIDE DEF s
<1>5. n \in Nat
  BY <1>1, FS_CardinalityType
<1>6. PICK f \in [1 .. n -> s] : P(f)
  <2>1. PICK g : g \in Bijection(1 .. n, s)
    BY <1>1, FS_CardinalityType DEF ExistsBijection
  <2> QED BY <2>1 DEF Bijection, Injection, IsInjective
<1>7. d \in [1 .. n -> s] /\ P(d)
  <2> HIDE DEF P
  <2> QED BY <1>6
<1> HIDE DEF d
<1>8. d \in Surjection(1 .. n, s)
  <2>1. d \in Injection(1 .. n, s)
    BY <1>7 DEF Injection, IsInjective
  <2>2. IsFiniteSet(1 .. n) /\ Cardinality(1 .. n) = n
    BY <1>5, FS_Interval
  <2> QED BY <1>1, <2>1, <2>2, FS_Injection
<1>9. d \in Seq(Listings) /\ DOMAIN d = 1 .. n
  <2> HIDE DEF n
  <2> QED BY <1>2, <1>5, <1>7
<1>10. \A l : Has(d, l) <=> l \in s
  BY <1>7, <1>8, <1>9 DEF Has, Surjection
<1> QED BY <1>3, <1>4, <1>9, <1>10

-----------------------------------------------------------------------------
(* The loops keep to their bounds *)

Loops == {"page", "fetch", "blocked", "got", "scrolled", "solving", "solved", "unsolved"}

PlaceInv ==
  /\ pc \in Loops \cup {"start", "state", "enrichStart", "enrich", "closing", "ended"}
  /\ at \in [state : 1 .. States + 1, op : 1 .. Operations, pg : Nat]
  /\ pc \in Loops => at.state =< States

LEMMA LimitsFacts ==
  /\ States \in Nat \ {0} /\ Operations \in Nat \ {0}
  /\ BlockLimit \in Nat \ {0} /\ Retries \in Nat \ {0}
  BY LimitsAssumption

LEMMA NextSearchPlace == ASSUME PlaceInv, pc \in Loops, NextSearch PROVE PlaceInv'
<1> DEFINE last == at.op = Operations
<1>1. at.state \in 1 .. States /\ at.op \in 1 .. Operations /\ at.pg \in Nat
  BY LimitsFacts DEF PlaceInv
<1>2. at' = IF last THEN [at EXCEPT !.state = @ + 1] ELSE [at EXCEPT !.op = @ + 1, !.pg = 1]
  BY DEF NextSearch
<1>3. pc' = IF last THEN "state" ELSE "page"
  BY DEF NextSearch
<1>4. CASE last
  <2>1. at.state + 1 \in 1 .. States + 1
    BY <1>1, LimitsFacts
  <2> QED BY <1>2, <1>3, <1>4, <2>1 DEF PlaceInv, Loops
<1>5. CASE ~last
  <2>1. at.op + 1 \in 1 .. Operations /\ 1 \in Nat
    BY <1>1, <1>5, LimitsFacts
  <2>2. at' \in [state : 1 .. States + 1, op : 1 .. Operations, pg : Nat] /\ at'.state = at.state
    BY <1>2, <1>5, <2>1 DEF PlaceInv
  <2> QED BY <1>1, <1>3, <1>5, <2>2 DEF PlaceInv, Loops
<1> QED BY <1>4, <1>5

LEMMA NextPagePlace == ASSUME PlaceInv, pc \in Loops, NEW r, NextPage(r) PROVE PlaceInv'
<1>1. at.pg + 1 \in Nat
  BY DEF PlaceInv
<1>2. at' = [at EXCEPT !.pg = @ + 1] /\ pc' = "page"
  BY DEF NextPage
<1>3. at' \in [state : 1 .. States + 1, op : 1 .. Operations, pg : Nat] /\ at'.state = at.state
  BY <1>1, <1>2 DEF PlaceInv
<1> QED BY <1>2, <1>3 DEF PlaceInv, Loops

\* The rest of a state is given up.
LEMMA StateOverPlace ==
  ASSUME PlaceInv, pc \in Loops, pc' = "state", at' = [at EXCEPT !.state = @ + 1]
  PROVE  PlaceInv'
<1>1. at.state + 1 \in 1 .. States + 1
  BY LimitsFacts DEF PlaceInv
<1> QED BY <1>1 DEF PlaceInv, Loops

LEMMA SearchErrorPlace == ASSUME PlaceInv, pc \in Loops, SearchError PROVE PlaceInv'
  BY NextSearchPlace, StateOverPlace DEF SearchError

LEMMA PageErrorPlace == ASSUME PlaceInv, pc \in Loops, NEW ids, NEW r, PageError(ids, r) PROVE PlaceInv'
  BY NextSearchPlace, NextPagePlace DEF PageError, EndSearch

LEMMA StaysPlace ==
  ASSUME PlaceInv, UNCHANGED at, (pc \in Loops /\ pc' \in Loops) \/ pc' \in {"state", "enrichStart", "enrich", "closing", "ended"}
  PROVE  PlaceInv'
  BY DEF PlaceInv, Loops

LEMMA StepKeepsPlace == PlaceInv /\ [Next]_vars => PlaceInv'
<1> SUFFICES ASSUME PlaceInv, [Next]_vars PROVE PlaceInv'
  OBVIOUS
<1>1. CASE UNCHANGED <<pc, at>>
  BY <1>1 DEF PlaceInv
<1>2. CASE InitBrowserForState
  <2>1. CASE pc' = "closing" /\ UNCHANGED at
    BY <2>1, StaysPlace
  <2>2. CASE at.state =< States /\ pc' = "page" /\ at' = [at EXCEPT !.op = 1, !.pg = 1]
    <3>1. 1 \in 1 .. Operations /\ 1 \in Nat
      BY LimitsFacts
    <3>2. at' \in [state : 1 .. States + 1, op : 1 .. Operations, pg : Nat] /\ at'.state = at.state
      BY <2>2, <3>1 DEF PlaceInv
    <3> QED BY <2>2, <3>2 DEF PlaceInv, Loops
  <2> QED BY <1>2, <2>1, <2>2 DEF InitBrowserForState, Raise
<1>3. CASE OpenJob \/ Return \/ CloseRow
  BY <1>3, StaysPlace DEF OpenJob, Return, CloseRow
<1>4. CASE BeginPage
  <2>1. pc \in Loops
    BY <1>4 DEF BeginPage, Loops
  <2>2. CASE RotateSession(browser)
    <3>1. CASE pc' = "fetch" /\ UNCHANGED at
      BY <2>1, <3>1, StaysPlace DEF Loops
    <3>2. CASE pc' = "state" /\ at' = [at EXCEPT !.state = @ + 1]
      BY <2>1, <3>2, StateOverPlace
    <3> QED BY <2>2, <3>1, <3>2 DEF RotateSession
  <2>3. CASE EndSearch(found)
    BY <2>1, <2>3, NextSearchPlace DEF EndSearch
  <2>4. CASE SearchError
    BY <2>1, <2>4, SearchErrorPlace
  <2>5. CASE pc' = "fetch" /\ UNCHANGED at
    BY <2>1, <2>5, StaysPlace DEF Loops
  <2> QED BY <1>4, <2>2, <2>3, <2>4, <2>5 DEF BeginPage
<1>5. CASE Fetch
  <2>1. pc \in Loops
    BY <1>5 DEF Fetch, Loops
  <2>2. CASE EmptyPage
    BY <2>1, <2>2, NextSearchPlace, NextPagePlace DEF EmptyPage, EndSearch
  <2>3. CASE PageError(found, rot)
    BY <2>1, <2>3, PageErrorPlace
  <2>4. CASE pc' \in {"blocked", "got"} /\ UNCHANGED at
    BY <2>1, <2>4, StaysPlace DEF Loops
  <2> QED BY <1>5, <2>2, <2>3, <2>4 DEF Fetch
<1>6. CASE RetryBlocked
  <2>1. pc \in Loops
    BY <1>6 DEF RetryBlocked, Loops
  <2>2. CASE NextPage(rot)
    BY <2>1, <2>2, NextPagePlace
  <2>3. CASE EndSearch(found)
    BY <2>1, <2>3, NextSearchPlace DEF EndSearch
  <2>4. CASE \E r : PageError(found, r)
    BY <2>1, <2>4, PageErrorPlace
  <2>5. CASE pc' = "fetch" /\ UNCHANGED at
    BY <2>1, <2>5, StaysPlace DEF Loops
  <2> QED BY <1>6, <2>2, <2>3, <2>4, <2>5 DEF RetryBlocked
<1>7. CASE VisitDetail \/ VisitsFail \/ FinishPage
  <2>1. pc \in Loops
    BY <1>7 DEF VisitDetail, VisitsFail, FinishPage, Loops
  <2>2. CASE \E ids : PageError(ids, rot)
    BY <2>1, <2>2, PageErrorPlace
  <2>3. CASE \E ids : EndSearch(ids)
    BY <2>1, <2>3, NextSearchPlace DEF EndSearch
  <2>4. CASE \E r : NextPage(r)
    BY <2>1, <2>4, NextPagePlace
  <2>5. CASE UNCHANGED <<pc, at>>
    BY <2>5 DEF PlaceInv
  <2> QED BY <1>7, <2>2, <2>3, <2>4, <2>5 DEF VisitDetail, VisitsFail, FinishPage
<1>8. CASE Scroll
  <2>1. pc \in Loops
    BY <1>8 DEF Scroll, Loops
  <2>2. CASE SearchError
    BY <2>1, <2>2, SearchErrorPlace
  <2>3. CASE \E r : NextPage(r)
    BY <2>1, <2>3, NextPagePlace
  <2>4. CASE pc' = "scrolled" /\ UNCHANGED at
    BY <2>1, <2>4, StaysPlace DEF Loops
  <2> QED BY <1>8, <2>2, <2>3, <2>4 DEF Scroll
<1>9. CASE FinishScroll
  <2>1. pc \in Loops
    BY <1>9 DEF FinishScroll, Loops
  <2> QED BY <1>9, <2>1, SearchErrorPlace, NextSearchPlace DEF FinishScroll
<1>10. CASE ScrapeLdPage
  <2>1. pc \in Loops
    BY <1>10 DEF ScrapeLdPage, Loops
  <2>2. CASE SearchError
    BY <2>1, <2>2, SearchErrorPlace
  <2>3. CASE NextPage(rot)
    BY <2>1, <2>3, NextPagePlace
  <2>4. CASE NextSearch
    BY <2>1, <2>4, NextSearchPlace
  <2> QED BY <1>10, <2>2, <2>3, <2>4 DEF ScrapeLdPage, EndSearch
<1>11. CASE SolveChallenge \/ CloseBridge \/ BridgeFails \/ BridgePage
  <2>1. pc \in Loops
    BY <1>11 DEF SolveChallenge, CloseBridge, BridgeFails, BridgePage, Loops
  <2>2. CASE SearchError
    BY <2>1, <2>2, SearchErrorPlace
  <2>3. CASE EndSearch(found)
    BY <2>1, <2>3, NextSearchPlace DEF EndSearch
  <2>4. CASE pc' \in {"got", "solving", "solved", "unsolved"} /\ UNCHANGED at
    BY <2>1, <2>4, StaysPlace DEF Loops
  <2> QED BY <1>11, <2>2, <2>3, <2>4 DEF SolveChallenge, CloseBridge, BridgeFails, BridgePage
<1>12. CASE FinishBridgePage
  <2>1. pc \in Loops
    BY <1>12 DEF FinishBridgePage, Loops
  <2>2. CASE SearchError
    BY <2>1, <2>2, SearchErrorPlace
  <2>3. CASE NextSearch
    BY <2>1, <2>3, NextSearchPlace
  <2>4. CASE NextPage(rot)
    BY <2>1, <2>4, NextPagePlace
  <2> QED BY <1>12, <2>2, <2>3, <2>4 DEF FinishBridgePage, EndSearch
<1>13. CASE StartEnrichment
  BY <1>13, StaysPlace DEF StartEnrichment, CloseEnrichment
<1>14. CASE EnrichTarget
  <2>1. CASE CloseEnrichment
    BY <2>1, StaysPlace DEF CloseEnrichment
  <2>2. CASE pc = "enrich" /\ UNCHANGED pc /\ at' = [at EXCEPT !.pg = @ + 1]
    <3>1. at.pg + 1 \in Nat
      BY DEF PlaceInv
    <3> QED BY <2>2, <3>1 DEF PlaceInv, Loops
  <2> QED BY <1>14, <2>1, <2>2 DEF EnrichTarget
<1>15. CASE OtherRun \/ BrowserDies \/ CookiesExpire \/ Ended
  BY <1>1, <1>15 DEF OtherRun, BrowserDies, CookiesExpire, Ended, vars
<1> QED BY <1>1, <1>2, <1>3, <1>4, <1>5, <1>6, <1>7, <1>8, <1>9, <1>10, <1>11, <1>12, <1>13, <1>14,
           <1>15 DEF Next, vars

LEMMA InitPlace == Init => PlaceInv
<1> SUFFICES ASSUME Init PROVE PlaceInv
  OBVIOUS
<1>1. pc = "start"
  BY DEF Init
<1> DEFINE s == IF job.portal \in Scrolling THEN States ELSE 1
<1>2. at = [state |-> s, op |-> 1, pg |-> 1]
  BY DEF Init
<1>3. s \in 1 .. States + 1 /\ 1 \in 1 .. Operations /\ 1 \in Nat
  BY LimitsFacts
<1> HIDE DEF s
<1> QED BY <1>1, <1>2, <1>3 DEF PlaceInv, Loops

-----------------------------------------------------------------------------
(* Items are listings, and bags count them *)

Totals == [returned : Bag, stored : Bag, kept : Bag]

ItemsInv ==
  /\ found \in Seq(Listings) /\ seen \in SUBSET Listings
  /\ total \in Totals
  /\ page \in PageType /\ Len(page.cards) =< PageSize

LEMMA JoinedTyped ==
  ASSUME NEW s \in Seq(Listings), NEW t \in Seq(Listings)
  PROVE  s \o t \in Seq(Listings) /\ <<>> \in Seq(Listings)
  OBVIOUS

LEMMA TotalsPlus ==
  ASSUME NEW t \in Totals, NEW ids \in Seq(Listings)
  PROVE  /\ [t EXCEPT !.kept = Plus(@, ids)] \in Totals
         /\ [t EXCEPT !.returned = Plus(@, ids)] \in Totals
         /\ Stored(t, ids) \in Totals
<1>1. t.kept \in Bag /\ t.returned \in Bag /\ t.stored \in Bag
  BY DEF Totals
<1>2. Plus(t.kept, ids) \in Bag /\ Plus(t.returned, ids) \in Bag /\ Plus(t.stored, ids) \in Bag
  BY <1>1, PlusFacts
<1> QED BY <1>2 DEF Totals, Stored

LEMMA EndSearchItems ==
  ASSUME ItemsInv, NEW ids \in Seq(Listings), EndSearch(ids)
  PROVE  found' \in Seq(Listings) /\ total' \in Totals
<1>1. found' = <<>> /\ total' = [total EXCEPT !.returned = Plus(@, ids)]
  BY DEF EndSearch, NextSearch
<1>2. total \in Totals
  BY DEF ItemsInv
<1>3. total' \in Totals
  BY <1>1, <1>2, TotalsPlus
<1> QED BY <1>1, <1>3, JoinedTyped

LEMMA PageErrorItems ==
  ASSUME ItemsInv, NEW ids \in Seq(Listings), NEW r, PageError(ids, r)
  PROVE  found' \in Seq(Listings) /\ total' \in Totals
<1>1. CASE EndSearch(ids)
  BY <1>1, EndSearchItems
<1>2. CASE found' = ids /\ total' = total
  BY <1>2 DEF ItemsInv
<1> QED BY <1>1, <1>2 DEF PageError

LEMMA SearchErrorItems == ASSUME ItemsInv, SearchError PROVE ItemsInv'
<1>1. found' = <<>>
  BY DEF SearchError, NextSearch
<1> QED BY <1>1 DEF SearchError, ItemsInv

LEMMA LastItemsTyped ==
  ASSUME NEW n \in Int, NEW s \in Seq(Listings)
  PROVE  LastItems(n, s) \in Seq(Listings)
<1> DEFINE m == IF n < Len(s) THEN Len(s) - n + 1 ELSE 1
           k == Len(s)
<1>1. k \in Nat
  OBVIOUS
<1>2. CASE n >= 0
  <2>1. m \in Int /\ m >= 1
    BY <1>1, <1>2
  <2>2. \A i \in m .. k : s[i] \in Listings
    <3>1. \A i \in m .. k : i \in 1 .. k
      <4> HIDE DEF m, k
      <4> QED BY <1>1, <2>1
    <3> QED BY <3>1
  <2> HIDE DEF m, k
  <2>3. SubSeq(s, m, k) \in Seq(Listings)
    BY <1>1, <2>1, <2>2, SubSeqProperties
  <2> QED BY <2>3 DEF LastItems, m, k
<1>3. CASE n < 0
  <2>1. m = k - n + 1 /\ m > k /\ m \in Int
    BY <1>1, <1>3
  <2>2. \A i \in m .. k : s[i] \in Listings
    <3> HIDE DEF m, k
    <3> QED BY <1>1, <2>1
  <2> HIDE DEF m, k
  <2>3. SubSeq(s, m, k) \in Seq(Listings)
    BY <1>1, <2>1, <2>2, SubSeqProperties
  <2> QED BY <2>3 DEF LastItems, m, k
<1> QED BY <1>2, <1>3

\* The items of the page in hand, and what the callback is given of them.
LEMMA InHandItems ==
  ASSUME ItemsInv
  PROVE  /\ Items(job.portal, page.cards, job.detail) \in Seq(Listings)
         /\ Len(Items(job.portal, page.cards, job.detail)) =< Len(page.cards)
         /\ Batch(Items(job.portal, page.cards, job.detail)) \in Seq(Listings)
<1> DEFINE ids == Items(job.portal, page.cards, job.detail)
<1>1. page.cards \in Seq(Card)
  BY DEF ItemsInv, PageType
<1>2. ids \in Seq(Listings) /\ Len(ids) =< Len(page.cards)
  BY <1>1, ItemsFacts
<1>3. found \o ids \in Seq(Listings)
  <2> HIDE DEF ids
  <2> QED BY <1>2 DEF ItemsInv
<1>4. Len(page.cards) \in Int
  BY <1>1
<1>5. LastItems(Len(page.cards), found \o ids) \in Seq(Listings)
  BY <1>3, <1>4, LastItemsTyped
<1> QED BY <1>2, <1>5 DEF Batch

\* What a scroll of the infinite page finds.
LEMMA ThoseIdsTyped ==
  ASSUME NEW cards \in Seq(Card), NEW I
  PROVE  Ids(Those(cards, I)) \in Seq(Listings)
  BY ThoseFacts, IdsFacts

LEMMA FreshTyped == ASSUME NEW cards \in Seq(Card) PROVE Fresh(cards) \in Seq(Listings)
  BY ThoseIdsTyped, DistinctFacts DEF Fresh

LEMMA FetchItems == ASSUME ItemsInv, Fetch PROVE ItemsInv'
<1>1. seen' = seen
  BY DEF Fetch
<1>2. CASE PageError(found, rot) /\ UNCHANGED page
  BY <1>1, <1>2, PageErrorItems DEF ItemsInv
<1>3. CASE EmptyPage /\ UNCHANGED page
  <2>1. CASE EndSearch(found)
    BY <1>1, <1>3, <2>1, EndSearchItems DEF ItemsInv
  <2>2. CASE UNCHANGED <<found, total>>
    BY <1>1, <1>3, <2>2 DEF ItemsInv
  <2> QED BY <1>3, <2>1, <2>2 DEF EmptyPage
<1>4. CASE UNCHANGED <<page, found, total>>
  BY <1>1, <1>4 DEF ItemsInv
<1>5. CASE \E a \in Answers :
             /\ page' = SearchPage(job.portal, a)
             /\ total' = [total EXCEPT !.kept =
                            Plus(@, Items(job.portal, SearchPage(job.portal, a).cards, job.detail))]
             /\ UNCHANGED found
  <2>1. PICK a \in Answers :
             /\ page' = SearchPage(job.portal, a)
             /\ total' = [total EXCEPT !.kept =
                            Plus(@, Items(job.portal, SearchPage(job.portal, a).cards, job.detail))]
             /\ UNCHANGED found
    BY <1>5
  <2>2. page' \in PageType /\ page'.cards \in Seq(Card) /\ Len(page'.cards) =< PageSize
    BY <2>1, SearchPageTyped, SearchPageSize DEF PageType
  <2>3. total' \in Totals
    BY <2>1, <2>2, ItemsFacts, TotalsPlus DEF ItemsInv
  <2> QED BY <1>1, <2>1, <2>2, <2>3 DEF ItemsInv
<1> QED BY <1>2, <1>3, <1>4, <1>5 DEF Fetch

LEMMA FinishPageItems == ASSUME ItemsInv, FinishPage PROVE ItemsInv'
<1> DEFINE ids == Items(job.portal, page.cards, job.detail)
           kept == IF job.portal = "vivanuncios" THEN found \o ids ELSE found
<1>1. UNCHANGED <<page, seen>>
  BY DEF FinishPage
<1>2. ids \in Seq(Listings) /\ Batch(ids) \in Seq(Listings) /\ found \in Seq(Listings)
  BY InHandItems DEF ItemsInv
<1>3. kept \in Seq(Listings) /\ found \o ids \in Seq(Listings)
  <2> HIDE DEF ids
  <2> QED BY <1>2
<1>5. CASE EndSearch(found \o Those(ids, {i \in DOMAIN ids : ids[i] \notin Known}))
  <2> DEFINE new == Those(ids, {i \in DOMAIN ids : ids[i] \notin Known})
  <2>1. new \in Seq(Listings)
    BY <1>2, ThoseFacts
  <2>2. found \o new \in Seq(Listings)
    <3> HIDE DEF new
    <3> QED BY <1>2, <2>1
  <2> QED BY <1>1, <1>5, <2>2, EndSearchItems DEF ItemsInv
<1>6. CASE PageError(kept, rot)
  BY <1>1, <1>3, <1>6, PageErrorItems DEF ItemsInv
<1>7. CASE total' = Stored(total, Batch(ids)) /\ found' = found \o ids
  <2>1. total' \in Totals
    BY <1>2, <1>7, TotalsPlus DEF ItemsInv
  <2> QED BY <1>1, <1>3, <1>7, <2>1 DEF ItemsInv
<1> QED BY <1>5, <1>6, <1>7 DEF FinishPage

LEMMA VisitsFailItems == ASSUME ItemsInv, VisitsFail PROVE ItemsInv'
<1> DEFINE ids == Items(job.portal, page.cards, job.detail)
           some == Those(ids, 1 .. rot.visits)
           kept == IF job.portal = "vivanuncios" THEN found \o some ELSE found
<1>1. ids \in Seq(Listings) /\ found \in Seq(Listings)
  BY InHandItems DEF ItemsInv
<1>2. some \in Seq(Listings)
  BY <1>1, ThoseFacts
<1>3. kept \in Seq(Listings)
  <2> HIDE DEF some
  <2> QED BY <1>1, <1>2
<1>4. PageError(kept, rot) /\ UNCHANGED <<page, seen>>
  BY DEF VisitsFail
<1> HIDE DEF kept
<1> QED BY <1>3, <1>4, PageErrorItems DEF ItemsInv

LEMMA ScrollItems == ASSUME ItemsInv, Scroll PROVE ItemsInv'
<1>1. CASE SearchError
  BY <1>1, SearchErrorItems
<1>2. CASE UNCHANGED <<page, found, total, seen>>
  BY <1>2 DEF ItemsInv
<1>3. CASE /\ UNCHANGED <<page, seen>>
           /\ \E cards \in Pages : \E ids :
                /\ ids = Ids(Those(cards, {i \in DOMAIN cards : ParseListingText(cards[i])
                                                                  /\ cards[i].id \notin seen}))
                /\ found' = found \o ids
                /\ LET read == [total EXCEPT !.kept = Plus(@, ids)] IN
                   total' = read \/ total' = Stored(read, LastItems(CallbackTail, found \o ids))
  <2>1. PICK cards, ids :
                /\ cards \in Pages
                /\ ids = Ids(Those(cards, {i \in DOMAIN cards : ParseListingText(cards[i])
                                                                  /\ cards[i].id \notin seen}))
                /\ found' = found \o ids
                /\ LET read == [total EXCEPT !.kept = Plus(@, ids)] IN
                   total' = read \/ total' = Stored(read, LastItems(CallbackTail, found \o ids))
    BY <1>3
  <2>2. ids \in Seq(Listings)
    BY <2>1, ThoseIdsTyped, PagesAssumption
  <2>3. found \o ids \in Seq(Listings)
    BY <2>2 DEF ItemsInv
  <2>4. LastItems(CallbackTail, found \o ids) \in Seq(Listings)
    <3>1. CallbackTail \in Int
      BY CountsAssumption
    <3> QED BY <2>3, <3>1, LastItemsTyped
  <2>5. total' \in Totals
    <3> DEFINE read == [total EXCEPT !.kept = Plus(@, ids)]
    <3>1. read \in Totals
      BY <2>2, TotalsPlus DEF ItemsInv
    <3>2. total' = read \/ total' = Stored(read, LastItems(CallbackTail, found \o ids))
      BY <2>1
    <3> HIDE DEF read
    <3> QED BY <2>4, <3>1, <3>2, TotalsPlus
  <2> QED BY <1>3, <2>1, <2>3, <2>5 DEF ItemsInv
<1> QED BY <1>1, <1>2, <1>3 DEF Scroll

LEMMA FinishScrollItems == ASSUME ItemsInv, FinishScroll PROVE ItemsInv'
<1>1. CASE SearchError
  BY <1>1, SearchErrorItems
<1> DEFINE new == Distinct(found)
<1>2. CASE /\ NextSearch
           /\ total' = [Stored(total, found) EXCEPT !.returned = Plus(@, new)]
           /\ seen' = seen \cup {new[i] : i \in DOMAIN new}
           /\ UNCHANGED page
  <2>1. new \in Seq(Listings) /\ found \in Seq(Listings) /\ total \in Totals
    BY DistinctFacts DEF ItemsInv
  <2>2. Stored(total, found) \in Totals
    BY <2>1, TotalsPlus
  <2> HIDE DEF new
  <2>3. total' \in Totals
    BY <1>2, <2>1, <2>2, TotalsPlus
  <2>4. {new[i] : i \in DOMAIN new} \subseteq Listings
    BY <2>1
  <2>5. found' = <<>>
    BY <1>2 DEF NextSearch
  <2> QED BY <1>2, <2>3, <2>4, <2>5 DEF ItemsInv
<1> QED BY <1>1, <1>2 DEF FinishScroll

LEMMA ScrapeLdPageItems == ASSUME ItemsInv, ScrapeLdPage PROVE ItemsInv'
<1>1. CASE SearchError
  BY <1>1, SearchErrorItems
<1>2. CASE EndSearch(found) /\ UNCHANGED <<page, seen>>
  BY <1>2, EndSearchItems DEF ItemsInv
<1>3. CASE /\ UNCHANGED page
           /\ \E a \in Answers : \E new :
                /\ new = Fresh(MercadoLibrePage(a))
                /\ seen' = seen \cup {new[i] : i \in DOMAIN new}
                /\ LET read == [total EXCEPT !.kept = Plus(@, new)] IN
                   \/ EndSearch(found)
                   \/ found' = found \o new /\ total' = Stored(read, new)
                   \/ found' = <<>> /\ total' = read
  <2>1. PICK a, new :
                /\ a \in Answers
                /\ new = Fresh(MercadoLibrePage(a))
                /\ seen' = seen \cup {new[i] : i \in DOMAIN new}
                /\ LET read == [total EXCEPT !.kept = Plus(@, new)] IN
                   \/ EndSearch(found)
                   \/ found' = found \o new /\ total' = Stored(read, new)
                   \/ found' = <<>> /\ total' = read
    BY <1>3
  <2>2. new \in Seq(Listings)
    <3>1. a.cards \in Seq(Card) /\ <<>> \in Seq(Card)
      BY <2>1, AnswersTyped
    <3>2. MercadoLibrePage(a) \in Seq(Card)
      BY <3>1 DEF MercadoLibrePage
    <3> QED BY <2>1, <3>2, FreshTyped
  <2>3. seen' \in SUBSET Listings
    <3>1. \A i \in DOMAIN new : new[i] \in Listings
      BY <2>2
    <3> QED BY <2>1, <3>1 DEF ItemsInv
  <2> DEFINE read == [total EXCEPT !.kept = Plus(@, new)]
  <2>4. read \in Totals
    BY <2>2, TotalsPlus DEF ItemsInv
  <2>5. \/ EndSearch(found)
        \/ found' = found \o new /\ total' = Stored(read, new)
        \/ found' = <<>> /\ total' = read
    BY <2>1
  <2> HIDE DEF read
  <2>6. found' \in Seq(Listings) /\ total' \in Totals
    <3>1. CASE EndSearch(found)
      BY <3>1, EndSearchItems DEF ItemsInv
    <3>2. CASE found' = found \o new /\ total' = Stored(read, new)
      <4>1. found \in Seq(Listings) /\ Stored(read, new) \in Totals
        BY <2>2, <2>4, TotalsPlus DEF ItemsInv
      <4> QED BY <2>2, <3>2, <4>1, JoinedTyped
    <3>3. CASE found' = <<>> /\ total' = read
      BY <2>2, <2>4, <3>3, JoinedTyped
    <3> QED BY <2>5, <3>1, <3>2, <3>3
  <2> QED BY <1>3, <2>3, <2>6 DEF ItemsInv
<1> QED BY <1>1, <1>2, <1>3 DEF ScrapeLdPage, NextSearch

LEMMA BridgePageItems == ASSUME ItemsInv, BridgePage PROVE ItemsInv'
<1>1. CASE SearchError
  BY <1>1, SearchErrorItems
<1>2. UNCHANGED seen
  BY DEF BridgePage
<1>3. CASE EndSearch(found) /\ UNCHANGED page
  BY <1>2, <1>3, EndSearchItems DEF ItemsInv
<1>4. CASE page' = Empty /\ UNCHANGED <<found, total>>
  <2>1. Empty \in PageType /\ Len(Empty.cards) =< PageSize
    BY PagesAssumption DEF Empty, PageType
  <2> QED BY <1>2, <1>4, <2>1 DEF ItemsInv
<1>5. CASE /\ \E a \in Answers : page' = SearchPage(job.portal, a)
           /\ total' = [total EXCEPT !.kept = Plus(@, Ids(page'.cards))]
           /\ UNCHANGED found
  <2>1. page' \in PageType /\ Len(page'.cards) =< PageSize
    BY <1>5, SearchPageTyped, SearchPageSize
  <2>2. Ids(page'.cards) \in Seq(Listings)
    BY <2>1, IdsFacts DEF PageType
  <2> QED BY <1>2, <1>5, <2>1, <2>2, TotalsPlus DEF ItemsInv
<1> QED BY <1>1, <1>3, <1>4, <1>5 DEF BridgePage

LEMMA FinishBridgePageItems == ASSUME ItemsInv, FinishBridgePage PROVE ItemsInv'
<1> DEFINE ids == Ids(page.cards)
<1>1. ids \in Seq(Listings) /\ found \in Seq(Listings) /\ total \in Totals
  BY IdsFacts DEF ItemsInv, PageType
<1>2. CASE SearchError
  BY <1>2, SearchErrorItems
<1>3. UNCHANGED seen
  BY DEF FinishBridgePage
<1>4. CASE EndSearch(found) /\ UNCHANGED page
  BY <1>3, <1>4, EndSearchItems DEF ItemsInv
<1>5. CASE /\ \/ found' = <<>> /\ total' = [Stored(total, ids) EXCEPT !.returned = Plus(@, found \o ids)]
              \/ found' = found \o ids /\ total' = Stored(total, ids)
           /\ UNCHANGED page
  <2> HIDE DEF ids
  <2>1. found \o ids \in Seq(Listings) /\ <<>> \in Seq(Listings)
    BY <1>1, JoinedTyped
  <2>2. Stored(total, ids) \in Totals
    BY <1>1, TotalsPlus
  <2>3. [Stored(total, ids) EXCEPT !.returned = Plus(@, found \o ids)] \in Totals
    BY <2>1, <2>2, TotalsPlus
  <2>4. found' \in Seq(Listings) /\ total' \in Totals
    BY <1>5, <2>1, <2>2, <2>3
  <2> QED BY <1>3, <1>5, <2>4 DEF ItemsInv
<1> QED BY <1>2, <1>4, <1>5 DEF FinishBridgePage, NextSearch

LEMMA StepKeepsItems == ItemsInv /\ [Next]_vars => ItemsInv'
<1> SUFFICES ASSUME ItemsInv, [Next]_vars PROVE ItemsInv'
  OBVIOUS
<1>1. CASE UNCHANGED <<page, found, total, seen>>
  BY <1>1 DEF ItemsInv
<1>2. CASE InitBrowserForState
  BY <1>1, <1>2 DEF InitBrowserForState, Raise
<1>3. CASE Return
  <2>1. total' \in {total, [total EXCEPT !.stored = total.returned]}
    BY <1>3 DEF Return
  <2>2. total' \in Totals
    BY <2>1 DEF ItemsInv, Totals
  <2> QED BY <1>3, <2>2 DEF Return, ItemsInv
<1>4. CASE BeginPage
  <2>1. CASE EndSearch(found) /\ UNCHANGED <<page, seen>>
    BY <2>1, EndSearchItems DEF ItemsInv
  <2>2. CASE SearchError
    BY <2>2, SearchErrorItems
  <2>3. CASE RotateSession(browser) /\ UNCHANGED <<page, total, seen>>
    <3>1. found' = found \/ found' = <<>>
      BY <2>3 DEF RotateSession
    <3>2. found' \in Seq(Listings)
      BY <3>1, JoinedTyped DEF ItemsInv
    <3> QED BY <2>3, <3>2 DEF ItemsInv
  <2> QED BY <1>1, <1>4, <2>1, <2>2, <2>3 DEF BeginPage
<1>5. CASE RetryBlocked
  <2>1. UNCHANGED <<page, seen>>
    BY <1>5 DEF RetryBlocked
  <2>2. CASE EndSearch(found)
    BY <2>1, <2>2, EndSearchItems DEF ItemsInv
  <2>3. CASE \E r : PageError(found, r)
    BY <2>1, <2>3, PageErrorItems DEF ItemsInv
  <2> QED BY <1>1, <1>5, <2>1, <2>2, <2>3 DEF RetryBlocked
<1>6. CASE Fetch \/ VisitsFail \/ FinishPage
  BY <1>6, FetchItems, VisitsFailItems, FinishPageItems
<1>7. CASE Scroll \/ FinishScroll
  BY <1>7, ScrollItems, FinishScrollItems
<1>8. CASE ScrapeLdPage \/ BridgePage \/ FinishBridgePage \/ BridgeFails
  BY <1>8, ScrapeLdPageItems, BridgePageItems, FinishBridgePageItems, SearchErrorItems DEF BridgeFails
<1>9. CASE StartEnrichment \/ EnrichTarget \/ OpenJob \/ CloseRow \/ VisitDetail \/ SolveChallenge \/ CloseBridge
  BY <1>1, <1>9 DEF StartEnrichment, EnrichTarget, OpenJob, CloseRow, VisitDetail, SolveChallenge,
                    CloseBridge
<1>10. CASE OtherRun \/ BrowserDies \/ CookiesExpire \/ Ended
  BY <1>1, <1>10 DEF OtherRun, BrowserDies, CookiesExpire, Ended, vars
<1> QED BY <1>1, <1>2, <1>3, <1>4, <1>5, <1>6, <1>7, <1>8, <1>9, <1>10 DEF Next, vars

LEMMA InitItems == Init => ItemsInv
<1> SUFFICES ASSUME Init PROVE ItemsInv
  OBVIOUS
<1>1. found = <<>> /\ seen = {} /\ page = Empty
      /\ total = [returned |-> None, stored |-> None, kept |-> None]
  BY DEF Init
<1>2. None \in Bag /\ Empty \in PageType /\ Len(Empty.cards) =< PageSize
  BY PagesAssumption DEF None, Bag, Empty, PageType
<1> QED BY <1>1, <1>2 DEF ItemsInv, Totals

\* A run keeps to its loops and their bounds, and what it counts are listings.
THEOREM TypeCorrect == Spec => []TypeOK
<1>1. OpenInv /\ PlaceInv /\ ItemsInv => TypeOK
  <2> SUFFICES ASSUME OpenInv, PlaceInv, ItemsInv PROVE TypeOK
    OBVIOUS
  <2>1. job.row \in Rows /\ browser \in [open : Nat, orphans : Nat, live : BOOLEAN]
    BY DEF OpenInv, Sound, BrowserType, JobType
  <2>2. at.state \in 1 .. States + 1 /\ at.op \in 1 .. Operations
    BY DEF PlaceInv
  <2>3. {found[i] : i \in DOMAIN found} \cup seen \subseteq Listings
    BY DEF ItemsInv
  <2>4. \A b \in {"returned", "stored", "kept"} : total[b] \in [Listings -> Nat]
    BY DEF ItemsInv, Totals, Bag
  <2>5. pc \in {"start", "state", "page", "fetch", "blocked", "got", "scrolled", "solving", "solved",
                "unsolved", "enrichStart", "enrich", "closing", "ended"}
    BY DEF PlaceInv, Loops
  <2> QED BY <2>1, <2>2, <2>3, <2>4, <2>5 DEF TypeOK, Rows
<1> QED BY OpenInvariant, InitPlace, InitItems, StepKeepsPlace, StepKeepsItems, <1>1, PTL DEF Spec

-----------------------------------------------------------------------------
(* A step leaves the run the run it is *)

\* Of a job only its row, its outcome and its count of errors move.
SameRun ==
  /\ job'.portal = job.portal /\ job'.caller = job.caller
  /\ job'.detail = job.detail /\ job'.mode = job.mode

LEMMA JobForms ==
  ASSUME OpenInv
  PROVE  /\ job' = job => SameRun
         /\ job' = [job EXCEPT !.errors = @ + 1] => SameRun
         /\ \A o : job' = [job EXCEPT !.outcome = o] => SameRun
         /\ \A o : job' = [job EXCEPT !.outcome = o, !.errors = @ + 1] => SameRun
         /\ \A r : job' = [job EXCEPT !.row = r] => SameRun
         /\ \A r : job' = [job EXCEPT !.row = r, !.errors = @ + 1] => SameRun
  BY DEF OpenInv, SameRun, JobType

LEMMA StepSameRun == ASSUME OpenInv, [Next]_vars PROVE SameRun
<1>1. CASE job' = job
  BY <1>1, JobForms
<1>2. CASE job' = [job EXCEPT !.errors = @ + 1]
  BY <1>2, JobForms
<1>3. CASE \E o : Raise(o)
  BY <1>3, JobForms DEF Raise
<1>4. CASE CloseEnrichment
  BY <1>4, JobForms DEF CloseEnrichment
<1>5. CASE OpenJob \/ CloseRow \/ Return
  BY <1>1, <1>5, JobForms DEF OpenJob, CloseRow, Return
<1>6. CASE SearchError \/ (\E ids, r : PageError(ids, r))
  BY <1>1, <1>2, <1>6 DEF SearchError, PageError
<1>7. CASE InitBrowserForState
  BY <1>1, <1>3, <1>7 DEF InitBrowserForState
<1>8. CASE BeginPage
  BY <1>1, <1>2, <1>6, <1>8 DEF BeginPage, RotateSession
<1>9. CASE Fetch \/ RetryBlocked \/ VisitDetail \/ VisitsFail \/ FinishPage
  BY <1>1, <1>2, <1>6, <1>9 DEF Fetch, RetryBlocked, VisitDetail, VisitsFail, FinishPage
<1>10. CASE Scroll \/ FinishScroll \/ ScrapeLdPage
  BY <1>1, <1>2, <1>6, <1>10 DEF Scroll, FinishScroll, ScrapeLdPage
<1>11. CASE SolveChallenge \/ CloseBridge \/ BridgeFails \/ BridgePage \/ FinishBridgePage
  BY <1>1, <1>6, <1>11 DEF SolveChallenge, CloseBridge, BridgeFails, BridgePage, FinishBridgePage
<1>12. CASE StartEnrichment \/ EnrichTarget
  BY <1>1, <1>2, <1>4, <1>12 DEF StartEnrichment, EnrichTarget
<1>13. CASE OtherRun \/ BrowserDies \/ CookiesExpire \/ Ended \/ UNCHANGED vars
  BY <1>1, <1>13 DEF OtherRun, BrowserDies, CookiesExpire, Ended, vars
<1> QED BY <1>5, <1>7, <1>8, <1>9, <1>10, <1>11, <1>12, <1>13 DEF Next

-----------------------------------------------------------------------------
(* The counters of a search *)

Counters == {"since", "after", "blocks", "empty", "tries", "prev", "visits", "cookies"}
RotOK(r) == DOMAIN r = Counters /\ r.tries \in Nat /\ r.blocks \in Nat /\ r.visits \in Nat
Spending == [counted : Nat, late : Nat, blocked : Nat, search : Nat \X Nat]

LEMMA RotSet ==
  ASSUME NEW r, RotOK(r)
  PROVE  /\ \A e : LET q == [r EXCEPT !.empty = e] IN
                   RotOK(q) /\ q.tries = r.tries /\ q.blocks = r.blocks
         /\ \A n : LET q == [r EXCEPT !.since = n] IN
                   RotOK(q) /\ q.tries = r.tries /\ q.blocks = r.blocks
         /\ \A c : LET q == [r EXCEPT !.cookies = c] IN
                   RotOK(q) /\ q.tries = r.tries /\ q.blocks = r.blocks /\ q.visits = r.visits
         /\ LET q == [r EXCEPT !.visits = @ + 1] IN
            RotOK(q) /\ q.tries = r.tries /\ q.blocks = r.blocks /\ q.visits = r.visits + 1
         /\ LET q == [r EXCEPT !.tries = 0] IN
            RotOK(q) /\ q.tries = 0 /\ q.blocks = r.blocks
         /\ LET q == [r EXCEPT !.blocks = @ + 1] IN
            RotOK(q) /\ q.tries = r.tries /\ q.blocks = r.blocks + 1
         /\ LET q == [r EXCEPT !.blocks = 0, !.empty = 0, !.visits = 0] IN
            RotOK(q) /\ q.tries = r.tries /\ q.blocks = 0 /\ q.visits = 0
         /\ LET q == [r EXCEPT !.blocks = @ + 1, !.tries = @ + 1] IN
            RotOK(q) /\ q.tries = r.tries + 1 /\ q.blocks = r.blocks + 1
         /\ LET q == [r EXCEPT !.empty = 0, !.tries = 0, !.blocks = 0, !.prev = 0] IN
            RotOK(q) /\ q.tries = 0 /\ q.blocks = 0
         /\ \A n : LET q == [r EXCEPT !.since = 0, !.after = n, !.blocks = 0] IN
                   RotOK(q) /\ q.tries = r.tries /\ q.blocks = 0
<1>1. DOMAIN r = Counters /\ r.tries \in Nat /\ r.blocks \in Nat /\ r.visits \in Nat
  BY DEF RotOK
<1>2. r.tries + 1 \in Nat /\ r.blocks + 1 \in Nat /\ r.visits + 1 \in Nat
  BY <1>1
<1> QED BY <1>1, <1>2 DEF RotOK, Counters

LEMMA FreshFacts ==
  ASSUME RotOK(rot), NEW p, NEW n
  PROVE  /\ RotOK(FreshCounters(p, n)) /\ FreshCounters(p, n).tries = rot.tries
         /\ p = "inmuebles24" => FreshCounters(p, n).blocks = 0
<1>1. CASE p = "icasas"
  BY <1>1 DEF FreshCounters
<1>2. CASE p = "properstar"
  <2>1. FreshCounters(p, n) = [rot EXCEPT !.since = 0, !.after = n]
    BY <1>2 DEF FreshCounters
  <2>2. LET q == [rot EXCEPT !.since = 0, !.after = n] IN RotOK(q) /\ q.tries = rot.tries
    BY DEF RotOK, Counters
  <2>3. RotOK(FreshCounters(p, n)) /\ FreshCounters(p, n).tries = rot.tries
    BY <2>1, <2>2
  <2> QED BY <1>2, <2>3
<1>3. CASE p # "icasas" /\ p # "properstar"
  <2>1. FreshCounters(p, n) = [rot EXCEPT !.since = 0, !.after = n, !.blocks = 0]
    BY <1>3 DEF FreshCounters
  <2>2. \A a : LET q == [rot EXCEPT !.since = 0, !.after = a, !.blocks = 0] IN
               RotOK(q) /\ q.tries = rot.tries /\ q.blocks = 0
    BY RotSet
  <2> QED BY <2>1, <2>2
<1> QED BY <1>1, <1>2, <1>3

\* The fetches of the search in progress that the portal has blocked in a row.
RowOf(s) == IF s.search = <<at.state, at.op>> THEN s.blocked ELSE 0
Row == RowOf(spent)

LEMMA AddBytesFacts ==
  ASSUME spent \in Spending, PlaceInv, NEW b \in BOOLEAN
  PROVE  LET s == AddBytes(spent, b) IN
         /\ s \in Spending /\ s.counted >= spent.counted
         /\ s.late = IF BudgetRefuses THEN spent.late + 1 ELSE spent.late
         /\ s.search = IF b THEN <<at.state, at.op>> ELSE <<0, 0>>
         /\ s.blocked = IF b THEN Row + 1 ELSE 0
<1>1. at.state \in Nat /\ at.op \in Nat
  BY LimitsFacts DEF PlaceInv
<1> DEFINE c == IF UsesProxy(job.portal) THEN spent.counted + 1 ELSE spent.counted
           l == IF BudgetRefuses THEN spent.late + 1 ELSE spent.late
           w == IF b THEN <<at.state, at.op>> ELSE <<0, 0>>
           k == IF ~b THEN 0 ELSE IF spent.search = <<at.state, at.op>> THEN spent.blocked + 1 ELSE 1
<1>2. spent.counted \in Nat /\ spent.late \in Nat /\ spent.blocked \in Nat
  BY DEF Spending
<1>3. c \in Nat /\ c >= spent.counted /\ l \in Nat /\ w \in Nat \X Nat /\ k \in Nat
  BY <1>1, <1>2
<1>4. k = IF b THEN Row + 1 ELSE 0
  BY <1>2 DEF Row, RowOf
<1>5. AddBytes(spent, b) = [spent EXCEPT !.counted = c, !.late = l, !.search = w, !.blocked = k]
  BY DEF AddBytes
<1> HIDE DEF c, l, w, k
<1>6. LET s == [spent EXCEPT !.counted = c, !.late = l, !.search = w, !.blocked = k] IN
      s \in Spending /\ s.counted = c /\ s.late = l /\ s.search = w /\ s.blocked = k
  BY <1>3 DEF Spending
<1> QED BY <1>3, <1>4, <1>5, <1>6 DEF l, w

-----------------------------------------------------------------------------
(* Only the scraper that is told it is blocked tries a page again *)

Inm == job.portal = "inmuebles24"

TriesInv ==
  /\ RotOK(rot)
  /\ pc \notin {"fetch", "blocked", "got"} => rot.tries = 0
  /\ pc \in {"fetch", "blocked"} => rot.tries =< Retries /\ (rot.tries > 0 => Inm)
  /\ pc = "blocked" => Inm

\* Where no page is tried again.
Calm == RotOK(rot) /\ rot.tries = 0 /\ pc # "blocked"

LEMMA CalmTries == ASSUME Calm' PROVE TriesInv'
  BY LimitsFacts DEF Calm, TriesInv

LEMMA NextSearchCalm == ASSUME RotOK(rot), NextSearch PROVE Calm' /\ rot'.blocks = 0
<1>1. rot' = [rot EXCEPT !.empty = 0, !.tries = 0, !.blocks = 0, !.prev = 0] /\ pc' # "blocked"
  BY DEF NextSearch
<1> QED BY <1>1, RotSet DEF Calm

LEMMA NextPageCalm ==
  ASSUME NEW r, RotOK(r), NextPage(r)
  PROVE  Calm' /\ rot'.blocks = r.blocks
<1>1. rot' = [r EXCEPT !.tries = 0] /\ pc' = "page"
  BY DEF NextPage
<1> QED BY <1>1, RotSet DEF Calm

LEMMA PageErrorCalm ==
  ASSUME RotOK(rot), NEW r, RotOK(r), NEW ids, PageError(ids, r)
  PROVE  Calm'
<1>1. CASE EndSearch(ids)
  BY <1>1, NextSearchCalm DEF EndSearch
<1>2. CASE NextPage(r)
  BY <1>2, NextPageCalm
<1>3. CASE NextPage([r EXCEPT !.empty = @ + 1])
  <2>1. RotOK([r EXCEPT !.empty = r.empty + 1])
    BY RotSet
  <2> QED BY <1>3, <2>1, NextPageCalm
<1> QED BY <1>1, <1>2, <1>3 DEF PageError

LEMMA SearchErrorCalm ==
  ASSUME RotOK(rot), rot.tries = 0 \/ job.portal \in Scrolling \cup Browserless, SearchError
  PROVE  Calm'
<1>1. CASE NextSearch
  BY <1>1, NextSearchCalm
<1>2. CASE rot.tries = 0 /\ UNCHANGED rot /\ pc' = "state"
  BY <1>2 DEF Calm
<1> QED BY <1>1, <1>2 DEF SearchError

LEMMA InitBrowserTries == ASSUME TriesInv, InitBrowserForState PROVE TriesInv'
<1>1. RotOK(rot) /\ rot.tries = 0
  BY DEF InitBrowserForState, TriesInv
<1>2. CASE UNCHANGED rot /\ pc' = "closing"
  BY <1>1, <1>2, CalmTries DEF Calm
<1>3. ASSUME NEW n, rot' = FreshCounters(job.portal, n), pc' = "page" PROVE TriesInv'
  BY <1>1, <1>3, FreshFacts, CalmTries DEF Calm
<1> QED BY <1>2, <1>3 DEF InitBrowserForState, Raise

LEMMA BeginPageTries == ASSUME TriesInv, BeginPage PROVE TriesInv'
<1>1. RotOK(rot) /\ rot.tries = 0
  BY DEF BeginPage, TriesInv
<1>2. CASE EndSearch(found)
  BY <1>1, <1>2, NextSearchCalm, CalmTries DEF EndSearch
<1>3. CASE SearchError
  BY <1>1, <1>3, SearchErrorCalm, CalmTries
<1>4. CASE UNCHANGED rot /\ pc' \in {"state", "fetch"}
  BY <1>1, <1>4, CalmTries DEF Calm
<1>5. ASSUME NEW n, rot' = [rot EXCEPT !.since = 0, !.after = n], pc' = "fetch" PROVE TriesInv'
  <2>1. RotOK(rot') /\ rot'.tries = 0
    BY <1>1, <1>5 DEF RotOK, Counters
  <2> QED BY <1>5, <2>1, CalmTries DEF Calm
<1>6. CASE RotateSession(browser)
  BY <1>4, <1>5, <1>6 DEF RotateSession
<1> QED BY <1>2, <1>3, <1>4, <1>6 DEF BeginPage

LEMMA FetchTries == ASSUME TriesInv, SameRun, Fetch PROVE TriesInv'
<1>1. RotOK(rot) /\ rot.tries =< Retries /\ (rot.tries > 0 => Inm)
  BY DEF Fetch, TriesInv
<1>2. CASE PageError(found, rot)
  BY <1>1, <1>2, PageErrorCalm, CalmTries
<1>3. CASE EmptyPage
  <2>1. RotOK([rot EXCEPT !.empty = 1])
    BY <1>1, RotSet
  <2> QED BY <1>1, <1>3, <2>1, NextPageCalm, NextSearchCalm, CalmTries DEF EmptyPage, EndSearch
<1>4. ASSUME NEW a \in Answers, SearchPage(job.portal, a).blocked, pc' = "blocked", UNCHANGED rot
      PROVE  TriesInv'
  <2>1. Inm
    BY <1>4, SearchPageTyped DEF Inm
  <2> QED BY <1>1, <1>4, <2>1 DEF TriesInv, Inm, SameRun
<1>5. CASE pc' = "got" /\ rot' = [rot EXCEPT !.blocks = 0, !.empty = 0, !.visits = 0]
  <2>1. RotOK(rot')
    BY <1>1, <1>5, RotSet
  <2> QED BY <1>5, <2>1 DEF TriesInv
<1> QED BY <1>2, <1>3, <1>4, <1>5 DEF Fetch

LEMMA RetryBlockedTries == ASSUME TriesInv, SameRun, RetryBlocked PROVE TriesInv'
<1>1. RotOK(rot) /\ rot.tries =< Retries /\ Inm
  BY DEF RetryBlocked, TriesInv
<1>2. CASE NextPage(rot)
  BY <1>1, <1>2, NextPageCalm, CalmTries
<1>3. CASE EndSearch(found)
  BY <1>1, <1>3, NextSearchCalm, CalmTries DEF EndSearch
<1>4. CASE PageError(found, [rot EXCEPT !.blocks = @ + 1])
  <2>1. RotOK([rot EXCEPT !.blocks = rot.blocks + 1])
    BY <1>1, RotSet
  <2> QED BY <1>1, <1>4, <2>1, PageErrorCalm, CalmTries
<1>5. CASE rot.tries # Retries /\ pc' = "fetch" /\ rot' = [rot EXCEPT !.blocks = @ + 1, !.tries = @ + 1]
  <2>1. RotOK(rot') /\ rot'.tries = rot.tries + 1
    BY <1>1, <1>5, RotSet
  <2>2. rot'.tries =< Retries
    BY <1>1, <1>5, <2>1, LimitsFacts DEF RotOK
  <2> QED BY <1>1, <1>5, <2>1, <2>2 DEF TriesInv, Inm, SameRun
<1> QED BY <1>2, <1>3, <1>4, <1>5 DEF RetryBlocked

LEMMA FinishPageTries ==
  ASSUME TriesInv, VisitDetail \/ VisitsFail \/ FinishPage
  PROVE  TriesInv'
<1>1. RotOK(rot)
  BY DEF TriesInv
<1>2. CASE \E ids : PageError(ids, rot)
  BY <1>1, <1>2, PageErrorCalm, CalmTries
<1>3. CASE \E ids : EndSearch(ids)
  BY <1>1, <1>3, NextSearchCalm, CalmTries DEF EndSearch
<1>4. CASE NextPage([rot EXCEPT !.since = @ + 1])
  <2>1. RotOK([rot EXCEPT !.since = rot.since + 1])
    BY <1>1, RotSet
  <2> QED BY <1>4, <2>1, NextPageCalm, CalmTries
<1>5. CASE VisitDetail
  <2>1. RotOK(rot') /\ pc' = "got"
    BY <1>1, <1>5, RotSet DEF VisitDetail
  <2> QED BY <2>1 DEF TriesInv
<1> QED BY <1>2, <1>3, <1>4, <1>5 DEF VisitsFail, FinishPage

LEMMA ScrollTries == ASSUME TriesInv, Scroll \/ FinishScroll PROVE TriesInv'
<1>1. RotOK(rot) /\ rot.tries = 0
  BY DEF Scroll, FinishScroll, TriesInv
<1>2. CASE SearchError
  BY <1>1, <1>2, SearchErrorCalm, CalmTries
<1>3. CASE NextSearch
  BY <1>1, <1>3, NextSearchCalm, CalmTries
<1>4. CASE pc' = "scrolled" /\ UNCHANGED rot
  BY <1>1, <1>4, CalmTries DEF Calm
<1>5. ASSUME NEW e, NEW n, LET r == [rot EXCEPT !.empty = e, !.prev = n] IN
             NextPage(r) \/ (pc' = "scrolled" /\ rot' = r)
      PROVE  TriesInv'
  <2> DEFINE r == [rot EXCEPT !.empty = e, !.prev = n]
  <2>1. RotOK(r) /\ r.tries = 0
    BY <1>1 DEF RotOK, Counters
  <2>2. NextPage(r) \/ (pc' = "scrolled" /\ rot' = r)
    BY <1>5
  <2> HIDE DEF r
  <2> QED BY <2>1, <2>2, NextPageCalm, CalmTries DEF Calm
<1>6. CASE Scroll
  BY <1>2, <1>4, <1>5, <1>6 DEF Scroll
<1> QED BY <1>2, <1>3, <1>6 DEF FinishScroll

LEMMA ChallengeTries ==
  ASSUME TriesInv, SolveChallenge \/ CloseBridge
  PROVE  TriesInv'
<1>1. RotOK(rot) /\ rot.tries = 0
  BY DEF SolveChallenge, CloseBridge, TriesInv
<1>2. PICK c : rot' = rot \/ rot' = [rot EXCEPT !.cookies = c]
  BY DEF SolveChallenge, CloseBridge
<1>3. RotOK(rot') /\ rot'.tries = 0
  <2>1. CASE rot' = rot
    BY <1>1, <2>1
  <2>2. CASE rot' = [rot EXCEPT !.cookies = c]
    BY <1>1, <2>2, RotSet
  <2> QED BY <1>2, <2>1, <2>2
<1>4. pc' \in {"solving", "solved", "unsolved"}
  BY DEF SolveChallenge, CloseBridge
<1> QED BY <1>3, <1>4, CalmTries DEF Calm

LEMMA LdBridgeTries ==
  ASSUME TriesInv, ScrapeLdPage \/ BridgeFails \/ BridgePage \/ FinishBridgePage
  PROVE  TriesInv'
<1>1. RotOK(rot) /\ job.portal \in Browserless
  BY DEF ScrapeLdPage, BridgeFails, BridgePage, FinishBridgePage, TriesInv, Browserless
<1>2. CASE SearchError
  BY <1>1, <1>2, SearchErrorCalm, CalmTries
<1>3. CASE NextSearch
  BY <1>1, <1>3, NextSearchCalm, CalmTries
<1>4. CASE NextPage(rot)
  BY <1>1, <1>4, NextPageCalm, CalmTries
<1>5. CASE pc' = "got" /\ (rot' = rot \/ \E c : rot' = [rot EXCEPT !.cookies = c])
  <2>1. RotOK(rot')
    <3>1. CASE rot' = rot
      BY <1>1, <3>1
    <3>2. CASE \E c : rot' = [rot EXCEPT !.cookies = c]
      <4>1. PICK c : rot' = [rot EXCEPT !.cookies = c]
        BY <3>2
      <4> QED BY <1>1, <4>1, RotSet
    <3> QED BY <1>5, <3>1, <3>2
  <2> QED BY <1>5, <2>1 DEF TriesInv
<1>6. CASE ScrapeLdPage
  BY <1>2, <1>3, <1>4, <1>6 DEF ScrapeLdPage, EndSearch
<1>7. CASE BridgePage
  BY <1>2, <1>3, <1>5, <1>7 DEF BridgePage, EndSearch
<1>8. CASE FinishBridgePage
  BY <1>2, <1>3, <1>4, <1>8 DEF FinishBridgePage, EndSearch
<1> QED BY <1>2, <1>6, <1>7, <1>8 DEF BridgeFails

LEMMA EnrichmentTries == ASSUME TriesInv, StartEnrichment \/ EnrichTarget PROVE TriesInv'
<1>1. RotOK(rot) /\ rot.tries = 0 /\ pc \in {"enrichStart", "enrich"}
  BY DEF StartEnrichment, EnrichTarget, TriesInv
<1>2. CASE UNCHANGED rot /\ pc' \in {"enrich", "closing", "ended"}
  BY <1>1, <1>2, CalmTries DEF Calm
<1>3. ASSUME NEW n, rot' = FreshCounters(job.portal, n), pc' = "enrich" PROVE TriesInv'
  BY <1>1, <1>3, FreshFacts, CalmTries DEF Calm
<1>4. ASSUME NEW n, rot' = [rot EXCEPT !.since = n], pc' = "enrich" PROVE TriesInv'
  BY <1>1, <1>4, RotSet, CalmTries DEF Calm
<1>5. CASE StartEnrichment
  BY <1>2, <1>3, <1>5 DEF StartEnrichment, CloseEnrichment
<1>6. CASE EnrichTarget
  BY <1>2, <1>4, <1>6 DEF EnrichTarget, CloseEnrichment
<1> QED BY <1>5, <1>6

LEMMA StepKeepsTries == OpenInv /\ TriesInv /\ [Next]_vars => TriesInv'
<1> SUFFICES ASSUME OpenInv, TriesInv, [Next]_vars PROVE TriesInv'
  OBVIOUS
<1>1. SameRun
  BY StepSameRun
<1>2. CASE UNCHANGED <<pc, rot>>
  BY <1>1, <1>2 DEF TriesInv, SameRun, Inm
<1>3. CASE OpenJob \/ Return \/ CloseRow
  BY <1>3, CalmTries DEF OpenJob, Return, CloseRow, TriesInv, Calm
<1>4. CASE CookiesExpire
  <2>1. rot' = [rot EXCEPT !.cookies = "none"] /\ UNCHANGED pc
    BY <1>4 DEF CookiesExpire
  <2>2. RotOK(rot') /\ rot'.tries = rot.tries
    BY <2>1, RotSet DEF TriesInv
  <2> QED BY <1>1, <2>1, <2>2 DEF TriesInv, SameRun, Inm
<1>5. CASE OtherRun \/ BrowserDies \/ Ended \/ UNCHANGED vars
  BY <1>2, <1>5 DEF OtherRun, BrowserDies, Ended, vars
<1> QED BY <1>1, <1>3, <1>4, <1>5, InitBrowserTries, BeginPageTries, FetchTries, RetryBlockedTries,
           FinishPageTries, ScrollTries, ChallengeTries, LdBridgeTries, EnrichmentTries DEF Next

LEMMA InitTries == Init => TriesInv
  BY DEF Init, TriesInv, RotOK, Counters

-----------------------------------------------------------------------------
(* Pages are begun with the budget spent only where it is not asked again *)

\* The page that was asked for in time and its retries; then its detail pages.
LatePage == 1 + (IF Inm THEN Retries ELSE 0)
LateMost == LatePage + (IF job.detail THEN PageSize ELSE 0)
Visiting == pc = "got" /\ job.portal \in BrowserPortals

LateInv ==
  /\ spent \in Spending
  /\ spent.late > 0 => BudgetRefuses
  /\ spent.late =< LateMost
  /\ pc = "fetch" => spent.late =< rot.tries
  /\ pc = "blocked" => spent.late =< rot.tries + 1
  /\ Visiting => spent.late =< LatePage + rot.visits

LEMMA LateFacts ==
  /\ LatePage \in Nat /\ LateMost \in Nat /\ LatePage =< LateMost
  /\ job.detail => LateMost = LatePage + PageSize
  BY LimitsFacts, PagesAssumption DEF LatePage, LateMost

LEMMA LateSame ==
  ASSUME SameRun
  PROVE  /\ LatePage' = LatePage /\ LateMost' = LateMost
         /\ Visiting' <=> pc' = "got" /\ job.portal \in BrowserPortals
  BY DEF SameRun, Inm, LatePage, LateMost, Visiting, BrowserPortals

LEMMA SpendingFacts ==
  ASSUME spent \in Spending
  PROVE  spent.counted \in Nat /\ spent.late \in Nat /\ spent.blocked \in Nat
         /\ spent.search \in Nat \X Nat
  BY DEF Spending

LEMMA BudgetFact == Budget \in Nat
  BY CountsAssumption

\* A step that begins no page with the budget spent.
LEMMA LateKeeps ==
  ASSUME LateInv, SameRun, spent' \in Spending,
         spent'.late = spent.late, spent'.counted >= spent.counted,
         pc' = "fetch" => spent.late =< rot'.tries,
         pc' = "blocked" => spent.late =< rot'.tries + 1,
         Visiting' => spent.late =< LatePage + rot'.visits
  PROVE  LateInv'
<1>1. spent'.counted \in Nat /\ spent.counted \in Nat /\ spent.late \in Nat
  BY DEF LateInv, Spending
<1>2. BudgetRefuses => BudgetRefuses'
  BY <1>1, BudgetFact DEF BudgetRefuses, OverBudget, SameRun
<1> QED BY <1>2, LateSame DEF LateInv

LEMMA LateStays ==
  ASSUME LateInv, SameRun, UNCHANGED spent,
         (pc' \notin {"fetch", "blocked"} /\ ~Visiting') \/ UNCHANGED <<pc, rot>>
  PROVE  LateInv'
<1>1. spent.counted \in Nat
  BY DEF LateInv, Spending
<1>2. CASE UNCHANGED <<pc, rot>>
  <2>1. Visiting' <=> Visiting
    BY <1>2, LateSame DEF Visiting
  <2> QED BY <1>1, <1>2, <2>1, LateKeeps DEF LateInv
<1>3. CASE pc' \notin {"fetch", "blocked"} /\ ~Visiting'
  BY <1>1, <1>3, LateKeeps DEF LateInv
<1> QED BY <1>2, <1>3

\* Of a portal that uses no proxy no page is late.
LEMMA DirectNeverLate ==
  ASSUME LateInv, ~BudgetRefuses
  PROVE  spent.late = 0
  BY SpendingFacts DEF LateInv

LEMMA DirectFacts ==
  /\ ~UsesProxy("properstar") /\ ~UsesProxy("icasas")
  BY DEF UsesProxy, ProxyPolicy

LEMMA BeginPageLate == ASSUME OpenInv, TriesInv, LateInv, BeginPage PROVE LateInv'
<1>1. SameRun /\ UNCHANGED spent /\ rot.tries = 0
  BY StepSameRun DEF Next, BeginPage, TriesInv
<1>2. CASE pc' = "fetch"
  <2>1. ~MaybeRotateRefuses
    <3>1. CASE EndSearch(found) \/ SearchError
      BY <1>2, <3>1 DEF EndSearch, SearchError, NextSearch
    <3> QED BY <3>1 DEF BeginPage
  <2>2. ~BudgetRefuses
    BY <2>1, DirectFacts DEF MaybeRotateRefuses, BudgetRefuses
  <2>3. spent.late = 0
    BY <2>2, DirectNeverLate
  <2>4. TriesInv'
    BY BeginPageTries
  <2>5. rot'.tries \in Nat
    BY <2>4 DEF TriesInv, RotOK
  <2>6. spent.counted \in Nat
    BY DEF LateInv, Spending
  <2> QED BY <1>1, <1>2, <2>3, <2>5, <2>6, LateKeeps DEF LateInv, Visiting
<1>3. CASE pc' # "fetch"
  <2>1. pc' # "blocked" /\ ~Visiting'
    BY DEF BeginPage, EndSearch, SearchError, NextSearch, RotateSession, Visiting
  <2> QED BY <1>1, <1>3, <2>1, LateStays
<1> QED BY <1>2, <1>3

\* The page in progress is the first that may be late, and each of its retries.
LEMMA FetchLate ==
  ASSUME OpenInv, PlaceInv, TriesInv, LateInv, Fetch
  PROVE  LateInv'
<1>1. SameRun
  BY StepSameRun DEF Next
<1>2. pc = "fetch" /\ RotOK(rot) /\ rot.tries =< Retries /\ (rot.tries > 0 => Inm)
  BY DEF Fetch, TriesInv
<1>3. CASE PageError(found, rot) /\ UNCHANGED spent
  <2>1. pc' \in {"page", "state"}
    BY <1>3 DEF PageError, EndSearch, NextSearch, NextPage
  <2> QED BY <1>1, <1>3, <2>1, LateStays DEF Visiting
<1>4. ASSUME NEW b \in BOOLEAN, spent' = AddBytes(spent, b), pc' # "fetch",
             pc' = "blocked" => UNCHANGED rot, pc' = "got" => rot'.visits = 0
      PROVE  LateInv'
  <2>1. /\ spent' \in Spending /\ spent'.counted >= spent.counted
        /\ spent'.late = IF BudgetRefuses THEN spent.late + 1 ELSE spent.late
    BY <1>4, AddBytesFacts DEF LateInv
  <2>2. spent.late \in Nat /\ spent.counted \in Nat /\ spent'.counted \in Nat /\ spent'.late \in Nat
    BY <2>1 DEF LateInv, Spending
  <2>3. spent.late =< rot.tries /\ rot.tries \in Nat /\ Retries \in Nat
    BY <1>2, LimitsFacts DEF LateInv, RotOK
  <2>4. spent'.late =< rot.tries + 1
    BY <2>1, <2>2, <2>3
  <2>5. rot.tries =< IF Inm THEN Retries ELSE 0
    BY <1>2, <2>3
  <2>6. spent'.late =< LatePage /\ spent'.late =< LateMost
    <3>1. spent'.late =< LatePage
      BY <2>2, <2>3, <2>4, <2>5 DEF LatePage
    <3> QED BY <2>2, <3>1, LateFacts
  <2>7. BudgetRefuses => BudgetRefuses'
    BY <1>1, <2>1, <2>2, BudgetFact DEF BudgetRefuses, OverBudget, SameRun
  <2>8. spent'.late > 0 => BudgetRefuses
    BY <2>1 DEF LateInv
  <2>9. Visiting' => spent'.late =< LatePage + rot'.visits
    BY <1>4, <2>6, LateFacts DEF Visiting
  <2> QED BY <1>1, <1>4, <2>1, <2>4, <2>6, <2>7, <2>8, <2>9, LateSame DEF LateInv
<1>5. ASSUME NEW a \in Answers, spent' = AddBytes(spent, SearchPage(job.portal, a).blocked),
             pc' # "fetch", pc' = "blocked" => UNCHANGED rot, pc' = "got" => rot'.visits = 0
      PROVE  LateInv'
  <2>1. SearchPage(job.portal, a).blocked \in BOOLEAN
    BY SearchPageTyped DEF PageType
  <2> QED BY <1>4, <1>5, <2>1
<1>6. EmptyPage => pc' \in {"page", "state"}
  BY DEF EmptyPage, EndSearch, NextSearch, NextPage
<1>7. rot' = [rot EXCEPT !.blocks = 0, !.empty = 0, !.visits = 0] => rot'.visits = 0
  BY <1>2, RotSet
<1> QED BY <1>3, <1>5, <1>6, <1>7 DEF Fetch

\* Every detail page may be late too.
LEMMA VisitDetailLate ==
  ASSUME OpenInv, PlaceInv, ItemsInv, TriesInv, LateInv, VisitDetail
  PROVE  LateInv'
<1>1. SameRun
  BY StepSameRun DEF Next
<1>2. /\ rot.visits < Len(ToVisit) /\ Visiting /\ pc' = "got"
      /\ rot' = [rot EXCEPT !.visits = @ + 1]
      /\ spent' = spent \/ spent' = AddBytes(spent, FALSE)
  BY DEF VisitDetail, Visiting
<1>3. rot.visits \in Nat /\ rot'.visits = rot.visits + 1
  BY <1>2, RotSet DEF TriesInv, RotOK
<1>4. job.detail /\ rot.visits + 1 =< PageSize
  <2>1. page.cards \in Seq(Card) /\ Len(page.cards) =< PageSize /\ Len(page.cards) \in Nat
    BY DEF ItemsInv, PageType
  <2>2. Len(<<>>) = 0
    OBVIOUS
  <2>3. job.detail
    BY <1>2, <1>3, <2>2 DEF ToVisit
  <2>4. \A I : Those(page.cards, I) \in Seq(Card) /\ Len(Those(page.cards, I)) =< Len(page.cards)
    BY <2>1, ThoseFacts
  <2>5. Visited(job.portal, page.cards) = <<>> \/ \E I : Visited(job.portal, page.cards) = Those(page.cards, I)
    BY DEF Visited, Linked
  <2>6. Len(ToVisit) \in Nat /\ Len(ToVisit) =< Len(page.cards)
    BY <2>1, <2>2, <2>3, <2>4, <2>5 DEF ToVisit
  <2>7. PageSize \in Nat
    BY PagesAssumption
  <2> QED BY <1>2, <1>3, <2>1, <2>3, <2>6, <2>7
<1>5. /\ spent.late \in Nat /\ spent.counted \in Nat /\ spent.late =< LatePage + rot.visits
      /\ spent.late > 0 => BudgetRefuses
  BY <1>2 DEF LateInv, Spending
<1>6. /\ spent' \in Spending /\ spent'.counted >= spent.counted
      /\ spent'.late = spent.late \/ (BudgetRefuses /\ spent'.late = spent.late + 1)
  <2>1. CASE spent' = spent
    BY <1>5, <2>1 DEF LateInv
  <2>2. CASE spent' = AddBytes(spent, FALSE)
    BY <2>2, AddBytesFacts DEF LateInv
  <2> QED BY <1>2, <2>1, <2>2
<1>7. spent'.late =< LatePage + rot'.visits /\ spent'.late =< LateMost
  <2>1. spent'.late =< spent.late + 1 /\ spent'.late \in Nat
    BY <1>5, <1>6
  <2>2. PageSize \in Nat /\ LateMost = LatePage + PageSize /\ LatePage \in Nat
    BY <1>4, LateFacts, PagesAssumption
  <2> QED BY <1>3, <1>4, <1>5, <2>1, <2>2
<1>8. BudgetRefuses => BudgetRefuses'
  <2>1. spent'.counted \in Nat
    BY <1>6 DEF Spending
  <2> QED BY <1>1, <1>5, <1>6, <2>1, BudgetFact DEF BudgetRefuses, OverBudget, SameRun
<1>9. spent'.late > 0 => BudgetRefuses'
  BY <1>5, <1>6, <1>8
<1> QED BY <1>1, <1>2, <1>6, <1>7, <1>9, LateSame DEF LateInv

LEMMA RetryBlockedLate == ASSUME OpenInv, TriesInv, LateInv, RetryBlocked PROVE LateInv'
<1>1. SameRun /\ UNCHANGED spent
  BY StepSameRun DEF Next, RetryBlocked
<1>2. CASE pc' = "fetch" /\ rot' = [rot EXCEPT !.blocks = @ + 1, !.tries = @ + 1]
  <2>1. rot'.tries = rot.tries + 1
    BY <1>2, RotSet DEF TriesInv
  <2>2. spent.late =< rot.tries + 1
    BY DEF RetryBlocked, LateInv
  <2>3. spent.counted \in Nat
    BY DEF LateInv, Spending
  <2> QED BY <1>1, <1>2, <2>1, <2>2, <2>3, LateKeeps DEF LateInv, Visiting
<1>3. CASE pc' \in {"page", "state"}
  BY <1>1, <1>3, LateStays DEF Visiting
<1> QED BY <1>2, <1>3 DEF RetryBlocked, PageError, EndSearch, NextSearch, NextPage

\* Where no proxy is used or the budget was asked, a page is not late.
LEMMA ReadLate ==
  ASSUME PlaceInv, LateInv, SameRun, ~BudgetRefuses, spent' = AddBytes(spent, FALSE),
         pc' \notin {"fetch", "blocked", "got"}
  PROVE  LateInv'
<1>1. spent' \in Spending /\ spent'.counted >= spent.counted /\ spent'.late = spent.late
  BY AddBytesFacts DEF LateInv
<1> QED BY <1>1, LateKeeps DEF Visiting

LEMMA ScrollLate == ASSUME OpenInv, PlaceInv, LateInv, Scroll PROVE LateInv'
<1>1. SameRun
  BY StepSameRun DEF Next
<1>2. ~BudgetRefuses
  BY DirectFacts DEF Scroll, Scrolling, BudgetRefuses
<1>3. pc' \in {"page", "state", "scrolled"}
  BY DEF Scroll, SearchError, NextSearch, NextPage
<1>4. UNCHANGED spent \/ spent' = AddBytes(spent, FALSE)
  BY DEF Scroll
<1> QED BY <1>1, <1>2, <1>3, <1>4, LateStays, ReadLate DEF Visiting

LEMMA EnrichTargetLate == ASSUME OpenInv, PlaceInv, LateInv, EnrichTarget PROVE LateInv'
<1>1. SameRun
  BY StepSameRun DEF Next
<1>2. pc' \in {"enrich", "closing"}
  BY DEF EnrichTarget, CloseEnrichment
<1>3. UNCHANGED spent \/ (~BudgetRefuses /\ spent' = AddBytes(spent, FALSE))
  BY DEF EnrichTarget
<1> QED BY <1>1, <1>2, <1>3, LateStays, ReadLate DEF Visiting

LEMMA MoreCounted ==
  ASSUME LateInv
  PROVE  LET t == [spent EXCEPT !.counted = @ + 1] IN
         /\ t \in Spending /\ t.late = spent.late /\ t.counted >= spent.counted
         /\ t.blocked = spent.blocked /\ t.search = spent.search
<1>1. spent.counted \in Nat /\ spent.counted + 1 \in Nat
  BY DEF LateInv, Spending
<1> QED BY <1>1 DEF LateInv, Spending

LEMMA OtherRunLate == ASSUME LateInv, OtherRun PROVE LateInv'
<1>1. UNCHANGED <<job, pc, rot>> /\ spent' = [spent EXCEPT !.counted = @ + 1]
  BY DEF OtherRun
<1>2. spent' \in Spending /\ spent'.late = spent.late /\ spent'.counted >= spent.counted
  BY <1>1, MoreCounted
<1>3. SameRun /\ (Visiting' <=> Visiting)
  BY <1>1 DEF SameRun, Visiting, BrowserPortals
<1> QED BY <1>1, <1>2, <1>3, LateKeeps DEF LateInv

LEMMA CloseBridgeLate == ASSUME OpenInv, LateInv, CloseBridge PROVE LateInv'
<1>1. SameRun /\ pc' \in {"solved", "unsolved"}
  BY StepSameRun DEF Next, CloseBridge
<1>2. spent' = spent \/ spent' = [spent EXCEPT !.counted = @ + 1]
  BY DEF CloseBridge
<1>3. spent' \in Spending /\ spent'.late = spent.late /\ spent'.counted >= spent.counted
  <2>1. spent.counted \in Nat
    BY DEF LateInv, Spending
  <2>2. CASE spent' = spent
    BY <2>1, <2>2 DEF LateInv
  <2>3. CASE spent' = [spent EXCEPT !.counted = @ + 1]
    BY <2>3, MoreCounted
  <2> QED BY <1>2, <2>2, <2>3
<1> QED BY <1>1, <1>3, LateKeeps DEF Visiting

LEMMA StepKeepsLate ==
  OpenInv /\ PlaceInv /\ ItemsInv /\ TriesInv /\ LateInv /\ [Next]_vars => LateInv'
<1> SUFFICES ASSUME OpenInv, PlaceInv, ItemsInv, TriesInv, LateInv, [Next]_vars PROVE LateInv'
  OBVIOUS
<1>1. SameRun
  BY StepSameRun
<1>2. CASE UNCHANGED spent /\ pc' \notin {"fetch", "blocked", "got"}
  BY <1>1, <1>2, LateStays DEF Visiting
<1>3. CASE OpenJob \/ InitBrowserForState \/ Return \/ CloseRow
  BY <1>2, <1>3 DEF OpenJob, InitBrowserForState, Raise, Return, CloseRow
<1>4. CASE VisitsFail \/ FinishPage
  BY <1>2, <1>4 DEF VisitsFail, FinishPage, PageError, EndSearch, NextSearch, NextPage
<1>5. CASE FinishScroll \/ ScrapeLdPage
  BY <1>2, <1>5 DEF FinishScroll, ScrapeLdPage, SearchError, EndSearch, NextSearch, NextPage
<1>6. CASE SolveChallenge \/ BridgeFails \/ FinishBridgePage
  BY <1>2, <1>6 DEF SolveChallenge, BridgeFails, FinishBridgePage, SearchError, EndSearch, NextSearch,
                    NextPage
<1>7. CASE BridgePage
  <2>1. job.portal \notin BrowserPortals /\ UNCHANGED spent
    BY <1>7 DEF BridgePage, BrowserPortals, Browserless
  <2>2. pc' \notin {"fetch", "blocked"} /\ ~Visiting'
    BY <1>1, <1>7, <2>1, LateSame DEF BridgePage, EndSearch, NextSearch
  <2> QED BY <1>1, <2>1, <2>2, LateStays
<1>8. CASE StartEnrichment
  BY <1>2, <1>8 DEF StartEnrichment, CloseEnrichment
<1>9. CASE CookiesExpire
  <2>1. rot' = [rot EXCEPT !.cookies = "none"] /\ UNCHANGED <<pc, spent>>
    BY <1>9 DEF CookiesExpire
  <2>2. rot'.tries = rot.tries /\ rot'.visits = rot.visits
    BY <2>1, RotSet DEF TriesInv
  <2>3. spent.counted \in Nat
    BY DEF LateInv, Spending
  <2>4. Visiting' <=> Visiting
    BY <1>1, <2>1, LateSame DEF Visiting
  <2> QED BY <1>1, <2>1, <2>2, <2>3, <2>4, LateKeeps DEF LateInv
<1>10. CASE BrowserDies \/ Ended \/ UNCHANGED vars
  <2>1. UNCHANGED <<pc, rot, spent>>
    BY <1>10 DEF BrowserDies, Ended, vars
  <2> QED BY <1>1, <2>1, LateStays
<1> QED BY <1>3, <1>4, <1>5, <1>6, <1>7, <1>8, <1>9, <1>10, BeginPageLate, FetchLate, RetryBlockedLate,
           VisitDetailLate, CloseBridgeLate, ScrollLate, EnrichTargetLate, OtherRunLate DEF Next

LEMMA InitLate == Init => LateInv
<1> SUFFICES ASSUME Init PROVE LateInv
  OBVIOUS
<1>1. spent = [counted |-> 0, late |-> 0, blocked |-> 0, search |-> <<0, 0>>] /\ pc = "start"
  BY DEF Init
<1> QED BY <1>1, LateFacts DEF LateInv, Spending, Visiting

-----------------------------------------------------------------------------
(* Pages the portal blocks in a row *)

Most == BlockLimit - 1 + ((BlockLimit + Retries - 1) \div Retries)
Weight(w, t) == w * Retries + t
Worth(b) == b * (Retries + 1)

\* Every block counts one and weighs at most one retry and its share of a first answer.
LEMMA WeightFacts ==
  ASSUME NEW w \in Nat, NEW t \in Nat
  PROVE  /\ Weight(w, t) \in Nat
         /\ Weight(0, t) = t /\ Weight(w, t) = Weight(w, 0) + t
         /\ Weight(w + 1, t) = Weight(w, t) + Retries
         /\ Weight(w, t + 1) = Weight(w, t) + 1
<1>1. Retries \in Nat
  BY LimitsFacts
<1>2. w * Retries \in Nat /\ (w + 1) * Retries = w * Retries + Retries /\ 0 * Retries = 0
  BY <1>1
<1> QED BY <1>1, <1>2 DEF Weight

LEMMA WorthFacts ==
  ASSUME NEW b \in Nat
  PROVE  Worth(b) \in Nat /\ Worth(b + 1) = Worth(b) + Retries + 1
<1>1. Retries \in Nat
  BY LimitsFacts
<1>2. b * (Retries + 1) \in Nat /\ (b + 1) * (Retries + 1) = b * (Retries + 1) + Retries + 1
  BY <1>1
<1> QED BY <1>2 DEF Worth

LEMMA BlocksBound ==
  ASSUME NEW w \in Nat, NEW t \in Nat, NEW b \in Nat, b < BlockLimit, Weight(w, t) =< Worth(b)
  PROVE  w + 1 =< Most
<1> DEFINE q == (BlockLimit + Retries - 1) \div Retries
<1>1. Retries \in Nat /\ Retries >= 1 /\ BlockLimit \in Nat /\ BlockLimit >= 1
  BY LimitsFacts
<1>2. q \in Nat /\ BlockLimit + Retries - 1 < (q + 1) * Retries
  BY <1>1
<1> HIDE DEF q
<1>3. w * Retries =< b * (Retries + 1)
  BY <1>1 DEF Weight, Worth
<1>4. b * (Retries + 1) =< b * Retries + BlockLimit - 1
  BY <1>1
<1>5. (w - b) * Retries =< BlockLimit - 1
  BY <1>1, <1>3, <1>4
<1>6. (w - b + 1) * Retries < (q + 1) * Retries
  BY <1>1, <1>2, <1>5
<1>7. w - b + 1 < q + 1
  BY <1>1, <1>2, <1>6
<1>8. w + 1 =< BlockLimit - 1 + q
  BY <1>1, <1>2, <1>7
<1> QED BY <1>8 DEF Most, q

\* No search beyond the one in progress has been blocked.
Behind(s) == s.search[1] < at.state \/ (s.search[1] = at.state /\ s.search[2] =< at.op)

BlockedInv ==
  /\ rot.blocks < BlockLimit
  /\ Behind(spent)
  /\ pc \in {"start", "state"} => spent.search[1] < at.state
  /\ pc \in {"page", "fetch"} => Weight(Row, rot.tries) =< Worth(rot.blocks)
  /\ pc = "blocked" => Weight(Row, rot.tries) =< Worth(rot.blocks) + Retries
  /\ pc = "got" => Row = 0

BlocksInv ==
  /\ spent.blocked =< Most
  /\ ~Inm => spent.blocked = 0
  /\ Inm /\ pc \in Loops \cup {"start", "state"} => BlockedInv

LEMMA PlaceFacts ==
  ASSUME PlaceInv
  PROVE  at.state \in Nat /\ at.op \in Nat /\ at.state >= 1 /\ at.op >= 1
  BY LimitsFacts DEF PlaceInv

LEMMA RowFacts ==
  ASSUME NEW s \in Spending
  PROVE  /\ RowOf(s) \in Nat /\ s.search[1] \in Nat /\ s.search[2] \in Nat
         /\ s.search = <<s.search[1], s.search[2]>>
  BY DEF Spending, RowOf

\* A place none of whose fetches was blocked yet.
LEMMA FreshBlocked ==
  ASSUME spent' \in Spending, RotOK(rot'), rot'.tries = 0, rot'.blocks < BlockLimit,
         Behind(spent)', Row' = 0, pc' # "blocked", pc' \in {"start", "state"} => spent'.search[1] < at'.state
  PROVE  BlockedInv'
<1>1. rot'.blocks \in Nat /\ 0 \in Nat
  BY DEF RotOK
<1>2. Weight(0, 0) = 0 /\ Worth(rot'.blocks) \in Nat
  BY <1>1, WeightFacts, WorthFacts
<1>3. Weight(Row', rot'.tries) =< Worth(rot'.blocks)
  BY <1>2
<1> QED BY <1>3 DEF BlockedInv

LEMMA NextSearchBlocked ==
  ASSUME PlaceInv, RotOK(rot), spent' \in Spending, NextSearch,
         spent'.search[1] < at.state \/ (spent'.search[1] = at.state /\ spent'.search[2] =< at.op)
  PROVE  BlockedInv'
<1> DEFINE last == at.op = Operations
<1>1. RotOK(rot') /\ rot'.tries = 0 /\ rot'.blocks = 0 /\ pc' # "blocked"
  BY NextSearchCalm DEF Calm
<1>2. at.state \in Nat /\ at.op \in Nat /\ at.state >= 1 /\ at.op >= 1
  BY PlaceFacts
<1>3. spent'.search[1] \in Nat /\ spent'.search[2] \in Nat
  BY RowFacts
<1>4. CASE last
  <2>1. at'.state = at.state + 1 /\ pc' = "state"
    BY <1>4 DEF NextSearch, PlaceInv
  <2>2. spent'.search[1] < at'.state
    BY <1>2, <1>3, <2>1
  <2>3. Row' = 0
    BY <1>2, <1>3, <2>2 DEF Row, RowOf
  <2> QED BY <1>1, <2>2, <2>3, LimitsFacts, FreshBlocked DEF Behind
<1>5. CASE ~last
  <2>1. at'.state = at.state /\ at'.op = at.op + 1 /\ pc' = "page"
    BY <1>5 DEF NextSearch, PlaceInv
  <2>2. spent'.search[1] < at'.state \/ (spent'.search[1] = at'.state /\ spent'.search[2] < at'.op)
    BY <1>2, <1>3, <2>1
  <2>3. Row' = 0
    BY <1>2, <1>3, <2>1, <2>2 DEF Row, RowOf
  <2>4. Behind(spent)'
    BY <1>2, <1>3, <2>1, <2>2 DEF Behind
  <2> QED BY <1>1, <2>1, <2>3, <2>4, LimitsFacts, FreshBlocked
<1> QED BY <1>4, <1>5

LEMMA StateOverBlocked ==
  ASSUME PlaceInv, TriesInv, spent \in Spending, UNCHANGED spent, BlockedInv, rot.tries = 0,
         UNCHANGED rot, pc' = "state", at' = [at EXCEPT !.state = @ + 1]
  PROVE  BlockedInv'
<1>1. at'.state = at.state + 1
  BY DEF PlaceInv
<1>2. spent.search[1] < at'.state
  BY <1>1, PlaceFacts, RowFacts DEF BlockedInv, Behind
<1>3. Row' = 0
  BY <1>1, <1>2, PlaceFacts, RowFacts DEF Row, RowOf
<1>4. Behind(spent)'
  BY <1>2 DEF Behind
<1> QED BY <1>2, <1>3, <1>4, FreshBlocked DEF BlockedInv, TriesInv

LEMMA NextPageBlocked ==
  ASSUME PlaceInv, spent' \in Spending, NEW r, RotOK(r), r.blocks < BlockLimit, NextPage(r),
         spent'.search[1] < at.state \/ (spent'.search[1] = at.state /\ spent'.search[2] =< at.op),
         Weight(RowOf(spent'), 0) =< Worth(r.blocks)
  PROVE  BlockedInv'
<1>1. rot'.tries = 0 /\ rot'.blocks = r.blocks
  BY NextPageCalm DEF Calm
<1>2. pc' = "page" /\ at' = [at EXCEPT !.pg = @ + 1]
  BY DEF NextPage
<1>3. at'.state = at.state /\ at'.op = at.op
  BY <1>2 DEF PlaceInv
<1>4. Behind(spent)' /\ Row' = RowOf(spent')
  BY <1>3 DEF Behind, Row, RowOf
<1> QED BY <1>1, <1>2, <1>4 DEF BlockedInv

\* The scraper of inmuebles24 has a browser for each state, and one page loop in it.
LEMMA InmFacts ==
  ASSUME Inm
  PROVE  /\ job.portal \notin Scrolling \cup Browserless
         /\ SearchError => /\ at' = [at EXCEPT !.state = @ + 1] /\ pc' = "state" /\ UNCHANGED rot
         /\ \A ids, r : PageError(ids, r) => NextPage(r)
<1>1. job.portal \notin Scrolling \cup Browserless
  BY DEF Inm, Scrolling, Browserless
<1> QED BY <1>1 DEF Inm, SearchError, PageError

LEMMA BlocksKeep ==
  ASSUME BlocksInv, SameRun, spent'.blocked = spent.blocked \/ spent'.blocked = 0,
         Inm /\ pc' \in Loops \cup {"start", "state"} => BlockedInv'
  PROVE  BlocksInv'
<1>1. 0 =< Most
  <2>1. Weight(0, 0) =< Worth(0) /\ 0 < BlockLimit
    BY WeightFacts, WorthFacts, LimitsFacts
  <2>2. 0 + 1 =< Most
    BY <2>1, BlocksBound
  <2>3. Most \in Int
    BY LimitsFacts DEF Most
  <2> QED BY <2>2, <2>3
<1> QED BY <1>1 DEF BlocksInv, SameRun, Inm

LEMMA InitBrowserBlocks ==
  ASSUME OpenInv, PlaceInv, TriesInv, spent \in Spending, BlocksInv, InitBrowserForState
  PROVE  BlocksInv'
<1>1. SameRun /\ UNCHANGED spent
  BY StepSameRun DEF Next, InitBrowserForState, Raise
<1>2. CASE pc' = "closing"
  BY <1>1, <1>2, BlocksKeep DEF Loops
<1>3. ASSUME NEW n, rot' = FreshCounters(job.portal, n), pc' = "page",
             at' = [at EXCEPT !.op = 1, !.pg = 1], Inm
      PROVE  BlockedInv'
  <2>1. RotOK(rot) /\ rot.tries = 0 /\ pc = "state"
    BY DEF InitBrowserForState, TriesInv
  <2>2. RotOK(rot') /\ rot'.tries = 0 /\ rot'.blocks = 0
    BY <1>3, <2>1, FreshFacts DEF Inm
  <2>3. at'.state = at.state /\ spent'.search[1] < at.state
    BY <1>1, <1>3, <2>1 DEF PlaceInv, BlocksInv, BlockedInv
  <2>4. Row' = 0
    BY <1>1, <2>3, PlaceFacts, RowFacts DEF Row, RowOf
  <2>5. Behind(spent)'
    BY <2>3 DEF Behind
  <2> QED BY <1>1, <1>3, <2>2, <2>3, <2>4, <2>5, LimitsFacts, FreshBlocked
<1>4. CASE \E n : /\ rot' = FreshCounters(job.portal, n) /\ pc' = "page"
                  /\ at' = [at EXCEPT !.op = 1, !.pg = 1]
  <2>1. Inm => BlockedInv'
    BY <1>3, <1>4
  <2> QED BY <1>1, <2>1, BlocksKeep
<1> QED BY <1>2, <1>4 DEF InitBrowserForState, Raise

LEMMA BeginPageBlocks ==
  ASSUME OpenInv, PlaceInv, TriesInv, spent \in Spending, BlocksInv, BeginPage
  PROVE  BlocksInv'
<1>1. SameRun /\ UNCHANGED spent
  BY StepSameRun DEF Next, BeginPage
<1>2. RotOK(rot) /\ rot.tries = 0 /\ pc = "page"
  BY DEF BeginPage, TriesInv
<1>3. ASSUME Inm PROVE BlockedInv'
  <2>1. BlockedInv
    BY <1>2, <1>3 DEF BlocksInv, Loops
  <2>2. CASE EndSearch(found)
    BY <1>1, <1>2, <2>1, <2>2, NextSearchBlocked DEF EndSearch, BlockedInv, Behind
  <2>3. CASE SearchError
    BY <1>1, <1>2, <1>3, <2>1, <2>3, InmFacts, StateOverBlocked
  <2>4. CASE pc' = "fetch" /\ UNCHANGED <<at, rot>>
    BY <1>1, <1>2, <2>1, <2>4 DEF BlockedInv, Behind, Row, RowOf
  <2>5. ~RotationDue
    BY <1>3 DEF RotationDue, Inm
  <2> QED BY <2>2, <2>3, <2>4, <2>5 DEF BeginPage
<1> QED BY <1>1, <1>3, BlocksKeep

LEMMA FetchBlocks ==
  ASSUME OpenInv, PlaceInv, TriesInv, spent \in Spending, BlocksInv, Fetch
  PROVE  BlocksInv'
<1>1. SameRun
  BY StepSameRun DEF Next
<1>2. RotOK(rot) /\ pc = "fetch" /\ rot.tries \in Nat /\ rot.blocks \in Nat
  BY DEF Fetch, TriesInv, RotOK
<1>3. Inm => BlockedInv
  BY <1>2 DEF BlocksInv, Loops
<1>4. Inm => Row \in Nat /\ Weight(Row, rot.tries) =< Worth(rot.blocks)
  BY <1>2, <1>3, RowFacts DEF BlockedInv, Row
<1>5. CASE PageError(found, rot) /\ UNCHANGED spent
  <2>1. ASSUME Inm PROVE BlockedInv'
    <3>1. Weight(Row, 0) =< Worth(rot.blocks)
      <4>1. Weight(Row, 0) \in Nat /\ Worth(rot.blocks) \in Nat
        BY <1>2, <1>4, <2>1, WeightFacts, WorthFacts
      <4>2. Weight(Row, rot.tries) = Weight(Row, 0) + rot.tries
        BY <1>2, <1>4, <2>1, WeightFacts, WorthFacts
      <4> QED BY <1>2, <1>4, <2>1, <4>1, <4>2
    <3>2. NextPage(rot)
      BY <1>5, <2>1, InmFacts
    <3>3. rot.blocks < BlockLimit /\ Behind(spent)
      BY <1>3, <2>1 DEF BlockedInv
    <3> QED BY <1>2, <1>5, <3>1, <3>2, <3>3, NextPageBlocked DEF Behind, Row
  <2> QED BY <1>1, <1>5, <2>1, BlocksKeep
<1>6. CASE spent' = AddBytes(spent, TRUE) /\ pc' = "blocked" /\ UNCHANGED <<at, rot>> /\ Inm
  <2>1. spent' \in Spending /\ spent'.search = <<at.state, at.op>> /\ spent'.blocked = Row + 1
    BY <1>6, AddBytesFacts
  <2>2. Row' = Row + 1
    BY <1>6, <2>1 DEF Row, RowOf
  <2>3. Weight(Row + 1, rot.tries) =< Worth(rot.blocks) + Retries
    <3>1. Row \in Nat /\ Weight(Row, rot.tries) =< Worth(rot.blocks)
      BY <1>4, <1>6
    <3>2. Weight(Row + 1, rot.tries) = Weight(Row, rot.tries) + Retries
      BY <1>2, <3>1, WeightFacts
    <3>3. Weight(Row, rot.tries) \in Nat
      BY <1>2, <3>1, WeightFacts
    <3>4. Worth(rot.blocks) \in Nat
      BY <1>2, WorthFacts
    <3> QED BY <3>1, <3>2, <3>3, <3>4, LimitsFacts
  <2>4. Behind(spent)'
    <3>1. spent'.search[1] = at.state /\ spent'.search[2] = at.op /\ at.op \in Nat
      BY <2>1, PlaceFacts
    <3>2. at' = at /\ at.op =< at.op
      BY <1>6, <3>1
    <3> QED BY <3>1, <3>2 DEF Behind
  <2>5. BlockedInv'
    BY <1>3, <1>6, <2>2, <2>3, <2>4 DEF BlockedInv
  <2>6. Row + 1 =< Most
    BY <1>2, <1>3, <1>4, <1>6, BlocksBound DEF BlockedInv
  <2> QED BY <1>1, <1>6, <2>1, <2>5, <2>6 DEF BlocksInv, SameRun, Inm
<1> DEFINE Got == pc' = "got" /\ rot' = [rot EXCEPT !.blocks = 0, !.empty = 0, !.visits = 0] /\ UNCHANGED at
<1>7. CASE spent' = AddBytes(spent, FALSE) /\ (EmptyPage \/ Got)
  <2>1. spent' \in Spending /\ spent'.search = <<0, 0>> /\ spent'.blocked = 0
    BY <1>7, AddBytesFacts
  <2>2. RowOf(spent') = 0 /\ spent'.search[1] = 0 /\ 0 < at.state
    BY <2>1, PlaceFacts DEF RowOf
  <2>3. CASE EndSearch(found)
    <3>1. BlockedInv'
      BY <1>2, <2>1, <2>2, <2>3, NextSearchBlocked DEF EndSearch
    <3> QED BY <1>1, <2>1, <3>1, BlocksKeep
  <2>4. CASE job.portal = "properstar"
    BY <1>1, <2>1, <2>4, BlocksKeep DEF Inm
  <2>5. CASE Got
    <3>1. rot'.blocks = 0
      BY <1>2, <2>5, RotSet
    <3>2. Row' = 0
      BY <2>1, <2>5 DEF Row, RowOf
    <3>3. Behind(spent)'
      BY <2>2, <2>5 DEF Behind
    <3>4. BlockedInv'
      BY <2>5, <3>1, <3>2, <3>3, LimitsFacts DEF BlockedInv
    <3> QED BY <1>1, <2>1, <3>4, BlocksKeep
  <2> QED BY <1>7, <2>3, <2>4, <2>5 DEF EmptyPage
<1>8. ASSUME NEW a \in Answers, spent' = AddBytes(spent, SearchPage(job.portal, a).blocked),
             IF SearchPage(job.portal, a).blocked
             THEN pc' = "blocked" /\ UNCHANGED <<at, rot>> ELSE EmptyPage \/ Got
      PROVE  BlocksInv'
  <2>1. SearchPage(job.portal, a).blocked \in BOOLEAN /\ (SearchPage(job.portal, a).blocked => Inm)
    BY SearchPageTyped DEF PageType, Inm
  <2> HIDE DEF Got
  <2>2. CASE SearchPage(job.portal, a).blocked = TRUE
    BY <1>6, <1>8, <2>1, <2>2
  <2>3. CASE SearchPage(job.portal, a).blocked = FALSE
    BY <1>7, <1>8, <2>3
  <2> QED BY <2>1, <2>2, <2>3
<1> QED BY <1>5, <1>8 DEF Fetch

LEMMA RetryBlockedBlocks ==
  ASSUME OpenInv, PlaceInv, TriesInv, spent \in Spending, BlocksInv, RetryBlocked
  PROVE  BlocksInv'
<1>1. SameRun /\ UNCHANGED spent
  BY StepSameRun DEF Next, RetryBlocked
<1>2. RotOK(rot) /\ pc = "blocked" /\ rot.tries \in Nat /\ rot.blocks \in Nat
  BY DEF RetryBlocked, TriesInv, RotOK
<1> DEFINE t == rot.tries
           b == rot.blocks
<1>3. ASSUME Inm PROVE BlockedInv'
  <2>1. BlockedInv /\ Row \in Nat /\ Weight(Row, t) =< Worth(b) + Retries
    BY <1>2, <1>3, RowFacts DEF BlocksInv, Loops, BlockedInv, Row
  <2>2. /\ Weight(Row, t) \in Nat /\ Worth(b) \in Nat /\ Weight(Row, 0) \in Nat
        /\ Weight(Row, t) = Weight(Row, 0) + t /\ Weight(Row, t + 1) = Weight(Row, t) + 1
        /\ Worth(b + 1) = Worth(b) + Retries + 1
    BY <1>2, <2>1, WeightFacts, WorthFacts
  <2>3. b < BlockLimit /\ Behind(spent) /\ BlockLimit \in Nat /\ Retries \in Nat
    BY <2>1, LimitsFacts DEF BlockedInv
  <2>4. CASE t = Retries /\ NextPage(rot)
    <3>1. Weight(Row, 0) =< Worth(b)
      BY <1>2, <2>1, <2>2, <2>3, <2>4
    <3> QED BY <1>1, <1>2, <2>3, <2>4, <3>1, NextPageBlocked DEF Behind, Row
  <2>5. CASE EndSearch(found)
    BY <1>1, <1>2, <2>3, <2>5, NextSearchBlocked DEF EndSearch, Behind
  <2> DEFINE r == [rot EXCEPT !.blocks = @ + 1]
  <2>6. CASE ~LimitReached(b + 1) /\ PageError(found, r)
    <3>1. RotOK(r) /\ r.blocks = b + 1
      BY <1>2, RotSet
    <3>2. NextPage(r)
      BY <1>3, <2>6, InmFacts
    <3> HIDE DEF r
    <3>3. r.blocks < BlockLimit
      BY <1>2, <2>3, <2>6, <3>1 DEF LimitReached
    <3>4. Weight(Row, 0) =< Worth(r.blocks)
      BY <1>2, <2>1, <2>2, <2>3, <3>1
    <3> QED BY <1>1, <2>3, <3>1, <3>2, <3>3, <3>4, NextPageBlocked DEF Behind, Row
  <2>7. CASE /\ ~LimitReached(b + 1) /\ pc' = "fetch" /\ UNCHANGED at
             /\ rot' = [rot EXCEPT !.blocks = @ + 1, !.tries = @ + 1]
    <3>1. rot'.blocks = b + 1 /\ rot'.tries = t + 1
      BY <1>2, <2>7, RotSet
    <3>2. rot'.blocks < BlockLimit
      BY <1>2, <2>3, <2>7, <3>1 DEF LimitReached
    <3>3. Row' = Row /\ Behind(spent)'
      BY <1>1, <2>3, <2>7 DEF Row, RowOf, Behind
    <3>4. Weight(Row, t + 1) =< Worth(b + 1)
      BY <1>2, <2>1, <2>2, <2>3
    <3> QED BY <2>7, <3>1, <3>2, <3>3, <3>4 DEF BlockedInv
  <2> QED BY <2>4, <2>5, <2>6, <2>7 DEF RetryBlocked
<1> QED BY <1>1, <1>3, BlocksKeep

LEMMA FinishPageBlocks ==
  ASSUME OpenInv, PlaceInv, TriesInv, spent \in Spending, BlocksInv, VisitsFail \/ FinishPage
  PROVE  BlocksInv'
<1>1. SameRun /\ UNCHANGED spent
  BY StepSameRun DEF Next, VisitsFail, FinishPage
<1>2. RotOK(rot) /\ pc = "got"
  BY DEF VisitsFail, FinishPage, TriesInv
<1>3. ASSUME Inm PROVE BlockedInv'
  <2>1. rot.blocks < BlockLimit /\ Behind(spent) /\ Row = 0
    BY <1>2, <1>3 DEF BlocksInv, Loops, BlockedInv
  <2>2. ASSUME NEW r, RotOK(r), r.blocks = rot.blocks, NextPage(r) PROVE BlockedInv'
    <3>1. r.blocks \in Nat /\ 0 \in Nat
      BY <2>2 DEF RotOK
    <3>2. Weight(Row, 0) =< Worth(r.blocks)
      <4>1. Weight(0, 0) = 0
        BY WeightFacts
      <4>2. Worth(r.blocks) \in Nat
        BY <3>1, WorthFacts
      <4> QED BY <2>1, <4>1, <4>2
    <3> QED BY <1>1, <2>1, <2>2, <3>2, NextPageBlocked DEF Behind, Row
  <2>3. CASE \E ids : EndSearch(ids)
    BY <1>1, <1>2, <2>1, <2>3, NextSearchBlocked DEF EndSearch, Behind
  <2>4. CASE \E ids : PageError(ids, rot)
    BY <1>2, <1>3, <2>2, <2>4, InmFacts
  <2>5. CASE NextPage([rot EXCEPT !.since = @ + 1])
    <3>1. LET q == [rot EXCEPT !.since = rot.since + 1] IN RotOK(q) /\ q.blocks = rot.blocks
      BY <1>2, RotSet
    <3> QED BY <2>2, <2>5, <3>1
  <2> QED BY <2>3, <2>4, <2>5 DEF VisitsFail, FinishPage
<1> QED BY <1>1, <1>3, BlocksKeep

\* A detail page is never blocked.
LEMMA VisitDetailBlocks ==
  ASSUME OpenInv, PlaceInv, TriesInv, spent \in Spending, BlocksInv, VisitDetail
  PROVE  BlocksInv'
<1>1. /\ SameRun /\ UNCHANGED at /\ pc = "got" /\ pc' = "got"
      /\ spent' = spent \/ spent' = AddBytes(spent, FALSE)
  BY StepSameRun DEF Next, VisitDetail
<1>2. rot'.blocks = rot.blocks
  BY RotSet DEF VisitDetail, TriesInv
<1>3. \/ spent'.search = spent.search /\ spent'.blocked = spent.blocked
      \/ spent'.search = <<0, 0>> /\ spent'.blocked = 0
  <2>1. CASE spent' = AddBytes(spent, FALSE)
    <3>1. FALSE \in BOOLEAN
      OBVIOUS
    <3> QED BY <2>1, <3>1, AddBytesFacts
  <2>2. CASE spent' = spent
    BY <2>2
  <2> QED BY <1>1, <2>1, <2>2
<1>4. ASSUME Inm PROVE BlockedInv'
  <2>1. rot.blocks < BlockLimit /\ Behind(spent) /\ Row = 0
    BY <1>1, <1>4 DEF BlocksInv, Loops, BlockedInv
  <2>2. CASE spent'.search = spent.search /\ spent'.blocked = spent.blocked
    BY <1>1, <1>2, <2>1, <2>2 DEF BlockedInv, Behind, Row, RowOf
  <2>3. CASE spent'.search = <<0, 0>> /\ spent'.blocked = 0
    <3>1. Row' = 0
      BY <1>1, <2>3 DEF Row, RowOf
    <3>2. Behind(spent)'
      BY <1>1, <2>3, PlaceFacts DEF Behind
    <3> QED BY <1>1, <1>2, <2>1, <3>1, <3>2 DEF BlockedInv
  <2> QED BY <1>3, <2>2, <2>3
<1>5. spent'.blocked = spent.blocked \/ spent'.blocked = 0
  BY <1>3
<1> QED BY <1>1, <1>4, <1>5, BlocksKeep

LEMMA FinishScrollBlocks ==
  ASSUME OpenInv, PlaceInv, TriesInv, spent \in Spending, BlocksInv, FinishScroll
  PROVE  BlocksInv'
<1>1. SameRun /\ UNCHANGED spent
  BY StepSameRun DEF Next, FinishScroll
<1>2. RotOK(rot) /\ rot.tries = 0 /\ pc = "scrolled"
  BY DEF FinishScroll, TriesInv
<1>3. ASSUME Inm PROVE BlockedInv'
  <2>1. BlockedInv
    BY <1>2, <1>3 DEF BlocksInv, Loops
  <2>2. CASE NextSearch
    BY <1>1, <1>2, <2>1, <2>2, NextSearchBlocked DEF BlockedInv, Behind
  <2>3. CASE SearchError
    BY <1>1, <1>2, <1>3, <2>1, <2>3, InmFacts, StateOverBlocked
  <2> QED BY <2>2, <2>3 DEF FinishScroll
<1> QED BY <1>1, <1>3, BlocksKeep

\* Steps that leave the place, the blocks and the tries as they are.
LEMMA SamePlaceBlocks ==
  ASSUME BlocksInv, SameRun, UNCHANGED <<pc, at>>, rot'.blocks = rot.blocks, rot'.tries = rot.tries,
         spent'.search = spent.search, spent'.blocked = spent.blocked
  PROVE  BlocksInv'
  BY DEF BlocksInv, BlockedInv, Behind, Row, RowOf, SameRun, Inm

LEMMA StepKeepsBlocks ==
  OpenInv /\ PlaceInv /\ TriesInv /\ LateInv /\ BlocksInv /\ [Next]_vars => BlocksInv'
<1> SUFFICES ASSUME OpenInv, PlaceInv, TriesInv, LateInv, BlocksInv, [Next]_vars PROVE BlocksInv'
  OBVIOUS
<1>1. SameRun /\ spent \in Spending
  BY StepSameRun DEF LateInv
<1>2. CASE Return \/ CloseRow \/ StartEnrichment
  <2>1. pc' \in {"enrich", "closing", "ended"} /\ UNCHANGED spent
    BY <1>2 DEF Return, CloseRow, StartEnrichment, CloseEnrichment
  <2> QED BY <1>1, <2>1, BlocksKeep DEF Loops
<1>3. CASE OpenJob
  <2>1. pc = "start" /\ pc' \in {"enrichStart", "state", "ended"} /\ UNCHANGED <<at, rot, spent>>
    BY <1>3 DEF OpenJob
  <2>2. Inm /\ pc' = "state" => BlockedInv'
    BY <2>1 DEF BlocksInv, BlockedInv, Behind
  <2> QED BY <1>1, <2>1, <2>2, BlocksKeep DEF Loops
<1>4. CASE SolveChallenge \/ CloseBridge \/ BridgeFails
  <2>1. ~Inm
    BY <1>4 DEF SolveChallenge, CloseBridge, BridgeFails, Inm
  <2>2. spent' = spent \/ spent' = [spent EXCEPT !.counted = @ + 1]
    BY <1>4 DEF SolveChallenge, CloseBridge, BridgeFails
  <2>3. spent'.blocked = spent.blocked
    BY <2>2, MoreCounted
  <2> QED BY <1>1, <2>1, <2>3, BlocksKeep
<1>5. CASE Scroll \/ ScrapeLdPage \/ BridgePage \/ FinishBridgePage
  <2>1. ~Inm
    BY <1>5 DEF Scroll, ScrapeLdPage, BridgePage, FinishBridgePage, Scrolling, Inm
  <2>2. UNCHANGED spent \/ spent' = AddBytes(spent, FALSE)
    BY <1>5 DEF Scroll, ScrapeLdPage, BridgePage, FinishBridgePage
  <2>3. spent'.blocked = spent.blocked \/ spent'.blocked = 0
    BY <1>1, <2>2, AddBytesFacts
  <2> QED BY <1>1, <2>1, <2>3, BlocksKeep
<1>6. CASE EnrichTarget
  <2>1. pc' \in {"enrich", "closing"} /\ (UNCHANGED spent \/ spent' = AddBytes(spent, FALSE))
    BY <1>6 DEF EnrichTarget, CloseEnrichment
  <2>2. spent'.blocked = spent.blocked \/ spent'.blocked = 0
    BY <1>1, <2>1, AddBytesFacts
  <2> QED BY <1>1, <2>1, <2>2, BlocksKeep DEF Loops
<1>7. CASE OtherRun
  <2>1. UNCHANGED <<pc, at, rot>> /\ spent' = [spent EXCEPT !.counted = @ + 1]
    BY <1>7 DEF OtherRun
  <2>2. spent'.search = spent.search /\ spent'.blocked = spent.blocked
    BY <1>1, <2>1 DEF Spending
  <2> QED BY <1>1, <2>1, <2>2, SamePlaceBlocks
<1>8. CASE CookiesExpire
  <2>1. rot' = [rot EXCEPT !.cookies = "none"] /\ UNCHANGED <<pc, at, spent>>
    BY <1>8 DEF CookiesExpire
  <2>2. rot'.tries = rot.tries /\ rot'.blocks = rot.blocks
    BY <2>1, RotSet DEF TriesInv
  <2> QED BY <1>1, <2>1, <2>2, SamePlaceBlocks
<1>9. CASE BrowserDies \/ Ended \/ UNCHANGED vars
  <2>1. UNCHANGED <<pc, at, rot, spent>>
    BY <1>9 DEF BrowserDies, Ended, vars
  <2> QED BY <1>1, <2>1, SamePlaceBlocks
<1> QED BY <1>1, <1>2, <1>3, <1>4, <1>5, <1>6, <1>7, <1>8, <1>9, InitBrowserBlocks, BeginPageBlocks,
           FetchBlocks, RetryBlockedBlocks, VisitDetailBlocks, FinishPageBlocks, FinishScrollBlocks DEF Next

LEMMA InitBlocks == Init => BlocksInv
<1> SUFFICES ASSUME Init PROVE BlocksInv
  OBVIOUS
<1>1. /\ spent = [counted |-> 0, late |-> 0, blocked |-> 0, search |-> <<0, 0>>]
      /\ rot.blocks = 0 /\ pc = "start"
  BY DEF Init
<1>2. Inm => at.state = 1
  BY DEF Init, Inm, Scrolling
<1>3. 0 =< Most
  BY LimitsFacts, BlocksBound, WeightFacts, WorthFacts DEF Most
<1> QED BY <1>1, <1>2, <1>3, LimitsFacts DEF BlocksInv, BlockedInv, Behind

\* What a run fetches to no use is bounded, whatever the portals answer and the other runs
\* of the process spend: the page in progress when the budget runs out, its retries and its
\* detail pages, and the blocked pages of a search.
THEOREM WastedFetchesBoundedCorrect == Spec => []WastedFetchesBounded
<1>1. LateInv /\ BlocksInv => WastedFetchesBounded
  BY DEF LateInv, LateMost, LatePage, BlocksInv, WastedFetchesBounded, Most, Inm
<1> QED BY OpenInvariant, InitPlace, InitItems, InitTries, InitLate, InitBlocks, StepKeepsPlace,
           StepKeepsItems, StepKeepsTries, StepKeepsLate, StepKeepsBlocks, <1>1, PTL DEF Spec

-----------------------------------------------------------------------------
(* Where a run of each kind is *)

ShapeInv ==
  /\ pc \in {"start", "state"} => found = <<>>
  /\ pc = "scrolled" => job.portal \in Scrolling
  /\ pc \in {"fetch", "blocked", "got"} => job.portal \notin Scrolling
  /\ pc \in {"enrichStart", "enrich"} => job.caller = "enrich"
  /\ job.mode = "incremental" => job.portal \in {"inmuebles24", "properstar_http"}

\* A step to the next search or page, or to the end.
LEMMA OnwardShape ==
  ASSUME ShapeInv, SameRun,
         \/ pc' \in {"page", "solving", "solved", "unsolved", "closing", "ended"}
         \/ pc' = "state" /\ found' = <<>>
  PROVE  ShapeInv'
  BY DEF ShapeInv, SameRun

LEMMA NextSearchShape == ASSUME ShapeInv, SameRun, NextSearch PROVE ShapeInv'
  BY OnwardShape DEF NextSearch

LEMMA SearchErrorShape == ASSUME ShapeInv, SameRun, SearchError PROVE ShapeInv'
  BY OnwardShape DEF SearchError, NextSearch

LEMMA PageErrorShape == ASSUME ShapeInv, SameRun, NEW ids, NEW r, PageError(ids, r) PROVE ShapeInv'
  BY OnwardShape DEF PageError, EndSearch, NextSearch, NextPage

LEMMA StepKeepsShape == OpenInv /\ ShapeInv /\ [Next]_vars => ShapeInv'
<1> SUFFICES ASSUME OpenInv, ShapeInv, [Next]_vars PROVE ShapeInv'
  OBVIOUS
<1>1. SameRun
  BY StepSameRun
<1>2. CASE UNCHANGED <<pc, found>>
  BY <1>1, <1>2 DEF ShapeInv, SameRun
<1>3. CASE InitBrowserForState \/ Return \/ CloseRow
  BY <1>1, <1>3, OnwardShape DEF InitBrowserForState, Raise, Return, CloseRow
<1>4. CASE BeginPage
  <2>1. CASE pc' = "fetch"
    <3>1. job.portal \notin Scrolling
      BY <1>4 DEF BeginPage, BrowserPortals
    <3> QED BY <1>1, <2>1, <3>1 DEF ShapeInv, SameRun
  <2>2. CASE SearchError
    BY <1>1, <2>2, SearchErrorShape
  <2>3. CASE NextSearch
    BY <1>1, <2>3, NextSearchShape
  <2>4. CASE pc' = "state" /\ found' = <<>>
    BY <1>1, <2>4, OnwardShape
  <2> QED BY <1>4, <2>1, <2>2, <2>3, <2>4 DEF BeginPage, RotateSession, EndSearch
<1>5. CASE Fetch \/ RetryBlocked
  <2>1. CASE pc' \in {"fetch", "blocked", "got"}
    <3>1. job.portal \notin Scrolling
      BY <1>5 DEF Fetch, RetryBlocked, ShapeInv
    <3> QED BY <1>1, <2>1, <3>1 DEF ShapeInv, SameRun
  <2>2. CASE \E ids, r : PageError(ids, r)
    BY <1>1, <2>2, PageErrorShape
  <2>3. CASE NextSearch
    BY <1>1, <2>3, NextSearchShape
  <2>4. CASE pc' = "page"
    BY <1>1, <2>4, OnwardShape
  <2>5. CASE Fetch
    BY <2>1, <2>2, <2>3, <2>4, <2>5 DEF Fetch, EmptyPage, EndSearch, NextPage
  <2>6. CASE RetryBlocked
    BY <2>1, <2>2, <2>3, <2>4, <2>6 DEF RetryBlocked, EndSearch, NextPage
  <2> QED BY <1>5, <2>5, <2>6
<1>6. CASE VisitDetail \/ VisitsFail \/ FinishPage
  <2>1. CASE \E ids, r : PageError(ids, r)
    BY <1>1, <2>1, PageErrorShape
  <2>2. CASE VisitDetail
    BY <1>2, <2>2 DEF VisitDetail
  <2>3. CASE FinishPage
    BY <1>1, <2>1, <2>3, NextSearchShape, OnwardShape DEF FinishPage, EndSearch, NextPage
  <2> QED BY <1>6, <2>1, <2>2, <2>3 DEF VisitsFail
<1>7. CASE Scroll
  <2>1. CASE pc' = "scrolled"
    <3>1. job.portal \in Scrolling
      BY <1>7 DEF Scroll
    <3> QED BY <1>1, <2>1, <3>1 DEF ShapeInv, SameRun
  <2> QED BY <1>1, <1>7, <2>1, SearchErrorShape, OnwardShape DEF Scroll, NextPage
<1>8. CASE FinishScroll
  BY <1>1, <1>8, SearchErrorShape, NextSearchShape DEF FinishScroll
<1>9. CASE ScrapeLdPage
  BY <1>1, <1>9, SearchErrorShape, NextSearchShape, OnwardShape DEF ScrapeLdPage, EndSearch, NextPage
<1>10. CASE BridgePage \/ FinishBridgePage
  <2>1. CASE pc' = "got"
    <3>1. job.portal \notin Scrolling
      BY <1>10 DEF BridgePage, FinishBridgePage, Scrolling
    <3> QED BY <1>1, <2>1, <3>1 DEF ShapeInv, SameRun
  <2> QED BY <1>1, <1>10, <2>1, SearchErrorShape, NextSearchShape, OnwardShape
          DEF BridgePage, FinishBridgePage, EndSearch, NextPage
<1>11. CASE StartEnrichment \/ EnrichTarget
  <2>1. job.caller = "enrich" /\ pc' \in {"enrich", "closing", "ended"}
    BY <1>11 DEF StartEnrichment, EnrichTarget, CloseEnrichment, ShapeInv
  <2> QED BY <1>1, <2>1 DEF ShapeInv, SameRun
<1>13. CASE OpenJob
  <2>1. \/ pc' = "ended"
        \/ pc' = "enrichStart" /\ job.caller = "enrich"
        \/ pc' = "state" /\ found' = <<>>
    BY <1>13 DEF OpenJob, ShapeInv
  <2> QED BY <1>1, <2>1 DEF ShapeInv, SameRun
<1>14. CASE SolveChallenge \/ CloseBridge \/ BridgeFails
  BY <1>1, <1>14, SearchErrorShape, OnwardShape DEF SolveChallenge, CloseBridge, BridgeFails
<1>12. CASE OtherRun \/ BrowserDies \/ CookiesExpire \/ Ended \/ UNCHANGED vars
  BY <1>2, <1>12 DEF OtherRun, BrowserDies, CookiesExpire, Ended, vars
<1> QED BY <1>3, <1>4, <1>5, <1>6, <1>7, <1>8, <1>9, <1>10, <1>11, <1>12, <1>13, <1>14 DEF Next

LEMMA InitShape == Init => ShapeInv
<1> SUFFICES ASSUME Init PROVE ShapeInv
  OBVIOUS
<1>1. found = <<>> /\ pc = "start"
      /\ (job.mode = "incremental" => job.portal \in {"inmuebles24", "properstar_http"})
  BY DEF Init
<1> QED BY <1>1 DEF ShapeInv

-----------------------------------------------------------------------------
(* What was read is stored, or on its way there *)

\* The runs whose errors count everything that goes wrong.
Quiet ==
  /\ job.errors = 0 /\ job.caller # "enrich" /\ job.portal # "properstar_http"
  /\ ~(job.portal = "inmuebles24" /\ job.mode = "incremental")

\* Items stored or yet to be: a worker stores what scrape() returns, the infinite page is
\* handed over when it ends.
Out(l) ==
  IF pc \in {"closing", "ended"} THEN total.stored[l]
  ELSE IF job.caller = "worker" THEN total.returned[l] + Count(found, l)
  ELSE IF job.portal \in Scrolling THEN total.stored[l] + Count(found, l)
  ELSE total.stored[l]

InHand == Items(job.portal, page.cards, job.detail)
OnPage(l) == IF pc = "got" THEN Count(InHand, l) ELSE 0

\* Of k items x are accounted for.
Accounted(k, x) == (k > 0 => x > 0) /\ (job.portal \in Once => x = k)

StoreInv == Quiet => \A l \in Listings : Accounted(total.kept[l], Out(l) + OnPage(l))

LEMMA TotalsFacts ==
  ASSUME NEW t \in Totals, NEW ids \in Seq(Listings), NEW l \in Listings
  PROVE  /\ t.returned[l] \in Nat /\ t.stored[l] \in Nat /\ t.kept[l] \in Nat
         /\ LET k == [t EXCEPT !.kept = Plus(@, ids)] IN
            /\ k.kept[l] = t.kept[l] + Count(ids, l)
            /\ k.returned = t.returned /\ k.stored = t.stored
         /\ LET r == [t EXCEPT !.returned = Plus(@, ids)] IN
            /\ r.returned[l] = t.returned[l] + Count(ids, l)
            /\ r.kept = t.kept /\ r.stored = t.stored
         /\ Stored(t, ids).kept = t.kept /\ Stored(t, ids).returned = t.returned
         /\ Stored(t, ids).stored[l] =
              IF job.caller = "runner" THEN t.stored[l] + Count(ids, l) ELSE t.stored[l]
<1>1. t.kept \in Bag /\ t.returned \in Bag /\ t.stored \in Bag
  BY DEF Totals
<1>2. /\ Plus(t.kept, ids)[l] = t.kept[l] + Count(ids, l)
      /\ Plus(t.returned, ids)[l] = t.returned[l] + Count(ids, l)
      /\ Plus(t.stored, ids)[l] = t.stored[l] + Count(ids, l)
  BY <1>1, PlusFacts
<1>3. t.returned[l] \in Nat /\ t.stored[l] \in Nat /\ t.kept[l] \in Nat
  BY <1>1 DEF Bag
<1> QED BY <1>2, <1>3 DEF Totals, Stored

LEMMA InHandFacts ==
  ASSUME ItemsInv, NEW l \in Listings
  PROVE  /\ total.returned[l] \in Nat /\ total.stored[l] \in Nat /\ total.kept[l] \in Nat
         /\ Count(found, l) \in Nat /\ OnPage(l) \in Nat
<1>1. InHand \in Seq(Listings) /\ found \in Seq(Listings) /\ total \in Totals
  BY InHandItems DEF InHand, ItemsInv
<1>2. Count(InHand, l) \in Nat /\ Count(found, l) \in Nat
  BY <1>1, CountFacts
<1>3. total.returned[l] \in Nat /\ total.stored[l] \in Nat /\ total.kept[l] \in Nat
  BY <1>1, TotalsFacts
<1> QED BY <1>2, <1>3 DEF OnPage

LEMMA NoneFound == \A l : Count(<<>>, l) = 0
<1>1. \A l : {i \in DOMAIN <<>> : <<>>[i] = l} = {}
  OBVIOUS
<1> QED BY <1>1, FS_EmptySet DEF Count

\* A step that errs ends what the property speaks of.
LEMMA ErrorStore ==
  ASSUME OpenInv, job'.errors = job.errors + 1
  PROVE  StoreInv'
<1>1. job.errors \in Nat
  BY DEF OpenInv, JobType
<1> QED BY <1>1 DEF StoreInv, Quiet

LEMMA ErrorForms ==
  ASSUME OpenInv
  PROVE  /\ job' = [job EXCEPT !.errors = @ + 1] => StoreInv'
         /\ \A s : Raise(s) => StoreInv'
         /\ \A ids, r : PageError(ids, r) => StoreInv'
<1>1. job \in JobType
  BY DEF OpenInv
<1>2. job' = [job EXCEPT !.errors = @ + 1] => StoreInv'
  <2>1. job' = [job EXCEPT !.errors = @ + 1] => job'.errors = job.errors + 1
    BY <1>1 DEF JobType
  <2> QED BY <2>1, ErrorStore
<1>3. ASSUME NEW s, Raise(s) PROVE StoreInv'
  <2>1. job'.errors = job.errors + 1
    BY <1>1, <1>3 DEF Raise, JobType
  <2> QED BY <2>1, ErrorStore
<1> QED BY <1>2, <1>3 DEF PageError

LEMMA SearchErrorStore == ASSUME OpenInv, SearchError PROVE StoreInv'
<1>1. CASE job.portal = "properstar_http"
  BY <1>1 DEF SearchError, StoreInv, Quiet
<1>2. CASE job' = [job EXCEPT !.errors = @ + 1]
  BY <1>2, ErrorForms
<1> QED BY <1>1, <1>2 DEF SearchError

\* A step that reads nothing.
LEMMA MovedStore ==
  ASSUME StoreInv, SameRun, job'.errors = job.errors, UNCHANGED <<found, total>>,
         \/ pc \notin {"got", "closing", "ended"} /\ pc' \notin {"got", "closing", "ended"}
         \/ pc = "closing" /\ pc' = "ended"
         \/ UNCHANGED <<pc, page>>
  PROVE  StoreInv'
<1>1. \A l : Out(l)' = Out(l)
  BY DEF Out, SameRun
<1>2. \A l : OnPage(l)' = OnPage(l)
  BY DEF OnPage, InHand, SameRun
<1> QED BY <1>1, <1>2 DEF StoreInv, Quiet, Accounted, SameRun

LEMMA SameStore ==
  ASSUME StoreInv, UNCHANGED <<job, found, total>>,
         \/ pc \notin {"got", "closing", "ended"} /\ pc' \notin {"got", "closing", "ended"}
         \/ UNCHANGED <<pc, page>>
  PROVE  StoreInv'
  BY MovedStore DEF SameRun

\* The items of a search move to what scrape() returns.
LEMMA EndSearchStore ==
  ASSUME ItemsInv, StoreInv, pc \notin {"got", "closing", "ended"}, job.portal \notin Scrolling,
         UNCHANGED job, EndSearch(found)
  PROVE  StoreInv'
<1>1. found' = <<>> /\ total' = [total EXCEPT !.returned = Plus(@, found)]
      /\ pc' \notin {"got", "closing", "ended"}
  BY DEF EndSearch, NextSearch
<1>2. total \in Totals /\ found \in Seq(Listings)
  BY DEF ItemsInv
<1>3. ASSUME NEW l \in Listings
      PROVE  Out(l)' + OnPage(l)' = Out(l) + OnPage(l) /\ total'.kept[l] = total.kept[l]
  <2>1. /\ total'.returned[l] = total.returned[l] + Count(found, l)
        /\ total'.kept = total.kept /\ total'.stored = total.stored
    BY <1>1, <1>2, TotalsFacts
  <2>2. total.returned[l] \in Nat /\ Count(found, l) \in Nat /\ Count(found', l) = 0
    BY <1>1, InHandFacts, NoneFound
  <2>3. OnPage(l)' = OnPage(l)
    BY <1>1 DEF OnPage
  <2>4. Out(l)' = Out(l)
    BY <1>1, <2>1, <2>2 DEF Out
  <2> QED BY <2>1, <2>3, <2>4
<1> QED BY <1>3 DEF StoreInv, Quiet, Accounted

\* Items read and handed over in one step.
LEMMA AccountedGrows ==
  ASSUME NEW k \in Nat, NEW x \in Nat, NEW c \in Nat, NEW d \in Nat,
         c > 0 => d > 0, job.portal \in Once => d = c
  PROVE  /\ Accounted(k, x) => Accounted(k + c, x + d)
         /\ Accounted(k, x + c) => Accounted(k, x + d)
<1>1. ASSUME Accounted(k, x) PROVE Accounted(k + c, x + d)
  BY <1>1 DEF Accounted
<1>2. ASSUME Accounted(k, x + c) PROVE Accounted(k, x + d)
  BY <1>2 DEF Accounted
<1> QED BY <1>1, <1>2

\* The callers of a run that is no enrichment.
LEMMA QuietFacts ==
  ASSUME OpenInv, ShapeInv, Quiet
  PROVE  /\ job.caller \in {"runner", "worker"} /\ job.mode # "incremental"
         /\ pc \notin {"enrichStart", "enrich"}
<1>1. job.caller \in {"runner", "worker", "enrich"}
  BY CallersAssumption DEF OpenInv, JobType
<1> QED BY <1>1 DEF Quiet, ShapeInv

\* The items ids of a page are added to the search, and the batch b of them is handed over.
LEMMA ReadStore ==
  ASSUME OpenInv, ShapeInv, ItemsInv, StoreInv, UNCHANGED job, job.portal \notin Scrolling,
         pc \notin {"closing", "ended"}, pc' \notin {"got", "closing", "ended"},
         NEW ids \in Seq(Listings), NEW b \in Seq(Listings), NEW t \in Totals,
         t.stored = total.stored, t.returned = total.returned,
         \/ t.kept = total.kept /\ \A l \in Listings : OnPage(l) = Count(ids, l)
         \/ pc # "got" /\ \A l \in Listings : t.kept[l] = total.kept[l] + Count(ids, l),
         b = ids \/ (job.portal = "vivanuncios" /\ \A l : Has(ids, l) => Has(b, l)),
         found' = found \o ids, total' = Stored(t, b)
  PROVE  StoreInv'
<1> SUFFICES ASSUME Quiet, NEW l \in Listings
             PROVE  Accounted(total'.kept[l], Out(l)' + OnPage(l)')
  BY DEF StoreInv, Quiet, Accounted
<1>1. Accounted(total.kept[l], Out(l) + OnPage(l))
  BY DEF StoreInv
<1>2. found \in Seq(Listings)
  BY DEF ItemsInv
<1>3. /\ total.returned[l] \in Nat /\ total.stored[l] \in Nat /\ total.kept[l] \in Nat
      /\ Count(found, l) \in Nat /\ OnPage(l) \in Nat
  BY InHandFacts
<1>4. Count(ids, l) \in Nat /\ Count(b, l) \in Nat /\ (Count(ids, l) > 0 => Count(b, l) > 0)
  BY CountFacts
<1>5. Count(found', l) = Count(found, l) + Count(ids, l)
  BY <1>2, CountJoined
<1>6. /\ total'.kept = t.kept /\ total'.returned = total.returned
      /\ total'.stored[l] = IF job.caller = "runner" THEN total.stored[l] + Count(b, l)
                            ELSE total.stored[l]
  BY TotalsFacts
<1>7. OnPage(l)' = 0
  BY DEF OnPage
<1>8. \/ t.kept[l] = total.kept[l] /\ OnPage(l) = Count(ids, l)
      \/ t.kept[l] = total.kept[l] + Count(ids, l) /\ OnPage(l) = 0
  BY DEF OnPage
<1>9. job.portal \in Once => b = ids
  BY DEF Once
<1>10. ASSUME NEW d \in Nat, Count(ids, l) > 0 => d > 0, job.portal \in Once => d = Count(ids, l),
              Out(l) \in Nat, Out(l)' = Out(l) + d
       PROVE  Accounted(total'.kept[l], Out(l)' + OnPage(l)')
  <2>1. Out(l)' + OnPage(l)' = Out(l) + d /\ total'.kept[l] = t.kept[l]
    BY <1>6, <1>7, <1>10
  <2>2. CASE t.kept[l] = total.kept[l] /\ OnPage(l) = Count(ids, l)
    <3>1. Accounted(total.kept[l], Out(l) + Count(ids, l))
      BY <1>1, <2>2
    <3>2. Accounted(total.kept[l], Out(l) + d)
      BY <1>3, <1>4, <1>10, <3>1, AccountedGrows
    <3> QED BY <2>1, <2>2, <3>2
  <2>3. CASE t.kept[l] = total.kept[l] + Count(ids, l) /\ OnPage(l) = 0
    <3>1. Accounted(total.kept[l], Out(l))
      BY <1>1, <1>10, <2>3
    <3>2. Accounted(total.kept[l] + Count(ids, l), Out(l) + d)
      BY <1>3, <1>4, <1>10, <3>1, AccountedGrows
    <3> QED BY <2>1, <2>3, <3>2
  <2> QED BY <1>8, <2>2, <2>3
<1>11. CASE job.caller = "worker"
  <2>1. Out(l) = total.returned[l] + Count(found, l)
    BY <1>11 DEF Out
  <2>2. Out(l)' = total.returned[l] + (Count(found, l) + Count(ids, l))
    BY <1>5, <1>6, <1>11 DEF Out
  <2>3. total.returned[l] + Count(found, l) \in Nat
    BY <1>3
  <2>4. total.returned[l] + (Count(found, l) + Count(ids, l)) =
          (total.returned[l] + Count(found, l)) + Count(ids, l)
    BY <1>3, <1>4
  <2>5. Out(l) \in Nat /\ Out(l)' = Out(l) + Count(ids, l)
    BY <2>1, <2>2, <2>3, <2>4
  <2> QED BY <1>4, <1>10, <2>5
<1>12. CASE job.caller = "runner"
  <2>1. Out(l) = total.stored[l]
    BY <1>12 DEF Out
  <2>2. Out(l)' = total.stored[l] + Count(b, l)
    BY <1>6, <1>12 DEF Out
  <2>3. Out(l) \in Nat /\ Out(l)' = Out(l) + Count(b, l)
    BY <1>3, <2>1, <2>2
  <2> QED BY <1>4, <1>9, <1>10, <2>3
<1> QED BY <1>11, <1>12, QuietFacts

LEMMA LastItemsHas ==
  ASSUME NEW s \in Seq(Listings), NEW ids \in Seq(Listings), NEW n \in Nat, Len(ids) =< n,
         NEW l, Has(ids, l)
  PROVE  Has(LastItems(n, s \o ids), l)
<1> DEFINE t == s \o ids
           k == Len(s) + Len(ids)
           m == IF n < k THEN k - n + 1 ELSE 1
<1>1. Len(s) \in Nat /\ Len(ids) \in Nat
  OBVIOUS
<1>2. t \in Seq(Listings) /\ Len(t) = k
  OBVIOUS
<1>3. PICK i \in 1 .. Len(ids) : ids[i] = l
  BY DEF Has
<1>4. t[Len(s) + i] = l
  BY <1>1, <1>3
<1>5. k \in Nat /\ m \in Nat /\ m >= 1 /\ m =< Len(s) + 1
  BY <1>1
<1> DEFINE j == Len(s) + i - m + 1
<1>6. j \in 1 .. k - m + 1 /\ m + j - 1 = Len(s) + i /\ m =< k
  BY <1>1, <1>3, <1>5
<1>7. LastItems(n, t) = SubSeq(t, m, k)
  BY <1>2 DEF LastItems
<1> HIDE DEF t, m, j, k
<1>8. \A x \in m .. k : t[x] \in Listings
  BY <1>2, <1>5
<1>9. Len(SubSeq(t, m, k)) = k - m + 1 /\ SubSeq(t, m, k) \in Seq(Listings)
      /\ SubSeq(t, m, k)[j] = t[m + j - 1]
  BY <1>5, <1>6, <1>8, SubSeqProperties
<1>10. j \in DOMAIN SubSeq(t, m, k)
  BY <1>6, <1>9
<1>11. Has(LastItems(n, t), l)
  BY <1>4, <1>6, <1>7, <1>9, <1>10 DEF Has
<1> QED BY <1>11 DEF t

LEMMA FinishPageStore == ASSUME OpenInv, ShapeInv, ItemsInv, StoreInv, FinishPage PROVE StoreInv'
<1>1. pc = "got" /\ job.portal \notin Scrolling
  BY DEF FinishPage, ShapeInv
<1>2. CASE \E ids, r : PageError(ids, r)
  BY <1>2, ErrorForms
<1>3. CASE UNCHANGED job /\ StopsIncremental(InHand)
  BY <1>3, QuietFacts DEF StopsIncremental, StoreInv, Quiet
<1>4. CASE job' = [job EXCEPT !.errors = @ + 1]
  BY <1>4, ErrorForms
<1>5. CASE /\ UNCHANGED job /\ pc' = "page"
           /\ total' = Stored(total, Batch(InHand)) /\ found' = found \o InHand
  <2>1. InHand \in Seq(Listings) /\ Len(InHand) =< Len(page.cards) /\ Batch(InHand) \in Seq(Listings)
    BY InHandItems DEF InHand
  <2>2. total \in Totals /\ found \in Seq(Listings) /\ Len(page.cards) \in Nat
    BY DEF ItemsInv, PageType
  <2>3. \A l \in Listings : OnPage(l) = Count(InHand, l)
    BY <1>1 DEF OnPage
  <2>4. job.portal # "vivanuncios" => Batch(InHand) = InHand
    BY DEF Batch
  <2>5. job.portal = "vivanuncios" => \A l : Has(InHand, l) => Has(Batch(InHand), l)
    BY <2>1, <2>2, LastItemsHas DEF Batch
  <2> HIDE DEF InHand
  <2> QED BY <1>1, <1>5, <2>1, <2>2, <2>3, <2>4, <2>5, ReadStore
<1> QED BY <1>2, <1>3, <1>4, <1>5 DEF FinishPage, NextPage, InHand

LEMMA FetchStore == ASSUME OpenInv, ShapeInv, ItemsInv, StoreInv, Fetch PROVE StoreInv'
<1>1. pc = "fetch" /\ job.portal \notin Scrolling
  BY DEF Fetch, ShapeInv
<1>2. CASE PageError(found, rot)
  BY <1>2, ErrorForms
<1>3. CASE UNCHANGED <<job, found, total>> /\ pc' \in {"blocked", "page"}
  BY <1>1, <1>3, SameStore
<1>4. CASE UNCHANGED job /\ EndSearch(found)
  BY <1>1, <1>4, EndSearchStore
<1>5. ASSUME NEW a \in Answers, UNCHANGED <<job, found>>, pc' = "got",
             page' = SearchPage(job.portal, a),
             total' = [total EXCEPT !.kept =
                         Plus(@, Items(job.portal, SearchPage(job.portal, a).cards, job.detail))]
      PROVE  StoreInv'
  <2> SUFFICES ASSUME Quiet, NEW l \in Listings
               PROVE  Accounted(total'.kept[l], Out(l)' + OnPage(l)')
    BY <1>5 DEF StoreInv, Quiet, Accounted
  <2>1. InHand' \in Seq(Listings) /\ total' = [total EXCEPT !.kept = Plus(@, InHand')]
    <3>1. page'.cards \in Seq(Card)
      BY <1>5, SearchPageTyped DEF PageType
    <3> QED BY <1>5, <3>1, ItemsFacts DEF InHand
  <2>2. total \in Totals
    BY DEF ItemsInv
  <2>3. /\ total'.kept[l] = total.kept[l] + Count(InHand', l)
        /\ total'.returned = total.returned /\ total'.stored = total.stored
    BY <2>1, <2>2, TotalsFacts
  <2>4. Out(l)' = Out(l)
    BY <1>1, <1>5, <2>3 DEF Out
  <2>5. OnPage(l)' = Count(InHand', l) /\ OnPage(l) = 0
    BY <1>1, <1>5 DEF OnPage
  <2>6. Count(InHand', l) \in Nat
    BY <2>1, CountFacts
  <2>7. Accounted(total.kept[l], Out(l))
    BY <2>5, InHandFacts DEF StoreInv, Out, Accounted
  <2>8. Out(l) \in Nat /\ total.kept[l] \in Nat
    BY InHandFacts DEF Out
  <2> QED BY <1>5, <2>3, <2>4, <2>5, <2>6, <2>7, <2>8 DEF Accounted
<1> QED BY <1>2, <1>3, <1>4, <1>5 DEF Fetch, EmptyPage, NextPage

\* A scroll adds what it finds to the search; what is handed over before its end only
\* adds to what is stored.
LEMMA ScrollReads ==
  ASSUME OpenInv, ShapeInv, ItemsInv, StoreInv, UNCHANGED job, job.portal \in Scrolling,
         pc = "page", pc' \in {"page", "scrolled"},
         NEW ids \in Seq(Listings), NEW t \in Totals, NEW b \in Seq(Listings),
         found' = found \o ids, t = [total EXCEPT !.kept = Plus(@, ids)],
         total' = t \/ total' = Stored(t, b)
  PROVE  StoreInv'
<1> SUFFICES ASSUME Quiet, NEW l \in Listings
             PROVE  Accounted(total'.kept[l], Out(l)' + OnPage(l)')
  BY DEF StoreInv, Quiet, Accounted
<1>1. Accounted(total.kept[l], Out(l) + OnPage(l))
  BY DEF StoreInv
<1>2. found \in Seq(Listings) /\ total \in Totals
  BY DEF ItemsInv
<1>3. /\ total.returned[l] \in Nat /\ total.stored[l] \in Nat /\ total.kept[l] \in Nat
      /\ Count(found, l) \in Nat
  BY InHandFacts
<1>4. Count(ids, l) \in Nat /\ Count(b, l) \in Nat
  BY CountFacts
<1>5. Count(found', l) = Count(found, l) + Count(ids, l)
  BY <1>2, CountJoined
<1>6. t.kept[l] = total.kept[l] + Count(ids, l) /\ t.returned = total.returned /\ t.stored = total.stored
  BY <1>2, TotalsFacts
<1>7. /\ Stored(t, b).kept = t.kept /\ Stored(t, b).returned = t.returned
      /\ Stored(t, b).stored[l] = IF job.caller = "runner" THEN t.stored[l] + Count(b, l)
                                 ELSE t.stored[l]
  BY TotalsFacts
<1>8. /\ total'.kept[l] = total.kept[l] + Count(ids, l) /\ total'.returned = total.returned
      /\ total'.stored[l] = total.stored[l] \/ total'.stored[l] = total.stored[l] + Count(b, l)
  BY <1>6, <1>7
<1>9. OnPage(l) = 0 /\ OnPage(l)' = 0 /\ job.portal \notin Once
  BY DEF OnPage, Once, Scrolling
<1>10. ASSUME NEW e \in Nat, Out(l) \in Nat, Out(l)' = Out(l) + (Count(ids, l) + e)
       PROVE  Accounted(total'.kept[l], Out(l)' + OnPage(l)')
  <2>1. Accounted(total.kept[l], Out(l))
    BY <1>1, <1>9, <1>10
  <2>2. Count(ids, l) + e \in Nat /\ (Count(ids, l) > 0 => Count(ids, l) + e > 0)
    BY <1>4, <1>10
  <2>3. Accounted(total.kept[l] + Count(ids, l), Out(l) + (Count(ids, l) + e))
    BY <1>3, <1>4, <1>9, <1>10, <2>1, <2>2, AccountedGrows
  <2>4. Out(l)' + OnPage(l)' = Out(l) + (Count(ids, l) + e)
    BY <1>4, <1>9, <1>10
  <2> QED BY <1>8, <2>3, <2>4
<1>11. CASE job.caller = "worker"
  <2>1. Out(l) = total.returned[l] + Count(found, l)
        /\ Out(l)' = total.returned[l] + (Count(found, l) + Count(ids, l))
    BY <1>5, <1>8, <1>11 DEF Out
  <2>2. Out(l) \in Nat /\ Out(l)' = Out(l) + (Count(ids, l) + 0)
    BY <1>3, <1>4, <2>1
  <2> QED BY <1>10, <2>2
<1>12. CASE job.caller = "runner"
  <2>1. Out(l) = total.stored[l] + Count(found, l)
        /\ Out(l)' = total'.stored[l] + (Count(found, l) + Count(ids, l))
    BY <1>5, <1>12 DEF Out
  <2>2. CASE total'.stored[l] = total.stored[l]
    <3>1. Out(l) \in Nat /\ Out(l)' = Out(l) + (Count(ids, l) + 0)
      BY <1>3, <1>4, <2>1, <2>2
    <3> QED BY <1>10, <3>1
  <2>3. CASE total'.stored[l] = total.stored[l] + Count(b, l)
    <3>1. total.stored[l] + Count(found, l) \in Nat
      BY <1>3
    <3>2. (total.stored[l] + Count(b, l)) + (Count(found, l) + Count(ids, l)) =
            (total.stored[l] + Count(found, l)) + (Count(ids, l) + Count(b, l))
      BY <1>3, <1>4
    <3>3. Out(l) \in Nat /\ Out(l)' = Out(l) + (Count(ids, l) + Count(b, l))
      BY <2>1, <2>3, <3>1, <3>2
    <3> QED BY <1>4, <1>10, <3>3
  <2> QED BY <1>8, <2>2, <2>3
<1> QED BY <1>11, <1>12, QuietFacts

LEMMA ScrollStore == ASSUME OpenInv, ShapeInv, ItemsInv, StoreInv, Scroll PROVE StoreInv'
<1>1. pc = "page" /\ job.portal \in Scrolling
  BY DEF Scroll
<1>2. CASE SearchError
  BY <1>2, SearchErrorStore
<1>3. CASE UNCHANGED <<job, found, total>> /\ pc' = "scrolled"
  BY <1>1, <1>3, SameStore
<1>4. ASSUME NEW cards \in Pages, UNCHANGED job, pc' \in {"page", "scrolled"},
             LET new == {i \in DOMAIN cards : ParseListingText(cards[i]) /\ cards[i].id \notin seen}
                 ids == Ids(Those(cards, new))
                 t == [total EXCEPT !.kept = Plus(@, ids)] IN
             /\ found' = found \o ids
             /\ total' = t \/ total' = Stored(t, LastItems(CallbackTail, found \o ids))
      PROVE  StoreInv'
  <2> DEFINE new == {i \in DOMAIN cards : ParseListingText(cards[i]) /\ cards[i].id \notin seen}
             ids == Ids(Those(cards, new))
             t == [total EXCEPT !.kept = Plus(@, ids)]
             b == LastItems(CallbackTail, found \o ids)
  <2>1. found' = found \o ids /\ (total' = t \/ total' = Stored(t, b))
    BY <1>4
  <2>2. cards \in Seq(Card)
    BY PagesAssumption
  <2> HIDE DEF new
  <2>3. ids \in Seq(Listings)
    BY <2>2, ThoseIdsTyped
  <2> HIDE DEF ids
  <2>4. found \o ids \in Seq(Listings) /\ total \in Totals
    BY <2>3, JoinedTyped DEF ItemsInv
  <2>5. CallbackTail \in Int
    BY CountsAssumption
  <2>6. b \in Seq(Listings)
    BY <2>4, <2>5, LastItemsTyped
  <2>7. t \in Totals
    BY <2>3, <2>4, TotalsPlus
  <2>8. t = [total EXCEPT !.kept = Plus(@, ids)]
    OBVIOUS
  <2> HIDE DEF t, b
  <2> QED BY <1>1, <1>4, <2>1, <2>3, <2>6, <2>7, <2>8, ScrollReads
<1> QED BY <1>2, <1>3, <1>4 DEF Scroll, NextPage

LEMMA FinishScrollStore == ASSUME OpenInv, ShapeInv, ItemsInv, StoreInv, FinishScroll PROVE StoreInv'
<1>1. pc = "scrolled" /\ job.portal \in Scrolling
  BY DEF FinishScroll, ShapeInv
<1>2. CASE SearchError
  BY <1>2, SearchErrorStore
<1> DEFINE new == Distinct(found)
<1>3. CASE /\ UNCHANGED job /\ NextSearch
           /\ total' = [Stored(total, found) EXCEPT !.returned = Plus(@, new)]
  <2> SUFFICES ASSUME Quiet, NEW l \in Listings
               PROVE  Accounted(total'.kept[l], Out(l)' + OnPage(l)')
    BY <1>3 DEF StoreInv, Quiet, Accounted
  <2>1. found \in Seq(Listings) /\ total \in Totals
    BY DEF ItemsInv
  <2>2. new \in Seq(Listings) /\ (Has(new, l) <=> Has(found, l))
    BY <2>1, DistinctFacts
  <2>3. Stored(total, found) \in Totals
    BY <2>1, TotalsPlus
  <2> HIDE DEF new
  <2>4. Count(new, l) \in Nat /\ (Count(found, l) > 0 => Count(new, l) > 0)
    BY <2>1, <2>2, CountFacts
  <2>5. /\ total.returned[l] \in Nat /\ total.stored[l] \in Nat /\ total.kept[l] \in Nat
        /\ Count(found, l) \in Nat
    BY InHandFacts
  <2>6. /\ total'.kept = Stored(total, found).kept /\ total'.stored = Stored(total, found).stored
        /\ total'.returned[l] = Stored(total, found).returned[l] + Count(new, l)
    BY <1>3, <2>2, <2>3, TotalsFacts
  <2>7. /\ total'.kept = total.kept /\ total'.returned[l] = total.returned[l] + Count(new, l)
        /\ job.caller = "runner" => total'.stored[l] = total.stored[l] + Count(found, l)
    BY <2>1, <2>6, TotalsFacts
  <2>8. found' = <<>> /\ pc' \notin {"got", "closing", "ended"}
    BY <1>3 DEF NextSearch
  <2>9. OnPage(l) = 0 /\ OnPage(l)' = 0 /\ job.portal \notin Once /\ Count(found', l) = 0
    BY <1>1, <2>8, NoneFound DEF OnPage, Once, Scrolling
  <2>10. Accounted(total.kept[l], Out(l) + OnPage(l))
    BY DEF StoreInv
  <2>11. CASE job.caller = "worker"
    <3>1. Out(l) = total.returned[l] + Count(found, l)
          /\ Out(l)' = total.returned[l] + Count(new, l) + 0
      BY <1>1, <1>3, <2>7, <2>8, <2>9, <2>11 DEF Out
    <3> QED BY <1>3, <2>4, <2>5, <2>7, <2>9, <2>10, <3>1 DEF Accounted
  <2>12. CASE job.caller = "runner"
    <3>1. Out(l) = total.stored[l] + Count(found, l)
          /\ Out(l)' = total.stored[l] + Count(found, l) + 0
      BY <1>1, <1>3, <2>7, <2>8, <2>9, <2>12 DEF Out
    <3> QED BY <1>3, <2>5, <2>7, <2>9, <2>10, <3>1 DEF Accounted
  <2> QED BY <2>11, <2>12, QuietFacts
<1> QED BY <1>2, <1>3 DEF FinishScroll

LEMMA ScrapeLdPageStore ==
  ASSUME OpenInv, ShapeInv, ItemsInv, StoreInv, ScrapeLdPage
  PROVE  StoreInv'
<1>1. pc = "page" /\ job.portal \notin Scrolling
  BY DEF ScrapeLdPage, Scrolling
<1>2. CASE SearchError
  BY <1>2, SearchErrorStore
<1>3. CASE UNCHANGED job /\ EndSearch(found)
  BY <1>1, <1>3, EndSearchStore
<1>4. CASE job' = [job EXCEPT !.errors = @ + 1]
  BY <1>4, ErrorForms
<1>5. ASSUME NEW a \in Answers, UNCHANGED job, pc' = "page",
             LET new == Fresh(MercadoLibrePage(a))
                 t == [total EXCEPT !.kept = Plus(@, new)] IN
             found' = found \o new /\ total' = Stored(t, new)
      PROVE  StoreInv'
  <2> DEFINE new == Fresh(MercadoLibrePage(a))
             t == [total EXCEPT !.kept = Plus(@, new)]
  <2>1. found' = found \o new /\ total' = Stored(t, new)
    BY <1>5
  <2>2. MercadoLibrePage(a) \in Seq(Card)
    <3>1. a.cards \in Seq(Card) /\ <<>> \in Seq(Card)
      BY <1>5, AnswersTyped
    <3> QED BY <3>1 DEF MercadoLibrePage
  <2>3. new \in Seq(Listings) /\ total \in Totals
    BY <2>2, FreshTyped DEF ItemsInv
  <2> HIDE DEF new
  <2>4. t \in Totals
    BY <2>3, TotalsPlus
  <2>5. t.stored = total.stored /\ t.returned = total.returned
    BY <2>3 DEF Totals
  <2>6. \A l \in Listings : t.kept[l] = total.kept[l] + Count(new, l)
    BY <2>3, TotalsFacts
  <2> HIDE DEF t
  <2> QED BY <1>1, <1>5, <2>1, <2>3, <2>4, <2>5, <2>6, ReadStore
<1> QED BY <1>2, <1>3, <1>4, <1>5 DEF ScrapeLdPage, NextPage

LEMMA ReturnStore == ASSUME OpenInv, ShapeInv, ItemsInv, StoreInv, Return PROVE StoreInv'
<1>1. pc = "state" /\ found = <<>> /\ UNCHANGED found
  BY DEF Return, ShapeInv
<1>2. SameRun
  BY StepSameRun DEF Next
<1>3. CASE \E r : job' = [job EXCEPT !.row = r, !.errors = @ + 1]
  <2>1. job'.errors = job.errors + 1
    BY <1>3 DEF OpenInv, JobType
  <2> QED BY <2>1, ErrorStore
<1>4. CASE /\ pc' = "closing" /\ job' = [job EXCEPT !.outcome = "completed"]
           /\ total' = IF job.caller = "worker" THEN [total EXCEPT !.stored = total.returned]
                       ELSE total
  <2>1. job'.errors = job.errors
    BY <1>4 DEF OpenInv, JobType
  <2> SUFFICES ASSUME Quiet, NEW l \in Listings
               PROVE  Accounted(total'.kept[l], Out(l)' + OnPage(l)')
    BY <1>2, <2>1 DEF StoreInv, Quiet, Accounted, SameRun
  <2>2. total'.kept = total.kept
        /\ total'.stored = IF job.caller = "worker" THEN total.returned ELSE total.stored
    BY <1>4 DEF ItemsInv, Totals
  <2>3. OnPage(l) = 0 /\ OnPage(l)' = 0
    BY <1>1, <1>4 DEF OnPage
  <2>4. total.returned[l] \in Nat /\ total.stored[l] \in Nat /\ Count(found, l) = 0
    BY <1>1, InHandFacts, NoneFound
  <2>5. Out(l)' = Out(l)
    BY <1>1, <1>4, <2>2, <2>4 DEF Out
  <2> QED BY <1>2, <2>2, <2>3, <2>5 DEF StoreInv, Accounted, SameRun
<1> QED BY <1>3, <1>4 DEF Return

LEMMA StepKeepsStore ==
  OpenInv /\ ShapeInv /\ ItemsInv /\ StoreInv /\ [Next]_vars => StoreInv'
<1> SUFFICES ASSUME OpenInv, ShapeInv, ItemsInv, StoreInv, [Next]_vars PROVE StoreInv'
  OBVIOUS
<1>1. CASE InitBrowserForState
  <2>1. CASE UNCHANGED <<job, found, total>> /\ pc' = "page"
    BY <1>1, <2>1, SameStore DEF InitBrowserForState
  <2> QED BY <1>1, <2>1, ErrorForms DEF InitBrowserForState
<1>2. CASE BeginPage
  <2>1. pc = "page" /\ job.portal \notin Scrolling
    BY <1>2 DEF BeginPage, BrowserPortals
  <2>2. CASE UNCHANGED <<job, found, total>> /\ pc' = "fetch"
    BY <2>1, <2>2, SameStore
  <2>3. CASE EndSearch(found) /\ UNCHANGED job
    BY <2>1, <2>3, EndSearchStore
  <2>4. CASE job' = [job EXCEPT !.errors = @ + 1]
    BY <2>4, ErrorForms
  <2>5. CASE SearchError
    BY <2>5, SearchErrorStore
  <2> QED BY <1>2, <2>2, <2>3, <2>4, <2>5 DEF BeginPage, RotateSession
<1>3. CASE RetryBlocked
  <2>1. pc = "blocked" /\ job.portal \notin Scrolling
    BY <1>3 DEF RetryBlocked, ShapeInv
  <2>2. CASE UNCHANGED <<job, found, total>> /\ pc' \in {"page", "fetch"}
    BY <2>1, <2>2, SameStore
  <2>3. CASE EndSearch(found) /\ UNCHANGED job
    BY <2>1, <2>3, EndSearchStore
  <2>4. CASE \E ids, r : PageError(ids, r)
    BY <2>4, ErrorForms
  <2> QED BY <1>3, <2>2, <2>3, <2>4 DEF RetryBlocked, NextPage
<1>4. CASE SolveChallenge \/ CloseBridge \/ BridgeFails \/ BridgePage \/ FinishBridgePage
  <2>1. job.portal = "properstar_http" /\ SameRun
    BY <1>4, StepSameRun DEF SolveChallenge, CloseBridge, BridgeFails, BridgePage, FinishBridgePage
  <2> QED BY <2>1 DEF StoreInv, Quiet, SameRun
<1>5. CASE StartEnrichment \/ EnrichTarget
  <2>1. job.caller = "enrich" /\ SameRun
    BY <1>5, StepSameRun DEF StartEnrichment, EnrichTarget, ShapeInv
  <2> QED BY <2>1 DEF StoreInv, Quiet, SameRun
<1>6. CASE OtherRun \/ BrowserDies \/ CookiesExpire \/ Ended \/ UNCHANGED vars
  <2>1. UNCHANGED <<job, found, total, pc, page>>
    BY <1>6 DEF OtherRun, BrowserDies, CookiesExpire, Ended, vars
  <2> QED BY <2>1, SameStore
<1>7. CASE OpenJob \/ CloseRow
  <2>1. SameRun
    BY <1>7, StepSameRun
  <2>2. CASE \E r : job' = [job EXCEPT !.row = r]
    <3>1. job'.errors = job.errors /\ UNCHANGED <<found, total>>
      BY <1>7, <2>2 DEF OpenJob, CloseRow, OpenInv, JobType
    <3>2. \/ pc = "start" /\ pc' \in {"enrichStart", "state", "ended"}
          \/ pc = "closing" /\ pc' = "ended"
      BY <1>7 DEF OpenJob, CloseRow
    <3>3. pc = "start" /\ pc' = "ended" => job'.errors = job.errors + 1
      BY <1>7 DEF OpenJob, CloseRow, OpenInv, JobType
    <3> QED BY <2>1, <3>1, <3>2, <3>3, MovedStore, ErrorStore
  <2>3. CASE \E r : job' = [job EXCEPT !.row = r, !.errors = @ + 1]
    <3>1. job'.errors = job.errors + 1
      BY <2>3 DEF OpenInv, JobType
    <3> QED BY <3>1, ErrorStore
  <2> QED BY <1>7, <2>2, <2>3 DEF OpenJob, CloseRow
<1>8. CASE VisitDetail \/ VisitsFail
  <2>1. CASE UNCHANGED <<job, found, total, pc, page>>
    BY <2>1, SameStore
  <2>2. CASE job' = [job EXCEPT !.errors = @ + 1]
    BY <2>2, ErrorForms
  <2>3. CASE \E ids, r : PageError(ids, r)
    BY <2>3, ErrorForms
  <2> QED BY <1>8, <2>1, <2>2, <2>3 DEF VisitDetail, VisitsFail
<1> QED BY <1>1, <1>2, <1>3, <1>4, <1>5, <1>6, <1>7, <1>8, ReturnStore, FetchStore, FinishPageStore, ScrollStore,
           FinishScrollStore, ScrapeLdPageStore DEF Next

LEMMA InitStore == Init => StoreInv
<1> SUFFICES ASSUME Init, Quiet, NEW l \in Listings
             PROVE  Accounted(total.kept[l], Out(l) + OnPage(l))
  BY DEF StoreInv
<1>1. pc = "start" /\ found = <<>>
      /\ total = [returned |-> None, stored |-> None, kept |-> None]
  BY DEF Init
<1>2. OnPage(l) = 0 /\ total.kept[l] = 0 /\ total.returned[l] = 0 /\ total.stored[l] = 0
  BY <1>1 DEF OnPage, None
<1>3. Count(found, l) = 0
  BY <1>1, NoneFound
<1>4. Out(l) = 0
  BY <1>2, <1>3 DEF Out
<1> QED BY <1>2, <1>4 DEF Accounted

\* Every item made of a page read is stored when a scrape ends without an error, and where
\* an item is handed over once, as often as it was read.
THEOREM StoredAsReadCorrect == Spec => []StoredAsRead
<1>1. ItemsInv /\ StoreInv => StoredAsRead
  <2> SUFFICES ASSUME ItemsInv, StoreInv, pc = "ended", Quiet, NEW l \in Listings
               PROVE  /\ total.kept[l] > 0 => total.stored[l] > 0
                      /\ job.portal \in Once => total.stored[l] = total.kept[l]
    BY DEF StoredAsRead, Quiet
  <2>1. Out(l) = total.stored[l] /\ OnPage(l) = 0 /\ total.stored[l] \in Nat
    BY InHandFacts DEF Out, OnPage
  <2> QED BY <2>1 DEF StoreInv, Accounted
<1> QED BY OpenInvariant, InitShape, InitItems, InitStore, StepKeepsShape, StepKeepsItems,
           StepKeepsStore, <1>1, PTL DEF Spec
=============================================================================
