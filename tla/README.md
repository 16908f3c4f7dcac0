# DataMktMx in TLA+

DataMktMx collects real-estate listings from Mexican portals: a daemon runs scrapes on
cron schedules, scrapers page through result lists and upsert what they find into
PostgreSQL, a supervisor repairs broken selectors, and a pipeline cleans, deduplicates
and exports the rows. This directory holds TLA+ models of its core, the TLC runs that
check them, and proofs for TLAPS. The models are written from the code under `src/`.

How to run it:

    tlc -workers 2 -config SchedulerPair.cfg MCSchedulerDaemon     # any run of PROJECT.json
    tlapm SchedulerDaemonProofs.tla                                # any *Proofs module

## 1. Inventory of the system

Paths are relative to `src/src/` unless they start with `api/`.

| component | code | state it keeps | operations | modelled |
|---|---|---|---|---|
| scheduler daemon | `orchestrator/scheduler_daemon.py`, `schedule_queue.py` | `_running_tasks`, `_semaphore`, `_shutdown`; rows `schedule_configs`, `schedule_runs` | start, `_tick`, `_execute`, `_run_schedule`, `_redis_listener`, drain | `SchedulerDaemon` |
| run history | `shared/db/models/schedule_run.py` | one row per attempt | insert, close, cascade | `RunLedger` |
| single-instance lock | the same daemon | Redis key `scheduler:lock` | SET NX EX, EXPIRE, DEL | `SchedulerLock` |
| schedules API | `api/src/schedules/` | the same rows, publications on `scheduler:trigger` | create, update, toggle, remove, run-now, groups | in `SchedulerDaemon`, without the groups |
| listing store | `scrapers/storage.py` | `raw.raw_listings`, one session per page | `upsert_raw_listings` | `ListingStore` |
| scrape run | `scrapers/runner.py` | `scrape_jobs` row, counters, closure of `persist_page` | `run_scraper` | `ScrapeRun` |
| HTTP scrapers | `scrapers/*/http_scraper.py`, `base/known_listings.py` | page number, known identifiers | `scrape`, `_scrape_search`, `fetch_page`, `should_stop` | `ScrapeRun` |
| browser scrapers | `scrapers/base/scraper.py`, `scrapers/*/scraper.py`, `properstar/http_scraper.py` | browser, pages since rotation, consecutive blocks, `_seen_ids`, cookies | `run`, `scrape`, `_scrape_search`, `_init_browser_for_state`, `_maybe_rotate`, `_rotate_session` | `PortalScrapers`, `PortalPages` |
| enrichment | `scrapers/runner.py` 326-532 | `scrape_jobs` row, rows to complete | `run_enrichment` | `PortalScrapers` |
| bandwidth budget | `shared/proxy/bandwidth.py` | byte counter of the process | `add_bytes`, `check_budget` | in `PortalScrapers`, the process-wide tracker |
| proxies, cookies | `shared/proxy/manager.py`, `shared/stealth/` | cookie age, browsers | `create_worker_browser`, `CookieBridge.get`, `cookies_valid` | in `PortalScrapers`, without the pool's choice of a session and fingerprints |
| supervision | `supervisors/`, `api/src/supervisors/` | `supervisor_runs`, `repair_logs`, `portals.selector_overrides`, selectors in memory | `run_diagnostic`, apply, reject, `_apply_selector_overrides` | `Supervisor` |
| scout | `orchestrator/scout.py` | scout report | `run`, `_compute_aggregates`, `_assign_workers` | `Scout` |
| work plans | `orchestrator/{planner,orchestrator,worker_task,scheduler}.py`, `api/src/work-plans/` | `work_plans`, Dramatiq queue, job rows | create, approve, cancel, execute, `run_worker_task`, `run_full_cycle` | `WorkPlans`, `PlanLifecycle` |
| normalizers | `etl/normalizers/`, `etl/validators/`, `etl/catalogs.py` | none | `normalize_state`, `normalize_price`, `calculate_quality`, ... | `Normalizers` |
| ETL | `etl/pipeline.py`, `etl/dedup/`, `etl/exporters/s3.py` | `clean.clean_listings` | `run_pipeline`, `find_duplicates`, `export_to_s3` | `EtlPipeline`, `Dedup` |
| archive | `etl/exporters/supabase.py` | rows in Supabase | `sync_to_supabase` | in `EtlPipeline` |
| the rest | parsers, portal configuration, the portals' scouts, alerts, read-only controllers, web applications, infrastructure | | | no: data, presentation, I/O |

How they interact:

- the API and the daemon share PostgreSQL rows and one Redis channel. A publication
  reaches whoever is subscribed at that moment and is otherwise lost;
- the daemon's tasks call `run_scraper` in the same event loop; every scrape opens its own
  sessions. A plan worker or the command line may run the same portal in another process
  at the same time, so the only thing that orders two scrapes is the database;
- `run_scraper` passes `persist_page` to the scraper as a callback after each page, and
  `persist_page` calls the store with a session of its own;
- a finished scrape is announced on a Redis channel on which the supervisor listens;
- the supervisor and the API both write `portals.selector_overrides`, which the next
  `run_scraper` merges into module globals;
- the full cycle scouts a portal, plans and approves in one session, sends one message per
  worker and goes on to the ETL without waiting for them; a worker calls a browser
  scraper's `scrape()` and stores what it returns, the runner calls `run()` and stores every
  page, the enrichment borrows the scraper for its browser;
- the pipeline reads what the scrapes write while they write it; `run_scraper` synchronises the
  archive whenever 500 new listings have been stored since it last did.

What is hard, and where a test would hardly look: two tasks of one schedule that
overwrite and pop each other's registration; a retry born during the drain; a commit that
fails after a scrape; a row deleted under its run; a lease that outlives or does not
outlive its daemon; a rollback that takes the page with it; two sessions that upsert the
same listings in opposite orders; result pages that shift while they are read; an
exception that crosses the loops of a scraper while a browser is open; a day's budget
summed before it is spent; overrides read, merged and written by two writers; a plan
approved or cancelled under the cycle that runs it; pipelines and synchronisations that
overlap. The list with the line where each bites is in `PROJECT.json` under `hazards`.

## 2. The modules

    RunLedger  <-- refines --  SchedulerDaemon          SchedulerLock
                                |        |                   |
                   MCSchedulerDaemon   SchedulerDaemonProofs MCSchedulerLock, SchedulerLockProofs
                                         |
                                   SchedulerLedgerProofs
    ListingStore  <-- extends --  ScrapeRun  <-- MCScrapeRun, ScrapeRunProofs
    PortalPages   <-- extends --  PortalScrapers  <-- MCPortalScrapers, PortalScrapersProofs
    Supervisor    <-- MCSupervisor, SupervisorProofs
    Scout         <-- extends --  WorkPlans  <-- MCWorkPlans, WorkPlansProofs
                                     |
                       PlanLifecycle <-- refines
    Normalizers   <-- extends --  Dedup  <-- extends --  EtlPipeline  <-- MCEtlPipeline,
                                                                          EtlPipelineProofs

### SchedulerDaemon

A step is what the event loop does between two awaits, or one committed transaction.
The state is the database as the daemon reads it (`cfg`, `nextRun`, `recent`, `queued`),
the messages not yet read (`triggers`), the process (`phase`, `shutdown`, `selected`,
`registry`, `gathered`, `permits`), the listener coroutine, and every task ever created
with the row it wrote (`task`).

| action | code |
|---|---|
| `TickSelect`, `TickLaunch` | `_tick`: the query is one step; the tests, the sort and all `create_task` calls, which await nothing, are the next one. `Candidates` is "Skip if already running" |
| `Acquire` | `async with self._semaphore` in `_execute`, first come first served |
| `StartRun`, `Scrape`, `SaveRun`, `Finish` | `_run_schedule` on its way through; `Record` is the commit that closes the row and advances the schedule |
| `StartRunFails`, `SaveRunFails` | everything that raises into `except Exception`: the insert, the scrape, the save, a row that is gone |
| `MarkFailed`, `MarkFailedRaises`, `Retry` | the except block, its own failure, the backoff inside the semaphore and the task it creates; `Leave` is the `finally` block, part of each action that ends a task |
| `LeaveLoop`, `TickFails`, `Stop` | the end of the main loop by a signal or by an error of `_tick`, the one-time `gather`, the cancellation of the rest |
| `Listener*` | `_redis_listener`: its reads, the task it creates without the test `_tick` makes, an error that drops the message or ends the coroutine |
| `CreateSchedule`, `Reconfigure`, `DeleteSchedule`, `RunNow` | `schedules.controller.ts`; the deletion cascades to the rows |
| `CronFires`, `RateWindowEnds`, `Crash` | the clock and the host |

Time is reduced to the two comparisons the code makes, `next_run_at <= now` and
`last_run_at` within `rate_limit_s`. Not in it: what a run logs and audits, `run_count`,
priorities beyond their order, the schedule groups, the supervisor's listener (which
shares the loop but none of this state), and the lock, which has a module of its own.

### RunLedger

The abstract specification of `schedule_runs`: one row per attempt, opened once, closed
once with an outcome, never rewritten, removed only with its schedule. `SchedulerDaemon`
implements it under `row <- [t \in TaskIds |-> task[t].row]`.

### SchedulerLock

Several daemons, the key's time to live, and the time since each daemon last extended it.
`TimePasses` cannot let a running daemon miss its tick; a drain lasts as long as it likes, since
`start()` sets it no limit and extends nothing meanwhile. `lapses` counts how often the key has run
out under a daemon that still worked: with it the module says what the lock does achieve
(`OneMorePerLapse`, `LapsesInDrains`) and what it does not, one instance at any time.

### ListingStore and ScrapeRun

`ListingStore` is one call of `upsert_raw_listings` per run: `Upsert` handles an item, and
its SELECT first sends the row of the item before (autoflush). The error of that flush
lands on the item in hand, `UpsertFails` rolls back all the call had written and goes
on, `Commit` sends the last row. The database (external, modelled from how the code uses
it) makes a session wait for a row another open session wrote, fails a member of a cycle
of waits, and rejects an insert of a committed identifier.

`ScrapeRun` is `run_scraper` with the cards-only HTTP scraper for several runs of a
portal: the job row, the loop over searches and pages, `KnownListingsCache`, refused
pages, `persist_page`, and the ways a job ends or is left. The portal is a feed per search
that changes while it is read, in two orders: an incremental run asks for the newest first, a full
run takes the portal's default, in which a new listing may appear anywhere (`Publish`) and results
may change places (`Rerank`). A page is the slice the feed holds at that moment. `persist_page` is
cut where it commits: `PersistDone` is the commit of the page, `PageDone` the counters and the update
of the job's row every few pages, `UpdateFails` its failure, which ends the search of a page that is
stored. `StartJobFails` is the commit or refresh of the job row outside any `try`. `ScraperRaises`
stands for scrapers that use a browser and raise outside their `try`. Of a row only its presence
is kept; of the counters only the errors.

### PortalPages and PortalScrapers

`PortalPages` is what a result page comes to: the portal answers with an error, a block, a
failure or cards, each card with or without a link and a price, and every portal's own
`_scrape_search_page` makes of that an empty page, a blocked one, or the items it hands on;
`ShouldStop` is the stop of `KnownListingsCache`. Reading a field out of HTML is left to the
parsers and abstracted to these outcomes.

`PortalScrapers` is one run of one scraper, of any of the seven that use a browser or of
properstar's HTTP scraper, for the runner, a plan worker or the enrichment. `browser` counts the
browsers that were launched and not closed (`open`), those left by a creation that failed half way
(`orphans`), and says whether the scraper's handle holds one (`live`); `at` is the place in the loops over
states, operations and pages, `rot` the counters of the object, `total` what was made of pages
read, stored and returned, `spent` the process's tracker. The browser that the cookie bridge of
properstar's HTTP scraper starts to solve a challenge is counted like any other.

| action | code |
|---|---|
| `InitBrowserForState`, `Launched`, `LaunchFails`, `Closed` | `_init_browser_for_state`, `_create_fresh_browser` with its budget check, `create_*_browser`, `_close_browser` |
| `BeginPage`, `RotationDue`, `RotateSession`, `MaybeRotateRefuses` | the head of the page loop: the limit, `_maybe_rotate` and its own check |
| `Fetch`, `RetryBlocked`, `FinishPage`, `Batch` | a page, the three retries of inmuebles24 with new contexts, what is appended and what is handed to `on_page_scraped` |
| `VisitDetail`, `VisitsFail` | with `visit_detail`: the detail pages of the cards before the page is finished; every response adds its bytes, none asks the budget |
| `Scroll`, `FinishScroll`; `ScrapeLdPage`; `BridgePage`, `FinishBridgePage` | the loops that differ: icasas scrolls, mercadolibre reads JSON-LD over HTTP, properstar by HTTP with solved cookies |
| `SolveChallenge`, `CloseBridge`, `BridgeFails` | `CookieBridge`: the browser that solves the challenge, its closing in two calls of which the first may raise, and its other failures |
| `NextSearch`, `SearchError`, `PageError`, `EndSearch`, `Raise`, `Return` | where an exception is caught, which differs from portal to portal, and `BaseScraper.run`'s end |
| `OpenJob`, `CloseRow` | the job row of the runner, the worker and the enrichment: its insert and refresh before any `try`, its final update, and the session that may fail under either and leave it `running` or unwritten |
| `StartEnrichment`, `EnrichTarget`, `CloseEnrichment` | `run_enrichment` |
| `OtherRun`, `BrowserDies`, `CookiesExpire` | the bytes of another run of the process, the browser process, time |

### Supervisor

Diagnoses of one portal as tasks of the daemon, cut at their transactions and their awaits
(`Check`, `CheckQuality`, `OpenRun`, `Analyse`, `ReadPortal`, `Flush`, `CommitRepairs`,
`CloseRun`), the failures of each step and of the handler itself (`OpenRunFails` is the commit or
refresh before the `try`, whose row may be written and has no handler), the dashboard's requests
(`ReadRepair`, `ReadOverrides`, `ApplyRepair`, `RejectRepair`, `UpdateConfig`), and the scrape
that merges the overrides into its process (`StartScrape`). A selector is named by the
diagnosis that proposed it. `lock` is the row lock PostgreSQL gives the first flush; the
reads before it take none, so `snap` may be old: `stale` records that a write has
replaced overrides newer than those it read. A diagnosis reads the portal once for all its
repairs, since the session keeps the row it has read.

### Scout, PlanLifecycle and WorkPlans

`Scout` holds the pure part of a scout: what is kept of a visit, the level of defence, the
number of workers, the sort and the greedy assignment. `WorkPlans` is the full cycle over
its portals and operations with one session (`broken` once a statement has failed, which is never rolled back),
the dashboard's two-step requests, and the messages with their retries, time limit,
redelivery and job rows. Creation, approval and execution commit and then refresh, so each may fail
with its write done (`StatementFailsLate`); a worker whose session fails may or may not have written
its job row (`RowsLeft`). `PlanLifecycle` is the life cycle the model class documents; a
status leaves it only through a write over a status its writer has not read
(`raced`), and `WorkPlans` implements it.

### Normalizers, Dedup and EtlPipeline

`Normalizers` translates the functions of `etl/normalizers` and `etl/validators` with text as
sequences of words and a sample of the catalogues; integers of pesos, scores of 100. `ColRemoved`
cuts what the pattern of `location.py` cuts, the head of a name that begins like the abbreviation
included. (The docstring at `price.py:6` says $10,000; the constant the code tests is 50,000, and so
is the model's.)
`Dedup` is `find_duplicates` over the rows in the order the query returned them.
`EtlPipeline` runs pipelines (incremental and rebuilding), an export and synchronisations beside
scrapes that insert and update raw rows. A pipeline is one transaction: what it
read, deleted and prepared is in `pipe`, what is committed in `clean`.

## 3. The runs

| run | instance | what it shows | states |
|---|---|---|---|
| `scheduler_pair` | two schedules of equal rank, one with a rate limit and a retry, one permit; a firing, a manual trigger, a shutdown, a fault | `TypeOK`; permits are conserved on every path (`SemaphoreAccounting`); an entry of the registry is a live task of its schedule although tasks overwrite and pop each other's (`RegistryNeverStale`); every retry has a recorded failure behind it (`RetryFollowsFailure`); a schedule overlaps with itself (`OverlapsAccounted`), and a drain cuts its scrapes short (`CutsAccounted`), only as often as it was triggered by hand or retried | 550 243 |
| `scheduler_restarts` | one schedule created, edited and deleted; a crash, a fault, a firing, a manual trigger | a row left `running` has an owner or a known cause (`RunningRowsOwned`); the daemon implements `RunLedger` (`LedgerSpec`) | 1 236 706 |
| `scheduler_live` | two schedules, a retry, one permit, two firings, a shutdown | a launchable schedule is launched (`DueIsLaunched`); a shutdown ends the process (`ShutdownCompletes`) | 219 627 |
| `scheduler_lock` | three daemons, lease 10, poll 2 (units of 30 s), drains of any length, two lapses of the key | a lapse of the key lets in one daemon more, and nothing else does (`OneMorePerLapse`); it lapses only under daemons that all drain (`LapsesInDrains`); a dead daemon's key does not keep the scheduler down (`Recovery`) | 6 427 |
| `scrape_run` | a full and an incremental run at once, two searches that list the same listings in different orders, one listing the database rejects, one kind of disturbance: publications, removals, re-rankings, refused pages, faults or a crash | a full run without errors has stored all it scraped (`CleanFullRunIsStored`) and, while the default order stays, has seen all that was online when it began (`FullRunSeesAll`); an incremental run has seen all that was new to it (`IncrementalRunSeesNew`); no run waits for ever (`RunEnds`) | 167 340 |
| `portal_scrapers` | each of eight scrapers for each caller, with and without detail visits, full and incremental; two states, two operations, two pages, two listings; two faults of different kinds | however a run ends, its browsers are closed, the cookie bridge's included, but for one whose context failed, and its job row is, unless the session that holds it failed (`NothingLeftOpen`); without errors it stored what it made of the pages it read (`StoredAsRead`); what it fetched with the budget gone, detail pages included, or was blocked in a row is bounded, and by how much more than the code's constants say (`WastedFetchesBounded`) | 2 544 675 |
| `supervisor` | two diagnoses, a request, two fields, four answers of the model, two faults, one of each other event, two kinds of event per behaviour | the day's cost passes its cap only by the diagnoses in flight together (`BudgetOvershoot`); no override is in force without a row that accounts for it (`OverridesAccounted`); a repair logged as applied is in force unless two writers overlapped (`AppliedIsInForce`); a row stays `running` only for a failure before the `try` or in the handler, one each (`LeftRunningAccounted`); every other opened run is closed (`RunCloses`) | 340 374 |
| `work_plans` | two plans over three states, one or two workers each, a request, one kind of fault | the greedy split is fair (`AssignmentIsFair`), no state is scraped by two workers (`StatesCoveredOnce`), a job row stays running only for a lost attempt (`RunningJobsAccounted`), the life cycle holds but for blind writes (`LifecycleKept`), and everything ends (`CycleAndTasksEnd`) | 311 437 |
| `etl` | three listings of two portals in four forms (pesos, dollars, dearer, without a plausible price), a pipeline and a rebuild, an export, two synchronisations, two kinds of event per behaviour | no listing has two clean rows but by overlapping runs (`CleanOnce`), none with a price is lost (`PricedIsClean`), clusters are whole in the table and in every export (`ClustersAreWhole`), a synchronisation without errors has archived what it read (`ArchiveFresh`) | 279 592 |

The other runs show that the code does not do what its comments or docstrings say; each
has an entry under `findings` that quotes the line.

| run | property | shortest story |
|---|---|---|
| `scheduler_new_schedule` | `EnabledGetsNextRun` | a schedule created while the daemon is up has no `next_run_at` until a restart |
| `scrape_incremental` | `CleanRunIsStored` | the page on which an incremental run stops holds a new listing, which is dropped |
| `etl_updated` | `UpdatedIsClean` | a scrape updates a cleaned listing, the next run does not select it |

The same models show more, which no run repeats: a schedule runs beside its own cron run after a
manual trigger, and after a failure, whose retry is registered under a key `_tick` does not look for
(`OverlapsAccounted` without its second term); a retry created while the daemon drains is awaited
by nobody and cut short (`CutsAccounted` with 0 on its right); a drain that outlasts the lease lets
a second daemon in, and ends by deleting the key of its successor (`OneMorePerLapse` without its
second term); the row `runNow` queues is never picked up; a worker
with an empty assignment scrapes every state (`StatesCoveredOnce` without its exception), icasas and
vivanuncios hand items over twice and inmuebles24 in incremental mode drops the last page's
(`StoredAsRead` without its exceptions), an enrichment of a portal without a parser leaves its job
running, and so does a job row whose session fails (`NothingLeftOpen` without its exceptions), a
browser whose context cannot be created, or in the cookie bridge cannot be closed, is left open
(`orphans`), detail pages are fetched with the budget gone (the last term of `WastedFetchesBounded`), a
diagnosis whose row cannot be read back leaves it running (`LeftRunning` of `Supervisor`), and
properstar's HTTP scraper catches errors without counting them.

### Bounds, and why they are enough

- Environment events (`Bound`) are the only unbounded thing in the daemon: every task comes
  from a firing, a trigger or a retry. Two schedules give every pair of roles (same
  schedule, other schedule); one permit makes tasks queue; one retry gives a chain with a
  first and a last attempt. The two safety runs split the events, since a crash or an
  edit together with two schedules adds states and no new interplay: rows are per schedule.
- The lock run has the code's lease of 300 s and a tick within 60 s in units of 30 s. Drains are
  unbounded: `since` stops at the lease, beyond which it tells nothing apart. `MaxLapses` only bounds
  TLC's runs (two lapses and three daemons show a lapse under a single daemon and under two, and the
  deletion of a successor's key). The proofs hold for every value of it.
- In `ScrapeRun` a page has two cards, so a feed of three has a full and a partial page;
  `StopKnown` and `MinKnown` are scaled from 10 and 5 to 1. `EnvKinds = 1` allows one kind
  of disturbance per behaviour, once (faults twice), beside the rejected listing and the races
  of the two runs, which are always possible.
- `PortalScrapers`: two states, operations and pages give every first, next and last step of
  each loop; two listings, one complete and one that can be neither visited nor priced,
  tell the portals' treatments apart; `Budget`, `BlockLimit`, `Retries`, `StaleLimit` and the callback's
  counts are scaled down so that each limit is met, exceeded and reset.
- `Supervisor`: two diagnoses overlap in every order; the thresholds lie so that a suggestion
  may be applied, queued or rejected, and the configuration may change in between. Midnight
  may fall anywhere.
- `WorkPlans`: two plans show a broken session carried from one to the next; the
  reports include one that asks for more workers than there are states worth a visit.
- `EtlPipeline`: three listings, since a cluster's transitivity needs three; `BatchSize` 2 makes a
  full and a partial batch. Prices are chosen on both sides of the tolerance.
- Deadlock is not checked where `CHECK_DEADLOCK FALSE` stands: once the environment's
  budget is spent, an idle daemon without schedules, or finished runs, may stop.

### Fairness, and why the code justifies it

- Daemon: weak fairness of the coroutines. asyncio runs what is ready; a scrape ends, by
  its page limit and the time limits of its requests; a sleep ends; the container
  restarts the process (`restart: unless-stopped`). Tasks have one fairness condition
  between them, not one each: FIFO semaphore and finite tasks make it enough. `HandleShutdown`, faults,
  edits, triggers, firings and the end of a rate window are never owed.
- Lock: the clock advances, and containers that are down are started again.
- Supervisor: a diagnosis that has begun goes on while its process lives (asyncio runs what
  is ready; the call of the model has a time limit). The dashboard, the clock and the
  faults owe nothing.
- Work plans: the cycle, a sequential process, goes on; a worker process takes messages
  and works on them (Dramatiq's processes are restarted by the container). The faults and
  the dashboard owe nothing.
- Scrape runs: a run that has begun takes its next step while it can; none must begin.

## 4. The proofs

All theorems hold for every value of the constants under their named assumptions: finite sets of
schedules and diagnoses, at least one permit, batches and stop limits of at least one, at least one
state, operation, retry and tolerated block of a scraper, the three callers the code has, natural
bounds, a positive lease, and constants of the type the model gives them. TLC evaluates each of these on every run of
its module.

Two devices recur. The library's induction theorems cannot be used here, so where a proof has to
follow a recursion or a fold over data it takes the least counterexample: `LeastNumber` (in
`WorkPlansProofs`, `EtlPipelineProofs` and `PortalScrapersProofs`) and `SmallestSet` say that a set
of numbers has a least member and a family of finite sets a smallest one. And an operator that is a
fold is first shown to satisfy its own equation (`SumUnfolds`, `AssignUnfolds`), after which only
that equation is used.

`SchedulerDaemonProofs` proves `Spec => []P` for `TypeOK`, `SemaphoreAccounting`,
`RegistryNeverStale`, `RunningRowsOwned`, `RetryFollowsFailure`, `OverlapsAccounted` and
`CutsAccounted`. They lean on each other (the range of `permits` in `TypeOK` on the accounting, the
accounting on the types); `IInv`, the inductive invariant, is their conjunction with

- `PcTellsRow`: what a task's place in the code says of its row (no row before the insert, a
  closed or deleted one in the backoff). Without it `Retry` could be taken from a state in
  which the parent was never recorded as failed, and the ledger could open a row twice;
- `OverlapInv`: what a schedule has to account for, its live tasks and the scrapes a drain has left,
  is no more than the one task registered for it and the tasks a manual trigger or a retry created;
  during the drain, what of it is not gathered is no more than the latter; and what is registered or
  gathered has not been left. Neither property is inductive without it: a tick adds a live task
  because it saw no registration, which says nothing of the live tasks unless each unregistered
  one has been accounted for, and the end of the process leaves everything the `gather` missed.

The steps are grouped by what they touch. `QuietStep` covers those that leave tasks, the registry
and the permits alone; `MovePreserves` a task that moves and keeps its entry; `EndPreserves` one
that leaves; `LaunchPreserves` new tasks. Each action is an instance. Counting holders is by the
cardinality lemmas of `FiniteSetTheorems` (`HoldersMove`, `AccountMove`). `StepInvariant` has a case
per action and `Invariant` combines them.

`SchedulerLedgerProofs` proves the refinement `Spec => LedgerSpec` from `IInv`: a task's step opens
or closes one row or none, a launch plans rows, a deletion purges, the rest stutters.

`SchedulerLockProofs` proves `Spec => []OneMorePerLapse` and `Spec => LapsesInDrains` for any finite
set of daemons, any lease and poll, and drains of any length. `LockInv` adds that a held key admits one
active daemon more than there have been lapses, and that while the key is held its time to live and the
silence of an active daemon make up the lease: a key that runs out under a daemon has therefore not
been extended by it for a whole lease, which a daemon that ticks cannot be guilty of.

`PortalScrapersProofs` proves `Spec => []P` for `NothingLeftOpen`, `TypeOK`, `WastedFetchesBounded`
and `StoredAsRead`, for any set of portals, callers, pages, limits and faults. `NothingLeftOpen` is
not inductive: that the browser is closed at the end rests on the handle telling at every step
whether one is open (`Sound`), on there being none between two states (`Idle`), and on the row being
closed by the step that ends the run or left by a fault of its session. `OpenInv` adds these
(and `OrphanInv` that an orphan is the fault of its context); each way out of the loops (`NextSearch`,
`SearchError`, `PageError`, `Raise`, `Return`) has a lemma, and every action is one of them or
leaves the handle sound. `TypeOK` follows from `PlaceInv` (the place in the loops) and `ItemsInv`
(what the items are). Under the latter lie the lemmas about filters and counts: `ThoseFacts` unfolds
the recursion of `Those`, `CountJoined` counts a concatenation, and `DistinctFacts` says what
dropping repetitions keeps.

`WastedFetchesBounded` has two halves. `LateInv`: fetches with the budget spent are no more than
the tries of the page in progress and the cards of it already visited, because the head of the page
loop asks the budget and `TriesInv` resets the tries at each page, only inmuebles24 tries again, and
a page has at most `PageSize` cards to visit. `BlocksInv`: the counter of blocks
leaves out the first answer of each page, so a row of w blocked fetches of a search in which t
retries of the page are done is bounded by `w * Retries + t =< blocks * (Retries + 1)` (`Weight`,
`Worth`), and the counter stays below `BlockLimit`; `BlocksBound` turns that into the bound the
property states. That every search begins with a row of none needs that no later search has been
blocked (`Behind`).

`StoredAsRead` speaks of the end, and `StoreInv` of the way there: what a run without errors has
made of the pages is what it has stored or will yet store (`Out`: what scrape() returns to a worker,
the items of an infinite page) and the items of the page in hand (`OnPage`). For vivanuncios, which
hands over the tail of the search, `LastItemsHas` shows that the tail has every item of the page,
because a page has no more items than cards.

`ScrapeRunProofs` proves `Spec => []P` for `TypeOK`, `CleanFullRunIsStored`, `FullRunSeesAll` and
`IncrementalRunSeesNew`, for any runs, feeds, page sizes and stop limits. None is inductive: each
speaks of the end of a run. `PagingInv` says what holds on the way. What was online when the run
began and is neither seen nor known to the portal's store is still to come: on the page in hand, on
a later page of this search, or in a search not begun. Without an error, what the items of a call
have brought so far is in the call's transaction, and what earlier pages brought is in the table.
That a feed is only added to or loses listings, while its order stays, is what makes a listing move
to later pages and never to earlier ones; that a page with a new listing does not stop an
incremental run needs stop limits of at least one (`StopAssumption`; the code has 10 and 5).

`EtlPipelineProofs` proves all the invariants of its run: `CleanOnce`, `PricedIsClean`,
`ClustersAreWhole`, `ArchiveFresh` and `TypeOK`. `CleanInv` says that the clean rows a run will not
delete and that are about a listing it selected belong to a run it has overlapped, so that only two
runs under way together can add a second row; and that a rebuild brings back what it removes, but
for listings that have lost their price. `ArchiveInv` says that the archive is never ahead of the
table, that the rows a synchronisation has read are in the order of their listings and no newer than
the table, and that while synchronisations do not overlap, what is posted replaces nothing that is
newer.

For `ClustersAreWhole` the recursion of `FindDuplicates` is unfolded to its loop
(`FindDuplicatesLoops`), whose invariant is `Grouped`: after the k-th listing the clusters are
disjoint, each is built around one of the first k listings, and whoever is like a listing that
stayed alone is in the cluster of another. With `SameHomeSymmetric` that makes the rows of one run
whole (`RowsWhole`). `WholeInv` carries it on: the table, an export under way and what a rebuild is
about to delete hold of each completed run all of its rows or none (`Settled`). `TypedInv` bounds
prices and scores: `NormalizePrice` tests the price once it is in pesos (`PriceInBounds`), the two
scores are kept within 0 to 100 (`CompletenessInScale`, `QualityInScale`), and a synchronisation
counts no more errors than it has posted rows (`ErrorsCounted`). Prices are integers
(`PricesAssumption`).

`WorkPlansProofs` proves the refinement `Spec => LifecycleKept` and `Spec => []P` for `TypeOK`,
`RunningJobsAccounted`, `AssignmentIsFair` and `StatesCoveredOnce`. `PlanInv` says that plans the
cycle has not come to have no row (`CycleAtPlan`), that the phases have not begun before the last
plan (`PhaseFirst`), and that the status a request has read allows what it is about to write
(`RequestRead`); with it a write finds the status its writer read, and is a move of the life cycle,
or it does not, and is an overwriting; a statement that fails late is the same write with another end
(`WrittenLate`, `LateFailureRefines`). `JobsInv` says that a task is not sent before the cycle
reaches it, that a task in hand has its row, and that each fault leaves at most one row running.
`AssignedInv` ties plans to `Scout`: a plan is what follows from some visits of its portal, the
cycle changes nothing of it but the status, and what a worker covers comes from the message it was
sent. Under it lie the lemmas about `Scout`: the sort is a permutation (`StatesSorted`), the loads
of the workers count the states given (`LoadCounts`), the next state goes to a least loaded worker
(`LeastLoadedIsLeast`), giving keeps the split fair and disjoint (`GivenKeeps`), so that the greedy
loop ends with every state given once and evenly (`AssignShares`). `STATES` is a sequence without
repetition (`StatesAssumption`), thresholds are naturals, and an outcome of a scout is a visit for
each state.

`SupervisorProofs` proves `Spec => []OverridesAccounted` and `Spec => []AppliedIsInForce` for any
diagnoses and requests, thresholds, budget and bounds on faults, whatever lists of repairs the
analysis returns (`SuggestionsAssumption`: finite sequences of repairs). Both properties are about
rows that exist once a transaction has committed, so neither is inductive. `RepairInv` adds that
nothing is logged before the commit (`NothingLogged`); that what a diagnosis or a request carries
across its steps is fit to be written, with overrides in its snapshot that are accounted for and
automatic repairs only of selectors (`TasksReady`, `RequestsReady`); and that a diagnosis that is
about to commit an applied repair has flushed it and holds the row's lock (`FlushedBeforeCommit`),
which is why the repair it then logs is in the store. Steps that log nothing share `TaskMoves`;
`CommitRepairsKeeps` is where log and overrides become visible together.

`LeftRunningAccounted` counts rows left running against the faults before the `try` and in the handler.
`LeftInv` adds where each diagnosis stands (`RowFollows`): it has no row before it opens one and none
running when it is done; every step leaves no further row running or is a fault (`LeftByStep`).

It also proves `TypeOK` and `BudgetOvershoot`. A diagnosis checks the sum of the day's rows and adds
its own row only later, so the property follows from no single step. `BudgetInv` bounds what a day
has cost or may still cost (`May(k)`: the rows of the day and the diagnoses that have passed the
check) by the cap and the peak of those in flight together: a check that passes adds one to them, an
end turns one into a row or drops it, midnight carries over only those without a row. It needs
finitely many diagnoses (`DiagsAssumption`) and caps that are naturals (`ConfigsAssumption`); that
the highest cap exists is again a least counterexample (`HighestExists`).

Only model-checked: liveness (`DueIsLaunched`, `ShutdownCompletes`, `Recovery`, `RunEnds`,
`RunCloses`, `CycleAndTasksEnd`), which needs ENABLED and is out of the prover's reach.

## 5. Not modelled, and what is left

- Parsers (`scrapers/*/parser.py`, `http_parser.py`) and the tables of selectors: HTML to fields, without
  state. What can come out of a page is an input of `PortalPages`.
- One property type per run: the loop over property types only repeats an operation.
- `_rotate_session` of inmuebles24 is unreachable (its threshold is 999 pages), and
  `PropiedadesHttpScraper` is in no registry: neither is an action.
- The trackers of `create_tracker`, which no browser feeds; fingerprints, the resource filter, the
  proxy pool's choice of a session: I/O or random choices no property depends on.
- The counters of `upsert_raw_listings` after a rollback, which are reported too high; `run_count`.
- The schedule groups and the read-only endpoints of the API; users and audit; alerts (without a
  caller); the spot checker and the visual analysis (calls of an external service).
- The web applications, deployment scripts, settings and migrations.

What would come next: the counters of the store, and the choice of a proxy session.
