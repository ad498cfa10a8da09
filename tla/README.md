# QuantLineage in TLA+

This directory specifies the server side of QuantLineage (`backend/app`): how
risk runs are submitted, claimed, executed and recorded; how portfolios are
stored under optimistic versions; how threads share the QuantLib engine and its
cache; what the analytics compute of a book and a market, from the shock of one
mark to the firm-wide tree; and which data a run is computed on, when it is
submitted, executed and compared later. TLC checks the specifications on small
instances (`*.cfg`); TLAPS checks the theorems of the `*Proofs` modules for
every value of the constants.

    tlc -config compose.cfg MCRiskRunWorker.tla
    tlc -config analysis.cfg MCRiskPlatform.tla
    tlapm RiskRunLineageProofs.tla

## 1. The system

| Component | State it keeps | Operations | What makes it correct |
|---|---|---|---|
| RiskRun lifecycle (`services/risk_run_service.py`) | status, bound snapshot and result of each run | enqueue, start, bind_market_snapshot, complete, fail | only the edges of ALLOWED_TRANSITIONS; a snapshot is bound once; a result comes with COMPLETED and names the bound snapshot |
| RiskRun worker (`services/risk_run_worker.py`, `worker.py`, `main.py`) | a thread pool, caches of books and markets, the poll loop | submit, poll_once, _execute, shutdown, compare_runs | one executor per run; no run lost; every run ends; results are priced on what their headers say |
| RiskRun repository (`persistence/sqlalchemy_repos.py`) | `risk_runs`, `risk_results`, `market_snapshots` | create, set_status, claim_queued (SKIP LOCKED), add_result, save | transactions, row locks, UNIQUE constraints |
| Portfolio store (same file, `api/portfolio.py`) | `portfolios`, `trades` | create, update (compare-and-swap on version), save, get | no lost update, deleted positions disappear, whole writes |
| Pricing session and cache (`pricing/quantlib.py`, `pricing/cache.py`) | process-global QuantLib date and fixings, per-engine date, an LRU of valuations | value, _session | a price depends on its own request only; the cache is bounded and keyed soundly |
| Market, scenarios, memo (`domain/models.py`, `market/`, `risk/scenario*.py`) | a process-wide LRU of shocked snapshots, one of curves | bump, expand, apply, convert between four shapes, fingerprint | a request gets the snapshot of its own market and scenario; a shock moves the marks it names |
| Analytics (`risk/`, `services/portfolio_service.py`) | none: calculations of a book and a market | dashboard, VaR and ES, stress, reverse stress, what-if, limits, tree, drill-down, attribution, historical analytics | the slices of one answer agree; sums add up; bridges close; searches end at a minimal shock |
| Run specification and public history (`services/risk_factories.py`, `risk/historical_data.py`, `market/history/`) | history files and their sidecars, engines per process | fetch, align, freeze, resolve, build an engine | a run means later what it meant at submit |
| RiskRun comparison (`risk/risk_run_compare.py`) | none; reads rows and the worker's caches | compare_runs | compares what the two runs computed; what it cannot explain is disclosed |
| In-memory repositories, wiring, seed | dictionaries; boot-time inserts | as the SQL ones | the same contract in one process |
| Body and tree limits, query, tools, MCP, native kernel, HTTP/ACL, frontend | little or none | dispatch, I/O, translation | - |

The parts meet in the SQL store. The API process and each `app.worker` process
are separate operating-system processes: they share the rows of the store and
the files of the histories. Inside a process the pool threads and the request
threads share one `PortfolioService`, and through it the QuantLib engine,
guarded by `_QL_PROCESS_LOCK`, its cache of prices, and the scenario memo, each
guarded by a lock of its own.

Hard behaviours, all listed with their lines under `hazards` in PROJECT.json:
claims that race; a crash, an error or a lost acknowledgement between any two
transactions of a task; read-then-write transitions without row locks; a book
that is replaced between submit and execution; a graceful stop with tasks in
the pool; overlapping portfolio updates; QuantLib globals read outside the
lock; a memo that two threads fill at once, over two markets of one id;
calculations done twice in different modules (by the summary, the limits and
the tree, by the comparison and the what-if) that must give one number; shapes
of a scenario that lose something when they are converted; a history that is
frozen in two files, the second of them emptied before it is written, edited or
replaced while runs that use it are waiting; a session that fails between its
first assignment and its `try`.

## 2. Modules

| Module | Models |
|---|---|
| `RiskRunLifecycle` | the abstract specification: what a reader of a run's row and result sees |
| `RiskRunWorker` | API process, workers, pool threads and store; properties, fairness, refinement of `RiskRunLifecycle` |
| `RiskRunInvariant` | the inductive invariant `IInv` and the strengthening `LossInv` |
| `RiskRunWorkerProofs`, `RiskRunLineageProofs`, `RiskRunOutcomeProofs` | proofs: types and owners; market lineage and refinement; books and losses |
| `PortfolioStore`, `PortfolioStoreProofs` | the SQL statements of create, update and get on one portfolio; proofs |
| `PricingSession`, `PricingSessionProofs` | threads, engines, the process lock and the valuation cache; proofs |
| `MarketMarks` | the immutable snapshot, its typed bumps, the difference of two snapshots |
| `Scenarios` | the four shapes of a scenario, expansion, conversion, application, libraries, replays |
| `ScenarioMemo` | the memo's key, look-up, store and eviction; the key of the curve cache |
| `Curves` | selection and construction of yield curves, surfaces, volatility look-up |
| `Pricing` | the instrument families, the marks each needs, the built-in pricer, exposures, sensitivities |
| `Placement` | where a trade sits, sub-portfolios, what-if changes |
| `HistoricalVaR` | panels, the three methodologies, quantile and tail, component and factor contributions |
| `HistoricalAnalytics` | windows of a panel: wealth, drawdown, best and worst period, the SPY benchmark |
| `StressTests` | stress P&L, threat evaluation, comparisons, what-ifs |
| `ReverseStress` | the single- and multi-factor searches, as coroutines that ask for one evaluation at a time |
| `Hierarchy` | limits and their boundaries, the firm-to-trade tree, the drill-down |
| `Attribution` | P&L explain, risk-change bridge, the bridge between two runs |
| `RiskService`, `RiskServiceProofs` | requests on several threads around the shared memo; the analytics as their operations; properties; lemmas about the memo, what is served from it, and the searches |
| `PublicHistory` | the answers of two providers, retries, series, alignment, freezing, the snapshot of latest marks |
| `RunSpec` | names, paths and files of data sets, the engine built of one, resizing, resolution of a specification |
| `RunReplay`, `RunReplayProofs` | submit, resolve and build of runs while files are frozen and edited, books replaced, processes restarted; lemmas about histories and headers |
| `RunComparison` | binding two completed runs again and explaining the change |
| `RiskPlatform`, `RiskPlatformProofs` | `RiskService` and `RunComparison` side by side; their theorems |
| `MC*` | instances for TLC |

The analytics modules are pure: each EXTENDS the one it calculates with, in the
order of the table. `RiskService` gives them threads and the memo, `RunReplay`
gives them time and files. The two share definitions and no state (no request
reads a run, a history file or a stored snapshot, and the memo belongs to one
process), so their composition `RiskPlatform` is a choice of one or the other at
the start: its behaviours are those of the one and those of the other, and one
run checks both on one set of markets and books.

Operators named under "Fault" comments are deliberate bugs (a lock that is not
taken, a check that is dropped). No specification uses them: each is put in
the place of the definition it follows to see that a property notices.

### RiskRunWorker and the code

Every `session_scope` of the code is one transaction. Where it reads and then
writes with no lock in between, the model has a step for the read and one for
the commit, so another process may commit between them:

| Code | Actions |
|---|---|
| `submit` | `SubmitBook`, `SubmitEnqueue`, `SubmitSchedule` |
| `PUT /portfolios/{id}` | `UpdateBook` |
| `claim_queued`, `poll_once` | `ClaimSelect`, `ClaimCommit`, `ScheduleClaimed`, `PollError` |
| `worker.main` | `Stop`, `Drained` |
| `_execute` | `TakeUp`, `ReadHeader`, `StartRead`, `StartWrite`, `LoadRun`, `ReadMarket`, `InsertMarket`, `BindMarket`, `CompleteRead`, `FindResult`, `CompleteWrite`, `FailRead`, `FailWrite`, `ComputeRaises`, `DbError` |
| process death | `Crash` |

`pc[p][r]` is where process p stands with run r, from the request that submits
it to the pool thread that executes it. `locked[w]` are the row locks of an
open claim; a write to a row waits for them (`RowFree`). A commit takes `ack`:
FALSE is a commit whose acknowledgement is lost. A book is its version, a
market snapshot is its id, a result is the pair it was priced on.

Abstractions a reader should know:
- All runs are against one portfolio, and its updates are one at a time here;
  overlapping updates are the subject of `PortfolioStore`.
- `poll_once` checks the process's `_futures` for a task of the same run; a
  claimed run has none, since a process claims a row once.
- A portfolio or snapshot that is missing at execution is not modelled here:
  nothing in the repository deletes either (`RunReplay` has the snapshot that
  was never stored).
- `shutdown(wait=False)` of the API is not modelled apart from `Crash`.
- The response to a submit or an update is not part of the model.

### PricingSession and the code

A thread asks (`Ask`: a look at the cache), reads the session's date
(`ReadDate`), enters the session (`Enter`), has its handler seed fixings and
price (`Seed`, `Npv`, `HandlerRaises`), leaves (`Exit`, the `finally`) and
stores the price (`Put`). `depth` is `_QL_SESSION_DEPTH`.

`_session` raises its counter, sets the engine's date and only then makes the
`ql.Date`, all before its `try` (`quantlib.py:200-203`). A day before 1901 or
after 2199 is a calendar `as_of` and no `ql.Date` (`NoQlDates`), so the session
is not entered and its `finally` does not run (`EnterRaises`): the lock is given
back, the counter stays one too high, so that no session is the outermost again
and no fixings are cleared, and the engine keeps that day, so that its label
requests fail from then on. The docstring's "IndexManager histories are cleared
on the outermost session exit so one valuation cannot leave fixings for the
next" (`quantlib.py:168`) is not kept then, nor what
`test_quantlib_process_state.py:201` and `:213` test of good dates. The
properties say what does hold through it: QuantLib's own date is the initial
one between sessions; an answer of a dated request, and every entry of the
cache, is one item on one date with its own fixings at hand; and as long as no
entry has failed there is no other fixing, no counter and no date left.
(A handler overwrites the fixings it seeds, `quantlib.py:482`, so that its own
are right also where others lie about.)

### RiskService and the code

A request has resolved its market snapshot once, when its thread begins
(`Start`). `Plan` is the sequence of scenarios its operation applies, in the
code's order; each goes through the process-wide memo in two steps, `Look`
(under the lock) and, after a miss, `Store` (the calculation outside the lock,
then the put), and between them other threads run. A reverse-stress search asks
for one shock at a time and prices the book under it (`Price`) before it asks
for the next. `Answer` ends the request. An answer is kept as what it is
computed from (the request, the market, the snapshots served); `Result` is what
is sent. Everything between the memo's steps has no effect on other threads, so
it is one step.

Numbers are exact integers in scaled units, which each module names at its top:
a spot is a whole amount, a relative move a percent, a rate or volatility a
millionth, P&L a half-cent, a quantile a hundred times that, wealth a basis
point. A factor in the formulas that a small instance cannot keep exact
(an exponential, an option formula) is a CONSTANT operator, linear in the
instance: which marks it is given and what fails when one is missing are in the
model, the formula is not. Whatever may raise denotes a set: the one result, or
nothing.

The properties of an answer are action properties (`\A a \in Given : ...`): an
answer once given does not change, so it is examined in the step that gives it.

### RunReplay, RunComparison and the code

A deployment (`Services`) is an environment (a worker of its own or not, a
database or not, data mode, data-set variable, pinned path) and what may happen
in it. A history file is its rows and its sidecar; a frozen file's name is a
hash of its content, here the content itself. A run is submitted (`SubmitRun`:
the identity and configuration the header keeps), its specification is resolved
by the executor (`Resolve`), its engine built and the result computed
(`Build`). Around it: `WriteCsv`, `TruncateSidecar`, `WriteSidecar` and
`FreezeDies` (the freezing of a public history is two files), `EditFile`, `TakeSnapshot`, `ReplaceBook`,
`Restart` of either process. A sidecar is absent, whole, or `Torn`:
`write_sidecar` empties the file and then writes it (`TruncateSidecar`,
`WriteSidecar`), also over the sidecar of an equal history that is frozen
again, and the process may die in between. Whoever reads a torn sidecar has the
JSON decoder's exception, so a history with one cannot be loaded and a run of it
is FAILED with that error (`"sidecar"`, kept apart from the other reasons by
`DataError`). `AnswerComparison` binds two completed runs to a
book, a market and an engine again and explains the change. Queue, claims and
transactions are `RiskRunWorker`'s and are not repeated here.

The routes and the query tool refuse every heavy inline calculation, a
comparison included, in a deployment with an external worker
(`api/backpressure.py`): comparisons are modelled in one process only, and what
`RunsReplay` says of binding in a Compose deployment is about the functions.

## 3. Runs

| Run | Instance | Shows |
|---|---|---|
| `compose` | 2 runs, 2 workers, 1 thread each, batch 2, 1 error, 1 crash, SIGTERM to either; the calculation does not raise here (it does in the other runs) | `IInv` (the invariant of the proofs), `OneExecutor`, `NoSilentLoss`, `ResultBookNotOlder`, `RefinesLifecycle` |
| `mispaired` | 1 run, API and worker both execute, 1 replaced book, 1 error, 1 crash | `TypeOK`; `ApiBookIsHeaderBook`: what the API prices and keeps is the book the header names; `ResultMarketIsStored` holds even so, and `EndsOrAbandoned`: the run ends, or every process has dropped it |
| `compose_live` | 2 runs, 2 workers, one may be stopped, no errors | `EveryRunEnds` |
| `portfolio` | 3 requests, 2 trade ids | `TypeOK`, `SerialBook`, `SupersededTradesGone`, `WritesAreWhole`, `CreatedOnce` |
| `pricing` | 3 threads on 2 engines, 2 items, 2 dates and a day without a `ql.Date`, cache of 1, 3 valuations | `TypeOK`, `SessionRestored`, `DatedAnswersRight`, `CacheIsSound`, `EntriesStable` |
| `analysis` | every analytics request on one thread, scenario runs on another, 2 markets of one id, memo of 2; or runs and other events in seven deployments | the twenty properties below |

| Property of `analysis` | Says |
|---|---|
| `AnswersAreFresh` | what the memo served is what applying the scenario to the request's own market gives |
| `OnlyNamedMarksMove` | a served snapshot differs in the marks its scenario names, by the amounts it names |
| `ShapesAgree` | a scenario has one effect in its four shapes and in the library's template |
| `CurveCacheIsSound` | one cache entry, one curve |
| `ReverseIsMinimal`, `SearchesNarrow` | a search reports a shock no family of which can be smaller, and every evaluation leaves it less to do |
| `SlicesAgree` | the slices of one dashboard have one VaR, value and stress loss |
| `NodeIsItsBook` | every node of the tree, summed from artifacts, is its sub-portfolio priced alone |
| `AllocationsReconcile` | position, book, strategy, desk and factor contributions add up to one tail loss |
| `WhatIfIsTheTrade`, `HedgeIsWhatIf` | a what-if changes additive measures by the trades' own; a hedge comparison is a what-if with the opposite sign |
| `BridgesClose`, `LinearBooksExplained` | attributions leave nothing where nothing can be left |
| `DrilldownIsLimits` | a limit has one value and status from either side |
| `WindowsJoin` | adjoining windows make up their union; SPY is its own benchmark |
| `RunsReplay` | a run with a pinned history is executed on the panel its client was told of and explained on what it was executed on; it is refused for its data only while the sidecar is half-written |
| `MovesRebuildLevels` | a frozen history gives back the levels it was made of |
| `ComparesWhatRan` | a comparison's two ends are the two runs' own numbers, and in one process that has forgotten nothing it is not refused, if neither sidecar is half-written |
| `ResidualIsDisclosed` | what the stages leave is owed to something the report says differs (but for runs whose header names another methodology than they were computed with) |
| `PlatformTypeOK` | the memo is bounded and its keys distinct; a run has what the process keeps of it |

Six runs find a disagreement between the code and what it says of itself:

- `lineage`: in the Compose deployment the worker prices the book stored at
  claim time under a header that names the version of submit time
  (`ResultBookIsHeaderBook`); in-process the same property holds (a theorem).
- `snaprace`: two first executions insert the same market snapshot; the
  loser's run is FAILED although nothing is wrong (`HealthyRunsComplete`).
- `lost_update`: the version is compared in Python and the row written by id,
  so two overlapping updates of one version are both accepted
  (`AcceptedOncePerVersion`). The slower one may also set the version back.
- `label_date`: `value` reads `evaluation_date` before it takes the process
  lock; a request labelled `current` that meets another thread's session is
  priced on that session's date (`LabelPricedOnEngineDate`), and the cache may
  keep the price.
- `memo_tenor`: the memo's fingerprint of a rate shock has no tenor, so two
  key-rate shocks of one amount under one scenario id share an entry and the
  second request gets the first one's snapshot (`AnswersAreFresh`).
- `torn_sidecar`: a history is frozen again while a run of it is queued; the
  sidecar that is being written is empty, and the run, which names its history
  by id and content hash, is refused for its data (`PinnedRunsResolve`).

A seventh has no run: the session that cannot be entered, above.

In the `mispaired` deployment terminal states are not final: a transition
checked against a status read earlier may overwrite COMPLETED, and `add_result`
may replace a result. `worker.py` excludes that deployment, and the theorems
assume it away (`Exclusive`).

### Bounds

Two runs and two workers are the smallest instance in which a claim races a
claim, a batch holds a row behind another, and one run's insert meets
another's. One error and one crash suffice for every single-failure path; a
second one repeats the same steps on another row, and the theorems hold for
any number. `MaxVersion = 2` lets the book change once between any two steps.
Three requests give two overlapping writers and a third party that creates,
reads or writes between them. Three valuations give two threads that miss one
key and a third session whose date they may see; a cache of one entry makes
every second key evict. One day without a `ql.Date` is a session that fails
before, between or after two that do not, on the same engine or the other.
`PricingSession` calls a valuation that is under way
at the bound's end to completion, so no trace is cut short.

In `analysis` one thread may be given any of 56 requests: every
operation, on a book of a cash equity, an option, a bond and a forward, a book
of the six other families, books of one line, long and short; every search with
a target that is refused, met and out of reach; changes that undo each other
and changes that are refused. The other thread applies two of the same
scenarios, so that the first one's look-ups meet its stores. A memo of two
entries evicts within every request. The two markets have one id and one date
and different marks, curves and surfaces: the case a key of names would confuse.
`MaxIterations = 10` and magnitudes in whole percents let every bisection reach
its width of one. Two coordinate passes are one that changes something and one
that does not.

The seven deployments each have what they are for:
- `Demo`: the demo history in one process, with a file that is edited and a
  public history frozen meanwhile;
- `Public`: a worker of its own on the public mode, with two vintages of four
  and five days, one of them frozen already, and a book that is replaced;
- `Sized`: a process without a database, with a pinned file and histories of a
  length asked for;
- `Paired`, twice: two runs to compare, with a database and without;
- `Forgetful`: two runs in one process that restarts and whose book is replaced,
  in either order, before either is executed, explained or compared;
- `Refrozen`: two runs of a frozen history that is frozen again, once or after a
  freeze that died, before either is executed, explained or compared.

One run and three events, or two runs and one event (two in the last two
deployments), put an event between any two of submit, resolve, build and
compare. The providers'
answers have a missing yield, a repeated one, a retry that helps, and five
vintages that freeze nothing, each for another reason.

### Fairness and termination

`FairSpec` assumes weak fairness of each worker's main loop (`Poll`), of each
pool taking up a task (`TakeUp`), of each task's own steps (`Task`) and of the
request thread that has enqueued (`SubmitSchedule`): operating-system threads
that are runnable eventually run, a row lock that is waited for belongs to a
claim that commits or rolls back. Clients, updates, SIGTERM, errors, crashes
and exceptions are under no fairness. Weak fairness is enough because a task's
step, once enabled, is disabled only by its own process.

`RiskService` states none: nothing in a request waits for another thread, so a
request ends if its own steps do, and what could go on for ever is a search.
`SearchesNarrow` is the measure that says it does not: what is left of a search
is a list of five natural numbers (its phase, the passes left, the families
left in this one, whether a family is still to be dropped, the width of the
bracket), and each evaluation makes it less in lexicographic order. That is an
action property, so it is proved and not only checked.
`RunReplay`'s runs end by `RiskRunWorker`'s argument.

The instances of `RiskRunWorker`, `PortfolioStore` and `PricingSession` stop
when their bounded inputs are used up (`Quiet`, `AllAnswered`); these steps
stutter, so TLC's deadlock check stays on and finds any state in which something
is waiting for ever. `RiskService` and `RunReplay` have no waiting at all, and
stop where every thread has answered or every event has happened; their
configurations turn the check off.

## 4. Theorems

The proofs about `RiskRunWorker` are for arbitrary finite `Runs`, arbitrary
`Workers`, any batch and pool size and any number of errors and crashes, under
`ConstantsAssumption`; those about `PortfolioStore` for any finite set of
requests and any trades and versions, under `StoreAssumption`; those about
`PricingSession` for any threads, engines and items and any size of the cache,
under `SessionAssumption` and `PriceAssumption`; those about `RiskPlatform` for
any threads, requests, markets and size of the memo, and any deployments,
vintages, books and number of runs and events, under the assumptions below.

| Theorem | Statement |
|---|---|
| `TypeCorrect` | `Spec => []TypeOK` |
| `OneExecutorAlways` | `Exclusive` implies `Spec => []OneExecutor` |
| `InvariantAlways` | `Exclusive` implies `Spec => []IInv` |
| `ResultMarketAlways` | `Exclusive` implies `Spec => []ResultMarketIsStored` |
| `WorkerRefinesLifecycle` | `Exclusive` implies `Spec => RefinesLifecycle` |
| `NoSilentLossAlways` | `Exclusive` implies `Spec => []NoSilentLoss` |
| `ResultBookNeverOlder` | `Exclusive` implies `Spec => []ResultBookNotOlder` |
| `ApiBookAlways` | `Spec => []ApiBookIsHeaderBook`, whatever the deployment |
| `InProcessBookIsHeaderBook` | `Workers = {}` implies `Spec => []ResultBookIsHeaderBook` |
| `StoreTypeCorrect`, `ReplacedTradesStayGone`, `WritesAlwaysWhole`, `AlwaysCreatedOnce`, `SerialBookAlways` | every property of the run `portfolio`, `Spec => []P` each |
| `PricingTypeCorrect`, `SessionAlwaysRestored`, `DatedAnswersAlwaysRight`, `CacheAlwaysSound`, `EntriesAlwaysStable` | every property of the run `pricing` |
| `PlatformTypes` | `PlatformSpec => []PlatformTypeOK` |
| `RunsAreReplayed` | `PlatformSpec => []RunsReplay` |
| `HistoriesRebuild` | `WholeMoves` implies `PlatformSpec => []MovesRebuildLevels` |
| `ComparisonsReadRuns` | `PlatformSpec => ReadsWhatRan` |
| `AnswersStayFresh` | `KeysTellApart` implies `PlatformSpec => AnswersAreFresh` |
| `SearchesEnd` | `PlatformSpec => SearchesNarrow` |

`Exclusive` is the deployment rule of `worker.py`: the API only enqueues, or
there is no other process that executes.

`OneExecutor` is not inductive: that a second process cannot take a run
depends on the status of its row, and the status depends on where the owner
stands. `IInv` says both. `ClaimInv`: a claim holds QUEUED rows, and what it
committed and has not scheduled is RUNNING. `TaskInv`: for every place of a
task, the status its row may have. `PoolInv`: the pool's queue holds waiting
tasks, each once. `OwnerInv`: one process, in one way. `LineageInv`: the
market on its way from the header over the thread to the result. Every step
of a thread has the same frame (`TaskShape`): it moves its own run only, and
writes no other row; so the proofs treat each action once for its own run and
once, together, for all the others. `LossInv` adds that before the first error
a failing thread's run is RUNNING and no run in progress lacks an owner.
`BookInv` follows a book as `LineageInv` follows a market: what a process
caches for a run, what its thread binds and what the result names lie between
the header's version and the stored one. Without workers they are the header's
own: the submitter's copy stays cached until the task ends. `ApiInv` says the
latter of the submitting process alone, and needs neither owners nor claims: no
other process touches its copy, so `ApiBookAlways` holds of `mispaired` too. The
refinement needs `LineageInv`: that a bind finds no snapshot bound, and that a
complete finds no result.

`StoreInv` has two halves. However requests overlap: a trade that somebody has
read was written by a request that has committed (`SeenInv`), so what an update
drops from the rows it read can only be put back by its writer, which is done;
and once anything is committed the header is there (`CreatedInv`). While they
do not overlap: at most one request is open, and what it has read is still what
is stored (`Position`), which is why its commit adds one version to the latest.
`WritesAreWhole` and `SupersededTradesGone` need no serial history and hold
with lost updates too; `SerialBook` is exactly what a lost update breaks.

`PricingInv` follows a price from the lock to the caller. `LockInv`: who is in
a session holds the lock, so only one is. `SessionInv`: in it, every global is
at the session's date, which QuantLib has, and what will be put back is
QuantLib's initial date and for the engine its own or a day a failed entry left
(`Resting`); outside of it they are that already. The counter is the sign of a
failed entry: while every engine rests on its own date it is zero outside of a
session and one inside, and a session that begins with it at zero begins without
fixings; a counter too high (`Miscounted`) stays so. `DateInv`: a dated request's session is on its
date. Hence what `Npv` computes is right (`PriceInv`), and stays so through the
cache (`CacheInv`), whose hits reorder entries and whose puts add one under a
key it does not hold (`TouchShape`, `PutShape`: the lemmas on the sequences).
A label's request has no such chain: `DateInv` says nothing of it, and
`label_date` shows what then happens.

`ReplayInv` is the chain from the files to an explanation. It speaks of the disk
as it will be when every sidecar that was begun is written (`Mended`): the
content of a torn one is known from the file's name. What can be loaded and
built from the disk as it is, is what the mended disk gives, or nothing while
the sidecar of that file is torn (`LoadsMended`, `BuildsMended`, `SpecsMended`;
`ReadableAsMended` for a file that is not), so emptying a sidecar and dying
before it is written change nothing the invariant says. `DiskInv`: frozen files
carry their own names, the order file names those there are, and a freeze
between its two files finds the one it wrote. `Anchored`: a content version
in a header or an engine names a frozen file with its sidecar, and both stay,
because nothing deletes a file, only the freezer writes under a content's name,
and writing there again writes what is there. `EngineInv`, of the engine a
process has: when its data is pinned, building from the name of the data gives
the same engine; when it is not, the data is the newest or a path's. `Reproduces`,
of a header: building from its identity and configuration gives the engine its
client was told of (`chosen`), whichever process does it and however much later.
`Executes` ties the book and the market of an execution to the header's. The
invariant does not mention the moment of submission: what was resolved then is
resolved again at execution and at comparison, from the disk of that moment.
A step on the disk (`WriteCsv`, `TruncateSidecar`, `WriteSidecar`, `EditFile`)
preserves what builds succeed and with what, which is most of `RunReplayProofs`:
that an edited file is never a frozen one, that reading a frozen file depends
on its own content only, and that the newest file (the one in the order file's
last place that is there) matters only to runs that are not pinned.

It assumes of a deployment, and nothing in the code checks it:
- `FilesAssumption`: at the start frozen files are as the freezer leaves them,
  with their own sidecar, whole or half-written, or none, and the order file
  names exactly them; files that are edited are one's own and not in the
  freezer's place. (`freeze.py` refuses to overwrite and writes a sidecar of the
  version it has just written.)
- `NamesAssumption`, `FileOK`: a path is not the name of a data set. (A path has
  a directory or a suffix, the names of `_DATASET_SOURCE_BY_ID` have neither.)
- `SnapshotsAssumption`: a stored snapshot is stored under its own id, and the
  market of the moment has an id of its own. (The demo snapshot's id and the
  public snapshots' `wave-a:...` do not meet.)
- `VintagesAssumption`: a provider's answer is a list of days and whole amounts,
  or gaps, in any order and with any repeats. `RequestsAssumption`,
  `ConfigAssumption`, `HistoriesAssumption`: books are a sequence, a seed is a
  number or absent, a length a natural number or absent.

TLC evaluates each on the deployments of `analysis`.

`HistoriesRebuild` needs of `ReplayInv` only that what a freeze holds between
its two writes is something `freeze_public_history` makes (`DiskInv`); the rest
is about that function, whatever the providers answer. `InOrderDays`: the days
all series have, put in order by how many are before each, are a list without a
hole (the count is an injection of a finite set into as many numbers, hence
onto them). `PointsTyped` and `SeriesTyped`: a series that was fetched, valued
and matched to its mapping has whole levels on days, a price in its unit, and
quality makes prices positive. `StepBack`: a move leads from a level to the
next. `RebuiltFrom`: levels that follow from one another are what the recursive
function gives, by the least day at which they would differ. The hypothesis
`WholeMoves` is owed to the model's units and not to the code: a return is a
whole percent here and a float there, so a price of 100 that becomes 100.5 has
a move the model cannot write. Where moves are whole, nothing is rounded and a
rebuilt level that is off is a move taken between the wrong days. The providers
of `analysis` satisfy it (`MCRiskPlatform` states it).

`ComparisonsReadRuns` carries `ReplayInv` to the answer of a comparison.
`PairOfEngines`: when two specifications differ, each run has the engine its
header gives; when they do not, the one engine is both runs'. `BoundAsRan`: all
that `bound_runs` gives is the two runs with their own book, market and history,
or nothing. `EndsOfReport` and `NumberOfRun`: the two ends of a report are the
runs' own numbers, kept by a summary or a tree and computed anew for the rest.
`ReadsWhatRan` is the part of `ComparesWhatRan` that does not depend on what is
computed, for every headline metric in place of one. That a result has one number,
and that explaining it succeeds, is about `calculate` and the stages of a bridge
and stays with TLC; so does that a number is never Python's `None`, which
`ReadsWhatRan` has as a hypothesis and of which the run `analysis` has no exception.

`ServiceInv` and `FreshInv` are about the memo between two steps of a request.
`MemoInv`: it is within its size and its keys are distinct, though the
look-up and the store of one request are not one step (`MemoPut` looks again).
`CallInv`: a request that is about to store has a scenario left to apply.
`EntryFresh`: an entry holds, for every request that could ask for it, what that
request would compute. `Served`: what a request has been handed so far is what
its own scenarios make of its own market. An entry is fresh when it is stored
because its key determines the market and the shocks, which is the hypothesis
`KeysTellApart`: markets with one id and the same marks are one, scenarios with
one id and one fingerprint have the same shocks, and no scenario has a search's
id. It is a fact about the requests, not about the code, and it is all that is
missing: `memo_tenor` has two scenarios of one id whose shocks differ in a tenor
only, which the fingerprint drops, and the property fails. On the instance of
`analysis` it holds (`MCRiskPlatform` states it). `PlanAssumption` says that a
request's scenarios are a list of the three shapes there are.

`SearchesEnd` rests on `Searching`: a search that is not done has a family to
go on with, is at a point whose magnitudes are natural numbers for exactly its
families, holds its bracket the right way round, and has not used up its
passes. The bracket matters most: a midpoint lies strictly between its ends
only while they are two apart, so a bisection narrows or stops (`BisectedGoes`),
and dropping a family opens a bracket from nothing to where it stands, which
may be wider than the last but comes later in the order. Where a search begins,
the recursive function that keeps each family once must return a list of
exactly the families named, and the largest weight must be one of the weights
(`UniqueIsOfNames`, `WeightsAreCounts`: by the least place at which either would
fail). `SearchAssumption` says what a request is: its bounds and weights are
whole numbers, and each family has a weight, as it has once the solver has
filled in the default.

Only model-checked: liveness, which is out of the prover's reach, and what the
analytics compute. These are sums over sequences: what a fold or a
recursive operator computes of every input needs induction over data, which the
installed provers cannot do. (Where a proof needs the least element of a set of
numbers, it takes it from well-foundedness, as for the first valid row of a
series.)

## 5. What a reader of the code should know

Seen while modelling; none is a property of a run. Each is in the model as the
code does it, but for the split of tree paths.

Scenarios and pricing:
- `scenario_to_stress` (`scenario_model.py`, `scenarios.py`) keeps neither the
  tenor of a rate shock, nor two shocks of one factor, nor an equity and an FX
  volatility of one name; `ShapesAgree` asks it only of scenarios without them.
- Factors are compared by their key, which has no tenor: exposures' difference
  and factor isolation put the tenors of one currency together. A bond of a
  quarter of a year names the pillar "0Y".
- Bump-and-revalue vegas move flat volatilities; a surface stays.
- The curve cache's key sorts the names of a currency's curves
  (`curve_cache.py:36`), the selection takes the first in the dictionary's order
  (`curve_rates.py:57`). In the model a dictionary has one fixed order of its
  names; `CurveCacheIsSound` is about snapshots that shocks make of one another,
  which keep theirs.
- A search's "smallest" shock is one only if the loss grows with the shock.
  With unequal weights the ray of the multi-factor search may end short of the
  bounds that were found to suffice, and it reports `converged=False`.

VaR, the tree and comparisons:
- Contributions to the expected shortfall "sum exactly" (`es.py:3-5`) to the
  mean tail loss; the shortfall reported is at least the VaR, which is at least
  zero, and differs from that sum when the tail gains.
- In the tree a node's `key_rate_dv01` is the absolute parallel DV01, in the
  limits slice it is the largest key rate's; a FULL_REVALUATION tree has VaR 0.
- A hierarchy run is of the engine's methodology, whatever its header says; its
  comparison with a LINEAR header has a residual no identity field discloses
  (`ResidualIsDisclosed` excepts it).
- A comparison groups tree rows by their path split on "/"
  (`risk_run_compare.py:407`), so a name with a slash is filed under another
  desk. `ChangeTree` groups by the resolved labels, which is the same for names
  without one; only the firm's own row enters the bridge. The metric "stress" is always refused, since submit never
  sets a scenario set.

Histories:
- The CSV of a frozen history is published before its sidecar: an engine built
  between the two calls it `file:<path>/v1`, and runs that name it fail closed
  once the sidecar is there. Such a run is not pinned, and `RunsReplay` says
  nothing of it. An empty sidecar, on the other hand, refuses every reader.
- A source may be named `synthetic`, `rng` or `random`, and not by the id the
  synthetic history gives itself (`historical_data.py:518`).
- A data set named by its path has no content version: an edited file keeps
  its name (`Pinned` leaves such runs out of `RunsReplay`).
- With both `QUANTLINEAGE_PUBLIC_HISTORY_CSV` and `_DIR` set, a history is
  frozen beside the one and looked for in the other. The deployments here set
  one at most.
- With a database an unknown `market_snapshot_id` is refused at submit; without
  one it is kept and the run fails when it is executed.
- `_completed_portfolios` and `_completed_markets` are never emptied: memory
  grows with the runs, no state goes wrong.

## 6. Not modelled

The reasons stand beside each component in PROJECT.json. In short:
- Floating point. The models are exact, so rounding, overflow to infinity and
  NaN checks are outside, and so are annualized returns, volatilities and
  Sharpe ratios, and the numbers of QuantLib.
- Historical full revaluations go through the memo in the code; here they are
  applied without it. `AnswersAreFresh` says the memo makes no difference.
- In historical analytics the benchmark is held in whole shares, and the choice
  of another data set by name is `RunSpec`'s.
- A file is its rows and kind: parsing of numbers, dates and headers, and the
  payload shapes of the two providers, are left out.
- Of the in-memory repositories, claims and the scenario and limit definitions
  (`RunReplay` has their runs, results and snapshots).
- Seeds and migrations, body and tree limits, text queries and their tools, HTTP
  translation and ACL, the native kernel, and the browser.

## 7. Plan

1. Proofs: that shocks keep the names of a snapshot's curves, through the memo
   too, and with it that one entry of the curve cache is one curve.
2. The in-memory store as a second implementation of `RiskRunLifecycle`.
3. `PortfolioStore` composed with submit and claim: the lineage of a run under
   torn reads.
4. The body cap and tree walk of `api/workload.py`.
