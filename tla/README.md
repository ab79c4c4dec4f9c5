# Formal verification of Shiden

TLA+ modules, TLC configurations and TLAPS proofs about Shiden, the energy
market data API of this repository. Paths below are relative to the repository;
`shiden/…` stands for `src/shiden/…`. `PROJECT.json` holds the details in
machine-readable form: the source lines each definition models (`map`), the
runs, the findings, the hazards with the properties that cover them, and the
theorems.

1. [The system](#1-the-system)
2. [What is modelled, and where](#2-what-is-modelled-and-where)
3. [The runs and what they show](#3-the-runs-and-what-they-show)
4. [Disagreements between code and documentation](#4-disagreements-between-code-and-documentation)
5. [The proofs](#5-the-proofs)
6. [What is not modelled, and why](#6-what-is-not-modelled-and-why)
7. [Plan](#7-plan)

## 1. The system

```
OPCOM BNR ECB ENTSO-E Open-Meteo
   |   (ingestion: HTTP, retries)
landing zone (files)
   |   (processing/bronze: parse, append only what is new)
Bronze  (Delta: observations, stamped with ingested_at)
   |   (processing/silver: dimensions, exchange rates, facts; MERGE)
Silver  (Delta: star schema)
   |   (processing/gold: replaceWhere on a date range)
Gold    (Delta: hourly prices and generation, battery signals)
   |   (gold/reader over delta-rs)
FastAPI <- API keys, rate limit, metering (SQLite, one in-memory limiter)
```

A scheduler process (`scheduler/runner.py`, six cron jobs) and a command-line
backfill (`backfill.py`) drive the upper part, each in a process of its own; the
API is a third process with a threadpool; the key-management command line is a
fourth. They share the landing files, the Delta tables and the SQLite store, and
nothing keeps one out while another works.

| Component | State it keeps | Operations | What is hard about it | What makes it correct |
|---|---|---|---|---|
| OPCOM ingestion (`ingestion/opcom.py`) | one CSV per delivery day; a report per call | walk a range, skip, fetch, save | a failed day must not stop the walk; a write can be cut short; reruns | the report accounts for every day; a rerun harms nothing and a refetch repairs; readers get what the usable files say |
| FX, ENTSO-E, weather ingestion (`bnr.py`, `ecb.py`, `entsoe.py`, `weather.py`) | XML and JSON files, BNR's sidecars | fetch, skip what is saved or not, write day by day, with different error policies | two files written one after the other; one failure aborts a batch; midnight between two files | what a source said reaches Bronze, with its type and URL; a saved rate stays |
| HTTP retry (`ingestion/http.py`, `_call_with_retry`) | the attempt count | GET with back-off | which errors are final | a run ends; a late attempt that succeeds loses nothing |
| Bronze tables (`processing/bronze`, `delta_io.py`) | append-only observations | stamp, parse, anti-join with the table, append or create | the comparison uses a snapshot; two writers; a table created by two runs | nothing lost, nothing stored twice, readers get the newest observation |
| Dimensions (`silver/dimensions`) | surrogate ids, calendar | read, number, MERGE | ids are computed from a snapshot; a failed read looks like "nothing there" | ids are unique and never change |
| Exchange rates (`silver/exchange_rates.py`) | one rate per currency and day | reconcile BNR and ECB, fill forward | precedence when a read fails | an official rate is never displaced |
| Facts (`silver/fact_*.py`) | MERGE tables keyed by dimension ids | window, join, look up, average, MERGE | inner joins drop days without dimension rows; lookups may be stale; UTC windows against local days | a row keeps the type it was written for; an hour averages all its readings and no other |
| Gold (`processing/gold`) | tables partitioned by market and date | aggregate, replace a range of dates | replacing a window must not withdraw what is served | served days stay served |
| Scheduler (`scheduler/`) | none of its own | six jobs, `_run_safe` per step | missed jobs, failed steps, jobs that overlap or pass midnight | one undisturbed day repairs the days before it |
| Backfill (`backfill.py`) | none of its own | stages, month chunks | aborts at the first failing processor | rerunning completes it |
| API keys (`api/auth/store.py`, `cli.py`) | SQLite: `api_keys`, `usage_events` | issue, look up, revoke, touch, record | revocation while requests are in flight; locks held too long | a revoked key reads nothing |
| Request path (`auth/dependencies.py`, `middleware.py`, routers) | `request.state` | authenticate, limit, entitle, handle, meter | metering reads what checks attached before they rejected | an event is charged to the right key, market and status |
| Rate limiter (`auth/ratelimit.py`) | a deque of times per key | check | the clock is read outside the lock | the window holds the limit, a denial is justified |
| Time axis (`timeaxis.py`, `dim_datetime.py`) | none | UTC grid, local labels | days of 92, 96 and 100 quarter-hours; labels that occur twice | every interval occurs once and can be told apart |
| Battery signals (`gold_bess_signals.py`, `routers/bess.py`) | ranks and windows of a day | rank, assign, group | ties, short days | charge and discharge never overlap |

## 2. What is modelled, and where

Each module says at its head which code it translates. Definitions called
*faulty variant* in a comment belong to no specification: each is a plausible
bug in the definition that follows it, and replacing the definition by it makes
TLC find a named property violated (`mutants` in `PROJECT.json`). They are the
evidence that no property holds vacuously.

```
DeltaIO <-- BronzeObservations --> ObservationHistory (refined)
        <-- ProductionTypeIds      TimeAxis <-- HourlyFacts <--+
        <-- DailyIngest            BessSignals <---------------+-- DeliveryDay --> DeltaIO
        <-- Backfill --> ExchangeRates
OpcomIngest   PricePipeline   RateLimiter   ApiGateway         (`<--`: used by)
```

**`DeltaIO`** holds the write patterns of `processing/delta_io.py` as operators
on the value of a table: `NewRows` (the null-safe anti-join), `AppendRows`,
`InitialWrite` (overwrite), `MergeUpsert`, `LatestRows`
(`deduplicate_latest`). A Delta commit is atomic, so each is used within one
action; reading the snapshot it is computed from is another.

**`BronzeObservations`** is the life of a Bronze writer's run, the same in all
five writers: `StartRun` stamps the run, `ReadFile` parses the landing files one
by one while ingestion (`Land`) may rewrite them, `FindTable` is the
`isDeltaTable` test, then `CreateTable`, or `LoadExisting` and `AppendBatch`.
`Fail` ends a run anywhere. Any number of writers interleave. The history
variable `overlaps` notes whether two runs were ever under way at once, and
whether the table existed then; promises that hold only while runs take turns are
conditioned on it and say so. The actions do not read it.
**`ObservationHistory`** is the abstract promise to readers: a growing set of
values per key, and a current one, the value first observed most recently.
`ImplementsHistory` states that Bronze refines it.
A key is one landing file and a value all it says, so the several rows of a file
and their columns are one row here.

**`ProductionTypeIds`** is `dim_production_type.py` and the part of
`fact_generation.py` that labels rows. A processor is a process that runs the
Silver step: it reads the Bronze types (an exception reads as the empty set),
reads the ids assigned so far, numbers the new types in alphabetical order after
the greatest id, MERGEs, reads the dimension again as a lookup, MERGEs facts.
The steps of processors interleave, and each may fail. A type is a number, which
stands for its alphabetical position. The history variable `overlapped` plays
the part `overlaps` plays above.

**`OpcomIngest`** is `OpcomIngester.ingest` day by day, from both of its callers
(the daily job and the backfill), with the file system made visible where it
matters: `OpenFile` and `CloseFile` are the two halves of `write_text`, between
which a kill or an I/O error leaves a truncated file. OPCOM may answer with a body
of any number of interval rows (`SaveBody`), and none but an empty one is a
failure, as in `_fetch_day`: an error page or a header alone has 0 rows and counts
as fetched. `RunBronze` takes the files of its window whose interval count passes
for a quarter-hourly day, 92 to 100, and drops the others, as the code does with a
line in the log. A file is the version it was fetched from, the rows of its body
and the rows on disk; that its last row may itself be cut within a number is
abstracted away, and an hourly export is a body of too few rows. Calls do not
overlap in this module (Bronze overlaps are the subject of `BronzeObservations`).

**`DailyIngest`** is the other three jobs that bring data in: exchange rates,
ENTSO-E and weather. A job is a sequence of legs under `_run_safe`, a leg a
sequence of requests, writes and Bronze loads (`Legs` is read off
`scheduler/jobs.py` and the four ingesters). One action is one attempt of one
request (`Answer`, `Retry`, `FetchFails`, `AnswerShapeless`), one `write_text`
(`WriteFile`, and `WriteSidecar` for BNR) or one Bronze writer. The ingesters
differ in what they do about failures, and the model keeps the differences: BNR
goes on without a body it cannot get, the others raise; BNR and ECB keep a file
that exists and ask again for its day all the same, ENTSO-E and weather write
again; weather decides between `REALIZED` and `FORECAST` by the clock at each
write, so midnight (`NextDay`) may come between two of its files. Sources publish
and revise between runs; a kill or a write that raises may cut a file short
anywhere. What a source says of a day is a revision number.

**`ExchangeRates`** is `reconcile_and_fill` as a walk over the days that carries
the last rate along, with the lookback that seeds it; a rate is the source and
day it was published for.
**`Backfill`** runs it where it is run: in the Silver stage of `backfill.py`, in
month chunks, and in the daily Silver job. A backfill goes through landing,
Bronze, Silver and Gold for any sources and range, ends at the first exception
(`FailStep`) and turns its failure count into an exit code; a daily job goes on
with its next step. Of the landing files of OPCOM, `unusable` are those that Bronze drops:
days of `Flawed` may be answered with such a body (`SaveOpcom`), and a kill may cut
a file short; both count as files for the next run. Tables are functions on
days, and a price row is the rate it was converted with, so that the rate can be followed to Gold.

**`PricePipeline`** puts the jobs that carry prices on the calendar of
`scheduler/runner.py`: OPCOM at 14:00, Silver at 20:00, Gold at 21:00, each a
sequence of steps under `_run_safe`, each with its own window relative to the day
it started on. Jobs can be missed, overlap, last beyond midnight and be killed;
every step can fail, and the ingestion can save some days and not others. A table
is the set of delivery days it has rows for.

**`TimeAxis`**, **`HourlyFacts`** and **`BessSignals`** are pure operators:
`timeaxis.py` with `with_local_keys`; the window, trim, hourly grouping and MERGE
rows of `fact_generation`, `fact_load` and `fact_weather` and the pivot of
`gold_generation_hourly.py`; the ranking of battery signals, by window functions
(`Signal`) and once more in Python (`AssignSignals`), and the grouping of
`routers/bess.py`. Values that are averaged or summed are kept as the set of
readings that enter them, so a property can say which readings those are.
**`DeliveryDay`** is the state machine over them: runs apply the eight processors
of Silver and Gold in the scheduler's order to a range of local days around a
change of the clock, readings arrive late, and `Serve` is what the API then
answers. Which row `F.first` picks, and in which order `sort_values` leaves equal
keys, is nondeterministic.

**`RateLimiter`** is `SlidingWindowLimiter.check` for one key: `ReadClock`
outside the lock, `Allow` or `Deny` under it. How many attempts can be between
the two is chosen in the initial state, `threads`.

**`ApiGateway`** follows requests through `require_api_key`,
`require_market_access`, the handler and the metering middleware, one action per
access to shared state, concurrently with `IssueKey`, `Revoke`, faults of SQLite
and `Restart`. The limiter is reduced to the number of live hits per key (the
detail is in `RateLimiter`); `Expire` lets one go at any time. A handler
succeeds, reports an error or raises. A path below `/v1` that no route matches is
answered 404 without a look at its key (`NotFound`), and metered.

| Module | State in the code |
|---|---|
| `BronzeObservations` | `landing`: files; `table`: the Delta table; `stamp`, `batch`, `existing`: the local variables `ingested_at`, `rows`, `existing` of a run |
| `ProductionTypeIds` | `bronzeTypes`: distinct types in Bronze; `dim`, `facts`: Silver tables; `seenTypes`, `seenIds`: `bronze_types` and `existing_ids`, later the cached lookup |
| `OpcomIngest` | `file`: landing zone; `bronze`; `run`, `cursor`, `report`: arguments, loop variable and `IngestReport` of a call |
| `DailyIngest` | `files`, `sidecars`: landing zone; `table`: Bronze; `run`: the leg, step and attempt under way, `present` (`already_present`) and `got` (the fetched bodies); `today`: the clock; `published`: the sources |
| `Backfill` | one set of days or function on days per landing zone and table, `unusable` a part of OPCOM's landing zone; `run`: arguments, stage, chunk, step, failure count; `published`: the sources |
| `PricePipeline` | `today`, `slot`: the scheduler's clock; `job`: what runs and since which day; one set of days per layer |
| `DeliveryDay` | `opcom`, `readings`: Bronze; `dims`, `prices`, `facts`: Silver; `priceHourly`, `generationHourly`, `signals`: Gold; `zone`, `slots`, `rated`: configuration; `run`: range and step; `answer`: the API's last answer |
| `RateLimiter` | `deque`: the deque; `now`, `retry`: local variables of each call |
| `ApiGateway` | `keys`, `lastUsed`, `usage`: SQLite; `hits`: limiter; `identity`, `market`: `request.state`; `sent`: the request, and (history) the state of its key when it was sent |

## 3. The runs and what they show

All passing runs are exhaustive for their bounds.

| Run | Bounds | Shows |
|---|---|---|
| `type_ids` | 2 processors, 3 types of which 1 canonical | `IdsUnique`, `FactsKeepTheirType` and `IdsStayInTurn` while runs take turns, through failed reads, failed steps and types discovered in any order; `CanonicalFactsHold` also when runs overlap |
| `bronze` | 2 writers, 3 runs, 2 files, 2 values | `NoDuplicateObservations`, `NewRevisionBecomesCurrent`, `ImplementsHistory` while runs take turns; `HistoryPreserved` and `BatchRecorded` also when they overlap on a table that exists; `ReadIsDeterministic` always |
| `bronze_reverted` | the same | violates `ReaderRecoversCurrentState` (section 4) |
| `opcom_ingest` | 2 days, 2 versions, lookback 1, bodies of 0 or 96 rows, truncation to 60 or 93 rows | the report accounts for each day passed and fetched days have all of their body on disk (`ReportHolds`), resuming harms no file (`ResumeKeepsFiles`), refetching repairs truncated ones (`RefetchRepairs`); after a run readers get each row of each file of its window that passes, from the publication in that file, whichever run saved it, and lose no row of an older publication beyond a short file's last (`RunServesFiles`) |
| `daily_ingest` | 2 days of jobs, windows of 1 day back and 1 ahead, 2 attempts, 2 locations, 1 revision, 1 kill or failed write, New Year after day 1 | what sources published in the window of a run is in Bronze at its end, whatever failed elsewhere or before, and cut files of ENTSO-E and weather are repaired (`DeliveryHolds`); URLs are true (`SourceUrlTrue`); a saved rate stays and a day is not called `REALIZED` early (`FilesStayTrue`); every run ends (`EveryRunEnds`) |
| `backfill` | 5 days in 3 months, the last of them today; lookback 1, 6 command lines, unusable bodies for 2 days, 2 runs | the rates of a chunk are those of the last day with one, across chunk edges (`RatesReconciled`); chunks already passed are done (`ChunksHold`); a run without fault serves its range (`CleanRunServes`); after exit code 0 of a full run each day is served or has a file that Bronze cannot use (`ExitZeroServes`); no run takes a rate or price away (`RowsStay`) |
| `price_pipeline` | 5 days, lookback 2 | an undisturbed day repairs the window before it, outages shorter than the lookback leave no hole (`RepairHolds`), served days stay served (`ServedStaysServed`) |
| `delivery_day` | 2 days of 3 hours of 2 intervals, 6 zones, 2 prices, up to 2 prices missing, 2 slot counts, 2 runs | every instant of a local day has one label of its own, and the peak block its numbers (`AxisIsSound`); hourly prices keep the two passes of a repeated hour apart (`HoursKeptApart`); the two rankings agree, also on ties and short days (`SignalsAgree`); answers are in the order of time, windows hold each slot once and are longest runs (`WindowsAreRuns`); facts average all readings, late ones included (`FactsMatchBronze`); columns add up to totals (`GenerationAddsUp`); a run changes only its dates (`OnlyItsDates`) |
| `facts_window` | the same | violates `RunCoversItsRange` (section 4) |
| `generation_autumn` | the same | violates `SourcesAddUp` (section 4) |
| `rate_limiter` | 5 attempts, limit 2, window 4 ticks, 9 ticks, 1 or 2 threads | the window is exact for one thread and the overrun below the number of threads otherwise, the deque is bounded (`WindowHolds`); `DeniedOnlyWhenFull`, `RetryAfterSuffices` |
| `api_gateway` | 2 requests, 2 keys with different plans, paths with a market, without one and without a route, limit 1 | events name the key, market and status they should, and anonymous requests cost nobody (`EventsHold`); a revoked key reads nothing (`RevocationHolds`); `AnswersMetered`; last use, usage and quota belong to the same key (`AdmissionsAccounted`); under fairness `EveryRequestAnswered` |

A property named `...Holds`, `AxisIsSound` or `FilesStayTrue` is the conjunction
of the named parts defined next to it, the type invariant of its module among
them.

**Why these bounds.** Two processes are the smallest number that overlap, and
every overlap promise is about a pair; the proofs show it for any number. Three
runs let two overlap and a third follow, or an A, B, A sequence of revisions happen. Two files allow a run to see one before and one after a change.
Three types, one canonical, leave two discovered ones that can swap their order.
Two days make one of them the day before, in or after the range of a run; with two
versions a day is fetched before and after a correction, and the two truncations
are one that Bronze drops and one that passes for the short day of spring.
Five days with a lookback of 2 hold an outage of the whole lookback with a served
day before and a clean day after it. Limit 2, window 4 and horizon 9 hold two
disjoint windows and a hit at either boundary; five attempts overfill both.
Two requests and a limit of 1 make one of them the first above the limit.

In `daily_ingest` two attempts (the code has three) are a failure that is retried
and one that is the last; two days let a run meet what an earlier one left, on
either side of a New Year, when BNR has two archives to ask; two locations let
one spoil the other's batch. In `backfill` days 1 to 5 are three months; day 3, the
first of a month, has no rate of its own, day 1 has only ECB's, day 4 both, day 5,
which is today, none; OPCOM lacks day 4, for which it may send an error page, may
send day 3 without most of its rows, and day 1 lies before the quarter-hourly
transition. One command line ends today, as `--to` allows: the daily jobs end
yesterday. In
`delivery_day` a day of three hours of two intervals has one hour before the
change, the changed hour and one after; zones are at standard or summer time or
change on day 1 or 2, in either direction, an hour after midnight as in Romania;
all prices of day 1 over two values contain every pattern of ties, and three
charge plus three discharge slots are more than such a day has.

**Bounds by name.** `MaxRuns`, `MaxRevisions`, `MaxKills`, `MaxVersion`,
`MaxPrice`, `MaxMissing`, `LastDay`, `Horizon` (the clock), `ThreadPool`
(threads). In `Backfill`, `LastDay` is the last day a range may end on; `--to` has
no limit in the code, so it is not tied to `Today`. `Attempts` and `Requests` are finite: each is used once. Where prices
vary, `DeliveryDay!StartRun` allows one run, of day 1: prices are not revised
there (revisions are the subject of `BronzeObservations`). `Zones`, `Slots`,
`Gaps`, `Commands`, `Publications`, `Flawed`, `Bodies` and
`Truncations` are small sets of the values that configuration, command line,
sources and interrupted writes can have.

**Symmetry** is used for writers, processors, files, values and attempts, where
the specification treats them alike, and not in the runs that check liveness.
Types are not symmetric: they are ordered by name.

**Deadlock** is checked in the runs of `type_ids`, `bronze` and `opcom_ingest`.
The other models stop when their days, runs, ticks or requests are used up, and
their cfg says so.

**Fairness.** `ApiGateway!FairSpec` assumes weak fairness of each request's own
steps: the event loop and the threadpool run every request they accepted, and
each store call returns or raises (SQLite's busy timeout bounds the wait).
`DailyIngest!Spec` assumes weak fairness of the steps of the job under way: every
HTTP request has a timeout, so each attempt ends. Nothing obliges a source to
publish, a job to start, a process to be killed, a client, an operator or the
expiry of hits to act, and no other specification states fairness.

## 4. Disagreements between code and documentation

Each is the counterexample of one run; `findings` quotes the lines.

- **`bronze_reverted`**. A source publishes A, corrects it to B and goes back to
  A. The anti-join compares with every row ever stored, finds A and drops it;
  readers get B from then on. `delta_io.py` promises that readers recover the
  current state.
- **`facts_window`**. The fact processors mean to widen their UTC window by four
  hours to the left, but `start` is a date and subtracting hours from a date does
  nothing. The readings between local and UTC midnight of the first day of a run
  are not read. Daily runs heal it from the day before; the first day of each
  month chunk of a backfill stays without the facts of its first local hours.
- **`generation_autumn`**. `gold_generation_hourly` groups by local date and
  time, which the two passes of the repeated hour share: `total_mw` sums both,
  each source column shows one of them. `HoursKeptApart` holds for
  `gold_price_hourly`, which groups by instant.

The modules state more such sentences, each marked `REFUTED`: TLC finds the
violation when the definition takes the place of the properties of the named run.

- `ProductionTypeIds!IdsNeverReassigned` (`type_ids`). The docstring of
  `_read_existing_ids` promises that an id is never reassigned. Two overlapping
  Silver runs that read the ids before either MERGEs give one new name two ids in
  turn, and rows written in between keep one that means something else. Nothing
  locks the Silver step, and a backfill next to the scheduler is a documented use.
- `BronzeObservations!ObservationsNeverLost` (`bronze`). Two first runs that both
  find no Bronze table overwrite one another's batch; `delta_io.py` calls Bronze
  append-only and says that the full history is preserved. `HistoryPreserved` is
  what remains, on the condition `TableFoundOnce`.
- `OpcomIngest!RerunLeavesNoGap` (`opcom_ingest`). `skip_existing` asks whether a
  file exists. A run killed inside `write_text` leaves a truncated file that each
  rerun skips and no report names; `operations.md` promises that interrupted runs
  continue where they stopped. `--refetch` repairs it (`RefetchRepairs`). Files of
  BNR and ECB are kept in the same way, and have no `--refetch`.
- `Backfill!ExitZeroComplete` (`backfill`). `_fetch_day` refuses an empty body only.
  An error page, a body cut short or an hourly export is saved, counts as fetched
  and adds nothing to the failures; Bronze skips or rejects the day with a line in
  the log (`bronze/opcom.py:151-157`, `171-183`, `232-236`, `307-333`), later runs
  skip its file. The backfill prints "Backfill complete." and exits with 0, and the
  day is not served, although the README of the repository says that days OPCOM
  will not serve are collected and reported at the end. `ExitZeroServes` is what
  the exit code is worth: each day is served or has such a file. The same goes for
  a file that a kill cut short.
- `Backfill!AuthoritativeRateKept` (`backfill`). A read of BNR's Bronze table that
  raises is logged and reads as a table without rates, and the MERGE then replaces
  official rates by ECB's or by older ones carried forward, until the next good
  run; `exchange_rates.py` calls ECB a fallback for dates BNR is missing.
- `ApiGateway!RejectedHaveNoKey` (`api_gateway`). `middleware.py:6-9` says that
  rejected requests are recorded with a null key and names 401 and 403.
  `require_market_access` raises a 403 after `require_api_key` has attached the
  identity (`dependencies.py:118`, `149-151`), so it is recorded with the key and
  the market it was refused. `EventsHold` states what is recorded: no key for a 401
  and for a path without a route, the key for a 429 and a 403. A path without a route is a
  404 with a null key even if a valid key was sent.
- `ApiGateway!EveryV1RequestRecorded` (`api_gateway`). A request whose handler or
  key lookup raises is answered 500 and leaves no usage event; `middleware.py`
  says every request is recorded.
- `RateLimiter!WindowWithinLimit` (`rate_limiter`). Two threads that read the
  clock in one order and get the lock in the other let more than the limit
  through, although the module says the window is exact with one worker.
- `DeliveryDay!WindowsAreConsecutive` (`delivery_day`). On the day of the autumn
  changeover the slots of the API are sorted by a clock that repeats, so the slots
  of the two passes of an hour mix and a window need not be contiguous; `bess.py`
  says that it covers consecutive slots. `WindowsAreRuns` is what remains.

`PricePipeline!OneWeekRepairsItself` is refuted as well (`price_pipeline`), but no
document promises it. The OPCOM window reaches D-7 to D0, those of Silver and Gold
D-7 to D-1. After exactly seven missed days the last day before the outage,
ingested on its own day and due in Silver on the next, is just outside the window
of the first good run and is never served. `jobs.py` says that one week of
downtime repairs itself of the OPCOM job, where it is true; of what is served it
is true of one day less (`ShortOutagesHeal`).

One disagreement needs a history that the model does not keep. The weather
ingester reads the clock for every file it writes: a forecast that was asked for
before midnight and is written after it is saved as `REALIZED`, "actual weather
occurred", until the next run writes that day again. The scheduler starts the job
at 06:00, so only a run by hand meets this; `FilesStayTrue` speaks of runs in which
midnight does not pass.

Conditions in the properties mark limits that no document contradicts: the promises
conditioned on `Serial` or `~ overlapped` fail once runs overlap; a request that
has passed its key lookup when the key is revoked is still answered
(`RevocationHolds` is about requests sent later); an OPCOM file cut short after row
92 passes for a short day, and until it is fetched whole readers have its rows
followed by those of the publication loaded before it, or by none
(`RunServesFiles`); of BNR's own rates in a run in which one of its requests failed
nothing is promised (`DeliveryHolds`), a failed request being no failure to it; a
run that died between BNR's XML file and its sidecar leaves the fallback URL
(`SourceUrlTrue`); an hour in which only discovered types were measured has no row
in `gold/generation_hourly`, whose joins start from the canonical ones
(`GenerationAddsUp`).

## 5. The proofs

TLAPS proves the following for every value of the constants that satisfies the
`ASSUME`s of the modules: any number of days, writers, processors, files, keys,
requests, attempts and runs, any set of command lines and of publications. What
is assumed of the constants:

- numbers are natural numbers, and positive where the code has a literal or a
  range that is (lookbacks, limits, the sliding window);
- the values that stand for "none" (`NoValue`, `NoFile`, `NoKey`, `NoMarket`,
  `Anonymous`) are none of the values they stand beside, and neither is `Unrouted`;
- `ProductionTypeIds`: types are a finite set of numbers; the canonical ids are
  distinct and drawn from 1 to the number of canonical types, of which there is
  one at least (the literal `_CANONICAL`);
- `ApiGateway`: an execution has finitely many requests (any number of them);
- `OpcomIngest`: bodies and truncated files have any numbers of rows;
- `DailyIngest`: the market has at least one weather location, as the one in
  `markets.py` has, and no location has the name of another feed;
- `DeliveryDay`: the market lies east of Greenwich, the clock of its zone changes
  at most once in the days of the model, on the hour and before the peak block of
  the day (`Europe/Bucharest` of `markets.py`); the peak block lies within the day;
  slot counts are natural numbers;
- `Backfill`: command lines have the options of the parser, their dates, the
  ends of months and the days with an unusable body are days of the model, and so
  is yesterday.

| Module | Theorem | Establishes |
|---|---|---|
| `BronzeObservationsProofs` | `TypeCorrect` | `TypeOK` |
| | `AppendOnly` | `HistoryPreserved` |
| | `NoGrowth` | `NoDuplicateObservations` |
| | `DeterministicRead` | `ReadIsDeterministic` |
| | `BatchesRecorded` | `BatchRecorded` |
| | `RevisionsBecomeCurrent` | `NewRevisionBecomesCurrent` |
| | `Implements` | `ImplementsHistory`: the refinement of `ObservationHistory` |
| `ProductionTypeIdsProofs` | `TypeCorrect` | `TypeOK` |
| | `UniqueIds` | `IdsUnique` |
| | `FactLabels` | `FactsKeepTheirType` |
| | `CanonicalLabels` | `CanonicalFactsHold` |
| | `StableIds` | `IdsStayInTurn` |
| `BackfillProofs` | `ChunkRatesAreOfficial` | `RatesReconciled` |
| | `PassedChunksStayDone` | `ChunksHold` |
| | `CleanRunsServe` | `CleanRunServes` |
| | `ExitZeroMeansServed` | `ExitZeroServes` |
| | `RowsAreNeverLost` | `RowsStay` |
| `OpcomIngestProofs` | `ReportIsTrue` | `ReportHolds` |
| | `ResumeHarmsNothing` | `ResumeKeepsFiles` |
| | `RefetchLeavesWhole` | `RefetchRepairs` |
| | `ReadersGetTheFiles` | `RunServesFiles` |
| `DailyIngestProofs` | `RunsDeliver` | `DeliveryHolds` |
| | `UrlsStayTrue` | `SourceUrlTrue` |
| | `WritesStayTrue` | `FilesStayTrue` |
| `PricePipelineProofs` | `LookbackRepairs` | `RepairHolds` |
| | `GoldNeverForgets` | `ServedStaysServed` |
| `ApiProofs` | `LimitHolds` | `WindowHolds` of `RateLimiter` |
| | `DenialsAreDeserved` | `DeniedOnlyWhenFull` |
| | `WaitingIsEnough` | `RetryAfterSuffices` |
| | `UsageIsChargedRight` | `EventsHold` of `ApiGateway` |
| | `RevokedKeysAreRefused` | `RevocationHolds` |
| | `AnswersAreMeteredOnce` | `AnswersMetered` |
| | `AdmissionsBelongToTheirKey` | `AdmissionsAccounted` |
| `DeliveryDayProofs` | `AxisSound` | `AxisIsSound` |
| | `HoursApart` | `HoursKeptApart` |
| | `SignalsRight` | `SignalsAgree` |
| | `WindowsRight` | `WindowsAreRuns` |
| | `FactsCurrent` | `FactsMatchBronze` |
| | `GenerationSums` | `GenerationAddsUp` |
| | `DatesKept` | `OnlyItsDates` |

Every module's invariant is its `IInv`: the type invariant, the named parts told
below, and `Inductive` (or the corresponding theorem) shows `Spec => []IInv` from
one lemma per action. Each `IInv` was first model-checked on the bounds of the
module's run. The `TypeOK` of the first two modules are proved and therefore in
no run; the others are conjuncts of the `...Holds` properties and of `AxisIsSound`.

In the first two modules no theorem assumes that processes take turns. Whether
they have is recorded by the history variables and enters as the condition of the
properties, so the invariants must also survive the steps of overlapping runs.

**Bronze.** None of the properties is inductive: an append is computed from a
batch, a stamp and a snapshot taken earlier. The inductive invariant adds what
they are at every moment. `BatchesFormed`: a batch belongs to its run, its rows
carry the run's stamp and at most one value per file. `StampsApart`: stamps of
runs under way are distinct, below the clock, and on no row of the table yet.
`OneRowPerKeyAndRun`: two rows of a key with one stamp are one row, from
which `ReadIsDeterministic` follows by comparing stamps. `TableFound`: unless runs overlapped on no table, one
that is about to create the table finds it still missing, one that is about to
append has a snapshot that is part of the table, and two runs under way have a
table. `InTurn`: while runs take turns, the snapshot
is the table and the stamp of the run under way is the newest. With these an
append adds exactly the missing values and they are the newest of their keys. For
the refinement, `HasLatest` shows that a key with rows has a newest one, so the
`CHOOSE` in `CurrentValue` picks it; every step then maps to `Record`, to
`OutOfTurn` or to a stutter.

**Production types.** `UniqueIds` needs what numbering guarantees for one
snapshot: `BuildRows` keeps the ids of the table it was given, numbers new types
apart from one another and beyond all used ids. That rests on the lemma that two
distinct new types have different numbers of new types before them in
alphabetical order, a fact about finite cardinalities. The invariant adds
`TablesAssigned` (the dimension, and every snapshot of it, gives canonical types
their fixed id and other types an id outside the canonical range; this half holds
however runs overlap, and gives `CanonicalFactsHold` by way of `FactsAssigned`)
and `InTurn` (while runs take turns there is one run under way, its snapshot is
the dimension, ids are distinct, and every fact carries the id its name has).

**Backfill.** Which rates a chunk must have when the pointer has passed it depends
on what Silver's first steps wrote before the pointer went back for prices, and on
the loads of Bronze before that. So the invariant has one part per step of the
program, each a promise that the step made and no later step breaks:
`LandingDone`, `BronzeDone`, `DimsDone`, `RatesDone`, `PricesDone`, `HourlyDone`.
They carry the failures of the run so far in their conditions: a backfill ends at
its first exception and can be trusted to have done what it passed, a daily job
goes on and is trusted only if it logged nothing (`Trusted`). `TablesAgree` relates
the tables whatever failed: a price has a rate only if its day has one, Gold has
only what Silver has. `RunInOrder` keeps stage, chunk and step of a run together,
and bounds its failures. What `ReconcileAndFill` computes is proved from its
recursive function: `WalkCarries` shows that no day is the first at which the loop
and the definition of the rate that counts could differ, and `FillForward` states
the result. `ChunkEnds` and `AdvanceMoves` are the facts about chunks: one lies
within the range, and the next begins on the day after it. `RowsAreNeverLost`
needs that every write merges, or replaces rows of Gold by those of a table that
has at least these days.

**OPCOM ingestion.** `ReportAccounts` (days before the cursor are fetched, skipped
or failed, each once), `FetchedStaysWhole` (what the report calls fetched is whole
on disk also before the call ends) and `SkippedOnRequest` hold together with
`CursorInRange`, by which the file being written is that of the cursor. `ResumeKeepsFiles` and
`RefetchRepairs` follow from these and the action in question. `RunServesFiles` says
which publication readers get, and needs `VersionsInOrder`: the file of a day with
rows in Bronze is there and not older than they are, so the rows that a run takes
from it are the newest, whichever run fetched it.

**Daily ingestion.** The promise is about the end of a run and its reasons lie at
every step before. The invariant follows a feed through the run, each part under
the condition that nothing the feed depends on has failed: `FetchedDone` (once it
has been asked for, what its source has published is in the bodies or on disk),
`WrittenDone` (a write step that is behind has left every file as it should be),
`LoadedDone` (a load step that is behind has left every row). Three lemmas about
the legs, proved from the lists of `jobs.py` for any number of locations, connect
them: `FetchBeforeWrite`, `BronzeAfterWrite` and `EveryFeedLoaded`, that is, no
day a leg works on is left out by the windows of the legs behind it. `SharedFate`
is why `_run_safe` may leave a leg early: every later step of it is about a feed
that depends on the one that failed. That a second run skips what the first one
saved is harmless because of `PresentTrue` and `PresentThere` (the dates found at
the start of a leg are those that have a file, until it is written) and
`KeptOpen` (what was fetched for other dates has none). `BnrInOrder` carries the
three BNR requests: after the archives of both years only the day published last
may be missing, and then the daily file has it. For the sidecars,
`SidecarPending` says that between a rate's file and its sidecar no row of that
day is in Bronze; then `UrlsTrue` holds across a kill between the two.
`WholeFilesSay`, `PublishedInBounds`, `GotFits` and `RunFits` are what the others
need of the values.

**Price pipeline.** `GoldFromSilver` (a served day is a day of Silver: hence
replacing a window of Gold withdraws nothing) needs `GoldHasOneStep` alone. The
repair promise speaks of the end of a day in which nothing failed; the invariant
says what such a day has established while it lasts. `OneJobAtATime`: on a day
that is undisturbed so far only the job started last can be running, and it runs
for today. `WindowHandedOn`: each step that has run left the whole window in its
table. `ShortOutagesHeal` then follows from `CleanDaysCover`: after outages
shorter than the lookback, every earlier day lies in the window of a clean one.

**Rate limiter.** `StampsArePast`, `PoolBounded`, `HitsAreAllowed` and
`OneThreadInOrder` relate stamps, clock and deque. They do not bound a window
whose hits have been popped, possible as soon as calls overlap. `WindowsCovered`
does: either all allowed calls of a window are in the deque, which the limit
bounds, or the window is over and its *contenders*, allowed or still under way,
are fewer than the limit plus the threads; a call that joins a window later
cannot be a new contender. That an admission adds one, and that pruning cuts a
prefix, are facts about finite cardinalities and `SubSeq`.

**Request path.** `identity` is attached once and used up to five steps later, while
keys are revoked and the process restarts. `IdentityIsSent` says whose key it is,
`OnItsWay` which fields are set at which step, `AnswerExplained` what each status
tells of the way taken, `UsageCopies` that an event repeats its request's fields,
`RevokedIsRefused` that a request sent with a revoked key stays nobody's.
`LastUseEarned` and `PassingTouches` tie last uses to requests that passed the
limiter, in both directions, and `QuotaIsSpentByOwner`, a property itself, needs
that the spenders of a key only become more. The theorems are about `Spec`, which
`FairSpec` of the run implies.

**Delivery day.** The proof has three layers. The first is the clock. A zone
changes its offset once; from that follow the lemmas that everything else rests
on: a local day begins at one midnight and is an interval of instants
(`MidnightIsFirst`, `DayInstantsAre`), the instants of one UTC hour share one
label (`HourHasOneLabel`), two instants of a day with the same label lie in the
two passes of the repeated hour (`LabelsDiffer`, `RepeatedHour`), and without one
labels grow with time (`ClockGoesForward`). `PeakBlock` is why the peak block is
numbered 33-80, 29-76 or 37-84: the change is over before it begins. `AxisSound`
needs no more.

The second is the invariant. What a Gold table holds is a consequence of labels
that Silver gave to rows steps or runs earlier, so `PricesLabelled` and
`FactsLabelled` say that every row of a fact table has the label of its own
instant. `FactsBuilt` is `FactsMatchBronze` for each fact table from the step on
that builds it, as long as the run lasts: late readings may arrive only between
runs, and the later steps of the run merge into other tables. `GenerationAddsUp`
is inductive with these. `PricesOnce` says what the price and signal tables are
at each step of the one run that has prices. `DatesKept` follows from the labels:
facts are keyed by instant, an instant has one date, and a run brings rows of its
dates only.

The third is ranks. `RanksAre` states for any strict total order of a finite set
that the number of elements below is a bijection to 0..n-1; row_number of Spark,
the stable sort of Python and `sort_values` are three uses of it. `RanksOfSpark`
and `SameSignals` show that both rankings of the battery signals are the position
in one order, by price and then by time, and `RanksBetween` counts the marked
slots. For the windows, a least-counterexample argument shows that a group
started at a change of the signal ends at the next one (`GroupGoesOn`), that each
row is in a group (`GroupOfRow`) and groups do not overlap (`GroupsApart`);
`ServedIsLast` shows that the tables an answer was taken from do not change any more.

**Data.** The library's induction theorems need an operator as a parameter, which
the provers cannot instantiate. Where a proof needs induction over numbers (the
walk of `reconcile_and_fill`, the minimum of a finite set) it takes the least
counterexample of a well-founded order instead (`WFMin`).

Strings that occur as values have no blanks in them: the SMT encoding of the
prover does not accept those.

**Only model-checked.** Liveness and `ENABLED` are out of the prover's reach, so
`EveryRequestAnswered` and `EveryRunEnds` stay with TLC. Every invariant and
every action property of the passing runs is proved.

## 6. What is not modelled, and why

- **Wording, formats and secrets**: log lines, CSV and XML syntax, HTTP URLs, the
  form and hash of API keys. They are payload; the models keep whether a file
  parses and whether a key is known.
- **Spark, Delta Lake, SQLite, APScheduler**: modelled as their callers use them
  (atomic commits, snapshot reads, transactions, cron slots with a grace time).
  Delta's own conflict detection is not: an append never conflicts with an append,
  and the code sets no isolation level. MERGE conflicts raise, which is the failure
  of a step in `ProductionTypeIds`.
- **`fetch()` and `stop_on_error`** of the OPCOM ingester: nothing in the product
  calls the one or sets the other.
- **`SlidingWindowLimiter.reset`**: called by tests only. Keys are never removed
  from the limiter's dictionary; their number is bounded by the keys issued.
- **`/health`, and the key tool's `list` and `usage`**: reads. So are the
  generation and weather routers, which rename columns.
- **`dim_date`, `dim_location`, `dim_market`**: rewritten from the calendar and
  from configuration; no history, and nothing joins `dim_date`.
- **Energy categories, megawatts and price averages**: data that no modelled
  property tells apart. `renewable_mw` and its like are sums of the form of
  `total_mw` over fewer types.
- **Waiting times of retries**, and the pauses between requests.
- **Rejected arguments and `--dry-run`** of the backfill do nothing.
- **Configuration, schemas, the Spark session**: literals, which appear as
  constants.
- **`notebooks`, `swarm`, `swarmforge`, `tasks`**: development tooling.

## 7. Plan

All modules of section 2 are written, and every safety property of the runs is
proved. What could follow:

| Extension | What it would add |
|---|---|
| several currencies, several markets | `Backfill` and `DeliveryDay` have one of each, as the configuration has |
| revisions of prices between runs of `DeliveryDay` | the runs there have the prices of one day once; revisions are the subject of `BronzeObservations` |
| MERGE conflicts of Delta | a step that raises, as it does in `ProductionTypeIds`, in the other modules too |
