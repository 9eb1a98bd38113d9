# Pokus: a verification project for the backend

Pokus collects the opening prices of the instruments listed on three exchanges
(NYSE, NASDAQ, PSE), decides for each exchange and trading day whether the data
is complete and correct enough, and publishes it to an app. The code is
`src/Project/src/pokus_backend`. This directory holds TLA+ models of it, the TLC
configurations that check them, and TLAPS proofs about them.

Sections: [the system](#the-system) (inventory), [the modules](#the-modules),
[the runs](#the-runs), [fairness](#fairness), [the proofs](#the-proofs),
[where the code and its documents disagree](#where-the-code-and-its-documents-disagree),
[the plan](#the-plan), [what is not modelled](#what-is-not-modelled).

## The system

Two kinds of process share one PostgreSQL database (READ COMMITTED; the tests use
SQLite): an API process with a thread for each request, and a worker executable
that runs either as a daemon, one tick after the other, or as a command (trust
loop, universe loader, validation run, source probes, priority recomputation).
Processes talk only through tables, and the source probes also through files. A
command opens one session and commits once, at its end; a process that dies
leaves nothing behind in the database.

| Component | State | Operations | What is hard | What makes it correct | Module |
|---|---|---|---|---|---|
| Opening-load scheduler (`jobs/opening_load_scheduler.py`) | `load_jobs`, `exchange_day_load` | one pass over the launch-active exchanges | two schedulers at once, unique indexes, savepoints, a retry that cannot succeed, a job left without a load | one active job, one load, no deadlock, truthful report, every day eventually scheduled | `OpeningLoadScheduler` |
| Outcomes, quality, publication (`jobs/opening_load_outcomes.py`) | outcome rows and the summary columns of a load, quality check, publication record | record an outcome, refresh the aggregate, evaluate correctness, decide the publication | columns derived from rows and denominators of different ages; boundary cases (no instrument, 5 percent, 99 percent) | summaries agree with rows; ready only when every gate is met | `OpeningLoadRules`, `OpeningLoad` |
| Trust loop (`jobs/opening_runtime_trust_loop.py`, `worker.py`) | the same tables, in one transaction | schedule, count, record, validate, decide, commit | prices and listings change between its statements; it dies and is rerun; one exchange's error; a second loop | sound, complete, idempotent publication; every run ends | `OpeningTrustLoop`, `TrustLoopRace` |
| Load job states (`jobs/load_job.py`, `jobs/state_transitions.py`) | `load_jobs.state` | transitions between seven states | table, terminal set and partial index are written apart | they agree on which jobs are over | `LoadJobLifecycle` |
| Read models (`jobs/opening_read_model_refresh.py`) | two dictionaries in the process | refresh after each decision | refreshed before the commit, private to a process | never show what is not published | `AppReadPath` |
| App read paths (`discovery/app_*.py`) | none | readiness, prices | fallback to the database, two sessions, the latest day | committed readiness, complete prices, days that do not go back | `AppReadPath` |
| Operator table (`discovery/operator_opening_load_table.py`) | none | one joined read | columns of different ages side by side | a row shows why it is blocked | `OperatorLoadTable` |
| Opening-load worker, price selection (`jobs/opening_load_worker.py`, `pricing/`) | candidates, provider attempts, price records | audit, persist, rank, select, overwrite | replays, an adapter's answer that fits nothing, ties | the best candidate, for the reason given; the same call again changes nothing | `OpeningPriceSelection` |
| Reliability scores (`pricing/reliability_scores.py`) | score, count, last window | fold a window into the score | rounding at every step, replays | a mean stays between its windows | `ReliabilityScore` |
| Discovery, universe loader (`discovery/combined_loader.py`, `persistence.py`, `source_registry.py`) | listings, names, identifiers | ask the sources in turn, persist their candidates | sources overwrite each other; identifiers move; a run is aborted | change records explain the tables | `UniverseLoader` |
| Supported universe (`discovery/supported_universe.py`, `universe_change_events.py`) | supported state per listing, change records | project a run's listings | listings that leave and return, a scope that moves | the universe is what the sources reported | `UniverseLoader` |
| Exchange priority (`discovery/exchange_priority.py`, `ranking.py`) | rank and score per exchange | recompute; rank listings | statements see different prices; commands overlap | the listing of the more active exchange wins | `ExchangePriority` |
| HTTP API, authentication (`api.py`, `auth.py`) | the error counter | route, authorise, serve | threads | only an admin changes the scope | `ApiRequests` |
| Scope administration (`admin/scope_config.py`) | `is_launch_active` | set exchanges, set types | two requests at once; changes while ticks and loaders run | an undisturbed request gets what it asked for | `ApiRequests` |
| Validation runs and metrics (`validation/run_orchestrator.py`, `*_metrics.py`, `concrete_provider_runtime.py`) | run, exchange reports, attempts, candidates | create or resume, fetch, four metrics, verdicts | re-entry by key, an error inside a transaction, other jobs' rows | a recorded run is final; success means fetched | `ValidationRun` |
| Source probes (`validation/live_source_probe_runner.py`, `source_probes/`, `combined_source_classification.py`) | validation records, a file per family, the role matrix | probe, classify, upsert, write, derive | one source of many fails; runs overlap; files and transactions part | what is reported is recorded; nothing unavailable is selectable | `SourceProbeRules`, `SourceProbeRun` |
| Calendars (`calendars/service.py`) | none | is a date a trading day | holiday arithmetic | closed exactly on week-ends and holidays | `TradingCalendar` |
| Health (`observability/health.py`, `metrics.py`) | heartbeats, gauges | beat, report | staleness bounds against the daemon's rhythm, outages | a dead daemon is reported, a live one is not | `PlatformHealth` |
| Settings, engine, migrations, baseline (`db.py`, `settings.py`, `domain/reference_baseline.py`) | - | configure, seed | - | the constraints hold | seeding in `UniverseLoader`, constraints where inserts meet them |

`PROJECT.json` has the same list with the source files and the state of each, and
the hazards of the code at their lines, with the properties that watch them.

## The modules

### The opening load

**`OpeningLoadRules`** - the decision rules as pure operators: classification of
an instrument's evidence (`Classify`), the sets of succeeded, failed and terminal
rows, the aggregate status, the terminal and coverage gates, the correctness
result, the publication decision. An outcome row is represented by its
`outcome_class`; `outcome`, `is_terminal` and `failure_reason` are always written
with it from the same classification. Coverage and mismatch percentages are
compared without division (`100 * n > 99 * d`).

**`OpeningLoad`** - one load (an exchange and a day), one action per library call:
`RecordOutcome` (`upsert_opening_load_outcome` with the aggregate refresh it ends
in), `EvaluateCorrectness`, `DecidePublication` (with the read-model refresh),
`CountEligible` (the denominator), and around them `ChangeUniverse` and
`PersistPrice`. The calls come in any order; the clock a caller passes may run
backwards. The variables are the columns; `counted` is the set whose size is
`eligible_instrument_count`, kept as a set so that properties can say which
instruments were counted.

**`OpeningTrustLoop`** - the program's use of those rules. `tx` is what the
command's transaction sees of the tables it writes, `db` what is committed.
`StartRun` creates missing loads and selects those to process; `OpenLoad`,
`ProcessListing` (one price lookup and upsert each), `DecideLoad` and
`ProcessClosed` are the loop's body, in the code's order of exchange codes and
listing ids; `Commit` is the one commit of `worker.py`. `Crash` may happen
anywhere and `AbortOnConstraint` is the uncaught `IntegrityError` of a rejected
quality check: both roll back. Prices and the universe change between any two
statements, as READ COMMITTED lets them. `quiet`, `settled` and `scope` are
history variables used only by properties. Counters and times are left to
`OpeningLoad`.

**`ExchangePublication`** - the abstract specification of what readers are
promised: a table of publication statuses that changes in atomic batches, shows a
load as ready only when every instrument counted for it has a price, and never
takes back a closed day. `OpeningTrustLoop` implements it (`Reader` is the
instance, with the refinement mapping to `db`; `ImplementsPublication`).

**`TrustLoopRace`** - several loops on one exchange at once. Every statement is a
read followed by a write that may have to wait for a row lock. The module keeps
what decides the outcome: read-committed views, row locks held to the end of a
transaction, an object mapper that writes only columns that differ from the
values it read, inserts that fail on a key committed in between, and cycles of
waiting that the database breaks. `apart` remembers whether two loops overlapped
that were given no listing in common (`Given`, `Share`); `ReadyMeansClean` is
`CommittedReadyIsClean` without that case.

**`OperatorLoadTable`** - extends `OpeningTrustLoop` by the stored coverage of a
quality record, and defines each column of the operator's table over the
committed tables (`Row`).

**`OpeningLoadScheduler`** - scheduling under concurrency. Each runner (the
daemon, trust-loop commands) has a program counter through the body of
`schedule_today_opening_load_jobs`; rows carry their writer, a runner whose
transaction is open or `Committed`, and `Sees` is READ COMMITTED visibility. The
jobs of an exchange are a table by id; an insert takes the smallest free one. An
insert meeting an uncommitted row of another runner waits (`WaitsFor`), one
meeting a committed row takes the code's `IntegrityError` branch.
`InsertLoadFails` is the `OperationalError` branch: on the migrated schema, which
has no server defaults for the counters, its retry is always rejected, so the
exchange is skipped and its job stays behind without a load. `Die` rolls back.
`FinishJob` stands for an executor of jobs that the repository does not contain
yet; without it the code's distinction between active and terminal jobs would
never matter. `CommittedJobs` and `CommittedLoads` are the tables as everybody else
sees them.

**`DaySchedule`** - the abstract specification of a day's schedule: tables of jobs and
loads that change by whole runs (`Schedule`: jobs only where none is active, loads
only where there is none, each with a job that is there, both only for exchanges
that trade) and by jobs that end (`Finish`). It has no transactions, no waiting and
no failures. `OpeningLoadScheduler` implements it (`Schedule` is the instance, with
the refinement mapping to the committed rows; `ImplementsSchedule`).

**`LoadJobLifecycle`** - the seven states of `load_jobs`, the transition table, the
partial unique index, and enqueueing as the scheduler does it.

### Reading, administration, health

**`AppReadPath`** - the readiness and current-price requests as chains of reads in
sessions of their own (`FindOwnEntry`, `LookUpDictionary`, `QueryReadiness`,
`LoadPrices`, `Respond`), while loops decide, commit or roll back, on two days.
With `inProcess` the loop fills the very dictionaries the API reads; otherwise
these stay empty. `truths` collects what the committed tables (and, in one
process, the dictionaries) said of an exchange while the request ran, `told` the
latest day the app has been told of; both are history.

**`ApiRequests`** - the server's threads: credentials by path, bodies, the counter
of refused requests as a read and a write, and the scope requests as read,
commit of the rows that differ from that read, and read back. `asked`, `counted`
and `disturbed` are history.

**`PlatformHealth`** - the daemon's heartbeats and its scheduling in transactions of
their own, an operator's report in its statements, outages, kills and restarts,
over a clock. `TickTime` bounds a tick; nothing in the code does.

### What is loaded

**`UniverseLoader`** - a loader run asks its sources one by one (`Offers` is what each
source of the registry may report), persists names and identifiers (`Ingest`), and
projects the supported universe at its end (`Finish`); `Abort` rolls all of it
back. Around it: both scope settings, the baseline seed, and marks on listings set
by rules outside the repository.

**`ExchangePriority`** - commands that read one average per exchange, statement by
statement, and write the ranks that differ from what they read; closes are stored
meanwhile. `Before` is the ranking of two listings.

**`TradingCalendar`** - the holiday rules as the code computes them, walked day by day
and compared with the holidays as they are defined: an independent Easter from
the ecclesiastical full moon, fixed dates with their observance, and weekdays by
counting.

### Providers

**`OpeningPriceSelection`** - one call of the worker, `Select`: the attempt's audit, the
candidate rows under their key, the checks, the ranking, winner, reason, and the
price record. `FailKeepingRows` is a call that raised an error in a caller that
goes on and commits.

**`ReliabilityScore`** - window scores and the mean rounded half up at every fold, in
ten-thousandths.

**`ValidationRun`** - a run under a key in one transaction: targets and a list of
requests, one quote at a time, the four metrics with what their statements see
(their own rows and all committed ones), verdicts; `Abort` is the error path that
leaves nothing. A request names an exchange, a symbol and a listing, and any of
them may be wrong or come again. The attempt of a request is the row of its run,
exchange and symbol (`LogAttempt`), which a later request for that symbol
overwrites; attempts are a table by id, in the order of their latest requests. The
completeness metric reads listings, candidates of each type and attempts in four
statements (`ReadListings`, `MeasureCompleteness`).

**`SourceProbeRules`, `SourceProbeRun`** - for each source of the five families the
number of requests and what verdict, role and availability its probe derives from
any combination of replies; and the commands: the runner over the selected
sources, the record of each, looked up with the probe (`ProbeSource`) and inserted
or updated under row locks (`RecordSource`), the family's file written before the
commit or after it, and `Derive`, the combined matrix from the last files. The
update writes the columns in which the outcome differs from the record looked up
(`Upserted`): where another command replaced that record in the meantime, the row
is left with columns of both, or with the other's. `overtaken` of a run and the
history variable `mixed` name the sources this happened to. The files start without rows of the instance's sources, all commands share
one database, and the macro family's file name, chosen by the operator, counts as
that family's file.

### Instances and proofs

`MCOpeningLoad`, `MCOpeningTrustLoop` (with the operator's table),
`MCOpeningLoadScheduler` and `MCTrustLoopRace` hold small instances of one module.
Three modules put components side by side that share no state. `ApiProcess` extends
`AppReadPath` by instances of `ApiRequests` and `PlatformHealth`; `Discovery` extends
`UniverseLoader` by `ExchangePriority`, `TradingCalendar` and `LoadJobLifecycle`;
`Providers` extends `SourceProbeRun` by `ValidationRun`, `OpeningPriceSelection` and
`ReliabilityScore`. Each gives the instances variables of their own and repeats
their properties under their own names, so that a run and a theorem speak of the
same definition. `MCApiProcess`, `MCDiscovery` and `MCProviders` extend them: a
variable `part` picks the component that moves, the variables of the others stay
where they began, so every behaviour of each is there, once.

Eight modules hold the proofs: `OpeningLoadRulesProofs` (lemmas on the rules, used by
three others), `OpeningLoadProofs`, `OpeningTrustLoopProofs` (with the refinement and
the operator's table), `TrustLoopRaceProofs`, `OpeningLoadSchedulerProofs`,
`ApiProcessProofs`, `DiscoveryProofs` and `ProviderProofs`.

Definitions with a suffix after an underscore (`RollBack_Nothing`) are faulty
variants of the definition they precede, one or two per property: substituting
them must break the property, which shows that it depends on the code it is about.

## The runs

| Run | Instance | Shows |
|---|---|---|
| `OpeningLoad_calls` | 2 listings, 2 instants, 7 reports, 3 samples; symmetry over listings | `SummaryMatchesRows`: counters, status and times describe the rows after every order of calls; `BecomesReadyComplete`: the step to ready finds every gate met |
| `OpeningLoad_terminal_gate` | the same, 1 instant, no symmetry | *violated*: ready although an eligible instrument has no outcome |
| `OpeningTrustLoop_runs` | exchange 1 with 1 listing, exchange 2 with 2; the calendar expects exchange 1 | `ReadyMeansPriced`, `CommittedStatusCurrent`, `QuietRunPublishes`, `RerunIdempotent`, `MarketClosedKept`; `ImplementsPublication`; `BlockedRowShowsCause` of the operator's table |
| `OpeningTrustLoop_constraint` | the same | *violated*: a quality record with coverage above 100 percent |
| `OpeningTrustLoop_independence` | the same | *violated*: a failing exchange takes the others' publications with it |
| `TrustLoopRace_interleaved` | 2 loops, 2 listings, 2 changes of the universe; symmetry over loops | `ReadyMeansClean` |
| `TrustLoopRace_ends` | 2 loops, 2 listings, every initial universe and no change of it | `EveryRunEnds`, waits and deadlocks included |
| `TrustLoopRace_moving` | 2 loops, 2 listings, 1 change of the universe | *violated*: `CommittedReadyIsClean`, ready with a failed row |
| `OpeningLoadScheduler_races` | 2 exchanges, a daemon and a command, 2 faults, 2 jobs per exchange | `OneActiveJob`, `LoadHasCommittedJob`, `NoWaitingCycle`, `ReportMatchesTables`; `ImplementsSchedule`; `EventuallyLoaded` |
| `ApiProcess_requests` | scope: 2 threads, 13 requests, 1 counted error; reads: 2 exchanges, 2 days, 1 listing of exchange 2, 2 loop runs; health: clock to 5, 1 job, 1 fault, 1 report | `OnlyAdminsChangeScope`, `UndisturbedIsEchoed`; `ReadinessIsCommitted`, `PricesComplete`, `DayNeverGoesBack`; `DeadDaemonReported`, `LiveDaemonIsNoAlarm` |
| `Discovery_parts` | loader: 3 sources, 1 ticker on 2 exchanges, 2 days; priority: 2 exchanges, 2 overlapping commands, 2 days, the last one counts; every date from 1899 to 2100; 2 keys with 3 jobs; symmetry over commands and keys | `LedgerExplainsTables`, `UniverseIsReported`; `ActiveExchangeWins`; `ClosedWhenDefined`; `AllowedFitsIndex` |
| `Providers_parts` | probes: 2 processes of one family on 2 sources and one key, for each of 2 families, and 1 process with both families and the matrix; validation: 2 run keys (symmetric), 4 lists of requests, 1 listing, 2 attempts, 1 stored candidate; selection: 3 providers, 4 policies, one call with up to 3 candidates, and calls one after another with up to 2 and 2 rows; scores: 4 windows, 7 folds | `CommitRecordsReported`, `SelectableWasAvailable`; `RecordedRunIsFinal`, `SucceededMeansFetched`; `PriceIsBest`, `ReasonExplains`, `RerunChangesNothing`; `MeanBetweenWindows` |

Why these bounds are enough to be interesting:

- Two listings of one exchange are the least for which a stale row can stand in
  for a missing one, successes and failures can mix, and coverage can exceed 100
  percent. The three samples are no comparison, exactly 5 percent mismatch, and
  more. Two instants let time run backwards. Symmetry is sound there because no
  listing is distinguished and the properties are invariants and action
  properties.
- In the trust loop the exchange processed first has one listing and the second
  has two, so that the second can fail after the first was decided. Every initial
  universe and every initial mix of missing, fresh and closed loads is an initial
  state; only exchange 1 has a missing load created, exchange 2 shows one that
  stays missing. Runs are unbounded in number.
- Two loops make every pairwise race and a deadlock; two listings let one be
  admitted and one fail, or each loop be given another one. `MaxMoves` bounds the
  changes of the universe: with two it may change between two readings and change
  back. It does not matter to `EveryRunEnds`, as a loop reads it once, at its start.
  A command may run again after it ended, any number of times.
- In the scheduler two runners are enough for every pairwise race and for a
  circle of waiting; two exchanges for a lock order. Both of them trade; that
  nothing ever shows of one that does not is left to the proof of the refinement.
  `MaxFaults` bounds kills and failed statements together, `MaxJobs` the jobs of an
  exchange: `FinishJob` stops when no id is left, and `RoomForOne` of the proofs says
  that for this reason the bound never stops an insert.
- Two threads race for one scope table with two codes: a request can add one while
  the other removes one. Two days and two loop runs are the least for which an
  answer could fall back a day, and for a publication to be replaced between the
  two sessions of a request. In the health report the windows are 3 and 4 units
  for a poll and a tick of 1, so a heartbeat may be as old as a poll and two ticks
  and is still in time, and the clock goes beyond both windows.
- The three sources of the loader report by rule of exchange, by the letter of the
  ticker, and by an order of preference, so one ticker is reported for both
  exchanges, and an identifier can move between them. The calendar walk has a
  hundred New Years on each weekday and all 35 dates of Easter. In the
  priority, a close stored for a holiday separates expected days from days with a
  price, and two commands leave columns alone that the other one has changed;
  longer windows are left to the proof.
- In the price selection the policies separate providers by each criterion and by
  none, and once the winner from the runner-up by a later criterion than from the
  third; candidates of the wrong type and of an unknown listing reach every
  error path. A probe's replies are all combinations of status and body for each of
  its requests. Two run keys make a rerun and a foreign run. The four lists of
  requests are none, one, one whose symbol comes again with a listing that does not
  exist (its attempt turns into an error), and one followed by an unknown exchange.

`ApiProcess_requests` and `Discovery_parts` set `CHECK_DEADLOCK FALSE`, where a bounded part really ends (its clock, its runs or its dates are
used up). All others check for deadlock. That no runner is stuck while others go
on is `NoWaitingCycle`, `EveryRunEnds` and, for the daemon, `EventuallyLoaded`.

`TypeOK` of the trust loop also says that between runs the transaction shows
exactly the committed tables. `QuietRunPublishes` and `RerunIdempotent` are stated
of runs around which nothing changed; other runs are covered by the invariants.
Such a run ends in one of three ways. If it commits, every exchange in its scope
with supported listings, all of them priced, and no failure left over of a removed
one, is published. It is stopped by the coverage constraint, and publishes nothing,
only where a removed listing left a success (the second disagreement below). Or it
is killed, of which nothing is said.
`CommitRecordsReported` and `SelectableWasAvailable` except the sources whose record
changed between look-up and update, as they must: the code mixes such records.
`RerunChangesNothing` is about the last call made again with the same answer and the
same audit, that is request time and attempt. The keys of the candidates contain
the request time, so a later request adds rows of its own. A link that was
empty, because the attempt was not yet logged, is filled in.
`ReadinessIsCommitted` and `DayNeverGoesBack` are stated of the deployed program,
where loop and API are two processes. `PricesComplete` says for one process too that
prices answered are complete; that none are answered only of an exchange that was
not ready is said of two processes alone, because in one the dictionary's entry of
another exchange hides the database (`app_exchange_readiness.py:35`).
`ActiveExchangeWins` is about a command that nobody disturbed: where another one
committed between its read and its commit, a rank that it found unchanged is not
written, and stays the other command's.

## Fairness

Two modules state any.

`OpeningLoadScheduler`: a run that has begun goes on, statement by statement, to
its commit (`WF` of `Advance` for each runner: a process that is not killed
executes its next statement, and PostgreSQL wakes a waiting insert when the
transaction it waits for ends), and the daemon starts another tick (`while True`
in `worker.py`). Nothing makes a command start, a dead process restart or a job
finish. The daemon has no exception handler and nothing restarts it, so
`EventuallyLoaded` is about a daemon that stays up, and says so.

`TrustLoopRace` (`FairSpec`): a statement that can run does (`WF`); a row lock that
is freed again and again is eventually given to a waiter (`SF` of `Write`, the
database's lock queue); and a cycle of waits is found (`WF` of `BreakDeadlock`,
`deadlock_timeout`). No fairness makes a loop start or die.

## The proofs

All proofs hold for every value of the constants under the named assumptions, which
TLC evaluates in the runs: the sets of listings, exchanges, days and windows are
finite, exchanges and listings are numbered, instants and closes are natural
numbers, samples are pairs with no more mismatches than comparisons, every listing
belongs to an exchange, the scope tables are paths of the admin's, sources are
those of the program, the windows of the health report cover a poll and two
ticks, and the calendar's walk starts on a New Year's Day with its weekday. Every
safety property of a passing run is proved, and so are both refinements; the two
liveness properties are not (below).

`OpeningLoadRulesProofs` has the lemmas on the rules: the ranges of their results,
what each aggregate status says about the rows it came from
(`AggregateStatusMeaning`), what a decision of ready implies (`ReadyMeaning`), and
that only a closed load is ever decided closed.

`OpeningLoadProofs`:
- `TypeCorrect`: `Spec => []TypeOK`.
- `AggregateCorrect`: `Spec => []SummaryMatchesRows`. With `TypeOK` it is inductive
  as it stands, because only `RecordOutcome` touches rows and it recomputes every
  column.
- `ReadinessSound`: `Spec => BecomesReadyComplete`. The decision compares numbers;
  that none of the rows failed comes from the stored status (`StatusMatchesRows`),
  which turns the count of terminal rows into a count of successes, and coverage
  above 99 percent excludes an empty denominator.

`OpeningTrustLoopProofs`:
- `LoopTypeCorrect`, `ReadinessIsPriced`, `StatusIsCurrent`, `ClosedStaysClosed`:
  `TypeOK`, `ReadyMeansPriced`, `CommittedStatusCurrent`, `MarketClosedKept`. They
  speak of `db`, which changes only by taking over `tx`; but `tx` does not satisfy
  them while a load is being processed, when its denominator has moved, its rows
  are half rewritten and its publication is an earlier run's. The inductive
  invariant `LoopInv` asserts them of every exchange but the current one (`AtRest`),
  says how far the current one got (`Open`: each processed listing has a row of this
  run, and the status is that of the rows as soon as one listing was processed),
  that a success stands for a price (`SuccessIsPriced`), and that a load closed in
  `db` is closed in `tx`.
- `LoopImplementsPublication`, the refinement of `ExchangePublication`. A commit maps
  to a publishing step because `LoopInv` makes every decision in `tx` sound and
  `RefInv` says that a load the run has not decided is in `tx` as in `db`; a price is
  a price; every other step is a stutter for the reader.
- `CauseIsShown`: `TableSpec => []BlockedRowShowsCause`, from `DecidedInv`: wherever a
  publication is on record, it is what the columns beside it decide (`Decision`) and
  every counted listing has an outcome of a loop.
- `QuietRunsPublish`, `RerunsAreIdempotent`: `QuietInv` says of a run around which
  nothing changed that what it has processed is up to date with prices and universe
  (`UpToDate`; so what deserves it is decided ready, `DeservedIsReady`, and coverage
  above 100 percent takes a success of a listing that is gone, `OnlyLeftOversAbort`), and of the loads an earlier quiet run left (`settled`) that they are
  so in `db` and that `tx` differs in none of their columns. Processing an
  up-to-date load again writes what is there.

`TrustLoopRaceProofs`: `ReadyIsAlwaysClean`, for any number of loops and listings and
however the universe moves. Another loop may commit between a loop's decision and
its commit, and the decision is not repeated. What makes it hold are the row
locks. A loop writes only outcome rows that it has locked (`HoldsAll`), no row is
locked twice (`LocksExclusive`), and a loop that has processed its listings has the
row of each of them locked. Two loops that were given a listing in common (`Met`)
are therefore not both that far (`OneIsBare`): the one that is sees the same rows
before and after any commit (`SettledSeesItsOwn`). The exception is a loop that was
given no listing at all: it writes no rows and its denominator is zero, so it
publishes nothing as ready, but it may leave a ready that it found
(`OthersStayClean`). Loops without a common listing make the fourth disagreement.

`OpeningLoadSchedulerProofs`: `SchedulerTypeCorrect`, `NoDuplicateActiveJob`,
`LoadsHaveJobs`, `ReportIsTrue`, `CommittedLoadIsKept`, `NobodyWaitsInACircle`, for any
number of runners and exchanges. What a runner holds uncommitted lies behind it:
rows of exchanges it has passed, and at most the job of the one it is at
(`RowsBehind`); so whoever is waited for is ahead of whoever waits. `JobsFit` says of
every load that its job is there for whoever sees the load, `CountsFit` what a
run's counters count.
`SchedulerImplementsSchedule`, the refinement of `DaySchedule`. A commit turns rows of
its runner into committed ones. That these are rows the abstract run may add follows
from `OpenRows` (what a runner has to do or holds uncommitted is of exchanges that
trade, and its jobs are active), `RoomForOne` (an active job stands alone), and
`JobsFit` (a load's job is committed, or commits with it). Rows are written
and rolled back behind the mapping, so every other step but a job's end is a stutter.

`ApiProcessProofs`:
- `AnsweredReadinessWasCommitted`, `AnsweredPricesAreComplete`, `AppNeverGoesBack`.
  `truths` grows with the tables while a request runs; each truth is sound in itself
  and lies between what the app was told before and what the tables say now
  (`TruthsFit`), and what the request has learnt, read by read, is one of the truths
  of its exchange (`AnswerFits`).
- `DeadIsReported`, `LiveIsNoAlarm`. How old a heartbeat can be depends on where the
  daemon is in its tick (`Beaten`), a live daemon is never later than its poll and
  `TickTime` (`OnTime`), and what a report has read was not older when it was read
  (`HealthAsked`).
- `ScopeIsAdmins`, `UndisturbedEchoed`, for any number of threads. `ApiInv` says what
  a thread has passed when it is at a place (`Passed`: authorised, at a scope table,
  with known codes and a full read), and that what an undisturbed thread read or
  wrote is still there (`Untouched`).

`DiscoveryProofs`:
- `LedgerExplains`, `UniverseIsWhatWasReported`. A run's records tell the names it
  has given (`RunFits`), and a listing has a status only once it is on record.
- `TransitionsFitIndex`: each key has at most one job that is not over
  (`LifecycleInv`), and what is over stays over.
- `ActiveRanksFirst`, for any exchanges, calendars, closes and overlapping commands.
  Averages are compared by cross products (`AboveIsOrder`), and whoever is ahead of
  the more active exchange is ahead of the less active one too, so its rank is
  smaller (`RanksFollowAverages`). That a sum of closes exists and is a natural
  number is proved from a smallest day without one (`TotalsExist`).
- `CalendarIsRight`, for every year: that the walked date's month, day and weekday
  are those the code's arithmetic computes from the day of the year is an invariant
  of the walk (`WalkInv`), which turns the fixed, observed and counted holidays into
  statements about single days (`ObservedIs`, `AmericanHolidays`). For Easter, the
  formula's `h` is the age of the full moon counted from March 21 (`FullMoonIs`), its
  `l` the days to a Sunday (`SundayIs`), and its `m` undoes the two exceptions of the
  moon's tables (`EasterAfterMoon`).

`ProviderProofs`:
- `SelectableIsAvailable`, for every reply of every provider: no probe returns
  evidence that is selectable and not available (one lemma per probe), and `ProbeInv`
  carries that through records, files and matrix, across other processes' upserts;
  for the sources in `mixed` it says nothing. `CommitsWhatItReports`: what a run has
  reported of a source is what it is about to write, unless it was overtaken
  (`Accounted`).
- `PriceIsTheBest`, `ReasonIsTheCause`, `RerunKeepsThePrice`, for answers of any
  length. The order of candidates is the lexicographic one of the criteria, which is
  transitive, so the candidate with the fewest ahead of it has none (`BestOfMany`).
  The reason only compares the winner with the runner-up: everybody else is equal to
  the runner-up or beaten by it, hence beaten by the winner at the earlier of two
  criteria (`BeatsThrough`). The last call is remembered with what decided it
  (`CallFits`), its rows and price are there still (`CallKept`), and whatever links to
  an attempt links to the one named in its audit, which is on record (`RowsLinked`).
- `MeanStaysBetween`: a mean between the extremes of its windows stays so when one
  more is folded in (`FoldBetween`), and rounding half up keeps a quotient between
  two integers (`RoundedBetween`).
- `SuccessHasEvidence`, `RecordsAreFinal`: a request counts as fetched once its attempt
  and its candidates are there (`Evident`), where the attempt says success unless one
  of the requests since was for the same symbol; no other transaction takes them away
  (`OthersCandidates`, `OthersAttempts`), and a key whose run is on record has no
  transaction any more (`RunInv`).

The theorems about a component are of its own `Spec` (`Api!Spec`, `Selection!Spec`,
...). A run that checks several of them restricts the others to their beginning
and adds no step, as does `TableSpec` of the operator's table.

Only model-checked: `EventuallyLoaded` and `EveryRunEnds`, as liveness under fairness
is out of the prover's reach.

## Where the code and its documents disagree

Four disagreements have a run of their own, and are listed as findings:

1. *Terminal gate* (`OpeningLoad_terminal_gate`). Task T47 accepts the precheck if
   it "fails when any eligible instrument lacks terminal outcome". The code
   compares two counts (`opening_load_outcomes.py:208`), and counts the rows of
   listings that are no longer eligible. The trust loop itself is not affected
   (`ReadinessIsPriced`): it records an outcome for each counted listing first.
2. *Coverage above 100 percent* (`OpeningTrustLoop_constraint`). A listing that
   succeeded and was then removed still counts as a success over the smaller
   denominator. If the exchange has no quality check yet, inserting it violates
   its CHECK constraint and the command dies; the row stays, so the next complete
   run dies too.
3. *Independence* (`OpeningTrustLoop_independence`). FR-27 wants exchanges
   published independently; the command commits once after all of them, and the
   error of one undoes the publications of those before it.
4. *Overlapping loops* (`TrustLoopRace_moving`). AC-11 wants a load marked ready only
   when all eligible instruments have succeeded. Two loops that overlap while the
   universe moves may be given different listings. They lock different outcome
   rows, and the one that waits for the load's row decides on the status it computed
   before the other committed a failed row. Where they have a listing in common
   this cannot happen (`ReadyIsAlwaysClean`).

The others are stated at the end of their modules, under "Claims of the documents
and comments that the code does not keep". TLC refutes each of them when it is
added to the run's configuration (through the instance of its module, as
`Health!GaugesMatchReport`, where there is one), with the change of constants named:

| Claim | Where | Run | The code |
|---|---|---|---|
| `CoverageOfShownCounts` (T47:38) | `OperatorLoadTable` | `OpeningTrustLoop_runs` | keeps the coverage of the first evaluation beside later counts (`opening_load_outcomes.py:401`) |
| `NoJobBesideTheLoad` (T43:38) | `OpeningLoadScheduler` | `OpeningLoadScheduler_races` | looks for the load before the job and not again: a second job for a loaded day (`opening_load_scheduler.py:98`) |
| `CurrentMeansToday` (product spec:488) | `AppReadPath` | `ApiProcess_requests` | takes the latest row for today's (`app_exchange_readiness.py:130`) |
| `ScopeWasRequested` (FR-1) | `ApiRequests` | `ApiProcess_requests` | two overlapping requests leave a mixture (`scope_config.py:44`) |
| `NoErrorLost` (T16:42) | `ApiRequests` | `ApiProcess_requests` | increments without a lock (`metrics.py:22`) |
| `GaugesMatchReport` (T15:41) | `PlatformHealth` | `ApiProcess_requests`, 2 reports | leaves the age of an emptied queue in its gauge (`metrics.py:54`) |
| `TickSurvivesOutage` (`worker.py:40`) | `PlatformHealth` | `ApiProcess_requests` | a tick without a database ends the daemon (`worker.py:47`) |
| `VisibleInScope` (T28:37) | `UniverseLoader` | `Discovery_parts` | leaves rows of exchanges out of scope as they were (`supported_universe.py:35`) |
| `IdentifierChangeFits` (FR-9a) | `UniverseLoader` | `Discovery_parts` | looks identifiers up by listing, constrains them by value (`persistence.py:221`) |
| `LeavesAfterBuffer` (FR-42) | `UniverseLoader` | `Discovery_parts` | has no buffer (`supported_universe.py:95`) |
| `OneListingPerEntity` (T28:38) | `UniverseLoader` | `Discovery_parts` | guesses an exchange by the first letter of the ticker (`source_registry.py:138`) |
| `PriceOfTheRequest` (T44:38) | `OpeningPriceSelection` | `Providers_parts`, 2 listings | compares candidates with each other, never with the request (`opening_load_worker.py:48`) |
| `SelectedSourceRetained` (FR-19c) | `OpeningPriceSelection` | `Providers_parts` | stores neither the selection nor its reason (`opening_load_worker.py:77`) |
| `ReplayedWindowStable` (T36:40) | `ReliabilityScore` | `Providers_parts` | remembers the last window only (`reliability_scores.py:62`) |
| `DisagreementIsOfRun` (T40:37) | `ValidationRun` | `Providers_parts` | compares the candidates of all runs (`disagreement_benchmark_metrics.py:114`) |
| `SuccessfulAttemptOnRecord` (`run_orchestrator.py:75`) | `ValidationRun` | `Providers_parts` | overwrites the attempt that worked with a later one for the same symbol (`provider_attempt_logging.py:74`) |
| `CompleteByOwnQuotes` (T39:38) | `ValidationRun` | `Spec` with 1 key, 2 listings on 2 exchanges, a request of each, 4 attempts, stored candidates of both types | counts candidates of any run and day (`completeness_timeliness_metrics.py:154`) |
| `RecordIsOfItsProbe` (T65:40) | `SourceProbeRun` | `Providers_parts` | updates the columns that differ from a record that is no longer there (`source_validation_records.py:65`) |
| `MissingKeyIsNoSuccess` (T64:40) | `SourceProbeRun` | `Providers_parts`, with the second keyed family and its sources | replaces a missing key by a placeholder (`keyed_b/probes.py:356`) |
| `OptionalKeyIsSent` (`Project/README.md:33`) | `SourceProbeRun` | `Providers_parts`, with the official family and `OPENFIGI` | registers the source without a secret (`official_symbology/probes.py:48`) |
| `NamedSourceIsProbed` (`Project/README.md:145`) | `SourceProbeRun` | `Providers_parts` | records a named source it has no probe for as rejected; the worker's command has the probes of one family (`worker.py:173`) |
| `EvidenceReachesMatrix`, `MatrixIsRecorded`, `MatrixIsLiveEvidence` (T70:42) | `SourceProbeRun` | `Providers_parts` | derives roles from each family's last file, written before the commit in two families, whoever's sources it names (`combined_source_classification.py:35`) |

Task numbers are the files of `src/task_phase/tasks/`, requirement numbers those of
`src/design_phase/product_spec.md`.

## The plan

Done: the opening load with its proofs; the trust loop with its safety proofs and
the refinement of `ExchangePublication`; the scheduler with its safety proofs and the
refinement of `DaySchedule`; the races of two loops; the
read paths; load jobs; price selection; the universe loader; validation runs;
source probes; scores, priority, calendars, health and the API.

The proofs cover every safety property of the passing runs.

Left, in order:

1. `ActiveExchangeWins` for the score column, the part of it that another command
   does not disturb.
2. `LoadJobLifecycle` composed with the scheduler in place of `FinishJob`, once the
   repository has an executor of jobs.

## What is not modelled

- Wording of logs, reports and messages, and the bodies of HTTP answers beyond what
  a property is about.
- Requests to data providers and the parsing of their answers, except for whether
  an answer came and had rows (`SourceProbeRules`).
- Connection handling, settings, migration scripts, and the repository's tooling
  around the backend. The constraints of the schema are where inserts meet them.
- The writers of closes, of marks on listings and of job states, and the adapter of
  the opening-load worker: the repository has none, so they may do whatever the
  types admit.
- Calendars in the other modules: the exchanges expected to trade are a constant
  there.
- In `ValidationRun` frequencies are sets of what they count; in `AppReadPath` and
  `OpeningPriceSelection` a load has one day's types.
