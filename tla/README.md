# Literati.Stock in TLA+

A verification development for Literati.Stock, the Taiwan stock-market service
in this repository: it pulls FinMind datasets into PostgreSQL on a schedule,
turns them into domain tables, evaluates signal rules over them and posts the
day's events to a Discord channel. The modules are translated from the Python
sources under `src/src/literati_stock/` (paths below are relative to it); TLC
checks them on small instances, and TLAPS proves the main results about the
transform step, the daily ingest, the paced client and the composed day for
every value of the constants.

Contents: [the system](#1-the-system) ·
[modules and code](#2-modules-and-code) · [runs](#3-runs) ·
[fairness](#4-fairness) · [proofs](#5-proofs) ·
[what the code does against its documents](#6-where-the-code-and-its-documents-differ) ·
[not modelled](#7-what-is-not-modelled) · [plan](#8-plan)

## 1. The system

One asyncio process (`api/main.py`) runs an APScheduler with cron and interval
jobs; a job never overlaps itself (`max_instances=1`). Every job can also be
run by hand, beside the application, as a command (`ingest/cli.py`,
`signal/cli.py`). All of them meet only in PostgreSQL (READ COMMITTED).

```
 Sun 22:00          universe sync ----> stock_universe <---- operator (SQL)
                                            | read
 Mon-Fri 14:30 / 15:30 / 16:30  daily watchlist ingest (price, margin, institutional)
                                            | one row per stock
                                      ingest_raw / ingest_failure
 every 300 s        transforms  <-----------+   ingest_cursor
                                            |
          stock_price, margin_transaction, institutional_buysell
 17:45              signal evaluation <-----+
                                            |
                                       signal_event
 17:50              notification <----------+-----> Discord webhook
```

| component | state it keeps | operations | what makes it correct |
|---|---|---|---|
| raw ledger and failure table (`ingest/storage.py`, `models.py`) | `ingest_raw`, `ingest_failure`, their sequences | insert, commit, abort | append-only; ids are handed out at INSERT and visible at COMMIT |
| price and margin transforms (`price/transform.py`, `chip/transform.py`) | domain tables, `ingest_cursor` | `process_new`: cursor, fetch, upserts, cursor | the table is the last-write-wins view of the ledger up to the cursor; no key named up to it is without a row, nothing malformed passed, nothing half-applied |
| institutional transform (`chip/transform.py`) | `institutional_buysell`, its cursor | the same, with a sum per key and category | a key's row is the net of its fetch; the sum is over one contiguous run of raw rows |
| universe sync (`universe/service.py`) | `stock_universe` | fetch, then one transaction | the table shows the latest valid row of each stock and keeps the operator's watchlist, also when two syncs overlap |
| FinMind client (`ingest/clients/finmind.py`) | retry counter, token bucket | `fetch` | retries transient answers only, at most `max_attempts` requests; every one passes the bucket, and nobody waits for it in vain |
| daily watchlist ingest (`universe/daily_ingest.py`) | loop over the list | `run` | every listed stock is accounted for once; the report is true; it ends |
| signal rules (`signal/rules/`) | none | `evaluate` | fires exactly when the documented condition holds, wherever the window is full and the calendar walk meets the trading day the documents mean (section 6) |
| signal evaluation (`signal/service.py`) | `signal_event` | three queries, rule, upsert; tick and backfill as loops of them | no look-ahead, no row the rule needs cut off, replay replaces, a backfill counts right |
| notification (`notify/`) | none; the channel | read, build embeds, POST with retries | the returned outcome says what the channel shows; nothing empty or invented is posted; it ends |
| scheduler, jobs, lifespan (`ingest/scheduler.py`, `api/main.py`, `*/jobs.py`) | the job store, in memory | start, wakeup, shutdown | jobs do not overlap themselves, fire at most once per time, and what they miss is made good by later ticks or left out whole |
| commands (`ingest/cli.py`, `signal/cli.py`) | none | one operation of a component each | as that component, beside the scheduled one |
| schema sentinel, row schemas, settings, migrations | – | – | see section 7 |

What is hard here, and where properties are aimed (`PROJECT.json`, "hazards",
gives each its line): commands beside the scheduled jobs (ids that commit out
of order, stale cursors, row locks taken in different orders); crashes, lost
connections and a shutdown between two statements; one malformed item in a
batch; boundary cases of `LIMIT`, of the moving window and of the calendar
look-back; retries whose first try had an effect; lists read once and used
after they changed; errors of a class the handler does not catch; jobs that only
the clock puts in order, when a tick is slow, late, failing or lost to a
restart.

## 2. Modules and code

| module | models | state and actions |
|---|---|---|
| `LedgerView` | the data: payloads, items, the last-write-wins view `IsView` | a payload item is a row, a dict Pydantic rejects (`Malformed`) or no dict (`NonDict`) |
| `RawLedger` | `RawPayloadStore.record` and its transaction | `nextId` is the sequence, `inserting` the uncommitted rows, `raw` the committed ones; `Insert`, `CommitInsert`, `AbortInsert`; `IsBatchTop` is `ORDER BY id LIMIT batch_size` |
| `RowTransform` | `PriceTransformService.process_new`, and `MarginTransformService.process_new`, which differs in columns only | one action per SQL statement: `ReadCursor`, `FetchNewRaw`, `TransformItem`, `NextRaw`, `AdvanceCursor` (which commits); `Fail` and `DeadlockVictim` roll back. `writes` are the uncommitted upserts, which lock their keys |
| `DomainView` | the promise of the ELT step, as a specification of its own | `AppendRaw`, `CatchUp`: one step changes table and cursor together. `RowTransform` implements it with `log <- raw, mark <- cursor, view <- table` |
| `InstitutionalTransform` | `InstitutionalTransformService.process_new` | fetching and summing are one step (no await between them); `Agg` is the accumulator of a key; `UpsertKey` in dict order |
| `UniverseSync` | `UniverseSyncService.sync`, by several processes, and the operator's edits | `FetchSnapshot`, `BeginUpdate` (the rows the UPDATE of all rows will find), `ApplySnapshot` (the rest of the transaction, with `DedupLatest` as a fold of `Keep`, the body of the loop), `AbandonSync`, `EditWatchlist` |
| `FinMindClient` | how a reply ends an attempt and a fetch | pure operators `ParseResponse`, `AttemptResult` |
| `FinMindFetch` | when the GETs leave: the limiter and the retry of `FinMindClient.fetch`, with `FinMindClient` for the replies | `BeginFetch`, `Send` (acquire and GET), `Answer`, `Retry`, `Tick`; `level` is the bucket, in units in which it leaks a whole number per tick |
| `WatchlistIngest` | `DailyWatchlistIngestService.run`, composed with `UniverseSync` and `FinMindClient` | `LoadWatchlist`, `NextStock`, `Request` (one GET), `RecordRaw`, `RecordFailure`, `Return`, `Killed` |
| `SignalRules` | the two rules, and the window and date bounds of the queries that feed them | pure operators; `Frame` is `ROWS BETWEEN n-1 PRECEDING AND CURRENT ROW`, ratios are cross-multiplied |
| `SignalEvaluation` | `SignalEvaluationService.evaluate`, the tick and `backfill`, beside the transforms and each other | `StartTick`, `StartEvaluate`, `StartBackfill` (with its list of trading days, `InOrder`) set the pairs of signal and day to do (`Opened`); per pair three fetches, each of what is committed then, and `Evaluate` (guard, rule, upsert); `Abandon`; `Transformed` is a commit of a transform |
| `Notification` | `publish_daily` and `DiscordWebhookChannel.send` | `StartPublish`, `LoadEvents` (one SELECT per name), `SkipEmpty`, `CallChannel`, `Post`, `Killed`; Discord may show a message whose answer is a 5xx or is lost |
| `JobScheduler` | `IngestScheduler` with the part of APScheduler its defaults select | `due` is the in-memory job store: per job the slots until its `next_run_time`; `Wakeup`, `SchedulerStart`, `SchedulerStop`, `ClockTicks` |
| `DailyPipeline` | `create_app`: one trading day of all jobs and commands, for one stock | `Tick` is the body a job's tick calls; `IngestStock`, `FetchRaw`, `CommitRows`, `ReadRows`, `RecordEvent`, `LoadEvents`, `Publish` are the steps of the bodies that other processes can tell apart; `Block`, `Slow`, `JobRaises`, `Stop` are the disturbances; `RunCommand` and `CommandDies` a command beside it |
| `DailyPromise` | what the day promises, as a specification of its own | `RowArrives`, `Detect`, `Announce` (at most once), `Repeat`. `DailyPipeline` implements it with `Notified <- SignalsOf(NotifiedSignals)` |
| `*_proofs` | theorems about the module they are named for (`RawLedger_proofs` also about `LedgerView`, `SignalEvaluation_proofs` also about `SignalRules`; `FinMind_proofs` is about the three modules that call FinMind: `UniverseSync`, `WatchlistIngest`, `FinMindFetch`) | section 5 |
| `FoldLemmas` | nothing: induction over finite sets, and the laws of sums | section 5 |
| `MC*` | the small instances | values of the data constants |

Abstractions used throughout: a name, a payload column or a description is a
model value; columns that no property tells apart are one value (`val` of a
price row is its OHLCV columns); logs and number formats are left out. History
variables are marked as such where they are declared; no guard of the code's
steps reads one (bounds do: `faults` and `commands` limit what may still
happen).

Operators whose comment begins with "variant with a fault" are no part of a
specification. Each is what a plausible slip in the code would turn the
operator or action next to it into, and exists to confirm that a property
notices: putting it in place of the original makes TLC report the property
that `PROJECT.json` ("mutants") names beside it.

## 3. Runs

`tlc -config X.cfg M` in this directory. States are distinct states.

| run (module, config) | instance | checks |
|---|---|---|
| `row_transform_alone` (MCRowTransform, RowTransformAlone) | 1 writer, 1 transformer, 4 ids, 2 keys, 2 values, 4 payloads, batch 2, 1 failure | `TypeOK`, `LatestWins`, `NoPoisonPassed`, `NeverBack`, `ImplementsDomainView`, `EventuallyConsumed` |
| `row_transform_two` (MCRowTransform, RowTransformTwo) | 1 writer, 2 transformers, 3 ids, 1 failure | `Provenance`, `HighWaterMark`, `EventuallyConsumed` |
| `institutional` (MCInstitutionalTransform, Institutional) | 1 writer, 2 transformers, 4 ids, 3 payloads over 5 investor names, 1 failure; 206 008 states | `TypeOK`, `OneFetchExact`, `SumsOneRun`, `HighWaterMark`, `NoPoisonPassed` |
| `universe_sync` (MCUniverseSync, UniverseSync) | 2 syncers, 2 stocks, 2 dates, 2 descriptions, snapshots of up to 2 rows; 505 120 states | `UniverseTypeOK`, `IsSnapshotView` |
| `watchlist_ingest` (MCWatchlistIngest, WatchlistIngest) | 2 stocks, 2 calls, 2 attempts, a sync that delists; 342 276 states | `TypeOK`, `ReportIsTrue`, `NoDoubleRow`, `FailureDeserved`, `CallEnds` |
| `finmind_pacing` (MCFinMindFetch, FinMindFetch) | 2 callers, 2 GETs per 3 ticks, 3 attempts, 8 ticks; 1.2 million states | `FetchTypeOK`, `RateBound`, `WaitIsShort`, `GivesUpLate` |
| `signal_evaluation` (MCSignalEvaluation, SignalEvaluation) | 2 evaluators, 2 calls, 9 days, both rules, price histories on four of the days and histories of the three tables on three calendars, 1 correction; 1.4 million states | `TypeOK`, `LastEvaluationExact`, `StoredEventCurrent`, `BackfillExact` |
| `notification` (MCNotification, Notification) | 2 stocks, 2 signals, 2 severities, the scheduled or the command's list, 2 attempts, 1 field per embed; 144 394 states | `TypeOK`, `OutcomeIsTrue`, `OnlyRecorded`, `RepeatsOnlyAfter5xx`, `PublishEnds` |
| `daily_pipeline` (MCDailyPipeline, DailyPipeline) | 6 jobs, 1 command, 2 datasets, 2 signals, a day of 4 slots, 1 disturbance; 1.4 million states | `TypeOK`, `RowsInTime`, `DayComplete`, `DispatchComplete`, `ImplementsPromise` |

What they show, one by one:

- **Transforms.** With one writer and one transformer, the table is at every
  moment the last-write-wins view of the raw rows the cursor has passed, under
  every batching, crash, rolled-back batch and key clash, and a transaction of
  many statements behaves as the single step of `DomainView`. A second
  transformer may interleave its statements with the first: every key named up
  to the cursor has a row, no row loses its source, and all is consumed in the
  end. (What does break
  then is in section 6.) Four ids with batches of two give a full batch, a
  partial one, an empty one, a gap in the ids and a second full batch after a
  crash; the payloads hold a correction of an earlier key, one key twice in a
  payload, an item that is no dict, and a malformed item after a good one.
- **Institutional transform.** The sums of a key that is fetched once are exact
  whatever is retried; sums are over contiguous runs; every key named up to the
  cursor has a row.
- **Universe sync.** Ties of dates, rows out of order, invalid rows, the empty
  snapshot and delisted stocks all occur within two rows; the operator edits
  between fetch and transaction. Two processes sync at once. Under READ
  COMMITTED the UPDATE that marks all rows inactive finds the rows that are
  committed when it starts, and then waits for the ones another sync has
  locked. As the table is never empty it does wait, so two transactions differ
  from a serial order in one thing only: the later UPDATE does not find the
  stocks the earlier sync adds. `missed` names them, and `IsSnapshotView`
  excuses those and no others.
- **Daily ingest.** Every class of reply for every attempt, a call killed
  anywhere, the list changing under the loop, and a second call later. Two
  attempts are enough for a first, a last and a resumed one; two calls for a
  rerun. Two calls that overlap share no state but the tables they append to,
  so the instance has one runner.
- **Pacing.** All GETs pass one leaky bucket, first attempts and retries. Two
  callers contend for it; eight ticks at two GETs per three ticks fill the
  bucket, leave waiting callers behind, and let the bucket leak empty. Three
  attempts have two waits, so that a wait that does not grow shows. A caller
  waits no longer than the GETs ahead of it need.
- **Signal evaluation.** `LastEvaluationExact` compares the code's way (a
  window over fetched rows, walks over calendar days) with the documented rule
  over the committed tables, row by row (`Holds`: a full window of volumes,
  consecutive rows of net buying, the row `LookbackDays` trading days before).
  `StoredEventCurrent` compares the stored severity with the one those rows
  give, also after a correction and a second evaluation, and `BackfillExact` the
  total a backfill returns with the number of days in its range on which the
  rule holds. All three are about the days on which documents and code mean the
  same rows; `Agreed` says which these are, and section 6 what happens on the
  others (a backfill may count those or not). They speak of evaluations that
  read the rows as they are now: a row that is committed between the three
  queries takes part if its own table is still to be read, and only a change of
  a table that was read already is excused (`touched`), since no statement of
  the code could see it. With windows of two prices the queries reach back six
  days, so nine days hold the last row that is cut off, the first that is read,
  full and short windows, gaps, and rows later than the evaluated day. With a
  window of four for the other rule the look-back is two days, and the row two
  rows before is found at the near end of the walk, at its far end, or missed.
  Two evaluators with two calls are a tick beside a command, or a day evaluated
  again.
- **Notification.** Events arrive while names are read one by one. One field
  per embed with two stocks makes the truncation happen; two attempts make the
  last one fail. A call shares nothing with another call, so one call, by
  either publisher, is enough.
- **The day.** No job waits for the one it needs the results of: only the times
  of the day put them in order. `RowsInTime` says what the interval transforms
  promise (a payload is in its table two slots after its commit) and that two
  calm slots are enough to recover from a blocked loop, a slow or failing job,
  or a restart. `DayComplete` follows one stock from payload to message on a
  day without disturbance; `DispatchComplete` says that the message covers what
  the evaluation recorded, unless a blocked loop or a slow job let the two run
  together; and `ImplementsPromise` says what holds whatever happens: the
  notification is decided at most once, and events and messages have what they
  rest on. A slot is 300 seconds, the interval of the transforms; the grace
  time of 600 seconds is two slots, and the notification fires one slot after
  the evaluation, as in the code. Four slots hold the ingests, the two slots
  their rows need, the evaluation and the notification; a process blocked for
  up to three slots is within the grace time for some of its jobs and beyond it
  for others. Jobs due in one slot start in any order, and their steps
  interleave, with each other and with the command, which may be any of the
  commands that reach these tables.

Deadlock checking is on in every run but `signal_evaluation`, where the bounds
on calls and writes end every behaviour: the processes always have a next step.

Bounds, all of them constants or named in the module: `MaxId` (ids of the
sequence), `MaxFailures`, `MaxCalls`, `MaxWrites` and `WriteDays`, `MaxDay`,
`MaxTime`, `LastSlot`, `MaxLate` (slots a blocked process is behind),
`MaxFaults`, `MaxCommands`; and parameters of the code made small:
`MaxAttempts` (5 in the code), `MaxFields`, `BatchSize` (500), `MaxRate` and
`TimePeriod` (8 per 60 seconds), the waits of the retry, and the windows of the
rules (20 and 5 in the code, 2 and 4 here) and the streak (3, and 2 here).

## 4. Fairness

Liveness is checked under `FairSpec`; safety needs no fairness.

- `RowTransform`: weak fairness of a transformer's own steps, because the
  scheduler ticks every 300 seconds for as long as the application runs and an
  open call's next statement is sent as soon as the last returned; strong
  fairness of `TransformItem`, because an upsert that waits for a row lock is
  queued in PostgreSQL and gets the lock when the holder ends, though the next
  transaction of another process may want it again. Writers, failures and
  deadlock victims get none of their own (`DeadlockVictim` is one of the
  transformer's steps: PostgreSQL does break the circle).
- `WatchlistIngest`: weak fairness of an open call's steps: the event loop runs
  what is ready and each request has a time-out. No call has to start, and
  FinMind never has to answer well.
- `Notification`: the same for an open publication.

`UniverseSync`, `SignalEvaluation`, `FinMindFetch` and `DailyPipeline` state
safety only. A sync or an evaluation is a straight line, whose end is that of
its statements. In the two modules with a clock, time takes the place of
fairness: `Tick` and `SlotEnds` wait for what must be done by then, and
`WaitIsShort`, `RowsInTime` and `DayComplete` say by when it is done, which is
more than that it happens in the end.

## 5. Proofs

TLAPS checks every proof to its leaves. The assumptions on constants are those
named in the modules (payloads are sequences of items; the absent values are
none of the values they stand beside; bounds are naturals; the jobs and lists
have the types the code gives them); TLC evaluates them in every run.

| module | theorem | for | states |
|---|---|---|---|
| `RowTransform` | `TypeCorrect` | any writers and transformers | `Spec => []TypeOK` |
| | `ProvenanceHolds` | any writers and transformers | every domain row cites a committed raw row that holds its item |
| | `HighWaterMarkHolds` | one writer, any transformers | every key named at or below the cursor has a row |
| | `NoPoisonPassedHolds` | one writer, any transformers | the cursor passes no malformed row |
| | `LatestWinsHolds` | one writer, one transformer | the table is the last-write-wins view of the prefix |
| | `NeverBackHolds` | one writer, one transformer | `[][MovesForward]_vars` |
| | `DomainViewImplemented` | one writer, one transformer | `Spec => View!Spec` |
| `InstitutionalTransform` | `TypeCorrect` | any writers and transformers | `Spec => []TypeOK`, so every sum is an integer |
| | `OneFetchExactHolds` | any writers and transformers | a row that only one fetch reached is that fetch's buy - sell |
| | `HighWaterMarkHolds` | one writer, any transformers | every key named at or below the cursor has a row |
| | `NoPoisonPassedHolds` | one writer, any transformers | the cursor passes no malformed row |
| | `SumsOneRunHolds` | one writer, any transformers | a row is the sum over a run of consecutive raw rows |
| `UniverseSync` | `UniverseTypeCorrect` | any syncers, snapshots, edits | `UniverseSpec => []UniverseTypeOK` |
| | `IsSnapshotViewHolds` | the same | the universe is the view of the last snapshot, `watched` what the operator wants |
| `WatchlistIngest` | `IngestTypeCorrect` | any runners, stocks, calls, syncs | `Spec => []TypeOK` |
| | `NoDoubleRowHolds` | any runners, stocks, calls | a call leaves at most one row per stock of its list, and none of others |
| | `FailureDeservedHolds` | any runners and `max_attempts` | a failure row stands for a refused request or for all attempts |
| | `ReportIsTrueHolds` | any runners, stocks, calls, syncs | what a call reports is what it left in the tables |
| `FinMindFetch` | `FetchTypeCorrect` | any callers, rates, waits | `FetchSpec => []FetchTypeOK` |
| | `RateBoundHolds` | any callers and rate | GETs from any time on are at most the rate's and one burst |
| | `WaitIsShortHolds` | any callers and rate | GETs leave at the full rate while a caller waits |
| | `GivesUpLateHolds` | any callers, `max_attempts`, waits, jitter | a fetch gives up after all attempts, and not before the sum of the exponential waits |
| `SignalEvaluation` | `TypeCorrect` | any evaluators, histories, windows, thresholds | `Spec => []TypeOK`, so every severity has a positive denominator |
| | `LastEvaluationExactHolds` | the same | an evaluation that read the rows as they are emits an event exactly when the documented rule holds of them, on the days `Agreed` names |
| | `StoredEventCurrentHolds` | the same | where the rule holds on such a day, the stored event has the severity of those rows |
| | `BackfillExactHolds` | the same, any range | a backfill no write raced returns the number of days on which the rule holds, give or take the days `Agreed` leaves out |
| `Notification` | `TypeCorrect` | any publishers, finitely many stocks | `Spec => []TypeOK` |
| | `RepeatsOnlyAfter5xxHolds` | any publishers and answers | a message is shown again only after a 5xx |
| | `OnlyRecordedHolds` | any publishers and events | what is shown was recorded |
| | `OutcomeIsTrueHolds` | finitely many stocks, any limit of fields | what a call returns is true of the channel |
| `DailyPipeline` | `DayTypeCorrect` | any schedule, signals, datasets, commands, disturbances | `Spec => []TypeOK` of the day |
| | `DayKeepsPromise` | the same | `Spec => Promise!Spec` |
| | `DispatchCompleteHolds` | a schedule with the evaluation before the notification | what was recorded is announced, or it is known why not |
| | `RowsInTimeHolds` | a schedule with a transform job for every dataset | a stored payload is in its table two calm slots later |
| | `DayCompleteHolds` | both, and all listed signals evaluated | an undisturbed day ends with all that the rules detect |

The theorems about the transforms hold for every set of keys, values and
payloads, every batch size and every number of ids and failures. `SingleWriter`
and `SingleTransformer` are hypotheses of the theorems that need them, and they
are really needed: the run `row_transform_skip` breaks `HighWaterMark` without
the first, and the stale transform of section 6 `LatestWins`, `NeverBack` and
`DomainView` without the second. The hypotheses on the schedule of a day
(`EvaluationFirst`, `EveryTransform`, `AllEvaluated`) are true of the jobs that
`create_app` registers: `MCDailyPipeline` assumes them of its instance
(`CreateAppAssumption`), and TLC evaluates that. `StocksAssumption` of
`Notification` says that a table has finitely many stocks.

The argument for the transforms. None of the properties is inductive: they
speak of committed state, and what a commit writes was computed steps before
it.

- `ProvenanceInv` (`RowTransform_proofs`) adds that the sequence never hands
  out an id twice (`LedgerFresh`), that open calls work on committed raw rows,
  and that their private writes cite their sources too.
- `OrderInv` adds, for one writer, that a row that
  is going to commit is newer than all committed ones (`LedgerOrder`), and the
  shape of an open call: `todo` is an upper part of the batch that begins
  behind `last` and ends at `top`. So the prefix of the ledger up to the cursor
  no longer changes (`RawStable`).
- `CoverInv` adds that the positions an open call has done (`Done`) are free
  of malformed items and have a row in the table overlaid with the call's
  writes. It holds for any number of transformers, since rows are never
  deleted: a stale transformer moves the cursor to a prefix it covered itself.
- `ViewInv` adds, for one transformer, that the call began at today's cursor
  and that the overlay is exactly the view of `Done`. The commit then makes the
  overlay the table and `top` the cursor (`AdvanceFacts`), which gives
  `LatestWins`, the action property and the refinement step alike.

`RawLedger_proofs` holds the lemmas both transforms need: that the ledger grows
at its end when one writer appends to it, and about the view itself: appending
does not change a prefix, skipping a position that names no key keeps the view,
and upserting the next position extends it.

The institutional transform keeps sums instead of a view. `SumInv` says that
what an open call has upserted are the aggregates (`Agg`) of its batch, and that
every row of the table is the aggregate of some set of committed raw rows
(`TableSums`); for a key that one raw row names, the sums over such a set are
those over that row alone, which is `OneFetchExact`. Its `CoverInv` adds, for
one writer, that the set is what lies between two ids (`TableRuns`), and that
the keys named up to the cursor have a row.

`FoldLemmas` is what such sums rest on. An induction principle that takes an
operator cannot be instantiated by the provers, so each induction there is the
choice of a smallest counterexample: the strict subset order on the finite
subsets of a set is well founded. From that follow that a recursive function on
the subsets of a finite set exists and is unique, that a sum may take out any
element first (`SumTake`), and that sums of disjoint sets add up (`SumSplit`).

For the sync, `DedupLatest` is a fold over a sequence; `DedupSteps` gives it
prefix by prefix, `KeepHolds` that one step keeps the latest row of each stock,
and `DedupHolds` concludes by the least prefix for which that fails.
`UniverseInv` adds to `IsSnapshotView` what an open sync holds and that the
watchlist is the operator's; a commit then replaces one snapshot by the next.

For the daily ingest, `RowsInv` says that no two open calls share a number, and
that a call has written nothing for the stocks it has still to do, and nothing
for the one it is at until it writes its row; `DeservedInv` adds what the
attempt counter of an open call stands for. `ReportInv` counts: the counters of
an open call are the cardinalities of the sets of stocks it wrote a raw row or a
failure row for (`Counts`), and these sets with what is still to do are its list
(`Accounted`).

For the evaluation there are two halves. The first is about the rules alone and
mentions no action. The code reads a window as a sorted list of rows, cut off by
the window function and by a bound in calendar days; the properties speak of the
n-th row before a day. `FrameRows` says which days the frame keeps and
`RowsBeforeFew` that there are no more rows among the n before a day than n;
`StreakExact` states the streak by the rows before the day, and
`EarlierIsReference` the walk back by the last row between two days. `SurgeExact`
and `ChaseExact` conclude that what a query of limited reach returns comes to a
condition on the whole tables: `Seen`, the event an evaluation would emit over
the committed tables, is there exactly when `Reached` holds, with the severity
`SeverityReached` (`SeenReached`). `Reached` is the code's reading, with its
calendar; on the days of `Agreed` it is the documented one, `Holds` and
`IsSeverity` (`SeenExact`). A row of a later day does not change `Seen`
(`SeenLater`), and it is never there on a day without a price row
(`FiresTrades`), so that the trading days of `stock_price` are enough for the
rule over the other two tables as well.

The second half is `EvalInv`. It adds to the type invariant that an open call
which is not `touched` holds windows of the tables as they are (`CallSees`);
that a backfill nothing raced is not touched either, and its total counts the
days of its range on which the rule fires, but for those that are left
(`Counts`: each once, all of the range, and `CountOne` takes one out); that a
fresh day shows `Seen` in `outcome` and, if it fires, in `signal_event`
(`FreshSeen`); and the same count for the last backfill (`ReportedSeen`). A
write of day d takes `fresh` from the days from d on and marks the open calls
that have read its table for such a day; `SeenLater` leaves the rest as it was,
and so does a table that is still to be read. The four
properties follow without another step. One assumption is the data's and not
the code's: that a volume is not negative (`RowsAssumption`). The columns are
plain integers, no constraint or validator keeps a sign out, and with negative
volumes the mean could be negative and the ratio change its direction.

For the paced fetch, `RateBound` follows from a stronger bound on the bucket
(`RateInv`): what was sent since a time `t` weighs at most what has leaked since
then and what the bucket holds. `WaitIsShort` turns this round (`Served`): while
a caller waits, the bucket was too full for a GET whenever time passed, so it
leaked its full rate and was filled as fast. The products of a rate and a time
are the only non-linear terms, and `Products` gives the solver their laws.
`GivesUpLate` needs what a fetch has slept before its n-th attempt, `Slept(n)`,
a sum of n - 1 waits: `LateInv` bounds the time since the first GET by it in
each step of a fetch, and `SleptStep` adds a wait (`SumTake`).

For the day, `DayInv` is the type invariant, that what an open call has read is
there still (`AllGrounded`: rows and events are never taken back), and that the
notification is open or due only while it is not decided (`OnceADay`: a
restarted application computes a first run time strictly after now). Each step
of each body then is one step of `DailyPromise`, or none. The other three speak
of what only the clock orders, so they need to know what an open body does at a
time of the day. `PunctualInv` says that evaluation and notification are over
when their slot is, unless a blocked loop or a slow job has let a call outlast
it; `Covered` that a notification has loaded, or will, all that is recorded.
`TransformInv` follows the payloads through calm slots: each is in its table, or
a run of its transform in this slot is yet to come or at work. `SmoothInv` says
of a day that nothing disturbed which jobs have fired and what the evaluation
has recorded or will.

For the notification, `OwnInv` says whose each call is. `PublishInv` follows a
call (`Loads`, `Posts`, `Past`): what it has loaded is recorded and covers what
was recorded when it began, signal by signal; the message built of that rests on
recorded events and tells, for each signal, all of them or as many as the
fields allow (`TopTells`); and before the last message shown, each one was
answered with a 5xx.

Left to TLC are the three liveness properties (`EventuallyConsumed`, `CallEnds`,
`PublishEnds`), which rest on fairness and `ENABLED`, out of the reach of the
provers. Every invariant and every action property of the runs that pass, and
both refinements, are theorems.

## 6. Where the code and its documents differ

Each of these runs checks one statement of a document or docstring of the
repository and ends in a counterexample; the findings in `PROJECT.json` quote
the line.

| run | statement | what happens |
|---|---|---|
| `row_transform_skip` | the cursor is a high-water mark (`price/models.py:38`) | two writers (the job and a command): id 2 commits, the cursor passes 2, id 1 commits and is never read |
| `institutional_refetch` | a row is buy - sell of its stock, date and category (`openspec/specs/chip-data/spec.md:8`) | two fetches of a day in one batch are added up |
| `watchlist_ingest_lost` | a failed stock is recorded and the loop continues (`openspec/specs/stock-universe/spec.md:43`) | a connect error, a 4xx or a body that is no JSON leaves the loop |

The first needs a command run by hand beside the application; the others do
not.

Seen while modelling, and modelled as the code does it, without a run of its
own:

- Two overlapping transforms (`price/transform.py:147`): the cursor is read
  without a lock and overwritten at the end, so a transform command that began
  before a tick and commits after it puts the older rows and the older cursor
  back, where `openspec/specs/price-domain/spec.md:51` says that values reflect
  the most recent payload. `LatestWins` and `NeverBack` fail with two
  transformers, which is why they are checked and proved for one. The next tick
  replays the newer rows if it finds the older cursor; if a tick that began at
  the newer cursor commits after the stale transform, the cursor moves on and
  the older rows stay until a later payload names their keys. `HighWaterMark`
  therefore asks that such a key has a row, not which. A stale institutional
  transform can lose a fetch for good, as the replay may sum a different batch.
- The average of a short window is not null (`signal/service.py:54`), where
  `openspec/specs/signal-engine/spec.md:44` and its scenario at line 67 have no
  signal without a full window: in the first weeks of a stock the code does emit
  events, against the mean of the days there are. `IsSurge` asks for the full
  window, and `Agreed` leaves the days of a short one out, as well as those
  whose window reaches back more than three windows of calendar days, which the
  query cuts off.
- The burst (`ingest/clients/finmind.py:136`):
  `openspec/specs/data-ingestion/spec.md:8` and 13 have at most nine requests a
  minute. A leaky bucket of 8 that was idle lets 8 pass at once and 7 more in
  the minute after, 15 in all, and every `run()` has a bucket of its own.
  `RateBound` states what does hold of one client.
- Overlapping syncs: `universe/service.py:58` says that all rows are marked
  inactive and those of the snapshot active again. The UPDATE does not find
  rows that another sync commits while it waits (`missed`).
- `ingest_failure.attempts` is always the configured maximum
  (`universe/daily_ingest.py:107`), though the column stands for the attempts
  made (`ingest/storage.py:41`). `FailureRow` keeps both numbers.
- `_margin_growth_ratio` and `_price_change_pct` walk calendar days
  (`signal/rules/institutional_chase.py:109`), where the docstring (lines
  27-30) and `openspec/specs/signal-engine/spec.md:122` speak of trading days:
  with a look-back of two, a Monday is compared with the Friday before, one
  trading day back. The walk for the streak ends after twice the window.
  `IsChase` counts trading days, and `Agreed` leaves out the days on which the
  walk meets another row.
- The scheduled notification lists only the first signal (`api/main.py:60`),
  where `openspec/specs/signal-notification/spec.md:64` has every registered
  one; `MCNotification` and `MCDailyPipeline` give the publishers the lists
  they really have.

## 7. What is not modelled

- **In `DailyPipeline`:** more than one stock and one day, the margin dataset
  (its ingest and transform are the price's under another name), the weekly
  universe sync (which `WatchlistIngest` has beside the loop), and the gap
  between INSERT and COMMIT of a payload, which `RawLedger` has. Slots stand for
  times of the day: two jobs of one slot start in any order, though the code's
  seconds may put them in one.
- **Commands.** Argument parsing and output. What a command does is a process
  of the module of its component, and a step of `RunCommand`.
- **Schema sentinel.** No job and no command calls it; it compares one
  response with a constant table of fields.
- **Settings, logging, database set-up, migrations.** No state that changes;
  the constraints the migrations create are in the initial states and upserts.
- **Row schemas.** Which strings and numbers Pydantic accepts; the models tell
  accepted items from rejected ones.
- **A backfill's stop at the first error.** An abandoned call leaves the events
  of the days before it, as `Abandon` has it; nothing is reported.
- **Decimals.** Ratios are exact; the rounding of a severity is left out.

## 8. Plan

Done, in this order, since the transforms carry the data every later part
reads: `LedgerView`, `RawLedger`, `RowTransform` with `DomainView` and its
proofs, `InstitutionalTransform`, `UniverseSync` (now with overlapping syncs),
`FinMindClient` and `WatchlistIngest`, `SignalRules` and `SignalEvaluation` (now
with ticks, backfills and two evaluators), `Notification`; then `FinMindFetch`,
`JobScheduler`, `DailyPipeline` with `DailyPromise`, and the proofs of the daily
ingest, the paced fetch and the day; then `FoldLemmas` and the proofs of every
other safety property of the transforms, the syncs, the ingest, the paced fetch,
the notification and the day; and last those of the rules and the evaluation.

No safety property of a passing run is without its theorem. What would be worth
adding next: a second stock in `DailyPipeline`, and a run of two transformers
over several ticks that shows how long a row put back by a stale transform stays.
