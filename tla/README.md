# Trading Intelligence: models, checks and proofs

TLA+ models of the stateful core of the repository, the TLC runs that check
them on small instances and the TLAPS proofs that hold for every instance.
Source paths below are relative to the repository's root (`src/src/…` here is
`src/…` there); `PROJECT.json` gives, for every definition, the lines it models.

Commands, in this directory: `tlc -workers 2 -config papers_use.cfg MCPapers.tla`,
`tlapm SubmissionInfrastructure_proofs.tla`.

## 1. The system

Most of the repository is analysis: pure functions from candles to structures,
signals, plans and statistics. Around it stand a few components that keep state.
They are plain Python objects over directories of JSON files, one file a record,
each written to a temporary file and renamed. There is no database, no lock
between processes and no version in a record. Three things make them hard:

- web handlers of the dashboard may run at a time, command lines are processes of
  their own, and all of them share the same directories;
- the continuous scanner runs a thread (the only component that makes one);
- brokers and providers answer late, wrongly or not at all, and a process may
  die between any two writes.

| Component | State | Operations | What is hard | What makes it correct |
|---|---|---|---|---|
| submission infrastructure (`engine/intelligence/broker_adapter_infrastructure.py`, `submission_lifecycle.py`, `engine/persistence/submission_store.py`) | one snapshot file a command, named by a hash that changes with the state | create, submit, reconcile, recover | the order is sent before anything is written; the new snapshot is written beside the old one, which is then deleted | no order without its trace, no blind retry, no lost or false record |
| broker adapters (Upstox, reference, fake) | the broker's | submit, query | timeouts, lost answers, failures after the order was taken | an answer means what it says |
| execution gate, controlled validation | none | checks | – | pure decisions |
| intent, authorization, command chain (`engine/models/execution_*.py`, `engine/persistence/execution_*_store.py`) | authorization and command files, named by a hash of a part of them | create intent, authorize, create command, save, load, delete | two processes save under one id, crash between the two stores, records used long after they were made | a command only from an authorization that was granted, one per authorization |
| continuous scanner (`dashboard/continuous_scanner.py`) | state, stop and busy flags, schedule | start, stop, run, scan_once, the loop | threads, flags read outside the lock, failing scans | no overlap, back-pressure, stops end the loop |
| setup lifecycle (`dashboard/setup_lifecycle.py`) | the instances of each setup of an instrument, in memory | process a cycle's assessments | late, repeated, missing and contradicting assessments | one active instance a setup, a history that says its state |
| user alerts (`dashboard/user_alerts.py`) | alerts emitted, in memory | make and deliver the alerts of a cycle | a cycle processed again, channels that fail after sending, restart | true alerts, each sent once |
| alert outbox (`dashboard/alert_outbox.py`) | queue with attempts, in memory | enqueue, process | retries after a delivery that succeeded | the same; attempts within their limit |
| reliability tracker (`dashboard/reliability.py`) | alert ids, counters; one state file | startup, record, shutdown | restart after a crash or a shutdown | what was saved is restored and used |
| forward validation (`dashboard/forward_validation.py`) | sessions and observations | open, observe, measure, close | measuring while the window fills | a measurement is final once complete |
| historical outcomes (`engine/intelligence/historical_outcome.py`, …) | none | evaluate, measure | twins of the paper engine that share no code | agree with it |
| market structure engines (`engine/intelligence/swings.py` … `liquidity_event.py`) | none; worked out anew at each point | swings, structure, bias, breaks, regime, pools, events | windows to the right of a candle that are not full yet | no repaint, no look-ahead |
| signals and their validation (`confluence.py`, `decision.py`, `signal.py`, `validation.py`, `engine/pipeline/historical_pipeline.py`) | the walk's next free point | evaluate a history | which signal is taken depends on verdicts from later candles | one signal at a time, stable as history grows |
| live validation | observations of paper trades | record, refresh | reads trades that change | agrees with the trade |
| paper trading (`engine/intelligence/paper_trading.py`, `dashboard/paper_trade_operations.py`, `services.py`, `paper_trade_store.py`) | one file a trade | cycle, create, track, close, cancel | load, fetch, save without a lock; partial views of the market | first touches only, terminal is final |
| historical data store | series and provenance files | merge, write | two writers of one series | nothing fetched is lost |
| registry and result stores | write-once records | save, load | – | content-addressed |
| watchlist, market session | a set; a calendar | add, remove | – | idempotent |
| setup detection, trade planning, setup quality, multi-timeframe, backtest statistics, research | none | analyse | numeric thresholds | agrees with its definitions |
| data providers | caches of network answers | fetch | stale and partial answers | completed candles only |
| dashboard views, serialization, scripts | none | render | – | – |

Interactions: candles go through the **structure engines** to **signals**; the
**scanner** calls the scan engine, which feeds the **setup
lifecycle**, whose changes become **alerts** and go to the **outbox**; the
**reliability tracker** wraps that loop. A human turns an analysis into an
**intent**, authorizes it, and the **command** built from the authorization goes to
the **submission infrastructure** and the **adapter**. **Paper trades** take the
same analysis as input, are advanced by the operations cycle, and are read by
**live** and **forward validation**.

`PROJECT.json` lists all components and, under "hazards", where each of these
difficulties bites in the code.

## 2. Modules

| Module | Content |
|---|---|
| `SubmissionContract` | lifecycle states, transition table, terminal states, restart decision (constants only) |
| `SubmissionLedger` | abstract: the one recorded state of a command, opened, attempted, reconciled |
| `SubmissionInfrastructure` | the service, engine and file store, with callers, crashes and a broker |
| `SubmissionInfrastructure_proofs` | its theorems |
| `ContinuousScanner` | the scanning loop, its callers and its clock |
| `ContinuousScanner_proofs` | its theorems |
| `PaperTradeEngine` | what the engine does to one trade: pure functions of the trade and of candles |
| `PaperTrades` | the trades of one instrument under cycles, requests and a growing market |
| `PaperTrades_proofs` | its theorems, those about `HistoricalOutcomes` included |
| `HistoricalOutcomes` | outcomes and windows of the historical side, on the market of the paper trades |
| `SetupLifecycle` | the lifecycles of one instrument under assessments in any order |
| `SetupLifecycle_proofs` | its theorems |
| `AlertPipeline` | lifecycles, alerts, outbox and the tracker's file, composed, with ends and starts of the process |
| `AlertPipeline_proofs` | its theorems, on top of those of `SetupLifecycle_proofs` |
| `CommandChain` | intents, authorizations, commands and their two stores, with callers and crashes |
| `CommandChain_proofs` | its theorems |
| `MarketStructure` | what the structure engines say of every prefix of a series of candles |
| `MarketStructure_proofs` | its theorems |
| `SignalPipeline` | evidence, decision, signal, validation and the walk, over `MarketStructure` |
| `SignalPipeline_proofs` | its theorems, on top of those of `MarketStructure_proofs` |
| `MC…` | constants and symmetries for TLC |

`PaperTrades` uses `PaperTradeEngine` and `HistoricalOutcomes`, `AlertPipeline` extends
`SetupLifecycle`, `SignalPipeline` extends `MarketStructure`, and
`SubmissionInfrastructure` is shown to implement `SubmissionLedger`.

Operators commented "mutant" are faulty variants of the definition next to them.
No specification uses them; each is there to show that a property would notice
the fault.

### Submission

A call of the service (`create_lifecycle`, `submit_command`, `reconcile_command`)
is the sequence of its accesses to what it shares: list the directory (`ListStore`),
read the files (`LoadNothing`, `LoadOne`, `LoadAmbiguous`), contact the broker
(`Dispatch`, `Query`, `RefuseContact`), and `_persist_replacing`: look for the file
(`Save`), rename (`Write`), delete the old one (`DeletePrevious`), list again
(`Relist`), and clean up (`FindStale`, `DeleteStale`). What the engine computes
between two accesses belongs to the step before. `Crash` ends a call at any step;
an I/O error raised to the caller leaves the disk as a crash at that step does.
A record keeps its command, state, `created_at` and the length of its history;
the file name is a function of the first three (`SameId`).

The broker is external. It may take the order or not, and whatever it did, the
adapter may report UNKNOWN or FAILED. `BrokerDedupes` says whether a second order
with a known client order id is refused. The code relies on it and cannot enforce
it, so properties that need it say so. After that an order moves by itself
(`BrokerProgress`).

`created_at` is the caller's; the model assumes that it never goes back from one call
to the next. `request_cancellation` is reached by no service operation, `audit`
only reads, and both are left out.

### Scanner

One step is one section under the scanner's lock, or one access outside it: the
clearing of `_busy` (`Release`) and the reading of `_last_cycle_end` (`Schedule`).
A thread's place in `_loop_body` is `pc`. Time is kept as ages (since the last
cycle end, since each scan began) that stop at `Interval`: the code compares them
with the interval only.

Assumed: a scanner is driven by `start()` or by `run()`, not both, and by one
`run()` caller (`SingleRunner` in the proofs, one runner in the runs). An on-demand
scan takes its `reference_now` from the clock; with `OldReferences = TRUE` it may be
older, and then `BackPressure` fails, since `_last_cycle_end` takes that reference.
References in the future are not modelled.

### Paper trades

Candles are numbered by time; of each, the trade's levels that its range reached
are kept. `Track` is the whole of `PaperTradingEngine.track`: a trade that enters is
followed to its exit in the same call. An operation loads a trade (`Load`,
`Request`), then computes and saves (`Save`). The provider's answer and the
reference are chosen at the save, among all that were possible so far; this covers
every earlier fetch. `Skip` is the cycle's failure isolation, `GiveUp` an error raised
to a caller or the end of a process. `Analyse` and `Create` are the check and the
save of `_create_eligible_trade`. A trade's id is made of its `created_at` and its
geometry. The service's creation checks nothing and overwrites: a request without a
time of its own takes the candle's, so the same request again (or one for the cycle's
trade) has the id of what is stored and writes it anew (`RequestAgain`); one that
brings the time of the day has an id of its own (`RequestNew`).

Deleting a trade is left out: only tests call it. Prices, R and P&L are functions
of what the model keeps.

### Historical outcomes

`Evaluate` is `OutcomeEvaluator.evaluate`, `Measure` is `ForwardOutcomeEngine.measure`
and `FixedHorizon` the window of `ForwardReturnEngine` and `PriceExcursionEngine`. They
are functions of the market that `PaperTrades` lets grow, and are compared there: a
market may be seen by the one in a single look and by the other candle by candle.
An incomplete window without a touch is EXPIRED for the evaluator, as it is for the
paper engine (see the run `papers_expiry`). Excursions are taken over the whole
horizon, not up to the exit, and are left out with realized R.

### Setup lifecycle

`lifecycles[s]` is the sequence of the instances of setup `s` = (direction, type), each
with its state, its counter of absences and its observations. `ProcessSymbol` is the
whole of `_process_symbol`: the assessed setup is advanced or created, the active ones
of the opposite direction are superseded, the others are absent, each saved as it is
reached in the order of the groups and of the ids (`Turn`, `Rank`; ids are hashes).
A lifecycle whose last observation has the instant of the assessment and another
content raises (`Refuses`), and the instances after it are not reached (`After`).
An assessment is (instant, setup or none, qualified or not, data missing or not); any
may come at any time, so cycles are late, repeated and contradictory. Since the
engine keeps an instrument's lifecycles apart, one instrument is enough.

### Alerts, outbox and tracker

`Scan` is a lifecycle cycle, `EmitAlerts` is `AlertEngine.process` of the result of any
cycle of the run (`cycles`): it may come late, when later cycles have moved the instances
on, and again. `Enqueue` and `DeliverEntry` are the outbox, `Shutdown`, `Crash` and `Start`
the process with the tracker's file. A delivery tries channels in order
until one does not raise; a channel may send and then raise (`Outcomes`). All but the
file is lost at an end. `file` is written once: `save_snapshot` is not told to
overwrite. `sent` and `resent` are history variables. That the alerts which failed are
put into the outbox is the caller's part; the model lets it happen for any of them,
any number of times, or not.

### Command chain

`CreateIntent`, `Authorize`, `Revoke` and `CreateCommand` make a record in the hands of a
caller; `Look` and `WriteFile` are the two accesses of a store's `save`. An id is the part
of the record that is hashed: it leaves out the times of authorizations and commands, so
two records may collide on purpose. The repository has no operation that revokes: a
revocation is a record that a caller builds with the status REVOKED (`Revoke`, external),
a second file under an id of its own.
`granted` is a history variable. The economic content of a plan is a model value.

### Market structure and signals

`candles` grows by one (`Next`), and `Evaluate` is what the engines say of the whole of it.
Instants are positions. A swing has `lookback` candles on both sides; near the end it is a
CANDIDATE with those that are there; only CONFIRMED ones (`ConfirmedAt`) reach the structure
and the pools, which the code sees to in each of the two engines. `Analysis`, `Broken`, `Changed`, `Regime`, `Trend`,
`Pools` and `Event` each are one engine. `SignalNext` adds the signal of the point
(`Offer`: evidence, decision, levels) and `Walk` is the second half of
`HistoricalEvaluationPipeline.evaluate`, with `Validate` on the candles after the signal.
Scores and prices are integers (in 1/100), where the code has floats: a score exactly on a
threshold may fall on the other side there. `min_history` only leaves out early points.

Seen while modelling, and in no doc's way: a change of character is never detected (the
last point would have to be a low and a high at a time), a quality EXCELLENT of the decision
is never reached (it needs conflict NONE, which means no evidence), a bearish net score is
clamped to 0 on its way into the decision and not used, and a BREAKOUT on fewer than all
confirmation candles may turn into a SWEEP. `_structure_break_level` and
`_liquidity_anchor_level` take the highest and the lowest pool where their docstrings say
the most recent one; the model does what the code does.

## 3. Runs

| Run | Instance | Shows |
|---|---|---|
| `submission_single` | 1 command, 1 caller, 5 calls, 2 crashes | the properties of a single caller: records true, dispatches accounted for, nothing lost or shortened, leftovers fail closed, the ledger implemented |
| `submission_callers` | 1 command, 2 callers, 3 calls, 1 crash | what holds of concurrent callers: orders backed, settled records true |
| `scanner_use` | 2 workers, 1 runner, 2 on-demand callers, interval 2, budget up to 2 or none | exclusion, ownership of the flag, one loop, STOPPED is idle, back-pressure, and liveness |
| `papers_use` | 2 operators, 1 trade, 4 candles | first touches, agreement with the historical evaluator, whichever operation saved last; measurements that settle |
| `lifecycle_use` | 3 setups, 3 instants, 5 observations recorded | one active instance a setup, histories that say their states, harmless replays, exactly the older opposites invalidated, history frozen |
| `pipeline_use` | 2 setups, 2 instants, 2 channels, 2 attempts, 2 runs of the process | true alerts also of overtaken cycles, sent once unless a channel raised after sending, attempts within the limit |
| `commands_use` | 2 callers, 1 plan, 2 intents, 2 scopes, 2 instants | one command an authorization, granted, times in order |
| `structure_use` | all series of 7 candles of 5 shapes, lookback 1 or 2 | no repaint, events settle, two trends agree, one signal at a time, a backtest that stays as history grows |

Runs that find a statement of the docs violated:

| Run | Statement | What happens |
|---|---|---|
| `submission_recovery_contact` | recovery's "never been contacted" | a crash between `adapter.submit` and the save leaves an order and no trace |
| `papers_expiry` | EXPIRED at the end of `max_holding_bars` | EXPIRED one candle after the entry |
| `papers_overwritten` | CLOSED, CANCELLED and INVALIDATED are "terminal - immutable" | an operation that loaded the trade earlier saves its copy over the closed one; a repeated request writes it anew |
| `pipeline_restart` | a restart "never re-emits already-emitted alerts" | the restored ids are not looked at, the alert is sent again |

### Stated, and not among the runs

These formulas are in the modules, TLC refutes them, and no run lists them; where a
configuration is named it is kept here and shows it.

| Formula | Configuration | What happens |
|---|---|---|
| `RecordSurvives` with two callers | `submission_record_lost.cfg` | the cleanup deletes the last record |
| `UndeterminedStaysOpen` | `submission_query_failure.cfg` | a failed query settles the lifecycle as FAILED |
| `OpenOrdersAreQueried` | `submission_open_not_queried.cfg` | `is_terminal` holds of ACCEPTED and PARTIALLY_FILLED, so they are not queried |
| `NoCycleAfterStop` | `scanner_stop_race.cfg` | the loop looked at the flag before `stop()` and begins |
| `SkipThenWait` | `scanner_skip_spin.cfg` | a skipped attempt is repeated at once |
| `EntryInTime` | `papers_late_entry.cfg` | the count of `max_entry_bars` starts again when the provider's window has moved on |
| `ExpiredFailsClosed` (`CommandChain`) | `commands_expired.cfg` | the docs say "EXPIRED: NO COMMAND, fail closed"; a stored authorization makes commands after its end, as only its status is looked at |
| `NoSilentOverwrite` (`CommandChain`) | `commands_overwritten.cfg` | the docstring of `save` says that a stored command is never silently overwritten by a different one; two callers both find no file, and the later record replaces the earlier |
| `InstancesInOrder` (`SetupLifecycle`) | – | an assessment older than what ended an instance begins the next one |
| `FlushedAtShutdown` (`AlertPipeline`) | – | a second shutdown leaves the file as the first one wrote it |

### Bounds

- *Submission.* Commands share nothing but the directory, and every access filters
  by command, so one is enough for what is said of each; the proofs are for any
  set. Five calls reach create, submit, two reconciliations and a repetition; two
  crashes can tear the store and hit the recovery from it. With two callers three
  calls are enough for a submit, a reconcile and a racing third.
  `MaxTime` lets two calls have the same `created_at` (names collide) or not.
  The calls are used up, so the runs stop: `CHECK_DEADLOCK FALSE`.
- *Scanner.* Two workers: the old loop still ending and the new one. Two on-demand
  callers: one refused by the other, beside the loop. Interval 2: a sleep can be
  whole, partial or nil. Budget 0, 1, 2 or none.
- *Paper trades.* A trade made before the first candle can enter at it, be held for two
  more (`MaxHolding = 2`) and see a fourth one past its horizon. `MaxEntry = 2` gives an
  entry a candle before it that must not have reached it, and makes the third one too
  late. A constraint (`MadeEarly`) has trades made of the first candle or of none, at
  any time; of a later one the proofs speak. `FourShapes` has every pair of answers for
  target and stop, and both for entry, which is looked for separately. In `papers_use`
  the provider shows the whole market (`Window = MaxBars`): what a moving window changes
  is the subject of `papers_late_entry.cfg` (which, as `papers_expiry`, has `MaxEntry =
  1`). With one trade, the check for a duplicate is not challenged; two trades are
  beyond five minutes. Horizon 2 of the 4 candles leaves windows empty, partial and full
  for every anchor.
- *Lifecycle.* Two setups of one direction displace each other and one opposes both.
  `MaxMissing = 2` needs two absences, which a sighting, a gap or a late look can part.
  Five recorded observations reach an ended instance, its successor and that one's end.
  Replays are always possible, so nothing stops.
- *Pipeline.* One observation ends an instance here (`MaxMissing = 1`). Two channels let
  the first send and raise, `MaxAttempts = 2` fails for good after a retry, one alert a
  cycle suppresses the others, one entry is enough as entries do not touch each other,
  and two runs have one restart. What was recorded is bounded over both runs, so the
  process ends: `CHECK_DEADLOCK FALSE`.
- *Commands.* Two instants make an authorization that begins and one that is over, two
  intents of one plan differ in their instant or their end, `"other"` is a scope that no
  command can have. Time and intents run out: `CHECK_DEADLOCK FALSE`.
- *Structure.* Seven candles give the four confirmed swings of a range and the three
  points of a bias, its break, and a pool with breach and both confirmations. Two
  prices within 1 % merge in one pool and lie in one range; a bar that spans all of
  them is a high and a low at a time, touches stop and target, and sweeps. Two candles
  of validation and weekly candles (`Weekly`) give each of the six verdicts, LONG and
  SHORT signals, suppressed signals and two signals in one walk, and events of all but
  the two oldest weights. The series ends: `CHECK_DEADLOCK FALSE`.

### Fairness

Everything but the scanner has no fairness: the steps are calls of people, web
handlers, scripts and schedulers that may never come, and nothing is promised to
happen. (The outbox has no loop of its own either: it works when it is called.)
In the scanner threads run (`WF` of each loop's and each on-demand caller's next
step), scans end (the engine isolates failures and its fetches have timeouts) and
time passes (`WF` of `Tick`). Nothing is assumed of `start`, `stop`, `run` or a new
`scan_once`.

## 4. Proofs

Everything here is for any constants satisfying the `ASSUME`s of the modules.

*Submission, any number of callers.* `TypeCorrect` is inductive as it stands.
`RecordedOrdersExist` needs `RecordsBacked`: snapshots still in a caller's hands are
backed as well, and the broker speaks of an order only after taking one; an order
count never falls, so backing is never lost. `SettledRecordsTrue` (given
`BrokerDedupes`) adds that FILLED and CANCELLED are final at the broker, and that a
caller's snapshot copies a broker answer (`SettledInv`).

*Submission, a single caller.* `SingleCallerInv` says what each step knows: what was
read is what is stored, a dispatch is only ahead of a command never recorded past
CREATED, the new snapshot is longer than the one it replaces and is on disk before
that one is deleted; the cleanup is never needed. From it follow
`SingleCallerAccounts`, `SingleCallerNoBlindRetry`, `SingleCallerRecordSurvives` and
`SingleCallerHistoryGrows`. `submission_record_lost.cfg` shows that the assumption is needed.

`LedgerInv` adds the shape of what is stored: at most two records, of two one the
predecessor of the other by one transition of the table (`Shaped`), and for each
step of a call how what it holds stands to that (`CallShape`). It gives
`SingleCallerKeepsPredecessor` and `SingleCallerTornIsFrozen`, and the refinement
`SingleCallerImplementsLedger` by step simulation: `Write` is the ledger's opening,
attempt or reconciliation, and every other step, crashes and `DeletePrevious`
included, is a stutter, as the recorded state is that of the newest record.
`SingleCallerOutcomesTrue` (given `BrokerDedupes`) needs `OutcomeInv`: a refusal or an
end, stored or about to be, was the broker's, which keeps it.

*Scanner.* `BusyOwned` is inductive with types and gives `ScansExclude`. `LoopInv`
(a loop under way is visible in the state, so `start` does nothing) gives `OneLoopOnly`
and `StoppedMeansIdle`. `PaceInv` gives `BackPressureKept`: on the way to its next
cycle a loop has waited, is still to wait for the rest, or was told to stop, and an
on-demand scan that is to stamp the schedule began after the loop's last cycle.

*Paper trades.* `TradesInv` is types and what an operation under way knows of the copy it
holds. `TrueInv` says of every trade, stored or about to be saved, that it is
entered and resolved as its status says and that its entry and its exit are the first
touches in the market. Every track looks at all candles again, so it is kept whichever copy
is saved last, and a request that writes a trade anew claims nothing; a longer market leaves first touches as they are. `EntriesAreFirst`, `ExitsAreFirst` and `BacktestsAgree`
assume `Window >= MaxBars`: the provider shows the whole market. Without it they are false
(`papers_late_entry.cfg`). The lemmas about `Track`, `Leading` and the evaluator are about sets of
candles and their least element. `MeasuresDoNotLookAhead` needs neither that assumption nor an invariant.

*Setup lifecycle.* `LifecycleInv` says of each instance that its observations are typed, in order
of time and say its state (`Sound`), and of each setup that all instances but the last are
over (`Orderly`). `Advance`, `Supersede` and creation keep it one instance at a time, and `After`
writes to an instance only what one of them returns. `ReplaysHarmless` shows that an
assessment processed once finds every instance it reached seen at its instant with its content,
and refuses, or stops, where it did before. `OppositesAreInvalidated` rests on `OppositesEnd`:
where the assessed setup was observed, every active opposite was reached, ended if it was
last seen before, and kept if after. The setups are assumed to be finite.

*Alerts.* `PipelineInv` has `LifecycleInv`, the bound on what all runs record together (`RunInv`; the
number of observations is the cardinality of the set of their places), the types of alerts
wherever they are (`AlertsInv`), that an alert that was sent and not resent was emitted, is
over, and is not pending (`SentInv`), and what an alert of any cycle of the run or an emitted one tells
(`TaleInv`): the observation by which its instance came to the state it names, which no later
assessment makes untrue.

*Command chain.* `ChainInv` says that files and records in a caller's hands are backed
by grants and that a file's name is the hashed part of its content. The authorization of a
command determines the rest of its id, as both agree on intent, content and scope; this
gives `OneCommandEach`.

*Market structure.* `StructureInv` is short: the report is `Evaluate` of the candles. The work
is in lemmas about series. `TrendsAlwaysAgree` holds of any points (`TrendsAgreeFor`), by the
cases of bias, break and change. `EventsAlwaysSettle` rests on `EventSettled`: once all
confirmation candles are in, a further candle moves neither the first breach nor the window,
for any typed pool (`PoolsTyped`). `NeverRepaints` shows that the windows of a confirmed candle
are full, so that a further candle leaves what it gives as it is (`ConfirmedStay`), that
`FlattenSeq` of a series with longer or later parts begins with what it was (`FlattenLonger`),
and that a label looks back only (`PointsStay`).

*Signals.* Nothing is assumed of what is offered at a point. `VerdictIs` gives the cases of a
verdict and `NextIs` the point after it: whatever the verdict, the candle after the last one
looked at. `OneSignalAlways` is an induction along the walk (`Gated`): trades end before the
first free point, a trade is at an eligible point exactly if none before it covers the point,
and all points that are not free yet are covered. `SignalsAlwaysSettle` compares two walks, of
a series and of one with a candle more (`Same`): `VerdictSettles` shows that a verdict either
stays, or had used up the shorter series and uses it up again, in which case both walks next
look beyond it. `SignalsFollowStructure` carries the theorems on structure over to `SignalSpec`.

The library's induction takes an operator and cannot be used, so `SetInduction` states
induction for a set of numbers, and `Recursion` the existence of the function that a
recursive definition describes; `Pools` and `Walk` are recursive functions for that reason.

*Model-checked only.* Liveness (`EveryStopEnds`, `AttemptsGoOn`): TLAPS does not handle fairness
and ENABLED. What the folds `Liquidity` and `Total` compute is not proved either, and no
theorem depends on it.

## 5. Not modelled

- Setup detection, trade planning, setup quality and multi-timeframe analysis: pure
  scorings of one moment by fixed weights and float thresholds; each is a table of cases
  that a unit test covers, and a model would repeat the table.
- Backtest statistics, robustness and research: sums over finished records.
- Confidences, quality grades, reasons, support and resistance, volumes and patterns: no
  modelled decision reads them, or only in a way that always agrees (the decision's
  confidence and evidence thresholds).
- Forward validation's sessions and observations: what the code promises of them (a session
  frozen, an observation kept once) is one guard of one call each. Known and not modelled:
  `process` measures at the observation's own instant, so a persisted outcome never uses a
  candle, and after a restart `record_observation` does not find the session
  (`forward_validation.py:811`).
- Live validation: records rebuilt from the outcomes of paper trades.
- The single-instance guard (`reliability.py:478`): a look and a write of one marker file.
- Historical store, registry and result stores: merge and whole-file writes without a lock
  and without a promise; write-once records named by content.
- Providers, adapters and the gate beyond what they may answer: network I/O and checks of
  configuration.
- Watchlist, calendar, views, serialization, scripts: no steps that interact.

## 6. Plan

The models are in place and every safety property of the passing runs is proved. What is
left, in this order: the safety half of the scanner's liveness (a request to stop is not lost
while the loop that was to see it goes on), and the bound on the evidence of liquidity (40 for
each direction, however many zones), which needs `Liquidity` as a recursive function.
