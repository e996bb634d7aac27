# Senseminds 360: a verification project

TLA+ models, TLC checks and TLAPS proofs for the predictive-maintenance
pipeline under `src/senseminds`: sensor readings arrive, an analysis run turns
them into findings, the current view of the findings decides which alerts are
raised, and a delivery emails them. Everything is translated from the Python
code; paths below are relative to `src/senseminds/` unless they start with
`src/`.

## 1. Inventory

| component | state it keeps | operations | interacts with |
|---|---|---|---|
| analysis use case (`application/analysis_use_case.py`) | none of its own; a run's local variables | `run(unit)` | readings, engines, repositories, policy, dispatcher |
| finding delta (`application/finding_delta.py`) | none (pure) | `is_material_change` | use case |
| escalation policy (`alerting/policy.py`) | none (pure) | `decide` | use case; its memory is the alert table |
| alert dispatcher, mailer (`alerting/`) | `application.alert` rows | `dispatch`, `send` | called after each run, by every process |
| repositories (`infrastructure/repositories/postgres.py`) | `engine_run`, `finding`, `alert`, `asset`, `model`, `report`, `feedback`, `user` tables | upserts, inserts, views | one unit of work per transaction |
| units of work (`analysis_unit_of_work.py`, `unit_of_work.py`) | an open transaction | commit, rollback, close | SQLAlchemy session |
| worker (`workers/analysis_worker.py`) | a stop flag | `run_once`, `run_forever` | use case, once per unit and cycle |
| API (`api/`) | none; request threads | `POST /analyze`, `POST /readings`, feedback, reads | use case, sink, repositories |
| artifact store (`infrastructure/artifact_store/local.py`) | files | `save`, `load` | use case; outside the transaction |
| ingestion (`ingestion/`, `application/bootstrap.py`) | `sensor_reading`, `ingest_watermark`, `unit_sensor` in `sensor_history` | `validate`, `write`, `upsert_asset`, `load`, bootstrap | API, worker, simulator, use case |
| live simulator (`simulation/live.py`) | the CSV's position, by a watermark read from the database | wipe, seed, tick | sink, use case |
| knowledge graph (`knowledge_graph/`, `infrastructure/graph_store`) | `knowledge.kg_node`, `kg_edge` | upserts by the projectors of findings, models and verdicts | inside the run's and the feedback's transaction |
| feedback (`api/routers/feedback.py`, `pattern_learning/feedback.py`) | `application.feedback` | record, latest | graph projection, model training set |
| engines (`engines/`) | none (pure) | eight engines in the order of their dependencies | `application/pipeline.py` |
| findings assembler, rules (`findings/`, `rules/`) | none (pure) | `assemble`, `evaluate` | use case |
| pattern learning, forecasting | none that outlives a run | `fit`, `discover`, `forecast_unit` | use case, graph, registry |
| outlook card (`api/routers/outlook.py`) | none | headline and citations from the view | API |
| telemetry chart (`api/routers/telemetry.py`) | none | two SQL statements over `sensor_reading` | API |
| assistant (`llm/`) | none | retrieve, complete, validate | API; an external language model |
| dashboard (`src/frontend`), catalog, settings, migrations | none that changes | reads | API |

**How they interact.** `AnalysisUseCase.run` is called by the worker (one
process, every 30 seconds, every unit), by `POST /analyze/{unit}` and by
`POST /readings` (API threads, possibly several replicas), and by the
simulator. It loads the unit's frame and computes everything without a
transaction, then opens *one* PostgreSQL transaction at READ COMMITTED in which
it claims `(unit, input_hash)` in `engine_run`, reads the current view and the
newest alerts, decides, writes artifact files, and writes asset, findings,
graph, report, run and alerts. After the commit it delivers the pending alerts
in a second transaction, which sends emails while it is open. The processes
share nothing but the database and the artifact directory. Feedback requests
write their label and its place in the graph in a transaction of their own;
the outlook, the chart and the assistant only read what was committed.

**What is hard here.**

* *Concurrency*: two runs of the same frame; two runs of different frames of
  one unit, whose reads happen before either takes the asset's row lock; two
  deliveries reading the same pending rows without locking them.
* *Failure*: an exception or a crash at any step of a run; a delivery that dies
  between the email and its record; a mail server that refuses, or takes the
  message and times out.
* *Derived state*: the current view is never stored. It is recomputed from
  append-only findings and the latest run's list of conditions, while unchanged
  findings are deliberately not recorded again.
* *Memory of the policy*: whether a condition was alarmed, suppressed or
  resolved is only known from the newest alert row, whose delivery fields
  another component rewrites.
* *Ordering*: time stamps taken at different moments of a run (`produced_at`,
  `started_at`) order findings, runs and alerts later. Frames, and readings in a
  frame, arrive late, twice and out of order.
* *Shared rows*: a condition's node is read, folded in Python and replaced as a
  whole; models and artifacts have one row for all units, locked by whichever
  run wrote it first until its long transaction ends.
* *Numbers*: minutes, trust and severities are regrouped by engine after engine,
  each with its own rounding, caps, gaps and empty cases.
* *Untrusted answers*: a language model may cite anything.

**What makes each component correct.**

* use case: one committed run per input; all or nothing; every batch analysed;
  the view, the artifacts and the alarms agree with the latest run.
* policy: each condition's alerts form one story, quiet when it flaps, never
  "resolved" for somebody who was not told.
* dispatcher: no row is stuck, no outcome is false, no more emails than
  attempts, nothing silent is sent, every alert is eventually recorded as sent,
  failed or skipped.
* ingestion and simulator: nothing is lost or stored twice across a resume.
* knowledge graph: what it knows is a function of the recorded findings, whatever
  the order and overlap of the runs; every chain can be walked; runs never wait
  for each other in a circle.
* feedback: the graph shows a verdict exactly when a label records one.
* engines: no minute is lost, nothing scores outside its parts, a breach reaches
  the top whatever the trust, and nothing is degraded without a cause.
* rules: they end with exactly what follows from all findings.
* learning: a forecast never crosses a gap; a model that fails takes nothing of
  the run with it, and what was learned is traceable to a registered model.
* cards and answers: the worst comes first, and nothing is said that does not
  rest on this machine's findings.

`PROJECT.json` lists, under "hazards", the line where each of these bites and
the properties that cover it.

## 2. The modules

```
AlertPolicy      decide(): conditions, newest alerts, time -> new alerts   (pure)
Incident         abstract: what the escalation promises per condition
AnalysisRun      EXTENDS AlertPolicy; run() by many processes; Promise == INSTANCE Incident
AlertDispatcher  dispatch() by many processes over the alert table
Monitoring       EXTENDS AnalysisRun; Delivery == INSTANCE AlertDispatcher
Ingestion        the ways readings get in, and what gets them analysed

KnowledgeGraph   what the projectors write, and what the graph should know (pure)
GraphStore       EXTENDS KnowledgeGraph; runs and feedback requests as transactions

SeriesMath       sums, quantiles, rounding over integer series             (pure)
OperatingState   EXTENDS SeriesMath: bands, episodes, transitions
Timeline         EXTENDS OperatingState: blocks, calendar days, totals
Signals          EXTENDS SeriesMath: quality, statistics, envelope, reliability
Thresholds       EXTENDS Signals        Health  EXTENDS Thresholds
Findings         EXTENDS Health: the assembler and the rules
Pipeline         EXTENDS Findings, Timeline; one run's computation, engine by engine
Learning         EXTENDS Findings: Phase B                                 (pure)
Serving          EXTENDS Learning: outlook card, assistant                 (pure)
Readings         EXTENDS SeriesMath: file, batch, table, frame, chart      (pure)
Insight          EXTENDS Pipeline, Serving, Readings; from a reading to what a user is told

AnalysisRunProofs, SequentialRunProofs, MonitoringProofs,
AlertDispatcherProofs, IngestionProofs, GraphStoreProofs,
GraphFoldProofs, EnginesProofs                                    theorems
MCAnalysisRun, MCAlertDispatcher, MCMonitoring, MCIngestion,
MCGraphStore, MCPipeline, MCInsight                               instances for TLC
```

The modules describe one system at three depths: `AnalysisRun` takes what a
frame shows as given, because what can go wrong there is who commits when;
`Pipeline` and `Insight` compute it for one unit, because what can go wrong
there is arithmetic and order; `GraphStore` takes the findings as given and looks
at the rows that runs of *different* units share.

### AlertPolicy and Incident

`Decide` is `AlertPolicy.decide`, one operator per numbered case of its
docstring: `MustTrigger` (cases 1, 4, 6), `MustRemind` (3), `MustResolve`
(2, 5), with `Announce` and `Close` choosing `pending` or `suppressed`. An alert
row keeps kind, status, attempts and creation time; wording, evidence and
recipients are left out.

`Incident` states the promise without runs, rows or views: a condition is never
alarmed, open or closed; `word` is the last thing the inbox was meant to hear.
Triggering, reminding and resolving are the only moves; "resolved" is the word
only for those who were told it was on; a flapping alarm changes no word.

### AnalysisRun

One action per step of `AnalysisUseCase.run` that another process can see or
come between:

| action | code |
|---|---|
| `Load`, `Compute`, `Start` | `source.load`; engines, assembler, rules; `started = _now()` |
| `Claim`, `Replay` | `runs.begin`: `INSERT .. ON CONFLICT DO NOTHING`; a conflicting open transaction is waited for; a committed one makes the run a replay |
| `Learn` | `_should_learn`, `_learn`: a model that fails is skipped |
| `ReadView`, `DecideAlerts` | `findings.current`; `alerts.latest_by_identity` and `policy.decide`: two statements, so two snapshots |
| `SaveArtifact` | one file each, immediately visible, never rolled back |
| `LockAsset` | `assets.save`: the upsert holds the asset's row until the end |
| `Commit` | `findings.add_many`, `runs.complete`, `alerts.add_many`, commit |
| `Abort` | an exception or a crash at any step; `__exit__` rolls back |
| `Return` | `run()` returns |

State: `readings` (the batches received; the frame after batch *n* has input
hash *n*), the committed tables `runs`, `findings`, `alerts`, the `artifacts`,
the row lock, each process's program counter and local variables, the clock.
`View` is `PostgresFindingRepository.current`, with its filter on the latest
run's list and its `DISTINCT ON (identity) .. ORDER BY produced_at DESC`.

Abstractions, and why they are safe:

* *One unit.* Every table is keyed by unit and the claim, the view and the
  policy only read rows of their unit.
* *Engines.* What the pure engines find in a frame is a function of it:
  `readings[n]` maps each observed condition to severity and evidence.
  Wording, confidence and the evidence values are one number, compared with
  the relative tolerance of `finding_delta._same_value`, in whole percent.
* *Time.* `datetime.now()` returns a new instant each time (the code's
  microseconds); `Wait` lets time pass. A replay gives its two instants back,
  since it stores nothing: otherwise an idle worker would use up the clock.
* *Writes.* The statements between `LockAsset` and the commit are one step: they
  write rows under the asset's lock, which nobody can see before the commit.
  `ON CONFLICT DO NOTHING` of the findings is kept.
* *Graph and model rows* are written by the same transaction and read back by
  nothing of this component: they are `GraphStore`'s. The report's row is left out.
* The column `engine_run.learned` keeps its default: neither `begin` nor
  `complete` writes it.

### AlertDispatcher

`Fetch`, then per (unit, kind) group `Send` and `Mark`, then `CommitMarks`.
`Send` has three outcomes: out and acknowledged, not out and an exception, out
and an exception (a timeout on the answer). `Mark` overwrites rows from what
*this* dispatcher read, after waiting for the row locks of another one's
uncommitted marks; a group's marks are one step. `Crash` loses the marks but
not the emails. `smtp` is whether a mail server is configured, fixed when the
processes start; without one `MarkSkipped` records the batch as skipped.
`Enqueue` is the environment: an analysis commits alerts.

### Monitoring

The composition for one unit: the runs of `AnalysisRun`, whose `committed`
state is where `dispatch()` runs, over the *same* table `alerts`, which is the
`outbox` of the instance `Delivery`. A replay returns before the delivery; a
delivery that raises is swallowed (`DeliveryFails`); nothing pending returns at
once. Delivery's `Enqueue` is replaced by the real `Commit`.

### Ingestion

Where `AnalysisRun` only says that a batch arrives, `Ingestion` says how, for
all units: the gateways' `POST /readings`, and the *feeder* of the deployment,
one of three profiles: `batch` (the worker), `sim` and `sim-reset` (the
simulator, resuming or wiping).

| action | code |
|---|---|
| `StartWorker` | `main`, `_maybe_bootstrap`: the CSVs are loaded if the database has no reading at all |
| `StartSimulator`, `WipeHistory`, `WipeResults`, `Seed` | `LiveSimulator.seed`, `_wipe`: one transaction per store; an existing CSV is kept unless it is a reset |
| `Identify`, `Tail`, `Write` | per unit: `upsert_asset`; the rows past the watermark (the bootstrap takes all); `DbReadingSink.write` |
| `StartCycle`, `LoadFrame`, `LoadFails`, `Complete`, `CycleEnds` | the worker's `run_once` over every unit with readings; the simulator's analysis of the units it just wrote; `DbTimeSeriesSource.load` and its errors |
| `Tick`, `AppendRow` | `run_forever`, `append_tick` |
| `Post`, `Respond` | `ingest()`: what validation accepts, and an analysis at once if asked for |
| `Crash`, `LoseDatabase` | the container dies at any step; the database volume is lost (external) |

State: the CSV files, the stored readings, the watermarks and known columns of
each unit, the frames with a completed run, and each process's place.

Abstractions: a *row* of readings is its tick; single sensors and the reasons of
rejections are left out, since nothing of a rejected reading is stored. A frame
is the set of ticks it holds. `AnalysisUseCase.run` is a load and a commit here;
that a frame is completed once is `AnalysisRun`'s `OneRunPerInput`. A file is
written in one step. The gateways do not post for simulated units: "The
simulator is never run in production" (`src/docs/DEPLOYMENT-STRATEGY-V1.md` 91).

### KnowledgeGraph and GraphStore

`KnowledgeGraph` has the content: a graph is two functions, from node ids and
from (source, target, type) to properties, and `Upsert` replaces a property map
as a whole. `FoldCondition` and `Evidence` are `_fold_condition` and
`_project_evidence`; `ConditionOf` and `EvidenceOf` say what the graph *should*
know, as a function of a set of findings. `GraphStore` has the transactions:

| action | code |
|---|---|
| `Begin` | the claim, Phase B with its failures, and the view read before the lock |
| `SaveAsset` | `assets.save`, `findings.add_many`, `seed_catalog` |
| `ReadCondition`, `WriteFinding` | `_project_one`: `get_node`, then the upserts, with those of `PatternProjector` for a learned finding |
| `WriteModel`, `RecordModel` | the model's node and patterns; `models.save` |
| `CommitRun` | the commit, which shows all of it |
| `Judge`, `Record`, `ProjectVerdict`, `Reply` | `POST /findings/{identity}/feedback`: the lookup (404, 400), the check for a repeated verdict, the projector, the commit |
| `Abort` | an exception or a crash of any transaction |

State: committed graph, findings, registry and labels; per transaction the rows it
has written (`tx`, which are also its locks), what is left to project (`todo`: the
result at hand, which of its findings remain, and the results after it), and the
node it has read. A write waits while another open transaction has written one
of the rows.

`ModelOrder` is the order in which `_learn` calls the models, the same for every unit.
Of two units' frames, `SharedRowsAreOfModels` says that they have in common only rows of
a model, its patterns and its artifacts: what the engines and rules cite is named for
the unit, the sensor or the finding.

Abstractions: times and ids are numbers in the order in which the code compares
ISO strings and hashes; properties that are constant per node (names, types,
status) are one value. Whether a known condition changed materially is left
open (`finding_delta` is `AnalysisRun`'s). One author, or any set of them, judges
the conditions of `Asked`. Rows of the asset and of findings are those of the
unit, which its catalogue rows stand for.

### The engines: SeriesMath to Pipeline

`Pipeline` has one action per engine, in the order in which
`DeterministicPipeline` resolves their dependencies, then `Assemble` and one
`Evaluate` per iteration of the rule evaluator. An engine reads what it requires
from `ctx` and adds its result; each engine's computation is an operator of its
own module:

| module | code |
|---|---|
| `Signals` | `SensorQuality`, `TimestampIntegrity` (quality gate), `SensorStatistics`, `SensorEnvelope`, `Assess` (reliability: flat line, drift, noise, spikes, oscillation, score, trust) |
| `OperatingState` | `BandActivity`, `DescribeBand`, `BuildEpisodes`, `RefineTransitions`, `Summarize` |
| `Timeline` | `Events`, `MergeRunBlocks`, `Share` (`expand_to_calendar`), `DailyRuntime`, `RuntimeRollup` |
| `Thresholds`, `Health` | `EvaluateSensor`; `SensorHealth`, `HealthRollup`, `UnitHealth` |
| `Findings` | `AssembleFindings`; `Conclusions`, `RulePass` (required, optional and excluded findings, chaining, the priority of two rules with one conclusion, confidence) |

Abstractions, and why they are safe:

* *Series are integers*, times included, and ratios stay exact until the code's
  final rounding: scores count tenths, trust and confidence ten-thousandths,
  a day's share of an episode 1/`Scale`. Deviations are compared squared. The
  code's intermediate roundings to two or four digits are left out: they may
  move a score by less than its last digit, which the properties allow for. A
  tie is rounded away from zero where Python rounds to even.
* *The thresholds of the engines are constants*, scaled down with the length of the
  histories (`FlatRun`, `DriftPoints`, `FaultPoints`, `Cap`, `MinPoints`); ratios
  and percentages are the code's own.
* *Sorting* is by order statistics: the n-th of a sorted series is the value that
  fewer than n are below and no fewer than n are not above (`Sorted`); a set of times or
  places in ascending order is `InOrder`, by rank. This says what `sorted` and numpy
  return without a procedure, and is what the proofs reason with.
* *The rules are layered* (`RulesAreLayered`): the evaluator calls itself a "monotonic
  fixpoint" with an iteration bound that is "a safety net" (`rules/evaluator.py` 3-8),
  which is true of a catalogue in which no conclusion excludes a rule and no chain
  of rules is longer than the bound. TLC evaluates this for the default catalogue
  and the rule on a diagnosis that the instance adds.
* *The density estimate* is scipy's: any set of cut points inside the range may
  come out of it, so every banding the code could work with is explored. The
  indicator's values are not negative.
* *Modes*: pandas may name any of equally frequent values first.
* *Left out*: numbers that are only displayed (further percentiles, the medians of
  the rollup), the wording and the order of findings.

### Learning, Serving, Readings and Insight

`Insight` follows one unit from its file to the reply of a request: the readings
of `Readings` are melted, validated and written, the frame is pivoted back
(`Load`), `Pipeline` runs over it, Phase B learns from it, and a request reads what
was recorded.

| action | code |
|---|---|
| `Seed`, `SeedFails`, `Post` | `ProcessedCsvSource.load`, `iter_readings`, `ReadingValidation.validate`, `DbReadingSink.write`, for a file and for a posted batch before or after it |
| `Load` | `DbTimeSeriesSource.load` |
| `PipelineStep` | `compute()` |
| `SkipLearning`, `LearnPatterns`, `LearnForecasts` | `_learn`: two blocks, each of which may fail after any part of it |
| `ShowOutlook`, `ShowTelemetry`, `Ask` | the card, the chart, the assistant |

Abstractions: what scikit-learn computes (a novelty score or a regime label per
window) and what the language model returns are *any* values of the right shape.
The forecast models are computed, in integers of 1/`Grain`; interval widths are
compared squared. Contributing features, drift against a training window and
completeness are left out, and so are sentences: the headline is its case, a
claim is the set of references it cites. A claim's category is the model's word
and decides nothing. A completion that is JSON but no object, which raises an
AttributeError and becomes a 500, is left out (`llm/grounding.py` 37), and so is the
chart's 404 when no sensor has a value (`api/routers/telemetry.py` 66-67); so are two rows of one time in a
file. One batch is posted per history.

A file and a batch are tables of integers, missing and infinite cells (`FilesAreTables`,
`BatchesAreRead`): text that is no number becomes missing when the CSV is read. `Scale`, the
unit of a day's share, is a multiple of every span between two readings
(`SpansDivideScale`), so that the shares are exact, as the code's floats nearly are.

## 3. What TLC checks

Every run's configuration is named after it; each property has a mutant of the
code in `PROJECT.json` that breaks it under the same configuration.

| run | question | bounds |
|---|---|---|
| `RunSequential` | does the stored state follow the runs of one worker? | 3 batches of 5 observations, evidence drifting 100/102/104 at a tolerance of 2%, 1 fault, time to 8 with steps of 4; reminder and cooldown 6, so that the gaps of 2 and 6 fall before and exactly on them |
| `RunConcurrent` | is a run atomic and idempotent, and does analysis go on, under races? | worker and an API thread, 2 batches, 1 request, 2 faults anywhere |
| `Outbox` | is the outbox truthful when processes overwrite each other? | 3 dispatchers, 1 alert, 2 attempts, 1 crash, with and without mail server |
| `MonitoringFlaky` | does delivery respect its limits, try what failed again, tell a correct story and leave the incidents alone? | 4 batches, 2 attempts, any send may fail or time out, or there is no server, 1 dead delivery, time to 5 |
| `IngestionFeeds` | does every reading reach the database, the watermark and an analysis? | 2 units with CSVs and 1 without, all three profiles, a backfill of 2 rows and one tick more, 1 gateway with 2 requests at any tick, 1 crash anywhere, 1 loss of the database |
| `Graph` | does the shared graph follow the findings and the labels, and nobody wait for ever? | 2 runs and 2 requests at once over 3 frames: 2 of one unit with windows ending together, 1 of another unit that shares a model and cites its artifacts in the other order; 1 failure anywhere |
| `Engines` | do time, trust, severities and citations survive the way from a reading to a reply? | one unit of 3 sensors in 2 subsystems: every activity history of up to 4 readings with gaps, missing values and midnights, and 875 pressure and temperature histories of 9 readings (breached, low, missing; steady, flat, drifting, noisy, coded, half missing, missing); files in reverse order, unreadable, with an infinite value; posted batches; Phase B with any scores and labels; any completion of up to 3 kinds of claims |
| `NewAfterHealthy`, `LearningThrottle`, `RetriedNextTick`, `DoubleClick`, `UndiscountedDiagnosis` | is a sentence of the documentation true? (no) | smallest instance that shows it |

The properties, by what they relate:

* `ViewIsLatestRun`: the view recomputed from old rows against what the latest
  run really saw. Three batches are enough for the case that matters: recorded,
  drifted unrecorded, drifted again.
* `AlarmsMatchView`: the newest alert of each condition against the view.
* `ArtifactsMatchView`: the files against the latest run, as long as nothing
  failed.
* `KeepsPromise`: the alert table refines `Incident`, through the mapping of a
  condition's newest alert to its state and its newest audible alert to the
  last word. Checked alone and, in `MonitoringFlaky`, with a delivery rewriting
  the rows it is computed from.
* `OneRunPerInput`, `AllOrNothing`: the claim and the rollback.
* `AttemptsMatchStatus`, `SentWasEmailed`, `SilentStaysSilent`: rows against the
  inbox, whoever overwrote whom.
* `AtMostMaxAttempts`, `OutcomeIsFinal`: hold for *one* delivering process (see
  divergences for two).
* `ResolvedOnlyIfTold`: the order of emails in the inbox, for each condition no send
  of which has failed, whatever failed for the others.
* `RetriedByEveryRun`: the attempts of a pending alert against the runs committed
  since it was written: each has tried it once. This is what the code gives in place
  of a retry "on the next tick" (`RetriedNextTick`).
* `WatermarkIsNewest`: the watermark against the readings, for late and repeated
  readings of several writers, a wipe and a loss.
* `RecoveredFromCsv`: the database against the files, whatever happened before.
* `ConditionsAreFolds`: each node against *all* recorded findings, although a run
  folds into what it read before it waited for a lock; `ChainsAreClosed`: edges
  against nodes, for chains that start at findings of earlier runs.
* `VerdictsAreBacked`: the verdict in the graph against the labels, in both
  directions; `ModelsAreTraceable`: the models of the graph against the registry,
  written at different moments and by runs of different units.
* `NoWaitCycle`: of any open transactions, one waits for none of the others.
* `EpisodesAreRuns`: the episodes against a definition by pairs of readings.
* `TimeIsConserved`: episodes, blocks, days and state totals against each other.
* `ProtectionReachesTheTop`, `DegradedHasCause`, `ScoreBetweenChildren`: what
  three levels of rollup do to a reading, in both directions, for every trust.
* `RulesAreComplete`: the diagnoses against what the rules conclude from the
  *final* findings, so that an iteration too few, or one that looks at the wrong
  findings, is seen.
* `FrameMatchesSource`: the frame the engines see against the log of what came in,
  and the chart's latest values against the frame.
* `HistoryIsUnbroken`: a forecast's history against the frame.
* `OutlookLeadsWithTheWorst`, `RepliesAreGrounded`: the card and the answer against
  readings and findings, whatever failed in Phase B and whatever the model says. A
  diagnosis that is cited can be followed down: no group of diagnoses rests only on
  itself.
* `EventuallyAnalysed`, `EventuallyCompleted`, `RecordedIfCalled`: liveness. The
  second is about a unit's *newest* readings: a reading stored while an older
  frame is analysed must get another cycle. The third says that an alert that
  stays pending for ever is one for which `dispatch()` is not called any more: no
  chain of failures, deaths and overwritten records keeps it pending while it is.

**Why the bounds are enough.** The hazards need at most: two processes and two
frames (races of runs), critical - clear - critical with a pause on the boundary
(flapping), one failure at any step. Nothing in the code counts beyond
MAX_ATTEMPTS, for which 2 already has a first, a middle and a last attempt. A third
process in `Outbox` lets one delivery overwrite another's record while a
third reads it. In `IngestionFeeds` two CSV units put a crash between them, and
two requests besides the CSVs make a late reading. `Outbox` has one alert; batches of several alerts are exercised
in `MonitoringFlaky`, and the theorems hold for any set of alerts and units.

In `Graph` two runs and two requests are what it takes for a folded node to be
replaced, for one model's artifacts to be cited by two runs in different orders, and for
a verdict to be overtaken; three frames give a later run something to fold into.
Workers, and requests, are symmetric: nothing tells them apart but their work.
In `Engines` an episode needs a reading before, in and after it, and one more for a
gap; three sensors give a subsystem with one and one with two children; a chain
of four rules contains one that requires, one that excludes and one that rests
on a diagnosis. Histories of 9 readings pass all the scaled thresholds and
allow the backtest two cuts. `Scale` is 720720, the least common multiple of 1 to 16,
which every span of these histories divides.

`CHECK_DEADLOCK FALSE` everywhere: the instances really stop when their budgets
of batches, calls and time are used up, when all frames are analysed and all
requests answered (`Graph`), or when the reply is given (`Engines`).

**Fairness.** A run that started goes on (`WF` of each process's steps): a Python
thread is scheduled and PostgreSQL grants a lock once it is free. The worker
starts a new cycle again and again (`WF` of `Load` for `Workers`):
`run_forever` loops until it is told to stop. Nothing is assumed of API callers,
of the plant, of time, or that anything fails or stops failing. In
`Ingestion` the worker is started again after a crash (`restart:
unless-stopped` in `src/deployment/docker-compose.yml` 94) and the feeder goes
on; the simulator has no restart policy, and is assumed none. In `Outbox`
a delivery that has begun goes on (`Continue`); that `dispatch()` is called again
is *not* assumed (no fairness of `Fetch`), because only a run with new readings
calls it: `RecordedIfCalled` puts the calls into its premise. `Graph` and
`Engines` state no fairness: their properties are invariants. In particular
`NoWaitCycle` says of every reachable state that somebody can go on, which is
stronger than the absence of a deadlock of *all* processes.

## 4. Divergences between code and documentation

Shown by a run (quoted with their lines in `PROJECT.json`):

1. `NewAfterHealthy`: `current()` treats a latest run that observed nothing like
   no run at all and lists every old finding again.
2. `LearningThrottle`: Phase B is not throttled, as `learned` is never stored.
3. `RetriedNextTick`: "because the analysis loop runs every 30 seconds, failed sends
   are retried naturally on the next tick" (`alerting/dispatcher.py` 7-8), but a
   replay returns before the delivery (`analysis_use_case.py` 144). When the send of
   the last run with new readings fails, the loop ticks for ever and the alert
   stays pending with attempts left. `RetriedByEveryRun` says what does hold.
4. `DoubleClick`: the check for the author's latest verdict and the insert are two
   statements; two requests at once store the same verdict twice.
5. `UndiscountedDiagnosis`: the rules are not given the sensors' reliability, so a
   diagnosis is never discounted by the trust of its sensors.

Met while modelling, without a run of their own. Runs and alerts:

* The view and the newest alerts are read before the unit is locked
  (`analysis_use_case.py` 163): two runs of different frames announce the same
  condition twice, against "one incident produces one clear story"
  (`alerting/policy.py` 3-4). `AlarmsMatchView` and `KeepsPromise` are therefore
  checked for one process.
* Pending alerts go out ordered by the *names* of their kinds
  (`alerting/dispatcher.py` 64), so "resolved" is emailed before, or without, its
  failed "triggered" (`alerting/policy.py` 15-17). `ResolvedOnlyIfTold` is
  demanded of conditions no send of which has failed (`NothingFailed`).
* `POST /readings` stores no sensor columns (`api/routers/ingest.py` 58) and a
  database with a reading is not bootstrapped (`workers/analysis_worker.py` 92): a
  unit posted to before the worker's first start is never analysed
  (`ingestion/db_source.py` 60).
* `started_at` is taken after loading and computing, so the run of an older frame
  can become the current view and stay there (`analysis_use_case.py` 117, 138;
  `postgres.py` 140).
* Artifact files are not part of "all commit or all roll back": a run that fails
  after saving leaves its files (`README.md` 251). This is why
  `ArtifactsMatchView` is restricted to histories without a failure.
* Two delivering processes can email an alert more often than MAX_ATTEMPTS:
  `pending()` does not lock and `mark()` writes absolute counts. This is why
  `AtMostMaxAttempts` and `OutcomeIsFinal` are stated for one worker.

* The simulator's reset keeps `application.alert`: the "clean slate" still
  remembers which alarms are open (`simulation/live.py` 78-80).
* A bootstrap that dies between two units is not taken up again: the database is
  no longer empty (`workers/analysis_worker.py` 92).
* A simulator that dies between writing and analysing does not analyse those
  rows when it comes back, until the unit's next row (`simulation/live.py` 163).

Graph and feedback:

* The projector is called whether or not the label is stored
  (`api/routers/feedback.py` 96-98): when A confirms, B rejects and A confirms
  again, no row is stored but the node returns to A's verdict, against "graph
  shows what is CURRENT" (`src/tests/test_feedback_loop.py` 126). And "each verdict
  is its own node" (`knowledge_graph/feedback_projector.py` 12) means one node per
  *condition*.
* The latest severity of a node is that of the finding with the greatest window
  end, then the greatest hash, which need not be of the latest run; `status` is
  always "active".
* `models.save` keeps the row of the first run (`ON CONFLICT DO NOTHING`,
  `postgres.py` 267): a model's training window is that of its first run of
  any unit.
* Every finding of a result SUGGESTS every pattern of it
  (`pattern_learning/projector.py` 58-69), also the approach of one sensor the
  forecast of another. Of several evidence items about one artifact only the
  first stays.

Engines, learning and replies:

* A logging gap "caps" the time of a reading (`operating_state/episodes.py` 4-5),
  but one longer than the cap counts zero; and "state continuity across an
  unlogged gap is not assumed" (6-7), while `refine_transitions` concludes a
  start-up from neighbours across one.
* `expand_to_calendar` spreads an episode's time over the days it spans: nothing
  keeps a day below 24 hours, only the total is conserved.
* Novelty scores are spread over 0 .. 1 before they are compared with the threshold
  (`pattern_learning/novelty.py` 68): unless all windows are equal the peak is 1,
  so something is always novel.
* `ForecastPreprocessor` drops missing values before it looks for gaps (26): a gap at
  the *end* of a history is not one, and the forecast starts at the last reading,
  however old.
* A claim's category is the model's word, an unknown one becomes FACT
  (`llm/grounding.py` 80-83), against "kept distinct end to end"
  (`llm/models.py` 18). If the model calls its answer "chat", its free text is
  passed on although all its claims were dropped (45-53, against 56-57).
* A missing reading is stored as NULL and never replaced by a value that comes
  later (`DO NOTHING`, `ingestion/db_reading_sink.py` 30); a posted reading of a
  sensor the unit does not have adds a row of missing values to its frame.

## 5. What is proved

Unless a hypothesis is named, a theorem holds of its specification for every value
of the constants that satisfies the modules' assumptions: any number of
processes, conditions, batches, faults, dispatchers, alerts, units, attempts,
gateways, ticks, crashes, frames, requests, sensors and rules. The assumptions
say what the code takes for granted of its inputs, and TLC evaluates each of them
in a run:

* *numbers are naturals*, observations are functions on conditions, nobody is
  called `NoProc`, the feeder is not a gateway, the backfill is shorter than the
  clock, an alert has at least one attempt (`PolicyAssumption`, `RunAssumption`,
  `DispatcherAssumption`, `MonitoringAssumption`, `IngestionAssumption`);
* *names that differ, differ*: a worker is not a request, `NoFrame` is not a frame
  or a label, `NoVerdict` is not a verdict; a hash determines its finding and a
  condition its unit (`ProcsAreDistinct`, `JobsAreDistinct`, `VerdictsAreGiven`,
  `IdsAreHashes`, `IdentitiesAreHashes`, `FramesAreOfUnits`);
* *what a frame yields* is what the assembler and the learning produce: findings
  with their fields, whose target is in the unit's catalogue and whose triggers
  are conditions that were found (`ResultsAreSequences`, `FindingsAreTyped`,
  `TargetsAreInPlant`, `TriggersAreFound`);
* *what two units share* are rows of models, and the models come in one order
  (`SharedRowsAreOfModels`, `ModelsAreOrdered`);
* *the catalogue*: rules have their fields and different ids, there are finitely
  many rules and sensors, a sensor has at most one operating range, no rule
  concludes a forecast, and the rules are layered
  (`FindingsAssumption`, `PipelineAssumption`, `OneOperatingRange`, `RulesAreLayered`,
  `InsightAssumption`, and those of the engines' modules);
* *files and batches are tables of numbers*, and the spans between their times divide
  `Scale` (`FilesAreTables`, `BatchesAreRead`, `SpansDivideScale`).

Two hypotheses appear in theorems and not in modules, because the code does not
guarantee them and the runs without them are modelled too:

* `OneProcess`: the runs of a unit do not overlap (the worker alone). What two
  processes do to these properties is in section 4.
* `AlwaysFinds`: every frame shows a Phase A finding, so that no completed run
  looks to `current()` like no run at all (`NewAfterHealthy`).

`RunSequential` and `MonitoringFlaky` are instances that satisfy those their
properties need.

**AnalysisRunProofs.** `TypeCorrect`: the type invariant. `Idempotent`
(`OneRunPerInput`) and `Atomic` (`AllOrNothing`) share a second inductive
invariant, `AtomicInv`, proved relative to the types: `AllOrNothing` is not
inductive because `Commit` writes rows computed several steps earlier, so the
invariant also says of every open transaction that what it holds in local
variables (what it found, the alerts it decided) is justified by the batch it
claimed, and that at most one open transaction and no committed run has its
hash. The policy enters by a lemma about `Decide`: every alert it makes fits
whether its condition is critical now. `Claim` establishes the exclusivity,
`Learn` and `DecideAlerts` the justification, `Commit` moves it to the tables,
`Abort` drops it.

**SequentialRunProofs.** With `OneProcess`:

* `OrderInv`: all that is committed is older than any instant a run in progress
  has taken. So a new run is the latest and its rows are the newest of their
  conditions (`CommitIsLatest`, `CommitNewest`).
* `ViewFollowsRuns` (`ViewIsLatestRun`). Not inductive: `Commit` records only the
  findings that differ from the view *read earlier*. `ReadsCurrent` says that this
  view is still the view, and `CommitView` what the new one is: for a condition
  recorded now the new row, for one that is not the old row, which was close.
* `AlarmsFollowView` (`AlarmsMatchView`, with `AlwaysFinds`): `DecideCases` says
  for each state a condition's alert may be in what `decide` adds to it. The
  argument goes through the findings of the run, which are what the view shows
  after the commit, and needs `FoundInv`, since an empty run would show the old view.
* `RunsKeepPromise` (`KeepsPromise`, with `AlwaysFinds`): the refinement of
  `Incident`. `PolicyMoves` maps what `decide` adds for one condition to a move of
  that incident or to none; `CommitMoves` lifts it to the table; every other step
  stutters. `IncidentInv` ties the abstract word to the newest alert: an open
  alarm that was not suppressed is the last word, and a suppressed one never is.
* `ArtifactsFollowRuns` (`ArtifactsMatchView`): files are replaced one by one and
  not rolled back, so `FilesInv` says for every place in a run how far the
  replacement has come.

**AlertDispatcherProofs.** `DispatchTypeCorrect`: types, and that dispatchers
only work on rows they read; needs that an idle dispatcher has no marks.
`NoneStuck` and `SentIsTrue` follow from `BooksInv`: rows travel from the outbox
into a batch and back as marks, so honesty (status fits attempts, "sent" was
emailed) must hold of batches and marks as well; it is a property of each row
against a growing inbox, so overwriting a row by another honest row keeps it.
`SuppressedIsSilent` follows from `SilenceInv`: whatever is in a batch is
not suppressed in the outbox now, no mark makes it so, and without a mail
server nothing is left to send.

**MonitoringProofs.** The composition, with `OneProcess`. Seen from the runs a
delivery is nothing until it commits (`StepsOfRuns`), so the invariants above are
kept by all its steps but that one.

* `OutcomesAreFinal` (`OutcomeIsFinal`, an action property) needs `DeliveryInv`: the
  rows a delivery holds are as they are in the table, and are exactly the pending
  ones. Hence its commit rewrites pending rows only.
* `AttemptsAreBounded` (`AtMostMaxAttempts`): `CountInv` counts, for each alert, its
  emails against its attempts, the deliveries that died, and the one that has
  emailed it and not yet committed.
* `MonitoringKeepsPromise`: `KeepsPromise` again, now that another component writes
  the rows the refinement mapping reads. `SameStory`: a delivery changes status and
  attempts of pending rows, neither of which the mapping sees, because pending and
  what becomes of it are alike "not suppressed" to it.
* `BacklogIsRetried` (`RetriedByEveryRun`): `RetryInv` counts, for each pending alert,
  its attempts against the runs since, the deliveries that died, and the one that
  owes its attempt (`Busy`): a commit owes one, a delivery pays it to *all* that is
  pending or dies, and one that finds nothing leaves nothing behind, because a
  pending alert has attempts left.
* `ResolvedWereTold` (`ResolvedOnlyIfTold`, with `AlwaysFinds`): an
  email's past cannot be read off the tables. `InboxInv` says when an incident's last
  email was an alarm: when its newest alert is an alarm that went out, or a
  resolution that is still to go out. `PromptInv` makes that enough: while no send
  about a condition has failed, its alerts are all sent before the next run begins,
  so what is pending is its newest alert and no email has two alerts of it. Both are
  stated per condition, under `NothingFailed`; `FailureStays` says that this, once
  false, stays false, so that nothing has to be shown of a condition after its first
  failure.

**IngestionProofs.** `IngestionTypeCorrect` and `WatermarkCorrect` share one
inductive invariant, types and watermark; `NewestExists` shows that the `max()`
of a batch is defined, from the well-foundedness of the naturals, and
`WriteKeepsWatermark` is used for every writer. `RecoveryCorrect` needs
`RecoverInv`: *before* a loop over the units, the CSV's rows up to the
watermark are stored (or the watermark is gone with them, after a wipe, a loss
or for a new file); *during* one, the row being appended is past the watermark,
and the rows about to be written are still exactly those past it; *after* a
unit's turn, all its rows are stored. Gateways cannot disturb it because they
do not write to simulated units.

**GraphStoreProofs.** `GraphTypeCorrect` and `VerdictsCorrect` share one inductive
invariant, `Typed /\ Given`. `VerdictsAreBacked` relates two committed tables, so
it must be known of what is about to be committed: a request that has projected
holds in `tx` exactly its own verdict (`Pending`), which is backed by its own
new label or, when none was stored, by a label that is already there; a label's
time is in the past (`Dated`), so the latest one of an author is well defined;
runs write no validation nodes (`Silent`); and a committed verdict has its edge
(`Linked`). `Apart` (no row in two open transactions) is what the row locks give.
The lemmas say which nodes and edges each part of the graph has, because
`Upsert` is only known by its domain and by where a key comes from. Two facts
about the algebra of the fold are proved for all findings:
`FoldIsOrderIndependent` and `FoldIsIdempotent`.

**GraphFoldProofs.** The graph against the findings it is built from, for any
number of overlapping runs, failing anywhere, and requests beside them.

* `GraphFollowsFindings` (`ConditionsAreFolds`): a node is written by several
  transactions, each of which replaces all of it. No induction over the findings
  is needed, because the invariant is about *sets*: `Knows(g, F, I)` says that the
  graph `g` holds of the conditions `I` what `F` determines, and `KnowsMore` that
  folding one more finding into `g` makes that `F` with the finding. `Folding`
  gives each run such a set: what the graph *it sees* knows is the committed
  findings and those it has projected so far, and the rest of its findings is
  still `Left`. This survives the commits of others because they are about other
  units' conditions (`Untold`, `UnitsAreApart`): two runs of one unit exclude each
  other by the rows of the unit's catalogue (`OthersFold`).
* `ModelsAreRecorded` (`ModelsAreTraceable`): `Traced` says of each run that the
  models it has projected are in the registry or among its own rows, but for the
  one at hand, whose record comes next.
* `ChainsCanBeWalked` (`ChainsAreClosed`): an edge may be written before the node it
  leads to, when a diagnosis comes before its trigger. `Chaining` says that what is
  missing is the condition of a finding still to be projected; a trigger that is
  not recorded again was recorded by an earlier run, so `ConditionsAreFolds` gives
  its node (`TriggersAreThere`).

* `NobodyWaitsInACircle` (`NoWaitCycle`): `Locking` says of each run that all its rows
  are rows of its unit or of the models it has projected, and that the models it has
  left come later in `ModelOrder`. Runs of one unit queue at the asset's row, where the
  first waits for nobody of them. Runs of different units meet only at a model (`NodesApart`,
  `EdgesApart`), and one that waits for another is about to project a model which the
  other has projected (`RunsWaitForModels`). So waiting leads to ever later models
  (`WaitingGoesUp`), and of any set of runs the one whose next model is the latest waits for
  none of the others. Nobody waits for a request's rows but requests, and a request
  writes all its rows in one step.

**EnginesProofs.** About one unit's way from a reading to a reply.
`CriticalReachesTheTop` is about the operators of `Health` and `Findings`: for any
sensors, subsystems and trusts, a sensor at its setpoint makes its subsystem and
unit critical, and each of the three gets a critical finding. It rests on
`Worst` being the maximum of the severities, whatever the weights.

* `ProtectionIsNeverAveragedOut` (`ProtectionReachesTheTop`) brings this to the
  specification: `ContextInv` says at each stage what the results in the context
  are of, engine by engine, down to the column of the frame.
* `DegradationHasACause` (`DegradedHasCause`) is the converse: the severity of a level
  is that of its worst child (`DegradedLevelHasSensor`), down to a sensor, which is
  degraded by its threshold state or, without one, by its trust
  (`DegradedSensorHasCause`). That a trust keeps its range comes from
  `NumbersStayInBounds`.
* `ReasoningIsGrounded` (`ChainsAreGrounded`, a part of `RulesAreComplete`):
  after any number of iterations every diagnosis rests on findings that exist
  and nothing is diagnosed twice. It needs that two conclusions of one pass
  differ, for which the order of the rules (`Before`) must be total: hence the
  different ids.
* `RepliesRestOnReadings` (`RepliesAreGrounded`): `ChainInv` strengthens the above to
  `Acyclic`: of any group of diagnoses one rests on a finding outside it. A pass adds
  diagnoses that rest on what was there before, so a group with a new member either
  has old members, and the invariant applies to those, or a member whose support is
  all old. `LearnedInv` and `ReplyInv` say what a model may add and what a reply
  is made of.
* `WorstIsTheHeadline` (`OutlookLeadsWithTheWorst`): any critical condition makes the
  card critical and one is cited; without one an approach to a limit makes the
  headline; the soonest approach is cited; a calm card hides none, and a breached
  protection setpoint is a critical condition. The card names *a* critical
  finding of least rank and the *soonest* forecast, so that there is one must be
  proved: findings and diagnoses are finite (`FiniteInv`), so are the approaches a
  forecast can make (`ForecastsAreFew`: each is of one sensor and one of its limits,
  `OneOperatingRange`), and a nonempty finite set of numbers has a least element
  (`LeastExists`). That the card cites only what was recorded is
  `RepliesRestOnReadings`.

The other theorems are about what is computed from a history of *any* length, with sums
that are folds. The library's induction theorems cannot be used (they take an operator
as a parameter); `BySize` is induction over the subsets of a finite set, stated for a *set*
of subsets: a smallest one outside it would be a contradiction. With it `SumIsFold` and
`SummingExists` give a fold its recursive equation, from which come the laws of sums:
bounds, splitting, exchange and telescoping. Sorted series and sets need no
recursion, as they are defined by rank.

* `NumbersStayInBounds` (`TypeOK`): `RangeInv` follows the ranges engine by engine. A count
  is at most the length of its series and a rounded ratio of a part is at most the whole
  (`ShareIsBounded`), so every penalty, score and trust keeps its range; a weighted mean keeps
  that of its parts; and the confidence of a rule, a mean and a trust multiply to no more than
  certain. `Sound` carries it through any number of iterations.
* `EpisodesAreWholeRuns` (`EpisodesAreRuns`): the places where an episode starts partition the
  series, for whichever cuts the density estimate gives; two readings are in one
  episode exactly when no start lies between them. `MachineInv` brings this to the
  specification.
* `TimeIsNeitherLostNorGained` (`TimeIsConserved`): each of the timeline's totals is the same
  sum in another order. Blocks partition the episodes; the shares of an episode on
  consecutive days are differences that telescope (`TotalOfDifferences`), and since its times
  are among `ReadingTimes` they lose nothing to the division; states partition the episodes
  again.
* `NoLevelEscapesItsChildren` (`ScoreBetweenChildren`): a weighted mean lies between the
  least and the greatest of its parts, *if* a weight is positive. Trusts are weights, so
  it must be shown that no sensor has trust 0. A score of zero needs a fault code at nearly
  every reading (`FaultCodesAreRare`); then both quartiles are equal to it, and the gate
  calls nothing a fault code. `BalanceInv` carries this to the unit.
* `NothingIsLeftUnconcluded` (`RulesAreComplete`): with layered rules, after n iterations all
  that the rules up to level n conclude is concluded (`Filled`), and no conclusion blocks
  one made before (`Backed`); `CompleteInv` ties this to the iteration counter. Ending on
  a quiet iteration, or at the bound, both fill all levels.
* `FramesMatchTheirSource` (`FrameMatchesSource`): `LogInv` says that the table is a function of
  the log, the first usable value of each cell (`TableIs`), which every write keeps, since
  `DO NOTHING` keeps what is there, in a batch as in the table; and that the frame is
  that of the table. What remains is that melting a file and pivoting it again gives each cell back
  in its row, for which the times of the frame must ascend (`Enumerates`).
* `HistoriesHaveNoGaps` (`HistoryIsUnbroken`): `Histories` numbers the readings of a sensor by
  rank, so the lemmas say that ranks exist and ascend (`RanksOrder`); the trailing run of a
  history is the part after its last gap and ends at the newest reading. `HistoryInv` relates
  what Phase B recorded to the frame it was computed from.

**Only model-checked** are the liveness properties: `EventuallyCompleted`,
`EventuallyAnalysed` and `RecordedIfCalled`. They rest on fairness, that is on ENABLED, which is out of the prover's reach. Every invariant and every action property
that a passing run checks is stated by a theorem.

## 6. Plan

What is still worth doing, in this order:

1. **ArtifactStore** as a component: the temporary file and the atomic rename,
   against `load` of another process.
2. The remaining repositories: the daily report's upsert, users and sessions.
3. Rules that are not layered: what the evaluator promises when a conclusion excludes a
   rule that fired before it.

The project keeps to about a dozen runs, so that all of it can be checked again
after every change; a run whose divergence is mended in the code makes room for
another.

## 7. Not modelled

* Authentication, roles and the endpoints that only list: no property of the
  pipeline depends on them.
* The wording of emails, reports, findings, cards and prompts, and the dashboard.
* What libraries compute: kernel density, IsolationForest, GaussianMixture and the
  language model. Their results are arbitrary values of the right shape, so
  what is checked holds for whatever they return.
* Catalogue data, settings and migrations, apart from the constraints and defaults
  they set; the connection pool, signals and logging.
* The daily report's row, the values the simulator generates, tools and diagrams.

`PROJECT.json` lists every component with its status.
