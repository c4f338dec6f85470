# Gemini-trading in TLA+

Models, TLC checks and TLAPS proofs of the deterministic research core of
gemini-trading (`src/gemini_trading`), and of the GitHub workflow that runs its sealed
final test. The project does not trade: it collects immutable market data,
backtests a strategy on it, and opens a sealed final partition once. What
has to be right is therefore (1) that evidence is published once and whole,
(2) that the backtest is causal and its books balance, (3) that what is trained, decided and
judged never looks over the interval it may see, and (4) that the final partition is
evaluated once.

## 1. Inventory

| Component | State it keeps | Operations | Hard behaviour |
|---|---|---|---|
| **Immutable file publication** `data/storage/local_immutable.py` | directory: temporary names, final names, inodes | `write_immutable`: create, write, fsync, link, compare, unlink | processes that race for a name, kills and `OSError` at every system call, power loss without a directory fsync |
| **Ingestion and replay** `data/ingestion`, `data/validation` | files of a run: raw pages, normalized pages, retrieval manifest, dataset, supporting manifests, provenance | `ingest`, `reconstruct`, `replay`, `load_verified_run` | page cursor, retries, a clock read per page and in between, failure manifests, a crash between any two files, replays that race |
| **Segments, exclusions, closures** `data/segments.py`, `data/exclusions.py`, `data/exchange_closures.py` | none (pure) | `validate_and_segment`, `match_and_exclude`, manifest constructors | interval boundaries, partial rows, resumption after a closure |
| **Dataset verification** `data/verification`, `data/datasets` | none (reads) | `verify`, canonical writing | hash chains over files that another process may still be writing |
| **Providers** `data/providers` | none | `server_time`, `fetch_page` | retryable and final HTTP errors |
| **Backtest engine** `research/engine.py`, `execution/simulator`, `research/accounting.py` | candle index, orders, account, ledger, segment records | `process_candle`, `finalize`, `run_backtest` | sweep order, two sweeps per candle, a shared volume cap, windows, boundaries, a strategy that raises half-way |
| **Research artifacts** `research/artifacts.py`, `research/verification.py`, `research/replay.py` | directory of an experiment | `LocalResearchStore.write`, `verify`, `replay` | sets of files written one by one, interrupted, raced, read meanwhile |
| **Sealed final access** `strategy/final_access.py`, `strategy/sealed_evaluator.py`, `cli/historical_validation.py`, `cli/strategy.py` | handoff, pre-final directory, seal and receipt directories and files, study directory | `strategy-handoff`, `-prepare`, `-authorize-final`, `-finalize`, `-resume`, `-verify` | exclusive creation, crashes between seal and receipt, repeated commands, a head that moves between two commands |
| **Sealed study workflow** `.github/workflows/sealed-btcusdt-study.yml` | comments of an issue, uploaded artifacts, the concurrency group | jobs prepare, authorize-final, finalize | fresh runners, list-then-post, lost answers, re-runs, cancellation |
| **Pre-final evidence** `strategy/pre_final.py`, `strategy/handoff.py`, ... | directories of hash-bound documents | write, load, rebuild and compare | the same as artifacts; a chain of identities; an inventory that lists every file it finds |
| **Prospective seals** `strategy/prospective_seal*.py`, `prospective_final.py` | marker directory, seal files, seal id | register, load, authorize | a kill between marker and seal, a time window, one seal per candidate |
| **Study planning** `strategy/splits.py`, `labels.py`, `study_plans.py` and their v0.3 forms | none | folds, purge, embargo, labels, the cases of a study | off-by-one at every interval end |
| **Trading decisions** `strategy/study_predictions.py`, `arbitration.py`, `regimes.py`, `study_strategy.py` | simulated position, hold, cooldown, streaks | one decision per candle; a schedule for a whole case | a schedule computed with a position of its own; segment ends; signals that conflict |
| **Features, models** `strategy/features.py`, `models.py`, `calibration.py` | model tables | fit, predict | numerical |
| **Study execution, qualification** `strategy/study*.py`, `evaluation.py`, `qualification*.py`, `cli/candidate_v0_*.py` | experiments, qualification bundles | run cases, aggregate, gates, report, replay of the report, seal | thirty gates on evidence that may be missing; a report rebuilt by other code |
| **Economic data fabric** `economics/data` | evidence files, bundles of two schemas | `put`, `write_economic_bundle`, `_v2`, replay, verification, as-of selection, lineage | final names filled in place, ties between publications, precision lost on disk |
| **Safety guards** `safety` | none | static checks | none |
| **Command line** `cli` | none | argument parsing, order of calls | which command may follow which |

How they interact: `ingest` and `replay` publish through `write_immutable`; the dataset
they publish is read by the dataset reader, which feeds candles to the engine; the engine
calls the strategy back between its two fill sweeps, and the strategy's answer becomes orders; a
finished run is published as an artifact set and verified by another process that
reads it back. The strategy the engine calls only plays back a schedule, which was computed from the
predictions before; splits say which candles models were fitted, calibrated and tested on; the accounts of all
cases of a study become the evidence of the gates, and what passes them is sealed. A study is many runs, whose final phase is guarded by a seal, locally by an exclusive
directory and for the repository by a comment that the workflow posts.

### What makes each component correct

* Publication: no partial bytes under a final name; one content per name; every caller
  is told the truth.
* Ingestion: what is verified is contiguous up to its declared closures, complete up to its last candle and rebuilt identically from
  the retained pages, whoever crashed in between; nothing canonical precedes its evidence; a run is FAILED or COMPLETED, not both.
* Engine: no fill before its decision, volume and position shared by the orders of a
  candle, books that reconcile in every state, segments isolated.
* Artifacts: no mixture of two runs, repetition completes, readers accept only wholes.
* Final access and workflow: one grant, one seal, one evaluation; an interrupted
  authorization stays sealed.
* Economic fabric: receipts and manifests name complete files only; no question about a past instant is
  answered from the future.
* Planning: no row that a fold fits or calibrates on has a label that reaches, with the embargo, into a later window. (Features look back 42 candles, `features.py:368`, further than the embargo
  of 3, so the features of a test window do look at candles that training labels used; the planners do not exclude that, and neither does `PlanIsCausal`.)
* Decisions: long or cash, in cash before every boundary, whatever the engine makes of the orders.
* Gates: evidence that is missing never promotes; what is sealed has earned money, and its report can be replayed.

The hazards, each at its line, are listed in `PROJECT.json`.

## 2. Modules

| Module | Models | State and actions against the code |
|---|---|---|
| `WriteOnce` | what a publication promises | abstract: a register per name, a request per process |
| `ImmutableStore` | `write_immutable` | one action per system call (`Create`, `Write`, `Sync`, `Link`, `Compare`, `Unlink`), `Fail` (an `OSError` anywhere, with the `finally` clause), `Kill`, `PowerLoss`. Names and inodes are separate, so that a link is a second name of a file. Implements `WriteOnce`. |
| `BacktestEngine` | `ResearchEngine`, simulator, accounting | `StartCandle` (boundary check), `EvaluateOrder` (one order of a sweep: window, price, liquidity, maker or taker fee, booking, settlement), `EvaluationRaises` (a market order whose price rounds to nothing, `precision.py:31`), `Decide` (the callback and the acceptance of its intents), `StrategyRaises`, `EndCandle`, `Finalize`. Money is in integer units of 1/`Scale`. |
| `CandidateSchedule` | `candidate_events`, `threshold_events`, `baseline_events` with regimes, arbitration, holds, cooldowns | one action per prediction, a last one that closes the schedule. An observation stands for a candle's features and probabilities. |
| `StudyCases` | `prepare_phase`, `prepare_v0_3_phase` | operators: which rule, policy and distortion each case of a study has |
| `LongOrCash` | what a study case promises | abstract: bought in one fill out of cash, only ever reduced, in cash when a segment begins |
| `StudyRun` | `run_case`, `ReplayableStudyStrategy` | a `CandidateSchedule` that ends, then `BacktestEngine` with the scripted strategy in place of its free choice of intents. Implements `LongOrCash`. |
| `Splits` | `splits.py`, `v0_3_splits.py`, `labels.py`, the lookback of `features.py` | operators: eligible rows, guard zones, folds, calibration and final windows of the three candidates |
| `Gates` | the gates of v0.1 (`evaluation.py`), v0.2 and v0.3 | operators: evidence in, one outcome per gate, a classification |
| `Evaluation` | metrics, evidence, report, replay of the report | operators: from the accounts of a study's experiments to its report |
| `SealOnce` | what the prospective store promises | abstract: one job takes the candidate, and only it may publish a seal, once |
| `Qualification` | the handoff, qualify, verify and seal commands of `cli/candidate_v0_3.py` | one action per file operation of a job, `Kill`, `MoveHead`, a concurrent ingestion (`Reingest`), a clock. Implements `SealOnce`. |
| `FinalAccess` | the six commands of a sealed study | a process per invocation: handoff, pre-final files, `mkdir`, seal, `mkdir`, receipt, evaluation, the files of the study, resume, verification; `Checkout` moves the head, `Interrupt` anywhere. Checks that a command makes of write-once files before its first write are one step. |
| `SealedStudy` | the workflow | one action per step whose failure matters; `Dispatch`, `Rerun`, `Enter`/`Leave` of the concurrency group are GitHub's and external |
| `ArtifactSet` | `LocalResearchStore.write` and `verify` | `Publish` is one `write_immutable`, atomic as `ImmutableStore` shows; `ReadManifest`/`ReadFile` the reader |
| `CandleSequence` | `validation/candles.py`, `segments.py`, `exclusions.py`, closure manifests | operators only: which rows are accepted, excluded, bridged. Time is counted in candles; a row is its open time and whether it fills its slot. |
| `Ingestion` | `IngestionService.ingest`, `ReplayService.replay`, what `VerificationService.verify` accepts | one action per provider call (`ServerTime`, `FetchPage`, `ProviderFails` with the retries), per raw file (`DescribePage`, `Validate`, `Complete`, `WriteFailed`) and per canonical file (`Publish`, `Stamp`, `WriteProvenance`); `Replay` loads and rebuilds; `Interrupt` anywhere. A hash is the content it stands for, and so is a dataset ID. |
| `EconomicStore` | `put`, `write_economic_bundle`, `write_economic_bundle_v2` | `Look`, `Compare`, `Open`, `Fill` one system call each; v1 looks at all of its files before it opens one |
| `EconomicContracts` | `availability.py`, `publication.py`, `observation*.py`, `series.py`, the admission of `dataset*.py` | operators: which records are valid and which datasets are built; contents stand for digests |
| `EconomicAsOf` | `asof.py`, `asof_v2.py`, lineage | operators: what is visible at an instant or before a day, the latest vintage or a refusal |
| `EconomicFabric` | `replay*.py`, `verification*.py` over `EconomicStore` | a reader loads the ledgers one by one, rebuilds, reads them again, then the manifest; verification is one step after that. Bytes are known by the first candidate that has them. |

`Ingestion`, `ArtifactSet`, `FinalAccess` and `Qualification` rest on `ImmutableStore`: a file written by
`write_immutable` appears whole and once, which is what `WriteOnce` says. `SealedStudy` composes with
`FinalAccess` only through the receipt: a runner's evidence root is fresh, so the local
seal excludes nothing between two runs. `StudyRun` composes `CandidateSchedule` with `BacktestEngine`, and the decisions its runs
allow are those that `Splits` calls safe; `Qualification` composes `Splits`, `Gates` and `Evaluation` with the commands.

`MC*` modules give the constants of the runs. Operators whose comment begins with "Mutant of" are wrong variants of the operator that follows; they are not part of the specification and are used to see that each property can fail. `Tabulated` is the same function; it only lets TLC keep the values.

## 3. Runs

| Run | Instance | What it shows |
|---|---|---|
| `immutable_store` | 3 writers, 1 path, 2 contents, 3 inodes | `NoPartialExposure`; `ImplementsWriteOnce`: races, kills, errors and power losses at every system call implement the register |
| `engine` | 6 candles of 3 kinds, maker and taker fees that differ, a boundary before the fifth, 7 intents, the official and the diagnostic policies | `SellsCovered`, `Reconciles`, `CandleFilledOnce`, `WindowsKept`, `SegmentsIsolated` |
| `study_run` | 16 candles, a boundary at 8, latency 0 and 1, the cases of all three generations, 11 observations, candles that cut an order or leave it without a price | `ScheduleSound`, `HoldsBounded` (minimum and maximum hold, cooldown), `FollowsSchedule`, `CashAtTheEnds`; `IsLongOrCash`: implements `LongOrCash` |
| `qualification` | 2 jobs, 2 commits, 20 studies over 6 histories | `SealsAreEarned`, `ReplayAgrees`, `PlanIsCausal`, `FailClosed`; `ImplementsSealOnce` |
| `qualification_annualized` | the same with the code's proportion of candles to a year | **violated**: `WinsAreCounted` |
| `final_access` | 3 commands at a time of any number, 2 commits, 1 dataset, 2 workflow runs | `GrantedOnce`, `OpenedUnderSeal`, `VerifiedWasEvaluated`, `SealIsWon` |
| `final_access_resume` | the same | **violated**: `CompleteResumes` |
| `sealed_study` | 3 runs, 2 with the same inputs, 2 attempts each | `EvaluatedOnce`, `SealedOnce`, `InconclusiveStaysSealed`, `RunsEnd` |
| `artifact_set` | 3 writers, a reader, 4 files, 3 artifacts that share files | `NoMixture`, `ConflictIsReal`, `VerifiedWhole`, `RaceIsWon` |
| `economic_fabric` | 2 writers, 1 reader, 11 candidates (3 admitted, 8 with one defect each), 1 put | `ReceiptsAreTrue`, `ManifestCloses`, `ReplayIsWhole`, `KnownThenOnly`, `ConfirmsAlone` |
| `ingestion` | 1 run, 1 replay that may be repeated, windows of 4 candles with and without a closure, 9 provider answers, 2 server times, 2 local clocks, 2 attempts, 4 pages | `EvidenceWhole`, `DatasetsAreEvidenced`, `ReplayAgrees`, `VerifiedCovers`, `IngestionEnds`, `ReplayFinishes` |
| `ingestion_windows` | 2 runs whose windows both end after the last completed candle | **violated**: `ManifestsAgree` |

Type invariants are proved (section 4); the runs spend their time on the other properties.

**Why these bounds.** Three writers are the smallest number where one wins, one loses and one
comes after a crash of the winner; a fourth adds nothing that a repeated call of a
finished writer does not. In the engine three orders can wait at once (a resting buy,
a resting sell, one being settled), a candle of each kind meets them, and the segment
that ends after four candles is longer than `MaxActive` = 3, so an order can expire
inside it and another one can reach its end. Cash 190 buys one order and a part of the next.
In `study_run` each segment of 8 candles holds an entry, the longest hold, a cooldown and a second entry; the decisions are
those that the guard zones of `Splits` leave, and, for three cases, decisions that touch the boundary; the dataset is longer than the test window, so that
the run ends, as a fold's does, when the order of the last decision can have filled; candles with little or no volume make the engine cut what the schedule supposes filled.
In `qualification` a month has 6 candles so that 103 months, the length a plan needs, stay small; every case but the good ones differs from a good one in one step
of the pipeline. `PeriodsPerYear` = 700 keeps the integer exponent of the annualized return (section 5) positive, so that gates can
pass and the other properties say something; 72 is the code's proportion of candles to a year. Two jobs let one die or race while
the other goes on; a second commit, the temporary file of an ingestion, and a clock that passes the cutoff are what the commands check.
`final_access` lets commands come one after the other without end: three places let two race for a seal while a third finalizes or verifies; with two commits a head can move
away and back, with two workflow runs a seal can be asked for by a caller that may not have it. In `economic_fabric` the defects are one per
rule of the contracts; the admitted datasets share ledgers (`rich`, `supported`), are of both schemas, and hold a correction dated to a day, one that was never placed in
time, and two vintages that appeared together. Two writers are enough, since what a reader meets is one file after the other. The workflow's
group holds one active and one pending run, so the third is the one that replaces. Four files with the
manifest third put files on both sides of it. The provider of `ingestion` answers with pages that are empty, late, repeated, out of
order, beyond the server's time, that jump, and with the partial rows of closures; every page moves the cursor on, so a window of n
candles never needs more than n pages and `MaxPages` never binds (`RequestsAssumption`); two clock values let the clock go forth and back. The run and
the replay are the two processes that race for one dataset; a replay that is repeated finds what the first left.

**Symmetry.** Processes, commits and workflow runs that no constant tells apart are interchangeable in `final_access`, `qualification` and
`economic_fabric`; the cfg files that use it have no liveness property.

**Fairness.** `ArtifactSet`: a writer that is not interrupted reaches its next file;
nothing makes a write begin. `SealedStudy`: every job has `timeout-minutes`, so
no run stays at a step for ever, and the group then starts the one that waits. `Ingestion`: a process that runs goes on, as a provider call
returns or raises in the end (urllib has a timeout); nothing makes a call succeed, so that `IngestionEnds` also speaks of a provider that only fails (its attempts are counted,
`MaxAttempts`), nothing makes it fail, and nothing starts a replay. The properties that
need a process to survive say so (`RaceIsWon`).

Deadlock is checked except where the system stops: a backtest and a study case end, a retrieval and its replay end, writers run once, and
dispatches are finite.

## 4. Proofs

Every safety invariant and every refinement that the passing runs check is also a theorem: for every number of processes, files, candles,
orders and runs, and for every value of the constants that satisfies the named assumptions.

* `ImmutableStoreProofs`. Invariant: every linked inode is complete and durable; an inode in the hands of a writer is
  its own (nobody else holds it, and only it has its temporary name), it has the bytes that the writer's point
  implies, and it is free exactly when it has no name and no holder. Without the ownership part a
  writer could fill a linked file. Theorems: `TypeCorrect`, `NeverPartial`, `OutcomesTrue`, and
  `Refinement`, that every step of the store, power loss included, is a step of `WriteOnce` or a stutter.
* `StudyRunProofs`: the engine, then the study cases that run on it.
  * Books (`IInv`): types; the shape of an order (its window follows from its creation, a filled
    quantity below the requested one means that it is open); the progress of the sweep; entries that know their order. Proved for
    `SpecRetry`, in which a caller also repeats a candle that raised; `RunsAreRetries` carries everything over to `Spec`.
    Theorems: `TypeCorrect` (no balance ever goes below zero), `AtMostOnePerSide`, `SalesStayCovered`, `BooksReconcile`, `TerminalOrdersStay`.
  * Time (`CInv`): windows are not empty and, under NEXT_CANDLE, begin after the decision (`Windows`); an order the
    sweeps have passed can still fill later (`Swept`); behind a boundary only orders of the new segment work and the account is flat until one of them
    fills (`Isolated`), without which `SegmentsIsolated`, which speaks of the ledger only, is not inductive. Theorems: `WindowsAreKept`, `SegmentsStayIsolated`.
  * Consumption (`Consumption`): the counter that a sweep compares with the cap is the sum of the ledger's entries of the candle. Theorem: `CandlesFillOnce`.
  * Schedules (`ScheduleInv`, `GapInv`): a schedule in the making is in order and alternating, it is in cash in time before each boundary it was told of, its last event is the
    simulated position, and the arbiter's counters are the distances to its last entry and exit; cutting it at a boundary keeps a beginning of it. Without boundaries it holds only
    over consecutive decisions. Theorems: `SchedulesAreSound`, `HoldsAreBounded` (a young position is younger, by its age, than the arbiter's minimum hold).
  * Cases (`OneOrder`, `FollowInv`): at most one order works, a market order for one candle, and a buy only out of cash; every order is the answer to an event; what is held
    was bought by an entry whose exit is still to come, or has an order for all of it. Theorems: `CasesAreLongOrCash` (the refinement `IsLongOrCash`), `CasesFollowTheirSchedules`, `CasesEndInCash`.
* `SealedStudyProofs`. Invariant: at most one run of the group is active and at most one waits; a run past its attempt check is in
  its first attempt unless it skipped the check with an earlier authorization; a run between the list and the post is the only
  one that could seal; who evaluated has sealed. Theorems: `TypeCorrect`, `OneSealPerPreFinal`, `OneEvaluationPerPreFinal`, `SealersAlone`.
  A second invariant, `MarkedRuns`, adds that a run whose seal was marked inconclusive has sealed, is no longer in its first attempt or has ended, and never evaluated: `InconclusiveIsFinal`.
* `ArtifactSetProofs`. Invariant: a writer's published files are a prefix of its artifact that the directory holds
  (`Behind`); hence the first file that any two artifacts tell apart decides. Theorems: `TypeCorrect`, `NeverMixed`, `WritesAreTrue`, `VerifiedIsWhole`.
* `FinalAccessProofs`. Two halves. `SealInv`: a command that made a seal directory and has not granted it yet knows what it has found and written
  (`HolderFacts`), no two commands hold one seal (`HoldersApart`), nothing names a seal without its directory (`Unsealed`, `DirsSealed`). `StudyInv`: what
  `strategy-finalize` has checked of a receipt stays true (`Final`), and since a dataset has one handoff, whose commit the receipt must be of, and a seal records one receipt, two receipts
  that pass are equal. Theorems: `TypeCorrect`, `SealsGrantedOnce`, `RacesAreWon`, `OneReceiptOpens`, `VerifiedIsEvaluated`.
* `QualificationProofs`. Invariant (`QInv`): a result is the last file of its bundle (`ResultsLast`), a job knows what it has read of files that no step takes back (`Thoughts`), the
  marker belongs to the job between it and the seal (`Taking`), and a seal names a verified bundle (`SealsKnown`). Theorems: `SealsOnce` (the refinement `ImplementsSealOnce`), `BundlesVerify`,
  `MissingNeverPromotes` (gate by gate: an emptied field fails or leaves undecided the gate that reads it; the control with shuffled labels
  is the exception, `study_execution.py:197`: an account without the ratio that it compares does not look good, which the property leaves as it is), `PlansAreCausal` (from the first and the last row of every window of all three planners),
  `EverySealIsEarned` (back from a published seal through report, gates and evidence to the accounts).
* `EconomicFabricProofs`. Writers: who fills a file created it, so it is torn and nobody else fills it (`Holding`, `Apart`); a writer has complete files
  behind it (`Behind`). Readers (`FInv`): a complete file is one of a plan, what a reader has gathered is what those files hold, in the order of reading, and a manifest closes its bundle.
  Theorems: `TypeCorrect`, `ReceiptsStayTrue`, `ManifestsClose`, `ReplaysAreWhole`, `ConfirmationsAreAlone` (only `Verify` confirms, and the inventory that it compares the directory with is that of
  the bundle found whole), and `NothingFromTheFuture`, which rests on evidence that places every admitted row in time.
* `IngestionProofs`. `IInv`: pages are described in the order they are fetched (`Counted`, `Filled`); a retrieval manifest lists all pages of a run that
  fetches no more (`Written`); what a run validated is what its manifest is rebuilt to (`Validated`, `Rebuildable`); who publishes has the candles of a
  COMPLETED run (`Sourced`). Theorems: `TypeCorrect`, `EvidenceIsWhole`, `NoneWithoutEvidence`.
  `EInv` adds what the pages are: each asks for what the one before it left (`Cursored`), none of those described so far is terminal while the run fetches (`Fetching`), a retrieval that is over ended with a terminal page or with the
  window (`Fetched`), and its rows were accepted (`Judged`). With the lemmas that flattening and selection keep the order of rows: `ReplaysAgree`. `VerifiedCoverTheirWindow` is then about
  rows alone: between two neighbours of a structured sequence there is a jump exactly where a closure is. `SealedNeverConflict`: for datasets with closures what `ingestion_windows` refutes holds, as their
  identity binds the window.

**Induction over data.** Folds, schedules, sums, selected and flattened rows are recursive functions. The induction theorems of the library take an operator as a parameter and cannot be used;
instead each fact about such a function is proved on the least number, or the smallest subset, for which it would be false (`WFMin` over `<` and over strict inclusion).
`SelectSeq`, `SortSeq` and `@@` are opaque to the prover; where a proof has to look inside, the model has a recursive function instead (`RowsOf`).

**Assumptions** that TLC evaluates and the proofs use, besides types and distinct values: `GuardAssumption`, that the decisions of v0.1 and v0.2, whose schedules know no boundaries, keep the distance to a
boundary that `Splits` gives them for a latency of at most 3 candles (`splits.py:534`; the configuration does not bound `latency_bars`, `cli/strategy.py:193`: with 4 or more an order could be
refused at a boundary); `RowsAssumption`, that rows are ones their constructors accept; `LayoutAssumption`, that ledgers and evidence have names of their own; `HistoryAssumption` and
`CaseAssumption`, that a history numbers its rows from zero and a study has its accounts; `ScheduleAssumption`, that the longest hold is not below the shortest; `RequestsAssumption`, that windows and closures are valid.

Model-checked only: liveness (`RaceIsWon`, `RunsEnd`, `IngestionEnds`, `ReplayFinishes`) and everything about `ENABLED`, which the prover does not
cover; the violations of section 5.

## 5. Findings

Runs that expect a violation:

* `qualification_annualized`: `calculate_metrics` raises the wealth ratio to 2190 **floor-divided** by the observed periods
  (`research/metrics.py:192`), the plan has a true quotient. The account of a fold begins with the dataset, so every fold that ends after the first year has an annualized
  return, and a return-to-drawdown, of zero: it beats no baseline, and no candidate can qualify.
* `final_access_resume`: `strategy-resume` builds its verification without a reconstructor of study strategies
  (`cli/historical_validation.py:415`), so that it refuses every complete study, which `strategy-verify` accepts. Plan and runbook say that resume works from complete outputs.
* `ingestion_windows`: the ID of a dataset without closures binds its candles only, its manifest records the requested window too. Two
  windows that hold the same completed candles lead to two manifests under one ID, and the second run ends in a conflict, although
  `docs/superpowers/specs/2026-07-23-market-data-core-design.md:238` excludes it. The identities of sealed datasets bind the window.

Observations without a run:

* `put` creates the final name, then fills it; after a crash, or in a race of the same put, the same payload "already contains
  different bytes", although its docstring promises idempotence. `ReceiptsAreTrue` still holds: nobody is told a lie.
* `strategy-finalize` checks that its receipt and seal match, not that they were unused: a second invocation with the same receipt opens
  the final rows again, although `docs/operations/sealed-btcusdt-historical-validation.md:160` says that reruns must not. `write_immutable` refuses a
  different result, and the workflow's job structure prevents it (`EvaluatedOnce`).
* `strategy-authorize-final` takes the head's commit, not the pre-final's: at another head it grants a receipt that can never be finalized.
  `strategy-handoff` lists every file, the temporary file of an ingestion at work too; there is one handoff per dataset and root for ever, so once that file is gone no later command accepts the dataset.
  The legacy `strategy-evaluate` of v0.1 opens final rows under a seal in memory only; it is not part of `FinalAccess`.
* With a latency of one candle or more, an exit that is due while the entry order still waits is swallowed, since the strategy proposes nothing
  while an order is active (`study_strategy.py:103`). `FollowsSchedule` and `CashAtTheEnds` name this exception and the exit that is cut by its candle's liquidity; a case that is refused
  because an order's price rounds to nothing is the only other one.
  v0.1 and v0.2 tell the schedule neither boundaries nor latency, v0.3 tells both.
* Two datasets that `build` admits cannot be replayed (`Undated`, `Close` in `MCEconomicFabric`): an empty file of evidence, and two v1 rows less
  than a millisecond apart, which the file's milliseconds make one. For the same reason a replayed v1 row may be visible up to a millisecond early.
* The regimes' loss in `evaluation.py:586` is compared in other units than the specification's (`v0-1-design.md:441`); `ablation.no_protection` sets an initial stop of 100 ATR and
  so never enters while an ATR is 1% of the price or more; both are modelled as coded.
* `ReplayAgrees` of `Ingestion` states precisely where `ingest` and `replay` differ: `ingest` publishes a dataset although its first candle is later than
  the window's start, or although the clock of the host went back between two pages, and every replay and verification then refuses it.
* A page that reaches the server's time is the last one even if it jumps or leaves completed candles out; without closures the jump is then refused, with closures
  it has to be declared. A closure that ends with the window, or begins with it, is a valid manifest (`exchange_closures.py:228`) that no
  evidence can satisfy, since the segmentation wants a candle on both sides.
* Not a disagreement with a document, but worth knowing: a caller that repeats `process_candle` after the strategy raised gets a
  second sweep with a fresh volume cap, so a candle can be filled beyond its participation. The books still reconcile (proved), as long as no decision of
  that candle was recorded before the exception: `Retry` is restricted to that case.
  `run_backtest` ends at the exception.

## 6. Plan

Done, in the order of importance: publication; engine; sealed access and its workflow; artifact sets; ingestion and replay; economic fabric; schedules
and their runs; splits, gates, evaluation; qualification and prospective seals; a proof of every safety invariant and refinement. What would come next:

1. The converse of two theorems: that a provider that answers without jumps and a study whose gates all pass are accepted, so that nothing is refused for a reason of its own.
2. The bundle writer of v0.2, if it is ever to differ from that of v0.3, and the legacy evaluator of v0.1.
3. Research replay inside `verify` as steps, with two commits of the repository.

## 7. Not modelled

* Formatting, canonical serialization, hashing (a hash is the content it stands for), time zones, spelling of identifiers; Decimal's 28 digits (money is
  exact, the released cost basis is rounded down).
* Providers and HTTP: thin adapters without state; what they return or raise are inputs of `Ingestion`. The values of retry delays.
* Numerical features, boosted models and calibrators: probabilities and observations are inputs, and so are the accounts of the experiments of `Evaluation`. Market data has no shape to check there.
* Safety guards, which read the repository's text; argument parsing and printing; commands that call one service.
* The calendar: a month is `MonthLength` candles, the 18 months of a prospective final window are left out.
* The legacy evaluator of v0.1 and the bundle files of v0.2, whose gates and seal are modelled.
* The workflows of CI, of the candidate qualifications, of the data fabric and of the dataset build, which seal nothing.
