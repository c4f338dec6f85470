----------------------------- MODULE Evaluation -----------------------------
(***************************************************************************)
(* From the accounts of a study's experiments to its report: the path      *)
(* metrics, the evidence of the gates, the executor's report, its          *)
(* independent replay, and v0.1's promotion report.  Operators only.       *)
(*                                                                         *)
(* A case is a record [version, history, accounts, fits, population,       *)
(* scores, spread, regimes]: what the market, the models and the engine    *)
(* made of each experiment.  An account is flat but for three candles of   *)
(* its test window: it opens, moves, and closes on the candle after the    *)
(* last decision.  Returns are per mille, profits in the quote currency.   *)
(***************************************************************************)
EXTENDS Splits, Gates, SequencesExt

CONSTANTS PeriodsPerYear,
          Histories       \* a function from names to histories

ASSUME EvaluationAssumption == PeriodsPerYear \in Nat \ {0}
ASSUME HistoryAssumption ==
  \A name \in DOMAIN Histories :
    LET h == Histories[name] IN
    /\ IsFiniteSet(Rows(h)) /\ Count(h) > 0
    /\ Rows(h) = 0 .. (Count(h) - 1)
    /\ h.opens \in [Rows(h) -> Nat]
    /\ h.boundaries \in SUBSET (Rows(h) \ {0})

\* The plans of each history, built once.
Plans ==
  LET plans(h, eligible) ==
        [v02 |-> DevelopmentPlan(h, eligible, "v02"),
         v03 |-> DevelopmentPlan(h, eligible, "v03"),
         study |-> StudyPlan(h, eligible)]
  IN  Tabulated([name \in DOMAIN Histories |-> plans(Histories[name], LabelRows(Histories[name]))])

InitialCash == 10000
LatencyBars == 0
CalibrationMinimum == [observations |-> 200, positive |-> 40, negative |-> 40]
MinimumEligibleScores == 40
TrendMaxIterations == [v01 |-> 10000, v02 |-> 50000, v03 |-> 50000]

SimpleCases == <<"buy_hold", "ema", "donchian", "mean_reversion">>
SpecialistCases == {"trend_specialist", "mean_reversion_specialist"}
Neighbors == [n \in 1 .. 10 |-> "sensitivity_" \o ToString(n - 1)]

-----------------------------------------------------------------------------
\* Wealth, drawdown and the two return-to-drawdown ratios.
Equities(returns) ==
  LET equity[n \in 0 .. Len(returns)] ==
        IF n = 0 THEN InitialCash ELSE (equity[n - 1] * (1000 + returns[n])) \div 1000
  IN  Tabulated(equity)

MaximumDrawdown(equity) ==
  LET peak(n) == Max({equity[m] : m \in 0 .. n})
  IN  Max({((peak(n) - equity[n]) * 1000) \div peak(n) : n \in DOMAIN equity})

Ratio(gain, drawdown) == IF drawdown = 0 THEN {} ELSE {[num |-> gain, den |-> drawdown]}
NetReturn(equity) == ((equity[Cardinality(DOMAIN equity) - 1] - InitialCash) * 1000) \div InitialCash

MetricsOf(net, drawdown) == [net |-> net, dd |-> drawdown, rtd |-> Ratio(net, drawdown)]
PathMetrics(returns) ==
  LET equity == Equities(returns)
  IN  MetricsOf(NetReturn(equity), MaximumDrawdown(equity))

\* (ending / starting) ** (2190 // observed_periods) - 1
Annualized(net, periods) ==
  LET wealth[k \in 0 .. PeriodsPerYear \div periods] ==
        IF k = 0 THEN 1000 ELSE (wealth[k - 1] * (1000 + net)) \div 1000
  IN  wealth[PeriodsPerYear \div periods] - 1000

-----------------------------------------------------------------------------
\* The account of an experiment over one fold of the plan.
LastDecision(indices) == Max(indices)
EvaluationEnd(h, indices) == Min({Count(h), LastDecision(indices) + 2 + LatencyBars})

Moves(fold, account) ==
  <<[at |-> Min(fold.test) + 1, r |-> account.open],
    [at |-> LastDecision(fold.test), r |-> account.middle],
    [at |-> LastDecision(fold.test) + 1, r |-> account.close]>>
ReturnsOf(moves) == [n \in DOMAIN moves |-> moves[n].r]

\* calculate_metrics, over the whole account.
AnnualizedMetrics(path, periods) ==
  [path EXCEPT !.rtd = Ratio(Annualized(path.net, periods), path.dd)]
ExperimentMetrics(h, fold, account) ==
  AnnualizedMetrics(PathMetrics(ReturnsOf(Moves(fold, account))), EvaluationEnd(h, fold.test))

\* The returns of the out-of-sample candles [start, end); what happens outside
\* of them is not in the path, as if the account had stood still.
OosReturns(fold, account, end) ==
  LET inside(move) == fold.window.start <= move.at /\ move.at < end
      moves == Moves(fold, account)
  IN  [n \in DOMAIN moves |-> IF inside(moves[n]) THEN moves[n].r ELSE 0]

\* Where the executor's strategies stop, and where the replay cuts the account.
ExecutedEnd(h, indices) == EvaluationEnd(h, indices)

\* Mutant of ReplayedEnd: the candle that closes the last position is cut off.
ReplayedEndShort(h, indices) == Min({Count(h), LastDecision(indices) + 1 + LatencyBars})

ReplayedEnd(h, indices) == Min({Count(h), LastDecision(indices) + 2 + LatencyBars})

-----------------------------------------------------------------------------
\* The evidence of the twelve folds.
FoldResult(account, metrics) ==
  [net |-> metrics["primary"].net, rtd |-> metrics["primary"].rtd,
   baseline |-> StrongestOf(UNION {metrics[id].rtd : id \in Range(SimpleCases)}),
   profit |-> account.profit, trades |-> account.trades]
FoldEvaluation(case, fold, n) ==
  FoldResult(case.accounts["primary"][n],
             [id \in {"primary"} \cup Range(SimpleCases) |->
                ExperimentMetrics(Histories[case.history], fold, case.accounts[id][n])])

FoldEvaluations(case, plan) ==
  Tabulated([n \in DOMAIN plan.folds |-> FoldEvaluation(case, plan.folds[n], n)])

\* max over `return_to_drawdown or -999999`: zero counts like undefined.
StrongestBaseline(metrics) ==
  LET defined(m) == ~ Missing(m.rtd) /\ The(m.rtd).num # 0
      better(a, b) == defined(a) /\ (~ defined(b) \/ Exceeds(The(a.rtd), The(b.rtd)))
  IN  Min({i \in DOMAIN metrics : \A j \in DOMAIN metrics : ~ better(metrics[j], metrics[i])})

\* The resampled differences: their centre is the difference of the two nets.
Bootstrap(candidate, baseline, spread) ==
  [median |-> candidate.net - baseline.net, p05 |-> candidate.net - baseline.net - spread]

\* Receipts of the fits, diagnostics and thresholds the folds left behind.
Receipts(case) ==
  [n \in 1 .. 12 |-> [fold |-> n, exact |-> TRUE, iterations |-> case.fits[n].iterations]]
Calibrated(population) ==
  /\ population.positive + population.negative >= CalibrationMinimum.observations
  /\ population.positive >= CalibrationMinimum.positive
  /\ population.negative >= CalibrationMinimum.negative
CalibrationComplete(case) == \A n \in 1 .. 12 : Calibrated(case.population[n])

LinearQuantile(scores, percentile) ==
  LET ordered == SortSeq(scores, <)
      position == (Len(scores) - 1) * percentile
      lower == position \div 100 + 1
      upper == Min({lower + 1, Len(scores)})
  IN  100 * ordered[lower] + (ordered[upper] - ordered[lower]) * (position % 100)

ThresholdFloor == 50 * 100
Threshold(scores, percentile) ==
  LET raw == LinearQuantile(scores, percentile)
  IN  [scores |-> scores, percentile |-> percentile, raw |-> raw,
       effective |-> Max({raw, ThresholdFloor})]
Thresholds(case) ==
  LET threshold == Tabulated([key \in Specialists \X Percentiles |-> Threshold(case.scores[key[1]], key[2])])
  IN  Tabulated([key \in (1 .. 12) \X Specialists \X Percentiles |-> threshold[<<key[2], key[3]>>]])

ExecutedSelectivity(thresholds) ==
  {[fold |-> key[1], specialist |-> key[2], percentile |-> key[3], exact |-> TRUE] :
     key \in DOMAIN thresholds}
ReplayedSelectivity(thresholds) ==
  {[fold |-> key[1], specialist |-> key[2], percentile |-> key[3],
    exact |-> Threshold(thresholds[key].scores, thresholds[key].percentile) = thresholds[key]] :
     key \in DOMAIN thresholds}

\* The path of every case over the folds, candle by candle.
PathOf(accounts, folds, ends) ==
  PathMetrics(FlattenSeq([n \in DOMAIN folds |-> OosReturns(folds[n], accounts[n], ends[n])]))
PathsOf(case, folds, ends) ==
  Tabulated([id \in DOMAIN case.accounts |-> PathOf(case.accounts[id], folds, ends)])

Simple(metrics) == [i \in DOMAIN SimpleCases |-> metrics[SimpleCases[i]]]
SimpleBest(metrics) == StrongestOf(UNION {metrics[id].rtd : id \in Range(SimpleCases)})
SpecialistBest(metrics) == StrongestOf(UNION {metrics[id].rtd : id \in SpecialistCases})
Comparator(simple) == simple[StrongestBaseline(simple)]
Net(metrics) == [net |-> metrics.net, dd |-> metrics.dd]
NeighborNets(metrics) == [n \in DOMAIN Neighbors |-> Net(metrics[Neighbors[n]])]
ShuffledPasses(metrics) ==
  ShuffledLooksGood(metrics["shuffled"], SimpleBest(metrics), SpecialistBest(metrics))

EvidenceOf(case, path, folds, selectivity) ==
  [version |-> case.version,
   integrity |-> {TRUE}, determinism |-> {Receipts(case)},
   calibration |-> {CalibrationComplete(case)},
   selectivity |-> {selectivity},
   folds |-> folds,
   shuffled |-> {~ ShuffledPasses(path)},
   delayed |-> {DelayedSupported(path["primary"], path["delayed"])},
   primaryRtd |-> path["primary"].rtd, primaryNet |-> {path["primary"].net},
   primaryDd |-> {path["primary"].dd},
   ablationRtd |-> path["no_selectivity"].rtd, ablationDd |-> {path["no_selectivity"].dd},
   disagreement |-> {ComponentSupported(path["primary"], path["no_disagreement"], FALSE)},
   volume |-> {ComponentSupported(path["primary"], path["no_volume"], FALSE)},
   protection |-> {ComponentSupported(path["primary"], path["no_protection"], TRUE)},
   half |-> {Net(path["cost_1_5x"])}, double |-> {Net(path["cost_2x"])},
   neighbors |-> {NeighborNets(path)},
   bootstrap |-> {Bootstrap(path["primary"], Comparator(Simple(path)), case.spread)},
   replay |-> {TRUE}, independent |-> {TRUE}]

QualificationEvidence(case, plan, selectivity, ends) ==
  EvidenceOf(case, PathsOf(case, plan.folds, ends), FoldEvaluations(case, plan), selectivity)

-----------------------------------------------------------------------------
\* A fold is fitted twice from the same rows; the two fits must agree, have
\* converged, and be calibrated and thresholded on enough rows.
Fits(case, n) ==
  /\ case.version # "v01" => case.fits[n].same
  /\ case.fits[n].iterations < TrendMaxIterations[case.version]
  /\ Calibrated(case.population[n])
Selective(case) ==
  case.version = "v03" => \A s \in Specialists : Len(case.scores[s]) >= MinimumEligibleScores

\* execute_candidate_v0_*_qualification: a run, or nothing.
Report(plan, thresholds, evidence) ==
  [plan |-> plan, thresholds |-> thresholds, evidence |-> evidence,
   classification |-> Qualify(evidence)]
ExecutedEnds(h, plan) == Tabulated([n \in DOMAIN plan.folds |-> ExecutedEnd(h, plan.folds[n].test)])
ExecutedOn(case, plan, thresholds) ==
  Report(plan, thresholds,
         QualificationEvidence(case, plan, ExecutedSelectivity(thresholds),
                               ExecutedEnds(Histories[case.history], plan)))
Refuses(case, plan) ==
  \/ plan.status # "plan"
  \/ \E n \in DOMAIN plan.folds : ~ Fits(case, n)
  \/ ~ Selective(case)
ExecuteOn(case, plan) ==
  IF Refuses(case, plan) THEN {} ELSE {ExecutedOn(case, plan, Thresholds(case))}
Execute(case) == ExecuteOn(case, Plans[case.history][case.version])

\* replay_candidate_v0_3_qualification, from the artifacts of a run.
ReplayedEnds(h, plan) == Tabulated([n \in DOMAIN plan.folds |-> ReplayedEnd(h, plan.folds[n].test)])
ReplayOn(case, plan, thresholds) ==
  Report(plan, thresholds,
         QualificationEvidence(case, plan, ReplayedSelectivity(thresholds),
                               ReplayedEnds(Histories[case.history], plan)))
Replay(case, run) == ReplayOn(case, Plans[case.history][case.version], run.thresholds)

-----------------------------------------------------------------------------
\* v0.1: the gates over the final test, where the study plan has one.
RegimeMetrics(case, fold, account) ==
  LET equity == Equities(ReturnsOf(Moves(fold, account)))
      earned(n) == ((equity[n] - equity[n - 1]) * 1000) \div InitialCash
      regime == <<case.regimes.open, case.regimes.middle, "indeterminate">>
  IN  {[state |-> state, periods |-> 1,
        net |-> FoldFunction(+, 0, [n \in {m \in 1 .. 3 : regime[m] = state} |-> earned(n)])] :
         state \in Range(regime)}

FinalEvidence(metrics, account, regimes) ==
  [net |-> metrics["primary"].net, dd |-> metrics["primary"].dd, rtd |-> metrics["primary"].rtd,
   buyHoldDd |-> metrics["buy_hold"].dd,
   simpleRtd |-> SimpleBest(metrics), specialistRtd |-> SpecialistBest(metrics),
   simpleNet |-> Max({metrics[id].net : id \in Range(SimpleCases)}),
   trades |-> account.trades, profit |-> account.profit, largestTrade |-> account.largest,
   regimes |-> regimes]
PromotionEvidenceOf(folds, final, metrics, spread) ==
  [folds |-> folds, final |-> final,
   half |-> Net(metrics["cost_1_5x"]), double |-> Net(metrics["cost_2x"]),
   neighbors |-> NeighborNets(metrics),
   bootstrap |-> Bootstrap(metrics["primary"], Comparator(Simple(metrics)), spread),
   shuffledPasses |-> ShuffledPasses(metrics),
   delayedRtd |-> metrics["delayed"].rtd,
   disagreement |-> ComponentSupported(metrics["primary"], metrics["no_disagreement"], FALSE),
   volume |-> ComponentSupported(metrics["primary"], metrics["no_volume"], FALSE),
   protection |-> ComponentSupported(metrics["primary"], metrics["no_protection"], TRUE)]
FinalMetrics(case, final) ==
  Tabulated([id \in DOMAIN case.accounts |->
               ExperimentMetrics(Histories[case.history], final, case.accounts[id][0])])
PromotionEvidenceFrom(case, plan, metrics) ==
  PromotionEvidenceOf(
    FoldEvaluations(case, plan),
    FinalEvidence(metrics, case.accounts["primary"][0],
                  RegimeMetrics(case, plan.final, case.accounts["primary"][0])),
    metrics, case.spread)
PromotionEvidence(case, plan) == PromotionEvidenceFrom(case, plan, FinalMetrics(case, plan.final))

\* build_promotion_report: too short a history is inconclusive, whatever it shows.
Promoted(evidence, promotable) ==
  [evidence |-> evidence,
   classification |-> IF promotable THEN Promote(evidence) ELSE "INCONCLUSIVE"]
PromotionOn(case, study) ==
  IF study.plan.status # "plan" \/ \E n \in {0} \cup DOMAIN study.plan.folds : ~ Fits(case, n)
    THEN {}
    ELSE {Promoted(PromotionEvidence(case, study.plan), study.promotable)}
PromotionReport(case) == PromotionOn(case, Plans[case.history].study)
=============================================================================
