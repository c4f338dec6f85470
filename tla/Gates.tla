------------------------------- MODULE Gates -------------------------------
(***************************************************************************)
(* The mandatory gates of the three candidates: strategy/evaluation.py     *)
(* (v0.1 promotion), qualification.py (v0.2) and qualification_v0_3.py.    *)
(* Operators only: evidence in, one outcome per gate, a classification.    *)
(*                                                                         *)
(* Returns and drawdowns are per mille; a return-to-drawdown is a ratio    *)
(* [num, den] with den > 0; evidence that may be absent (None) is a set of *)
(* at most one element.                                                    *)
(***************************************************************************)
EXTENDS Integers, Sequences, FiniteSets, FiniteSetsExt, Functions, TLC

Missing(option) == option = {}
The(option) == CHOOSE x \in option : TRUE

Exceeds(a, b) == a.num * b.den > b.num * a.den
AtLeastTimes(a, percent, b) == 100 * a.num * b.den >= percent * b.num * a.den
AtMostTimes(a, percent, b) == 100 * a.num * b.den <= percent * b.num * a.den
StrongestOf(ratios) ==
  IF ratios = {} THEN {} ELSE {CHOOSE r \in ratios : \A s \in ratios : ~ Exceeds(s, r)}

\* The gates of both reports.
gates ++ more ==
  [gate \in DOMAIN gates \cup DOMAIN more |->
     IF gate \in DOMAIN gates THEN gates[gate] ELSE more[gate]]

Judge(passed) == IF passed THEN "pass" ELSE "fail"

Boolean(option) == IF Missing(option) THEN "missing" ELSE Judge(The(option))

\* A failed gate rejects; absent evidence alone leaves it inconclusive.
Classify(gates, best) ==
  IF "fail" \in Range(gates) THEN "REJECTED"
  ELSE IF "missing" \in Range(gates) THEN "INCONCLUSIVE" ELSE best

Total(s) == FoldFunction(+, 0, s)
Largest(s) == Max({0} \cup Range(s))
HowMany(s, Test(_)) == Cardinality({i \in DOMAIN s : Test(s[i])})
MedianPositive(s) ==
  LET sorted == SortSeq(s, <)
      middle == Len(s) \div 2
  IN  /\ s # << >>
      /\ IF Len(s) % 2 = 1 THEN sorted[middle + 1] > 0 ELSE sorted[middle] + sorted[middle + 1] > 0

-----------------------------------------------------------------------------
\* Is the component worth keeping, given the run without it?
ComponentSupported(primary, ablation, reduceDrawdown) ==
  /\ ~ Missing(primary.rtd) /\ ~ Missing(ablation.rtd)
  /\ ~ (/\ AtLeastTimes(The(ablation.rtd), 110, The(primary.rtd))
        /\ IF reduceDrawdown THEN ablation.dd < primary.dd ELSE ablation.dd <= primary.dd)

ShuffledLooksGood(shuffled, simple, specialist) ==
  \/ shuffled.net > 0
  \/ /\ ~ Missing(shuffled.rtd)
     /\ \/ AtLeastTimes(The(shuffled.rtd), 100, [num |-> 1, den |-> 2])
        \/ \E best \in simple : AtLeastTimes(The(shuffled.rtd), 110, best)
        \/ \E best \in specialist : AtLeastTimes(The(shuffled.rtd), 105, best)

DelayedSupported(primary, delayed) ==
  /\ ~ Missing(primary.rtd) /\ ~ Missing(delayed.rtd)
  /\ AtMostTimes(The(delayed.rtd), 105, The(primary.rtd))

-----------------------------------------------------------------------------
\* Mutant of Development: a fold without a comparator counts as beaten.
DevelopmentLenient(folds, enough) ==
  LET positive(fold) == fold.net > 0
      beaten(fold) ==
        \/ Missing(fold.rtd) \/ Missing(fold.baseline)
        \/ Exceeds(The(fold.rtd), The(fold.baseline))
      profits == [n \in DOMAIN folds |-> folds[n].profit]
  IN  [foldCount |-> Judge(enough),
       positiveFolds |-> Judge(folds # << >> /\ 5 * HowMany(folds, positive) >= 3 * Len(folds)),
       baselineFolds |-> Judge(folds # << >> /\ 5 * HowMany(folds, beaten) >= 3 * Len(folds)),
       concentration |-> Judge(Total(profits) > 0 /\ 2 * Largest(profits) <= Total(profits)),
       tradeCount |-> Judge(Total([n \in DOMAIN folds |-> folds[n].trades]) >= 60)]

Development(folds, enough) ==
  LET positive(fold) == fold.net > 0
      beaten(fold) == Exceeds(The(fold.rtd), The(fold.baseline))
      profits == [n \in DOMAIN folds |-> folds[n].profit]
  IN  [foldCount |-> Judge(enough),
       positiveFolds |-> Judge(folds # << >> /\ 5 * HowMany(folds, positive) >= 3 * Len(folds)),
       baselineFolds |->
         IF \E n \in DOMAIN folds : Missing(folds[n].rtd) \/ Missing(folds[n].baseline) THEN "missing"
         ELSE Judge(folds # << >> /\ 5 * HowMany(folds, beaten) >= 3 * Len(folds)),
       concentration |-> Judge(Total(profits) > 0 /\ 2 * Largest(profits) <= Total(profits)),
       tradeCount |-> Judge(Total([n \in DOMAIN folds |-> folds[n].trades]) >= 60)]

CostGates(primaryNet, half, double) ==
  [halfReturn |-> IF Missing(half) THEN "missing" ELSE Judge(The(half).net > 0),
   halfDrawdown |-> IF Missing(half) THEN "missing" ELSE Judge(The(half).dd <= 275),
   doubleReturn |-> IF Missing(double) THEN "missing" ELSE Judge(The(double).net >= -50),
   doubleDrawdown |-> IF Missing(double) THEN "missing" ELSE Judge(The(double).dd <= 300),
   monotonicity |->
     IF Missing(primaryNet) \/ Missing(half) \/ Missing(double) THEN "missing"
     ELSE Judge(The(primaryNet) >= The(half).net /\ The(half).net >= The(double).net)]

SensitivityGates(primaryNet, neighbors, enough) ==
  LET nets == [n \in DOMAIN neighbors |-> neighbors[n].net]
      positive(net) == net > 0
  IN  [positiveNeighbors |-> Judge(enough /\ HowMany(nets, positive) >= 7),
       medianReturn |-> Judge(MedianPositive(nets)),
       neighborDrawdown |->
         Judge(neighbors # << >> /\ \A n \in DOMAIN neighbors : neighbors[n].dd <= 350),
       stability |->
         IF Missing(primaryNet) THEN "missing"
         ELSE Judge(\/ The(primaryNet) > 20
                    \/ \A n \in DOMAIN nets : nets[n] <= 2 * The(primaryNet))]

NoSensitivity ==
  [gate \in {"positiveNeighbors", "medianReturn", "neighborDrawdown", "stability"} |-> "missing"]

BootstrapGates(bootstrap) ==
  [bootstrapMedian |-> IF Missing(bootstrap) THEN "missing" ELSE Judge(The(bootstrap).median > 0),
   bootstrapLower |-> IF Missing(bootstrap) THEN "missing" ELSE Judge(The(bootstrap).p05 > -20)]

-----------------------------------------------------------------------------
\* Candidate v0.2 and v0.3: development evidence only, over twelve folds.
Percentiles == {70, 75, 80}
Specialists == {"trend", "meanReversion"}
MaxIterations == 50000

TrendDeterminism(receipts) ==
  IF Missing(receipts) THEN "missing"
  ELSE LET r == The(receipts)
       IN  Judge(/\ [n \in DOMAIN r |-> r[n].fold] = [n \in 1 .. 12 |-> n]
                 /\ \A n \in DOMAIN r : r[n].exact /\ r[n].iterations < MaxIterations)

Key(receipt) == <<receipt.fold, receipt.specialist, receipt.percentile>>
ExpectedKeys(percentiles) == (1 .. 12) \X Specialists \X percentiles
Of(receipts, percentiles) == {r \in The(receipts) : r.percentile \in percentiles}
Inventoried(receipts, percentiles) ==
  LET some == Of(receipts, percentiles)
      keys == {Key(r) : r \in some}
  IN  Cardinality(keys) = Cardinality(some) /\ keys = ExpectedKeys(percentiles)

SelectivityReplay(receipts) ==
  IF Missing(receipts) \/ ~ Inventoried(receipts, {75}) THEN "missing"
  ELSE Judge(\A r \in Of(receipts, {75}) : r.exact)

SensitivitySelectivityComplete(receipts) ==
  /\ ~ Missing(receipts)
  /\ Inventoried(receipts, Percentiles \ {75})
  /\ \A r \in Of(receipts, Percentiles \ {75}) : r.exact

NoPercentileSelectivity(e) ==
  IF Missing(e.primaryDd) \/ Missing(e.ablationDd) THEN "missing"
  ELSE Judge(ComponentSupported([rtd |-> e.primaryRtd, dd |-> The(e.primaryDd)],
                                [rtd |-> e.ablationRtd, dd |-> The(e.ablationDd)], FALSE))

CommonGates(e) ==
  [integrity |-> Boolean(e.integrity),
   determinism |-> TrendDeterminism(e.determinism),
   calibration |-> Boolean(e.calibration),
   shuffled |-> Boolean(e.shuffled),
   delayed |-> Boolean(e.delayed),
   noVolume |-> Boolean(e.volume),
   noProtection |-> Boolean(e.protection),
   replay |-> Boolean(e.replay),
   independent |-> Boolean(e.independent)]
  ++ Development(e.folds, Len(e.folds) = 12)
  ++ CostGates(e.primaryNet, e.half, e.double)
  ++ BootstrapGates(e.bootstrap)

GatesV03(e) ==
  [selectivity |-> SelectivityReplay(e.selectivity), noSelectivity |-> NoPercentileSelectivity(e)]
  ++ (IF SensitivitySelectivityComplete(e.selectivity) /\ ~ Missing(e.neighbors)
      THEN SensitivityGates(e.primaryNet, The(e.neighbors), Len(The(e.neighbors)) = 10)
      ELSE NoSensitivity)
  ++ CommonGates(e)

GatesV02(e) ==
  [noDisagreement |-> Boolean(e.disagreement)]
  ++ (IF Missing(e.neighbors) THEN NoSensitivity
      ELSE SensitivityGates(e.primaryNet, The(e.neighbors), Len(The(e.neighbors)) = 10))
  ++ CommonGates(e)

Qualify(e) == Classify(IF e.version = "v02" THEN GatesV02(e) ELSE GatesV03(e), "QUALIFIED")

-----------------------------------------------------------------------------
\* Candidate v0.1: the same development folds and an untouched final test.
\* The regime's loss is a fraction of the initial cash, the profit an amount.
RegimeGates(final) ==
  LET seen == {r \in final.regimes : r.periods > 0}
  IN  [regimeCount |-> Judge(Cardinality({r \in seen : r.net >= 0}) >= 2),
       regimeLoss |->
         IF final.profit <= 0 THEN "missing"
         ELSE Judge(\A r \in seen : 4 * r.net >= - 1000 * final.profit)]

FinalGates(final) ==
  LET Against(best, percent) ==
        IF Missing(final.rtd) \/ Missing(best) THEN "missing"
        ELSE Judge(AtLeastTimes(The(final.rtd), percent, The(best)))
  IN  [finalReturn |-> Judge(final.net > 0),
       finalTrades |-> Judge(final.trades >= 30),
       finalDrawdown |-> Judge(final.dd <= 250),
       finalBuyHold |-> Judge(10 * final.dd <= 8 * final.buyHoldDd),
       finalRtd |-> Against({[num |-> 1, den |-> 2]}, 100),
       simpleRtd |-> Against(final.simpleRtd, 110),
       specialistRtd |-> Against(final.specialistRtd, 105),
       simpleReturn |-> Judge(final.net >= final.simpleNet - 20),
       tradeConcentration |->
         IF final.profit = 0 THEN "missing" ELSE Judge(4 * final.largestTrade <= final.profit)]
      ++ RegimeGates(final)

PromotionGates(e) ==
  [shuffled |-> Judge(~ e.shuffledPasses),
   delayed |->
     IF Missing(e.final.rtd) \/ Missing(e.delayedRtd) THEN "missing"
     ELSE Judge(AtMostTimes(The(e.delayedRtd), 105, The(e.final.rtd))),
   noDisagreement |-> Judge(e.disagreement),
   noVolume |-> Judge(e.volume),
   noProtection |-> Judge(e.protection)]
  ++ Development(e.folds, Len(e.folds) >= 5)
  ++ FinalGates(e.final)
  ++ CostGates({e.final.net}, {e.half}, {e.double})
  ++ SensitivityGates({e.final.net}, e.neighbors, Len(e.neighbors) >= 10)
  ++ BootstrapGates({e.bootstrap})

Promote(e) == Classify(PromotionGates(e), "PASS")
=============================================================================
