----------------------------- MODULE MCStudyRun -----------------------------
(* A test window whose candles are counted from its first decision, with a  *)
(* segment boundary inside it, and decisions that touch the boundary, as    *)
(* the unit tests of the schedules have them.                               *)
EXTENDS StudyRun

Split ==
  INSTANCE Splits WITH Purge <- 3, Embargo <- 3, LabelExitOffset <- 4, Lookback <- 42, MonthLength <- 180

Bar(v) == [open |-> 4, high |-> 5, low |-> 3, close |-> 4, volume |-> v]
\* Without volume an entry finds nothing, and an exit not even a price.
Sunk == [Bar(0) EXCEPT !.open = 1, !.low = 1]
MCCandles == {Bar(20), Bar(4), Sunk}
MCIntents == {MarketOrder(s, q) : s \in Sides, q \in 1 .. 5}
MCConfigs == [latency : {0, 1}, sameClose : {FALSE}, optimistic : {FALSE}]
MCKey == [d \in 1 .. Length |-> (3 * d) % 43]

MCPolicy ==
  [unstableVolatility |-> 7, unstableRange |-> 10, trendingStrength |-> 4, trendingVolatility |-> 6,
   trendingStreak |-> 3, rangingStrength |-> 2, rangingVolatility |-> 5,
   entry |-> 62, exit |-> 45, companion |-> 45, disagreement |-> 25,
   minimumHold |-> 1, maximumHold |-> 2, cooldown |-> 1, tolerance |-> 1]

Quiet == [volatility |-> 1, range |-> 1, strength |-> 4, streak |-> 3, trend |-> 55, reversion |-> 50,
          stretch |-> FALSE, edge |-> TRUE, stop |-> FALSE, stopPositive |-> TRUE, held |-> FALSE, should |-> FALSE]
MCObservations ==
  {Quiet, [Quiet EXCEPT !.trend = 62], [Quiet EXCEPT !.trend = 45], [Quiet EXCEPT !.trend = 38],
   [Quiet EXCEPT !.strength = 2, !.reversion = 62, !.stretch = TRUE],
   [Quiet EXCEPT !.strength = 3], [Quiet EXCEPT !.volatility = 7], [Quiet EXCEPT !.stop = TRUE],
   [Quiet EXCEPT !.should = TRUE], [Quiet EXCEPT !.held = TRUE],
   [Quiet EXCEPT !.held = TRUE, !.should = TRUE]}

MCVariation ==
  [entry |-> [low |-> 59, high |-> 65], exit |-> [low |-> 42, high |-> 48],
   hold |-> [low |-> 1, high |-> 3], cooldown |-> [low |-> 0, high |-> 2]]
MCThreshold == [q70 |-> 60, q75 |-> 62, q80 |-> 65, half |-> 50]
Cases ==
  INSTANCE StudyCases WITH Policy <- MCPolicy, Variation <- MCVariation, Threshold <- MCThreshold
Distinct(cases) == {cases[id] : id \in DOMAIN cases}

\* The evaluation ends two candles, and the latency, after the last decision.
LastFor(latency) == Length - 2 - latency
Guarded(latency) ==
  Split!SafeIndices(Split!Window(0, LastFor(latency) + 5), 0 .. DatasetLength, Boundaries)
Touching(latency) == {b + d : b \in Boundaries, d \in -4 .. 0} \cup {LastFor(latency)}
MCRequests ==
  {Cases!Over(case, Guarded(l), {}, 0) : case \in Distinct(Cases!Cases12(TRUE)), l \in {1}}
  \cup {Cases!Over(case, Guarded(l), Boundaries, l) : case \in Distinct(Cases!Cases3), l \in {0}}
  \cup {Cases!Over(Cases!Cases3[id], Touching(l), Boundaries, l) :
          id \in {"candidate.multi_model.v0_3", "trend.specialist.v1",
                  "ranging.mean_reversion_z24.gated.v1"}, l \in {0, 1}}
=============================================================================
