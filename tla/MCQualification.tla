--------------------------- MODULE MCQualification ---------------------------
(* The histories and the cases of the runs: a study whose every gate passes, *)
(* and deviations that each upset one step of the pipeline.                  *)
EXTENDS Qualification

\* A closure takes the hour before a boundary.
Whole(months) == [opens |-> [i \in 0 .. Month(months) - 1 |-> i], boundaries |-> {}]
Closed(months, at) ==
  [opens |-> [i \in 0 .. Month(months) - 2 |-> IF i < at THEN i ELSE i + 1], boundaries |-> {at}]
MCHistories ==
  ("whole" :> Whole(103)) @@ ("short" :> Whole(102)) @@ ("closed" :> Closed(103, Month(40) + 3))
  @@ ("year" :> Whole(13)) @@ ("months" :> Whole(8)) @@ ("late" :> Closed(103, Month(90)))

Account(open, middle, close) ==
  [n \in 0 .. 12 |->
     [open |-> open, middle |-> middle, close |-> close,
      trades |-> IF n = 0 THEN 30 ELSE 5, profit |-> 100, largest |-> 25]]
Primary == Account(-2, 12, 3)
Baseline == Account(-10, 8, 1)
Accounts ==
  [id \in {"primary", "no_selectivity", "no_disagreement", "no_volume", "no_protection"}
            \cup Range(Neighbors) |-> Primary]
  @@ [id \in Range(SimpleCases) \cup SpecialistCases |-> Baseline]
  @@ ("shuffled" :> Account(-10, 2, 0)) @@ ("delayed" :> Account(-4, 10, 3))
  @@ ("cost_1_5x" :> Account(-4, 10, 3)) @@ ("cost_2x" :> Account(-5, 8, 3))

Good(version, history) ==
  [version |-> version, history |-> history, accounts |-> Accounts,
   fits |-> [n \in 0 .. 12 |-> [same |-> TRUE, iterations |-> 120]],
   population |-> [n \in 0 .. 12 |-> [positive |-> 120, negative |-> 130]],
   scores |-> [s \in Specialists |-> [k \in 1 .. 40 |-> (k * 7) % 90]],
   spread |-> 50, regimes |-> [open |-> "bull", middle |-> "bear"], spelling |-> "canonical"]
Flawed(id, account) == [Good("v03", "whole") EXCEPT !.accounts[id] = account]
Study(history) ==
  [Good("v01", history) EXCEPT
     !.accounts["primary"] = [n \in 0 .. 12 |-> [@[n] EXCEPT !.trades = IF n = 0 THEN 30 ELSE 8]],
     !.spread = 20]
Once(good, n, account) == [good EXCEPT ![n] = account[n]]

MCCases ==
  ("good" :> Good("v03", "whole"))
  @@ ("padded" :> [Good("v03", "whole") EXCEPT !.spelling = "padded"])
  @@ ("closed" :> Good("v03", "closed"))
  @@ ("wrong_length" :> Good("v03", "short"))
  @@ ("never_down" :> Flawed("primary", Once(Primary, 3, Account(1, 9, 3))))
  @@ ("idle_fold" :> Flawed("primary", Once(Primary, 3, Account(0, 0, 0))))
  @@ ("last_candle" :> Flawed("primary", Account(-2, -12, 12)))
  @@ ("shuffled" :> Flawed("shuffled", Account(-1, 3, 0)))
  @@ ("wild_neighbor" :> Flawed("sensitivity_3", Account(-80, 30, 8)))
  @@ ("wide" :> [Good("v03", "whole") EXCEPT !.spread = 300])
  @@ ("unrepeatable" :> [Good("v03", "whole") EXCEPT !.fits[7].same = FALSE])
  @@ ("few_scores" :> [Good("v03", "whole") EXCEPT !.scores["trend"] = << 80, 60 >>])
  @@ ("thin" :> [Good("v03", "whole") EXCEPT !.population[5].positive = 39])
  @@ ("v02" :> Good("v02", "short"))
  @@ ("v02_component" :> [Good("v02", "short") EXCEPT !.accounts["no_disagreement"] = Account(-1, 13, 3)])
  @@ ("v01" :> Study("whole"))
  @@ ("v01_year" :> Study("year"))
  @@ ("v01_months" :> Study("months"))
  @@ ("v01_late" :> Study("late"))
  @@ ("v01_few_trades" :> [Study("whole") EXCEPT !.accounts["primary"][0].trades = 29])

\* Jobs and commits are interchangeable.
Interchangeable == Permutations(Jobs) \cup Permutations(Commits)
=============================================================================
