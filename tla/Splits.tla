------------------------------- MODULE Splits -------------------------------
(***************************************************************************)
(* The chronological splits of a study: strategy/splits.py and             *)
(* v0_3_splits.py, with the rows that have features (features.py) and the  *)
(* decisions that have a label (labels.py).  Operators only.               *)
(*                                                                         *)
(* A history is [opens, boundaries]: opens[i] is the opening time of       *)
(* candle i, in candles since the dataset's start, and boundaries are the  *)
(* first candles after each exchange closure.  Every month is MonthLength  *)
(* candles long.                                                           *)
(***************************************************************************)
EXTENDS Integers, FiniteSets, FiniteSetsExt, Sequences, TLC

CONSTANTS Purge, Embargo, LabelExitOffset,
          Lookback,      \* the candles the longest trailing feature needs
          MonthLength

ASSUME SplitAssumption ==
  /\ Purge \in Nat
  /\ Embargo \in Nat
  /\ LabelExitOffset \in Nat \ {0}
  /\ Lookback \in Nat
  /\ MonthLength \in Nat \ {0}

\* The same function; TLC then keeps its values instead of its definition.
Tabulated(f) == CHOOSE g \in {f} : g = f

Window(start, end) == [start |-> start, end |-> end]
Inside(window, i) == window.start <= i /\ i < window.end
EmptyWindow(window) == window.end <= window.start

\* The half-open guard zone and the label that reaches over a boundary.
CrossesBoundary(i, b) == i < b /\ b <= i + LabelExitOffset
InsideGuardZone(i, b) == b - Purge <= i /\ i < b + Embargo

SafeIndices(window, eligible, boundaries) ==
  {i \in eligible :
     /\ Inside(window, i)
     /\ Inside(window, i + LabelExitOffset)
     /\ \A b \in boundaries : ~ CrossesBoundary(i, b) /\ ~ InsideGuardZone(i, b)}

-----------------------------------------------------------------------------
Rows(h) == DOMAIN h.opens
Count(h) == Cardinality(Rows(h))
EndExclusive(h) == h.opens[Count(h) - 1] + 1
FirstFrom(h, time) == Cardinality({i \in Rows(h) : h.opens[i] < time})

SegmentNumber(h, i) == Cardinality({b \in h.boundaries : b <= i})
SegmentStart(h, i) == Max({0} \cup {b \in h.boundaries : b <= i})

\* Mutant of FeatureRows: the lookback may reach over a closure.
FeatureRowsAcross(h) == {i \in Rows(h) : i >= Lookback}

\* A row has features when its whole lookback lies in its own segment, and a
\* label when entry and exit do and are not past the last candle.
FeatureRows(h) == {i \in Rows(h) : i - SegmentStart(h, i) >= Lookback}
HasLabel(h, i) ==
  /\ i + LabelExitOffset \in Rows(h)
  /\ \A j \in {i + 1, i + LabelExitOffset} : SegmentNumber(h, j) = SegmentNumber(h, i)
LabelRows(h) == {i \in FeatureRows(h) : HasLabel(h, i)}

Continuous(h) ==
  \A i \in Rows(h) \ (h.boundaries \cup {0}) : h.opens[i] = h.opens[i - 1] + 1

-----------------------------------------------------------------------------
\* The locked policies, in months; the diagnostic one replaces v0.1's when
\* the history is too short for a promotable study.
LockedV01 == [history |-> 84, final |-> 18, training |-> 24, calibration |-> 6,
              test |-> 6, step |-> 6, minimumFolds |-> 5]
Diagnostic == [history |-> 12, final |-> 2, training |-> 6, calibration |-> 2,
               test |-> 2, step |-> 2, minimumFolds |-> 1]
DevelopmentMonths == [v02 |-> 102, v03 |-> 103]
DevelopmentFolds == 12

Month(n) == n * MonthLength

\* Every fold whose development test ends by limit, as three boundary rows.
RawFolds(h, policy, limit) ==
  LET whole == policy.training + policy.calibration + policy.test
      count == (limit - Month(whole)) \div Month(policy.step) + 1
      fold(start) ==
        [calibration |-> FirstFrom(h, start),
         test |-> FirstFrom(h, start + Month(policy.calibration)),
         end |-> FirstFrom(h, start + Month(policy.calibration + policy.test))]
  IN  Tabulated([n \in 1 .. count |-> fold(Month(policy.training + (n - 1) * policy.step))])

FoldBoundaries(raw) == UNION {{raw[n].calibration, raw[n].test, raw[n].end} : n \in DOMAIN raw}

FoldWindows(raw, first) ==
  [training |-> Window(first, raw.calibration - Purge),
   calibration |-> Window(raw.calibration + Embargo, raw.test - Purge),
   test |-> Window(raw.test + Embargo, raw.end - Purge)]

FoldIndices(windows, eligible, boundaries) ==
  [part \in DOMAIN windows |-> SafeIndices(windows[part], eligible, boundaries)]

FoldOf(windows, indices) ==
  [training |-> indices.training, calibration |-> indices.calibration, test |-> indices.test,
   window |-> windows.test]
FoldIn(windows, eligible, boundaries) ==
  FoldOf(windows, FoldIndices(windows, eligible, boundaries))
Fold(raw, eligible, boundaries) == FoldIn(FoldWindows(raw, Min(eligible)), eligible, boundaries)

Refused(reason) == [status |-> reason]

\* The first fold that has an empty window, or no decision left in one,
\* refuses the whole plan.
WindowsProblem(windows, eligible, boundaries) ==
  IF \E part \in DOMAIN windows : EmptyWindow(windows[part]) THEN "boundary"
  ELSE IF \E part \in DOMAIN windows : SafeIndices(windows[part], eligible, boundaries) = {}
    THEN "history"
  ELSE "plan"
FirstProblem(problems) ==
  IF \A n \in DOMAIN problems : problems[n] = "plan" THEN "plan"
  ELSE problems[Min({n \in DOMAIN problems : problems[n] # "plan"})]
FoldProblem(raw, eligible, boundaries) ==
  FirstProblem(Tabulated([n \in DOMAIN raw |->
    WindowsProblem(FoldWindows(raw[n], Min(eligible)), eligible, boundaries)]))

\* The folds of a plan, unless one of them refuses it.
FoldsOr(raw, eligible, boundaries, problem) ==
  IF problem # "plan" THEN Refused(problem)
  ELSE [status |-> "plan",
        folds |-> Tabulated([n \in DOMAIN raw |-> Fold(raw[n], eligible, boundaries)]),
        boundaries |-> boundaries]
PlanFolds(raw, eligible, boundaries) ==
  FoldsOr(raw, eligible, boundaries, FoldProblem(raw, eligible, boundaries))

\* DevelopmentQualificationPlan.build and its v0.3 twin.
DevelopmentPlanOf(h, eligible, version, raw) ==
  IF \/ ~ Continuous(h)
     \/ h.opens[0] # 0
     \/ EndExclusive(h) # Month(DevelopmentMonths[version])
    THEN Refused("boundary")
  ELSE IF eligible = {} \/ Len(raw) # DevelopmentFolds THEN Refused("history")
  ELSE PlanFolds(raw, eligible, h.boundaries \cup FoldBoundaries(raw))
DevelopmentPlan(h, eligible, version) ==
  DevelopmentPlanOf(h, eligible, version, RawFolds(h, LockedV01, EndExclusive(h)))

\* The untouched final test behind the folds.
WithFinal(plan, window, indices) ==
  IF plan.status # "plan" THEN plan
  ELSE IF EmptyWindow(window) THEN Refused("boundary")
  ELSE IF indices = {} THEN Refused("history")
  ELSE [status |-> "plan", folds |-> plan.folds, boundaries |-> plan.boundaries,
        final |-> [test |-> indices, window |-> window]]
FinalBehind(plan, h, eligible, window) ==
  WithFinal(plan, window,
            IF plan.status = "plan" THEN SafeIndices(window, eligible, plan.boundaries) ELSE {})

\* ChronologicalSplitPlan.build: the same folds before an untouched final test
\* that begins with the row "boundary".
ChronologicalPlanAt(h, eligible, policy, boundary, raw) ==
  IF ~ Continuous(h) THEN Refused("boundary")
  ELSE IF Month(policy.history) > EndExclusive(h) \/ eligible = {} THEN Refused("history")
  ELSE IF boundary <= Min(eligible) \/ boundary >= Count(h) THEN Refused("seal")
  ELSE IF \E b \in h.boundaries : b >= boundary THEN Refused("seal")
  ELSE IF Len(raw) < policy.minimumFolds THEN Refused("history")
  ELSE FinalBehind(PlanFolds(raw, eligible, {boundary} \cup h.boundaries \cup FoldBoundaries(raw)),
                   h, eligible, Window(boundary + Embargo, Count(h) - LabelExitOffset))
ChronologicalPlan(h, eligible, policy) ==
  LET finalTime == EndExclusive(h) - Month(policy.final)
  IN  ChronologicalPlanAt(h, eligible, policy, FirstFrom(h, finalTime), RawFolds(h, policy, finalTime))

\* build_split_plan: too short a history still gets a plan, never a promotable
\* one.
Promotable(locked, diagnostic) ==
  IF locked.status # "history" THEN [plan |-> locked, promotable |-> locked.status = "plan"]
  ELSE [plan |-> diagnostic, promotable |-> FALSE]
StudyPlan(h, eligible) ==
  Promotable(ChronologicalPlan(h, eligible, LockedV01), ChronologicalPlan(h, eligible, Diagnostic))
=============================================================================
