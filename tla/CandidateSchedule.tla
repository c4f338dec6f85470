-------------------------- MODULE CandidateSchedule --------------------------
(***************************************************************************)
(* The schedule of a study case: candidate_events of strategy/             *)
(* study_predictions.py with the arbiter (strategy/arbitration.py) and the *)
(* regimes (strategy/regimes.py) it consults, and threshold_events and     *)
(* baseline_events, the comparators.  A schedule is computed before any    *)
(* backtest, with a position of its own that assumes that every order      *)
(* fills.                                                                  *)
(* One action is one prediction of the bundle; the last action closes the  *)
(* schedule.  Prices are abstracted: an observation says whether the       *)
(* candle's low met the trailing stop, whether the initial stop is         *)
(* positive, whether the expected edge exceeds the hurdle.  Delayed        *)
(* features and other stop multiples only choose another observation.      *)
(***************************************************************************)
EXTENDS Integers, Sequences, SequencesExt

CONSTANTS
  Observations,  \* what a decision candle may look like
  Policy,        \* the CandidatePolicy: thresholds in percent, candles
  Requests       \* the calls: a case of StudyCases and [decisions, boundaries, latency]

Rules == {"candidate", "trend", "mean_reversion", "baseline"}

ASSUME ScheduleAssumption ==
  /\ \A request \in Requests :
       /\ request.rule \in Rules
       /\ request.decisions \in SUBSET Nat /\ request.decisions # {}
       /\ request.boundaries \in SUBSET (Nat \ {0})
       /\ request.latency \in Nat
       /\ request.policy.minimumHold \in 1 .. request.policy.maximumHold
       /\ {request.policy.maximumHold, request.policy.cooldown, request.policy.tolerance} \subseteq Nat

VARIABLES
  request,    \* the arguments of the call
  previous,   \* previous_index, -1 for None
  sim,        \* currently_long, active_specialist, hold_age, cooldown, indeterminate_streak
  events,     \* the schedule
  scheduled   \* the call has returned

scheduleVars == <<request, previous, sim, events, scheduled>>

Cash == [long |-> FALSE, specialist |-> "none", age |-> 0, cooldown |-> 0, streak |-> 0]
Event(at, action) == [at |-> at, action |-> action]
Pending == {i \in request.decisions : i > previous}
Index == Min(Pending)
LastDecision == Max(request.decisions)
-----------------------------------------------------------------------------
(* RegimeClassifier.classify: the unstable rules come first. *)
Regime(o) ==
  IF o.volatility >= request.policy.unstableVolatility \/ o.range >= request.policy.unstableRange
    THEN "unstable"
  ELSE IF /\ o.strength >= request.policy.trendingStrength
          /\ o.volatility < request.policy.trendingVolatility
          /\ o.streak >= request.policy.trendingStreak
    THEN "trending"
  ELSE IF o.strength <= request.policy.rangingStrength /\ o.volatility <= request.policy.rangingVolatility
    THEN "ranging"
  ELSE "indeterminate"

Specialist(regime) == IF regime = "trending" THEN "trend" ELSE "mean_reversion"
Distorted(p) ==
  CASE request.distortion = "none" -> p
    [] request.distortion = "inverted" -> 100 - p
    [] request.distortion = "no_volume" -> (p + 50) \div 2
Probability(o, specialist) == Distorted(IF specialist = "trend" THEN o.trend ELSE o.reversion)
Companion(o, specialist) ==
  Probability(o, IF specialist = "trend" THEN "mean_reversion" ELSE "trend")
Distance(a, b) == IF a < b THEN b - a ELSE a - b

\* _decide_cash without its cooldown: does the arbiter enter?  The overlay of
\* v0.3 replaces the threshold and leaves the other specialist to diagnostics.
Enters(o) ==
  LET specialist == Specialist(Regime(o)) IN
  /\ Regime(o) \in {"trending", "ranging"}
  /\ Regime(o) = "ranging" => o.stretch
  /\ Probability(o, specialist) >= request.entry
  /\ ~ request.diagnostic =>
       /\ Companion(o, specialist) >= request.policy.companion
       /\ Distance(Probability(o, specialist), Companion(o, specialist)) <= request.policy.disagreement
  /\ o.edge
  /\ o.stopPositive

\* _decide_cash.
DecideCash(s, o) ==
  IF s.cooldown > 0
    THEN [action |-> "remain_in_cash", next |-> [Cash EXCEPT !.cooldown = s.cooldown - 1]]
  ELSE IF Enters(o)
    THEN [action |-> "enter_long",
          next |-> [Cash EXCEPT !.long = TRUE, !.specialist = Specialist(Regime(o))]]
  ELSE [action |-> "remain_in_cash", next |-> Cash]

Streak(s, o) == IF Regime(o) = "indeterminate" THEN s.streak + 1 ELSE 0

\* Mutant of Leaves: a young position listens to its exit probability.
LeavesYoung(s, o) ==
  \/ o.stop \/ Regime(o) = "unstable"
  \/ s.age >= request.policy.maximumHold
  \/ Streak(s, o) > request.policy.tolerance
  \/ Regime(o) # "indeterminate" /\ Probability(o, s.specialist) <= request.policy.exit

\* The exits of _decide_long, whose order decides only the recorded reason
\* but for the last one: a tolerated or a young position is not looked at.
Protects(o) == o.stop \/ Regime(o) = "unstable"
Leaves(s, o) ==
  \/ Protects(o)
  \/ s.age >= request.policy.maximumHold
  \/ Streak(s, o) > request.policy.tolerance
  \/ /\ Regime(o) # "indeterminate"
     /\ s.age >= request.policy.minimumHold
     /\ Probability(o, s.specialist) <= request.policy.exit

\* _decide_long.
DecideLong(s, o) ==
  IF Leaves(s, o)
    THEN [action |-> "exit_to_cash", next |-> [Cash EXCEPT !.cooldown = request.policy.cooldown]]
    ELSE [action |-> "remain_long",
          next |-> [s EXCEPT !.age = @ + 1, !.streak = Streak(s, o)]]

\* The loop body of threshold_events: one specialist, no holding rules.
Allowed(o) ==
  /\ Specialist(Regime(o)) = request.rule /\ Regime(o) \in {"trending", "ranging"}
  /\ request.rule = "mean_reversion" => o.stretch
DecideThreshold(s, o) ==
  LET p == Probability(o, request.rule)
      long == IF s.long THEN Allowed(o) /\ p > Policy.exit ELSE Allowed(o) /\ p >= Policy.entry
  IN [action |-> IF long /\ ~ s.long THEN "enter_long"
                 ELSE IF s.long /\ ~ long THEN "exit_to_cash" ELSE "remain",
      next |-> [Cash EXCEPT !.long = long]]

\* _state_action: what a baseline's own machine, which runs over every candle
\* of the dataset, says of this one.
BaselineAction(held, should) ==
  IF should THEN (IF held THEN "hold" ELSE "enter") ELSE (IF held THEN "exit" ELSE "cash")

\* The loop body of baseline_events; a gated baseline needs its regime.
DecideBaseline(s, o) ==
  LET action == BaselineAction(o.held, o.should)
      allowed == request.gate \in {"none", Regime(o)}
      enters == ~ s.long /\ allowed /\ action \in {"enter", "hold"}
      leaves == s.long /\ (action = "exit" \/ ~ allowed)
  IN [action |-> IF enters THEN "enter_long" ELSE IF leaves THEN "exit_to_cash" ELSE "remain",
      next |-> [Cash EXCEPT !.long = enters \/ (s.long /\ ~ leaves)]]

Decision(s, o) ==
  IF request.rule = "baseline" THEN DecideBaseline(s, o)
  ELSE IF request.rule # "candidate" THEN DecideThreshold(s, o)
  ELSE IF s.long THEN DecideLong(s, o) ELSE DecideCash(s, o)
-----------------------------------------------------------------------------
(* Cash before a gap in the decisions and before a segment boundary. *)

\* The events of the given candles, in their order.
EventsOf(es, candles) ==
  LET kept[n \in 0 .. Len(es)] ==
        IF n = 0 THEN <<>>
        ELSE IF es[n].at \in candles THEN Append(kept[n - 1], es[n])
        ELSE kept[n - 1]
  IN  kept[Len(es)]

WithoutEntryAt(es, i) ==
  IF es # <<>> /\ Last(es) = Event(i, "enter_long") THEN Front(es) ELSE es

\* _close_long_before_discontinuity.
CloseBeforeGap(es) ==
  IF WithoutEntryAt(es, previous) # es THEN WithoutEntryAt(es, previous)
  ELSE Append(es, Event(previous, "exit_to_cash"))

Long(es) == es # <<>> /\ Last(es).action = "enter_long"

\* Mutant of ForceCash: the exit is proposed on the last candle of the segment.
ForceCashLate(es, b) ==
  LET safe == b - 1 - request.latency
      kept == WithoutEntryAt(EventsOf(es, 0 .. safe), safe)
  IN IF safe >= 0 /\ Long(kept) THEN Append(kept, Event(safe, "exit_to_cash")) ELSE kept

\* _force_cash_before_segment_boundary: an order proposed at the safe candle is
\* filled on the last candle of the segment.
ForceCash(es, b) ==
  LET safe == b - 2 - request.latency
      early == EventsOf(es, 0 .. safe)
      kept == WithoutEntryAt(early, safe)
  IN IF safe < 0 THEN early
     ELSE IF Long(kept) THEN Append(kept, Event(safe, "exit_to_cash")) ELSE kept

\* One boundary after the other, the last one last.
ForceCashAll(es, boundaries) ==
  MapThenFoldSet(LAMBDA b, done : ForceCash(done, b), es, LAMBDA b : b, Max, boundaries)

CrossedBoundaries(i) == IF previous = -1 THEN {} ELSE {b \in request.boundaries : previous < b /\ b <= i}
Contiguous(i) == previous = -1 \/ (i = previous + 1 /\ CrossedBoundaries(i) = {})

EventsBefore(i) ==
  IF CrossedBoundaries(i) # {} THEN ForceCashAll(events, CrossedBoundaries(i))
  ELSE IF ~ Contiguous(i) /\ sim.long THEN CloseBeforeGap(events)
  ELSE events

\* One prediction: the gap before it, the arbiter, the event.
Predict(o) ==
  /\ ~ scheduled /\ Pending # {}
  /\ LET i == Index
         s == IF Contiguous(i) THEN sim ELSE Cash
         d == Decision(s, o)
     IN /\ events' = IF d.action \in {"enter_long", "exit_to_cash"}
                       THEN Append(EventsBefore(i), Event(i, d.action)) ELSE EventsBefore(i)
        /\ sim' = d.next
        /\ previous' = i
  /\ UNCHANGED <<request, scheduled>>

\* After the loop: out of the market at the last decision, and at a boundary
\* that the orders of the last decision would reach.  dict() keeps the later of
\* two events of one candle, which is what the candidate's filter does.
EventsAtEnd ==
  LET last == LastDecision
      closed == IF sim.long
                  THEN Append(EventsOf(events, Nat \ {last}), Event(last, "exit_to_cash"))
                  ELSE events
  IN ForceCashAll(closed, {b \in request.boundaries : last < b /\ b <= last + 1 + request.latency})

\* Mutant of Conclude: the schedule ends as the loop left it.
ConcludeOpen ==
  /\ ~ scheduled /\ Pending = {}
  /\ scheduled' = TRUE
  /\ events' = events
  /\ sim' = Cash
  /\ UNCHANGED <<request, previous>>

Conclude ==
  /\ ~ scheduled /\ Pending = {}
  /\ scheduled' = TRUE
  /\ events' = EventsAtEnd
  /\ sim' = Cash
  /\ UNCHANGED <<request, previous>>

ScheduleInit ==
  /\ request \in Requests
  /\ previous = -1
  /\ sim = Cash
  /\ events = <<>>
  /\ scheduled = FALSE

ScheduleNext == (\E o \in Observations : Predict(o)) \/ Conclude
-----------------------------------------------------------------------------
(* What the schedule promises to the backtest that follows it.  *)
Exits(k) == events[k].action = "exit_to_cash"
Entries == {k \in DOMAIN events : ~ Exits(k)}

(* A finished schedule is one that ReplayableStudyStrategy accepts         *)
(* (study_strategy.py:48-60): its candles are unique and ordered; an entry *)
(* is answered by an exit before anything else; and whatever gaps,         *)
(* withdrawn entries and forced exits there were, it is in cash at its end *)
(* and, when it was told the boundaries, before each of them in time for   *)
(* the exit to fill (study_predictions.py:74-123, 363-373).                *)
ScheduleSound ==
  scheduled =>
    /\ \A k \in DOMAIN events : k > 1 => events[k - 1].at < events[k].at
    /\ \A k \in Entries : k + 1 \in DOMAIN events /\ Exits(k + 1)
    /\ \A k \in DOMAIN events : events[k].at <= LastDecision
    /\ \A b \in request.boundaries, k \in Entries :
         events[k].at < b => events[k + 1].at + 1 + request.latency < b

(* Among decisions without a gap, a position of the candidate lasts at     *)
(* most one decision more than maximum_hold_candles and is followed by a   *)
(* full cooldown; and at the decisions up to minimum_hold_candles after    *)
(* its entry in the schedule nothing ends it but its stop, an unstable     *)
(* regime or the end of the tolerance for indeterminate ones               *)
(* (arbitration.py:181-377).  The counters are reset at gaps and at        *)
(* boundaries, withdrawn entries included.                                 *)
Unbroken(i, j) ==
  /\ \A n \in i .. j : n \in request.decisions
  /\ \A b \in request.boundaries : ~ (i < b /\ b <= j + 1 + request.latency + 1)

SpansBounded ==
  \A k \in DOMAIN events :
    k + 1 \in DOMAIN events /\ Unbroken(events[k].at, events[k + 1].at) =>
      LET span == events[k + 1].at - events[k].at IN
      IF Exits(k) THEN ~ Exits(k + 1) => span > request.policy.cooldown
                  ELSE span <= request.policy.maximumHold + 1

Young ==
  /\ Pending # {} /\ Contiguous(Index) /\ Long(events)
  /\ Index - Last(events).at <= request.policy.minimumHold
YoungHeld ==
  Young => \A o \in Observations :
    Decision(sim, o).action = "exit_to_cash" =>
      Protects(o) \/ Streak(sim, o) > request.policy.tolerance

HoldsBounded ==
  request.rule = "candidate" => IF scheduled THEN SpansBounded ELSE YoungHeld
=============================================================================
