------------------------------ MODULE StudyRun ------------------------------
(***************************************************************************)
(* A study case from its schedule to its last candle: CandidateSchedule    *)
(* computes the schedule (study_plans.py, v0_3_study_plans.py), then       *)
(* BacktestEngine runs ReplayableStudyStrategy (strategy/                  *)
(* study_strategy.py) over it (study_execution.py, run_case).  The         *)
(* schedule supposes that orders fill; the engine cuts them to liquidity   *)
(* and cash, and refuses to carry a position over a segment boundary.      *)
(***************************************************************************)
EXTENDS BacktestEngine, CandidateSchedule

CONSTANT DatasetLength  \* candles of the dataset

\* A candidate study fills on the next candle (cli/strategy.py:160), and its
\* decisions are candles of the dataset.
ASSUME StudyAssumption ==
  /\ DatasetLength \in Nat
  /\ \A c \in Configs : ~ c.sameClose
  /\ \A r \in Requests : r.decisions \in SUBSET (0 .. DatasetLength - 1)

\* A schedule that is not told the boundaries is made for decisions whose label
\* ends before the next one (splits.py:534), and no order outlasts the label:
\* with LabelExitOffset = 4, a latency_bars (cli/strategy.py:193) of 3 or less.
ASSUME GuardAssumption ==
  \A r \in Requests : r.boundaries = {} =>
    \A c \in Configs, b \in Boundaries, d \in r.decisions : d < b => d + 1 + c.latency < b

runVars == <<vars, scheduleVars>>

\* prepare_phase, prepare_v0_3_phase: evaluation_end_exclusive.
EvaluationEnd == Min({DatasetLength, LastDecision + 2 + config.latency})

\* v0.1 and v0.2 tell the schedule neither boundaries nor latency; v0.3 both.
Told ==
  \/ request.boundaries = {} /\ request.latency = 0
  \/ request.boundaries = Boundaries /\ request.latency = config.latency

RunInit == Init /\ ScheduleInit /\ Told /\ EvaluationEnd = Length

Scheduled(i, action) == \E k \in DOMAIN events : events[k] = Event(i, action)

MarketOrder(side, quantity) ==
  [side |-> side, type |-> "market", quantity |-> quantity, limit |-> 1, tif |-> "bar"]
Affordable == account.cash \div (candle.close * Scale)

\* Mutant of Proposals: an entry adds to a position.
ProposalsPyramid ==
  IF ActiveOrders # {} THEN {}
  ELSE IF Scheduled(Current, "enter_long")
    THEN IF /\ Affordable >= MinQuantity
            /\ Affordable * candle.close >= MinNotional
           THEN {MarketOrder("buy", Affordable)} ELSE {}
  ELSE IF Scheduled(Current, "exit_to_cash") /\ account.position > 0
    THEN {MarketOrder("sell_to_close", account.position)}
  ELSE {}

\* Mutant of Proposals: an exit sells all but one step of the position.
ProposalsRemainder ==
  IF ActiveOrders # {} THEN {}
  ELSE IF Scheduled(Current, "enter_long")
    THEN IF /\ account.position = 0
            /\ Affordable >= MinQuantity
            /\ Affordable * candle.close >= MinNotional
           THEN {MarketOrder("buy", Affordable)} ELSE {}
  ELSE IF Scheduled(Current, "exit_to_cash") /\ account.position > 1
    THEN {MarketOrder("sell_to_close", account.position - 1)}
  ELSE {}

\* on_candle: at most one intent, all the cash or the whole position.
Proposals ==
  IF ActiveOrders # {} THEN {}
  ELSE IF Scheduled(Current, "enter_long")
    THEN IF /\ account.position = 0
            /\ Affordable >= MinQuantity
            /\ Affordable * candle.close >= MinNotional
           THEN {MarketOrder("buy", Affordable)} ELSE {}
  ELSE IF Scheduled(Current, "exit_to_cash") /\ account.position > 0
    THEN {MarketOrder("sell_to_close", account.position)}
  ELSE {}

Accepted == {intent \in Proposals : ~ Rejected(intent)}

\* The callback and what becomes of its answer, one of the decisions that the
\* engine allows.  The strategy never raises.
FollowSchedule ==
  /\ Decide
  /\ IF Accepted = {} THEN orders' = orders
     ELSE \E intent \in Accepted : orders' = Append(orders, NewOrder(intent))

RunCase ==
  \/ StartCandle \/ (\E o \in queue : EvaluateOrder(o) \/ EvaluationRaises(o))
  \/ FollowSchedule \/ EndCandle \/ Finalize

RunNext ==
  \/ ScheduleNext /\ UNCHANGED vars
  \/ scheduled /\ RunCase /\ UNCHANGED scheduleVars
RunSpec == RunInit /\ [][RunNext]_runVars
-----------------------------------------------------------------------------
(* Between the fills of two candles the schedule is long from the candle   *)
(* at which its entry can fill until the one at which its exit can.        *)
Fills(k) == events[k].at + 1 + config.latency
ScheduleLongAt(i) ==
  \E k \in Entries : Fills(k) <= i /\ (k + 1 \in DOMAIN events => i < Fills(k + 1))

\* The ways in which an exit does not take the whole position out.
ExitCutShort ==
  \E o \in DOMAIN orders : /\ orders[o].side = "sell_to_close"
                           /\ orders[o].status = "cancelled"
ExitUnheard ==
  \E k \in Entries : k + 1 \in DOMAIN events /\ events[k + 1].at <= Fills(k) - 1

(* The account is long only when the schedule is, unless an exit was cut   *)
(* by the liquidity of its candle, or came while the entry was still       *)
(* waiting for its fill (study_strategy.py:112), which takes latency.      *)
(* Entries that are cut, refused or too small do not make it long later.   *)
FollowsSchedule ==
  phase = "close" /\ queue = {} /\ account.position > 0 =>
    ScheduleLongAt(Current) \/ ExitCutShort \/ ExitUnheard

(* A case is refused, or ends with a position, only for the same two       *)
(* reasons or because an order has no price: never because the schedule,   *)
(* the guard zones of its decisions and the evaluation end do not fit      *)
(* together (study_predictions.py:74-123, study_plans.py:99-102).          *)
OrderUnpriced == \E o \in queue : Unpriced(orders[o], candle.open)
CashAtTheEnds ==
  phase = "raised" \/ (phase = "final" /\ account.position > 0) =>
    ExitCutShort \/ ExitUnheard \/ OrderUnpriced

(* A study case is long or in cash.                                        *)
Abstract == INSTANCE LongOrCash WITH quantity <- account.position, segment <- Len(resets)
IsLongOrCash == Abstract!Spec
=============================================================================
