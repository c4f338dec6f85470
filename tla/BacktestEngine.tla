--------------------------- MODULE BacktestEngine ---------------------------
(***************************************************************************)
(* The deterministic research engine: research/engine.py with the fill     *)
(* simulator (execution/simulator) and the accounting (research/           *)
(* accounting.py) it drives.  One action is one segment of process_candle  *)
(* between two points where its control can differ: the boundary check,    *)
(* the evaluation of one order, the strategy callback with the acceptance  *)
(* of its intents, the end of the candle.                                  *)
(* Quantities are multiples of quantity_step.  Money is in units of        *)
(* 1/Scale, so that fees are integers; Decimal's 28 digits are abstracted  *)
(* to integers, the released cost basis being rounded down.                *)
(***************************************************************************)
EXTENDS Integers, Sequences, FiniteSetsExt

CONSTANTS
  Candles,       \* the candles a dataset may hold: [open, high, low, close, volume]
  Intents,       \* what a strategy may propose: [side, type, quantity, limit, tif]
  Length,        \* candles that run_backtest evaluates (a bound)
  Boundaries,    \* first candle indices of the segments after the first
  InitialCash, Scale, MakerFee, TakerFee, AdverseBps,
  PriceTick, MinQuantity, MinNotional, ParticipationPct,
  MaxActive,
  Configs,       \* policies of a run: [latency, sameClose, optimistic], the latter
                 \* two for SAME_CLOSE_DIAGNOSTIC and OPTIMISTIC_TOUCH_DIAGNOSTIC
  Key            \* Key[d] sorts the order of decision d: its SHA-256 identity

Sides == {"buy", "sell_to_close"}
Immediate == {"ioc", "bar"}
Active == {"accepted", "partially_filled"}
Statuses == Active \cup {"filled", "cancelled", "expired"}

CandleType == [open : Nat \ {0}, high : Nat \ {0}, low : Nat \ {0},
               close : Nat \ {0}, volume : Nat]
IntentType == [side : Sides, type : {"market", "limit"}, quantity : Nat \ {0},
               limit : Nat \ {0}, tif : Immediate \cup {"gtc"}]

ASSUME ConfigAssumption ==
  /\ Candles \subseteq CandleType
  /\ Intents \subseteq IntentType
  /\ Length \in Nat \ {0}
  /\ Boundaries \subseteq 1 .. (Length - 1)
  /\ {InitialCash, Scale, PriceTick, MinQuantity, MinNotional, MaxActive} \subseteq Nat \ {0}
  /\ {MakerFee, TakerFee} \subseteq 0 .. Scale
  /\ AdverseBps \in 0 .. 9999
  /\ ParticipationPct \in 1 .. 100
  /\ Configs \subseteq [latency : Nat, sameClose : BOOLEAN, optimistic : BOOLEAN]

ASSUME KeyAssumption ==
  /\ Key \in [1 .. Length -> Nat]
  /\ \A d, e \in 1 .. Length : Key[d] = Key[e] => d = e

VARIABLES
  config,    \* _config: the policies of the run
  phase,     \* where process_candle is, or how the run ended
  index,     \* _last_candle_index
  candle,    \* the candle in process
  queue,     \* orders that the current sweep has still to evaluate
  consumed,  \* quantity already filled from the candle in process
  orders,    \* _orders, in the sequence of their creation
  account,   \* _account
  ledger,    \* _ledger, with the fill of each entry
  decided,   \* decisions taken, one per candle
  resets     \* candle indices of _segment_boundary_records

vars == <<config, phase, index, candle, queue, consumed, orders, account, ledger, decided,
          resets>>

Current == index + 1
IsActive(o) == orders[o].status \in Active
ActiveOrders == {o \in DOMAIN orders : IsActive(o)}
Remaining(order) == order.requested - order.filled

-----------------------------------------------------------------------------
(* execution/simulator: one order against one candle. *)

\* market_fill_costs and round_fill_price: adverse costs, then an adverse tick.
CeilDiv(a, b) == (a + b - 1) \div b
MarketPrice(side, reference) ==
  IF side = "buy"
    THEN PriceTick * CeilDiv(reference * (10000 + AdverseBps), 10000 * PriceTick)
    ELSE PriceTick * ((reference * (10000 - AdverseBps)) \div (10000 * PriceTick))

FillPrice(order, reference) ==
  IF order.type = "limit" THEN order.limit ELSE MarketPrice(order.side, reference)

Crossed(order) ==
  \/ order.type = "market"
  \/ order.side = "buy" /\ candle.low < order.limit
  \/ order.side = "sell_to_close" /\ candle.high > order.limit
  \/ config.optimistic /\ order.side = "buy" /\ candle.low = order.limit
  \/ config.optimistic /\ order.side = "sell_to_close" /\ candle.high = order.limit

\* A limit order makes the market, a market order takes it.
FeeRate(order) == IF order.type = "limit" THEN MakerFee ELSE TakerFee
UnitCost(order, price) == price * (Scale + FeeRate(order))

\* round_fill_price refuses a price that the adverse costs round to nothing.
Unpriced(order, reference) ==
  /\ order.status \in Active
  /\ Current \in order.eligible .. order.expires
  /\ order.type = "market" /\ MarketPrice(order.side, reference) = 0

\* available_quantity and _candidate_quantity, rounded down to the step.
Liquidity == (candle.volume * ParticipationPct) \div 100 - consumed
Candidate(order, price) ==
  Min({Remaining(order), Liquidity,
       IF order.side = "buy" THEN account.cash \div UnitCost(order, price) ELSE account.position})

\* Mutant of Fillable: the window of the order is not looked at.
FillableAnytime(order, price) ==
  /\ order.status \in Active
  /\ Crossed(order)
  /\ candle.low <= price /\ price <= candle.high
  /\ Candidate(order, price) >= MinQuantity
  /\ price * Candidate(order, price) >= MinNotional

Fillable(order, price) ==
  /\ order.status \in Active
  /\ Current \in order.eligible .. order.expires
  /\ Crossed(order)
  /\ candle.low <= price /\ price <= candle.high
  /\ Candidate(order, price) >= MinQuantity
  /\ price * Candidate(order, price) >= MinNotional

(* research/accounting.py: apply_fill. *)
CashDelta(order, quantity, price) ==
  IF order.side = "buy" THEN - (quantity * UnitCost(order, price))
                        ELSE quantity * price * (Scale - FeeRate(order))

\* The cost basis a sale releases: all of it when the position closes.
Released(quantity) ==
  IF quantity = account.position THEN account.basis
  ELSE (account.basis * quantity) \div account.position

\* Mutant of Booked: the fee of a purchase does not enter its cost basis.
BookedWithoutFee(order, quantity, price) ==
  LET cash == CashDelta(order, quantity, price)
      released == IF order.side = "buy" THEN - (quantity * price * Scale) ELSE Released(quantity)
  IN [cash |-> account.cash + cash,
      position |-> account.position + (IF order.side = "buy" THEN quantity ELSE - quantity),
      basis |-> account.basis - released,
      realized |-> account.realized + (IF order.side = "buy" THEN 0 ELSE cash - released),
      fees |-> account.fees + quantity * price * FeeRate(order)]

Booked(order, quantity, price) ==
  LET cash == CashDelta(order, quantity, price)
      fee  == quantity * price * FeeRate(order)
  IN IF order.side = "buy"
       THEN [cash |-> account.cash + cash, position |-> account.position + quantity,
             basis |-> account.basis - cash, realized |-> account.realized,
             fees |-> account.fees + fee]
       ELSE [cash |-> account.cash + cash, position |-> account.position - quantity,
             basis |-> account.basis - Released(quantity),
             realized |-> account.realized + cash - Released(quantity),
             fees |-> account.fees + fee]

Entry(o, quantity, price) ==
  LET next == Booked(orders[o], quantity, price) IN
  [order |-> o, candle |-> Current, quantity |-> quantity, price |-> price,
   cashDelta |-> CashDelta(orders[o], quantity, price),
   feeDelta |-> quantity * price * FeeRate(orders[o]),
   cash |-> next.cash, position |-> next.position]

\* What _evaluate_orders does to an order that is still active afterwards.
Settle(order) ==
  IF order.status \in Active /\ Current >= order.eligible
    THEN IF order.tif \in Immediate THEN [order EXCEPT !.status = "cancelled"]
         ELSE IF Current >= order.expires THEN [order EXCEPT !.status = "expired"]
         ELSE order
    ELSE order

WithFill(order, quantity) ==
  [order EXCEPT !.filled = @ + quantity,
     !.status = IF order.filled + quantity = order.requested THEN "filled"
                ELSE "partially_filled"]

-----------------------------------------------------------------------------
Init ==
  /\ config \in Configs
  /\ phase = "ready"
  /\ index = -1
  /\ candle \in Candles
  /\ queue = {}
  /\ consumed = 0
  /\ orders = <<>>
  /\ account = [cash |-> InitialCash, position |-> 0, basis |-> 0, realized |-> 0, fees |-> 0]
  /\ ledger = <<>>
  /\ decided = 0
  /\ resets = <<>>

\* Mutant of Enter: the boundary is recorded without a look at the state.
EnterUnchecked(c) ==
  /\ phase' = "sweep"
  /\ queue' = ActiveOrders
  /\ consumed' = 0
  /\ resets' = IF Current \in Boundaries THEN Append(resets, Current) ELSE resets

\* process_candle up to its sweep: a boundary lets only cash through.
Enter(c) ==
  IF Current \in Boundaries /\ (ActiveOrders # {} \/ account.position # 0)
    THEN /\ phase' = "raised"
         /\ UNCHANGED <<queue, consumed, resets>>
    ELSE /\ phase' = "sweep"
         /\ queue' = ActiveOrders
         /\ consumed' = 0
         /\ resets' = IF Current \in Boundaries THEN Append(resets, Current) ELSE resets

StartCandle ==
  /\ phase = "ready" /\ Current < Length
  /\ \E c \in Candles : candle' = c /\ Enter(c)
  /\ UNCHANGED <<config, index, orders, account, ledger, decided>>

\* One order of _evaluate_orders; the sweep takes them by their identities.
Reference == IF phase = "close" THEN candle.close ELSE candle.open
IsNext(o) == o \in queue /\ \A p \in queue : Key[orders[o].decision] <= Key[orders[p].decision]

EvaluateOrder(o) ==
  /\ phase \in {"sweep", "close"} /\ IsNext(o) /\ ~ Unpriced(orders[o], Reference)
  /\ queue' = queue \ {o}
  /\ LET order == orders[o]
         price == FillPrice(order, Reference)
         quantity == Candidate(order, price)
     IN IF Fillable(order, price)
          THEN /\ orders' = [orders EXCEPT ![o] = Settle(WithFill(order, quantity))]
               /\ account' = Booked(order, quantity, price)
               /\ ledger' = Append(ledger, Entry(o, quantity, price))
               /\ consumed' = consumed + quantity
          ELSE /\ orders' = [orders EXCEPT ![o] = Settle(order)]
               /\ UNCHANGED <<account, ledger, consumed>>
  /\ UNCHANGED <<config, phase, index, candle, decided, resets>>

\* The orders of the sweep that were evaluated before stay as they are.
EvaluationRaises(o) ==
  /\ phase \in {"sweep", "close"} /\ IsNext(o) /\ Unpriced(orders[o], Reference)
  /\ phase' = "raised"
  /\ UNCHANGED <<config, index, candle, queue, consumed, orders, account, ledger, decided,
                 resets>>

\* Mutant of Rejected: without the position check.
RejectedIgnoresPosition(intent) ==
  \/ \E o \in ActiveOrders : orders[o].side = intent.side
  \/ intent.quantity < MinQuantity
  \/ intent.type = "limit" /\ intent.limit % PriceTick # 0
  \/ intent.type = "limit" /\ intent.limit * intent.quantity < MinNotional

\* _accept_intents for a single intent: the conditions of a rejection.
Rejected(intent) ==
  \/ \E o \in ActiveOrders : orders[o].side = intent.side
  \/ intent.side = "sell_to_close" /\ intent.quantity > account.position
  \/ intent.quantity < MinQuantity
  \/ intent.type = "limit" /\ intent.limit % PriceTick # 0
  \/ intent.type = "limit" /\ intent.limit * intent.quantity < MinNotional

NewOrder(intent) ==
  LET eligible == Current + config.latency + (IF config.sameClose THEN 0 ELSE 1) IN
  [side |-> intent.side, type |-> intent.type, limit |-> intent.limit, tif |-> intent.tif,
   requested |-> intent.quantity, filled |-> 0, status |-> "accepted",
   decision |-> decided + 1, created |-> Current, eligible |-> eligible,
   expires |-> IF intent.tif \in Immediate THEN eligible ELSE eligible + MaxActive - 1]

\* Mutant of Decide: the sweep at the close gets a volume of its own.
DecideFresh ==
  /\ phase = "sweep" /\ queue = {}
  /\ phase' = "close"
  /\ decided' = decided + 1
  /\ \E intent \in Intents :
       /\ ~ Rejected(intent)
       /\ orders' = Append(orders, NewOrder(intent))
       /\ queue' = IF config.sameClose /\ NewOrder(intent).eligible = Current
                     THEN {Len(orders) + 1} ELSE {}
  /\ consumed' = 0
  /\ UNCHANGED <<config, index, candle, account, ledger, resets>>

\* on_candle returns.  Two intents or more always conflict and are all
\* rejected, so an answer is no intent to accept, or one.
Decide ==
  /\ phase = "sweep" /\ queue = {}
  /\ phase' = "close"
  /\ decided' = decided + 1
  /\ \/ UNCHANGED <<orders, queue>>
     \/ \E intent \in Intents :
          IF Rejected(intent) THEN UNCHANGED <<orders, queue>>
          ELSE LET order == NewOrder(intent) IN
               /\ orders' = Append(orders, order)
               /\ queue' = IF config.sameClose /\ order.eligible = Current
                             THEN {Len(orders) + 1} ELSE {}
  /\ UNCHANGED <<config, index, candle, consumed, account, ledger, resets>>

\* on_candle raises, or answers what _validated_strategy_intents refuses.
StrategyRaises ==
  /\ phase = "sweep" /\ queue = {}
  /\ phase' = "raised"
  /\ UNCHANGED <<config, index, candle, queue, consumed, orders, account, ledger, decided,
                 resets>>

EndCandle ==
  /\ phase = "close" /\ queue = {}
  /\ phase' = "ready"
  /\ index' = Current
  /\ UNCHANGED <<config, candle, queue, consumed, orders, account, ledger, decided, resets>>

Finalize ==
  /\ phase = "ready" /\ Current = Length
  /\ phase' = "final"
  /\ orders' = [o \in DOMAIN orders |->
                 IF IsActive(o) THEN [orders[o] EXCEPT !.status = "cancelled"] ELSE orders[o]]
  /\ UNCHANGED <<config, index, candle, queue, consumed, account, ledger, decided, resets>>

\* run_backtest: an exception ends the run.
Next ==
  \/ StartCandle \/ (\E o \in queue : EvaluateOrder(o) \/ EvaluationRaises(o))
  \/ Decide \/ StrategyRaises \/ EndCandle \/ Finalize
Spec == Init /\ [][Next]_vars

\* A caller of process_candle that calls again with the candle that raised, as
\* long as no decision is recorded for it: after the callback or the first sweep.
Retry ==
  /\ phase = "raised" /\ decided = Current
  /\ Enter(candle)
  /\ UNCHANGED <<config, index, candle, orders, account, ledger, decided>>
SpecRetry == Init /\ [][Next \/ Retry]_vars
-----------------------------------------------------------------------------
OrderType ==
  [side : Sides, type : {"market", "limit"}, limit : Nat \ {0}, tif : Immediate \cup {"gtc"},
   requested : Nat \ {0}, filled : Nat, status : Statuses, decision : 1 .. Length,
   created : 0 .. (Length - 1), eligible : Nat, expires : Nat]
AccountType == [cash : Nat, position : Nat, basis : Nat, realized : Int, fees : Nat]
EntryType == [order : Nat \ {0}, candle : 0 .. (Length - 1), quantity : Nat \ {0},
              price : Nat \ {0}, cashDelta : Int, feeDelta : Nat, cash : Nat, position : Nat]

(* Balances never go below zero: a fill never raises in apply_fill, and    *)
(* the account and ledger constructors accept every value.                 *)
TypeOK ==
  /\ config \in Configs
  /\ phase \in {"ready", "sweep", "close", "raised", "final"}
  /\ index \in -1 .. (Length - 1)
  /\ candle \in Candles
  /\ queue \in SUBSET DOMAIN orders
  /\ consumed \in Nat
  /\ orders \in Seq(OrderType)
  /\ account \in AccountType
  /\ ledger \in Seq(EntryType)
  /\ decided \in 0 .. Length
  /\ resets \in Seq(0 .. (Length - 1))

(* At any time at most one order of a side is active (engine.py:243-248),  *)
(* whatever expires, fills in part or is accepted while another one waits. *)
OneActivePerSide ==
  \A o, p \in ActiveOrders : orders[o].side = orders[p].side => o = p

(* A sale is accepted against the position of its decision (engine.py:     *)
(* 249-253) and stays covered by it until it fills, however many candles   *)
(* and fills later: no sell fill is ever cut down by the position.         *)
SellsCovered ==
  \A o \in ActiveOrders : orders[o].side = "sell_to_close" =>
    Remaining(orders[o]) <= account.position

(* verify_reconciliation (accounting.py:128-170) never refuses a run: the  *)
(* ledger chains from the initial cash to the account, and cash plus cost  *)
(* basis is initial cash plus realized profit, so a flat account balances. *)
CashBefore(k) == IF k = 1 THEN InitialCash ELSE ledger[k - 1].cash
PositionBefore(k) == IF k = 1 THEN 0 ELSE ledger[k - 1].position
Bought(entry) ==
  IF orders[entry.order].side = "buy" THEN entry.quantity ELSE - entry.quantity

LedgerChains ==
  \A k \in DOMAIN ledger :
    /\ ledger[k].cash = CashBefore(k) + ledger[k].cashDelta
    /\ ledger[k].position = PositionBefore(k) + Bought(ledger[k])

Reconciles ==
  /\ LedgerChains
  /\ account.cash = CashBefore(Len(ledger) + 1)
  /\ account.position = PositionBefore(Len(ledger) + 1)
  /\ account.cash + account.basis = InitialCash + account.realized
  /\ account.position = 0 <=> account.basis = 0

(* "Process exactly one authoritative completed candle once" (engine.py:   *)
(* 309): all the fills taken from one candle, by orders of both sides and  *)
(* both sweeps, stay within the participation cap of its volume.           *)
CandleFilledOnce ==
  phase \in {"sweep", "close"} =>
    MapThenSumSet(LAMBDA k : ledger[k].quantity,
                  {k \in DOMAIN ledger : ledger[k].candle = Current})
      <= (candle.volume * ParticipationPct) \div 100

(* A fill uses a candle of its order's window, and under NEXT_CANDLE only  *)
(* a candle the strategy had not seen when it proposed the order.          *)
NoLookahead ==
  \A k \in DOMAIN ledger :
    LET order == orders[ledger[k].order] IN
    /\ ledger[k].candle \in order.eligible .. order.expires
    /\ ~ config.sameClose => ledger[k].candle > order.created

(* Between candles an active order still has a candle left in its window:  *)
(* immediate orders end with their first candle, and a resting one after   *)
(* max_active_candles.                                                     *)
WindowsEnd ==
  phase = "ready" => \A o \in ActiveOrders :
    /\ index < orders[o].expires
    /\ orders[o].tif \in Immediate => index < orders[o].eligible

(* An order lives in its window: whatever it meets there, no candle before *)
(* or after it fills the order, and none lets it wait beyond it.           *)
WindowsKept == NoLookahead /\ WindowsEnd

(* Nothing crosses a segment boundary: an order fills in the segment that  *)
(* created it, and the ledger is flat wherever it steps over a boundary.   *)
SegmentsIsolated ==
  \A b \in Boundaries, k \in DOMAIN ledger : ledger[k].candle >= b =>
    /\ orders[ledger[k].order].created >= b
    /\ (k > 1 /\ ledger[k - 1].candle < b) => ledger[k - 1].position = 0

(* A terminal order never changes again, not even when the run ends.       *)
TerminalOrdersFrozen ==
  [][\A o \in DOMAIN orders : ~ IsActive(o) => orders'[o] = orders[o]]_vars
=============================================================================
