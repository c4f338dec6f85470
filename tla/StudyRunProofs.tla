--------------------------- MODULE StudyRunProofs ---------------------------
(***************************************************************************)
(* The engine and the study cases that run on it, for every dataset,       *)
(* configuration, strategy and hash.  Books, windows and consumption are   *)
(* theorems of every strategy (Spec of BacktestEngine), the repeated call  *)
(* after an exception (SpecRetry) included; the last part is about the     *)
(* schedules of CandidateSchedule and the cases of StudyRun.               *)
(***************************************************************************)
EXTENDS StudyRun, FiniteSetTheorems, WellFoundedInduction, TLAPS

-----------------------------------------------------------------------------
(***************************************************************************)
(* Books: orders, account and ledger.                                      *)
(***************************************************************************)

(* The candle in process is inside the dataset, and there is one decision  *)
(* for each completed candle and for the one being closed.                 *)
Progress ==
  /\ phase \in {"sweep", "close", "raised"} => Current < Length
  /\ phase # "raised" => decided = Current + (IF phase = "close" THEN 1 ELSE 0)

(* The constructor checks of SimulatedOrder that the steps rely on.        *)
OrderShape ==
  \A o \in DOMAIN orders : IsActive(o) => orders[o].filled < orders[o].requested

EntriesKnown == \A k \in DOMAIN ledger : ledger[k].order \in DOMAIN orders

IInv == /\ TypeOK /\ Progress /\ OrderShape /\ EntriesKnown
        /\ OneActivePerSide /\ SellsCovered /\ Reconciles

-----------------------------------------------------------------------------
(* Arithmetic of prices and quantities.                                    *)

LEMMA DivBounds ==
  ASSUME NEW a \in Nat, NEW b \in Nat \ {0}
  PROVE  a \div b \in Nat /\ (a \div b) * b <= a
  BY Z3

LEMMA DivBelow ==
  ASSUME NEW a \in Nat, NEW b \in Nat \ {0}, NEW c \in Nat, a < c * b
  PROVE  a \div b < c
  BY SMT

LEMMA MulMonotone ==
  ASSUME NEW a \in Nat, NEW b \in Nat, NEW c \in Nat, a <= b
  PROVE  a * c <= b * c
  BY SMT

LEMMA MulStrict ==
  ASSUME NEW a \in Nat, NEW b \in Nat, NEW c \in Nat \ {0}, a < b
  PROVE  c * a < c * b
  BY SMT

LEMMA MulPositive ==
  ASSUME NEW a \in Nat \ {0}, NEW b \in Nat \ {0}
  PROVE  a * b \in Nat \ {0}
  BY SMT

LEMMA MinOfThree ==
  ASSUME NEW a \in Int, NEW b \in Int, NEW c \in Int
  PROVE  /\ Min({a, b, c}) \in Int
         /\ Min({a, b, c}) <= a /\ Min({a, b, c}) <= b /\ Min({a, b, c}) <= c
<1>1. \E x \in {a, b, c} : \A y \in {a, b, c} : x =< y
  OBVIOUS
<1> QED BY <1>1 DEF Min

LEMMA CandleTyped ==
  ASSUME TypeOK
  PROVE  /\ {candle.open, candle.high, candle.low, candle.close} \subseteq Nat \ {0}
         /\ candle.volume \in Nat
<1>1. candle \in CandleType
  BY ConfigAssumption DEF TypeOK
<1> QED BY <1>1 DEF CandleType

(* The price of a fill is an integer.                                      *)
LEMMA PriceIsInt ==
  ASSUME TypeOK, NEW order \in OrderType
  PROVE  FillPrice(order, Reference) \in Int
<1> DEFINE r == Reference
<1>1. r \in Nat \ {0}
  BY CandleTyped DEF Reference
<1>2. r * (10000 + AdverseBps) \in Nat /\ r * (10000 - AdverseBps) \in Nat
  BY <1>1, ConfigAssumption
<1>3. 10000 * PriceTick \in Nat \ {0}
  BY ConfigAssumption
<1>4. (r * (10000 - AdverseBps)) \div (10000 * PriceTick) \in Nat
  BY <1>2, <1>3, DivBounds
<1>5. (r * (10000 + AdverseBps) + 10000 * PriceTick - 1) \div (10000 * PriceTick) \in Nat
  <2>1. r * (10000 + AdverseBps) + 10000 * PriceTick - 1 \in Nat
    BY <1>2, <1>3
  <2> QED BY <2>1, <1>3, DivBounds
<1>6. MarketPrice(order.side, r) \in Int
  BY <1>4, <1>5, ConfigAssumption DEF MarketPrice, CeilDiv
<1> QED BY <1>6 DEF FillPrice, OrderType

LEMMA FeeTyped ==
  ASSUME NEW order
  PROVE  /\ FeeRate(order) \in Nat /\ Scale \in Nat \ {0} /\ Scale - FeeRate(order) \in Nat
         /\ Scale + FeeRate(order) \in Nat \ {0}
<1>1. FeeRate(order) \in 0 .. Scale
  BY ConfigAssumption DEF FeeRate
<1> QED BY <1>1, ConfigAssumption

(* What a fill may take: no more than the order asks for, than the cash    *)
(* pays with its fee, or than the position holds.                          *)
LEMMA FillBounds ==
  ASSUME TypeOK, NEW order \in OrderType, NEW price \in Int, Fillable(order, price),
         order.filled < order.requested, Current < Length
  PROVE  LET q == Candidate(order, price) IN
         /\ price \in Nat \ {0}
         /\ q \in Nat \ {0} /\ q <= Remaining(order)
         /\ order.side = "buy" => q * UnitCost(order, price) <= account.cash
         /\ order.side = "sell_to_close" => q <= account.position
<1> DEFINE q == Candidate(order, price)
           third == IF order.side = "buy" THEN account.cash \div UnitCost(order, price)
                    ELSE account.position
<1>1. price \in Nat \ {0}
  BY CandleTyped DEF Fillable
<1>2. UnitCost(order, price) \in Nat \ {0}
  <2>1. Scale + FeeRate(order) \in Nat \ {0}
    BY FeeTyped
  <2> QED BY <1>1, <2>1, MulPositive DEF UnitCost
<1>3. Remaining(order) \in Int
  BY DEF Remaining, OrderType
<1>4. Liquidity \in Int
  <2>1. candle.volume * ParticipationPct \in Nat
    BY CandleTyped, ConfigAssumption
  <2>2. (candle.volume * ParticipationPct) \div 100 \in Nat
    BY <2>1, DivBounds
  <2> QED BY <2>2 DEF Liquidity, TypeOK
<1>5. third \in Nat /\ (order.side = "buy" => third * UnitCost(order, price) <= account.cash)
  <2>1. account.cash \in Nat /\ account.position \in Nat
    BY DEF TypeOK, AccountType
  <2> QED BY <1>2, <2>1, DivBounds
<1>6. q \in Int /\ q <= Remaining(order) /\ q <= third
  <2>1. q = Min({Remaining(order), Liquidity, third})
    BY DEF Candidate
  <2>2. third \in Int
    BY <1>5
  <2> HIDE DEF q, third
  <2>3. /\ Min({Remaining(order), Liquidity, third}) \in Int
        /\ Min({Remaining(order), Liquidity, third}) <= Remaining(order)
        /\ Min({Remaining(order), Liquidity, third}) <= third
    BY <1>3, <1>4, <2>2, MinOfThree, Zenon
  <2> QED BY <2>1, <2>3
<1>7. q \in Nat \ {0}
  BY <1>6, ConfigAssumption DEF Fillable
<1>8. order.side = "buy" => q * UnitCost(order, price) <= account.cash
  <2>1. q * UnitCost(order, price) <= third * UnitCost(order, price)
    BY <1>2, <1>5, <1>6, <1>7, MulMonotone
  <2>2. q * UnitCost(order, price) \in Int /\ third * UnitCost(order, price) \in Int
    BY <1>2, <1>5, <1>7
  <2> QED BY <1>5, <2>1, <2>2, account.cash \in Nat DEF TypeOK, AccountType
<1>9. order.side = "sell_to_close" => q <= account.position
  BY <1>6
<1> QED BY <1>1, <1>6, <1>7, <1>8, <1>9

(* A partial sale releases some, but never all, of the cost basis.         *)
LEMMA ReleasedBounds ==
  ASSUME account \in AccountType, account.position = 0 <=> account.basis = 0,
         NEW quantity \in Nat \ {0}, quantity <= account.position
  PROVE  /\ Released(quantity) \in Nat
         /\ quantity = account.position => Released(quantity) = account.basis
         /\ quantity < account.position => Released(quantity) < account.basis
<1>1. account.position \in Nat \ {0} /\ account.basis \in Nat \ {0}
  BY DEF AccountType
<1>2. CASE quantity = account.position
  BY <1>1, <1>2 DEF Released
<1>3. CASE quantity < account.position
  <2>1. account.basis * quantity \in Nat
    BY <1>1
  <2>2. account.basis * quantity < account.basis * account.position
    BY <1>1, <1>3, MulStrict
  <2>3. (account.basis * quantity) \div account.position \in Nat
    BY <1>1, <2>1, DivBounds
  <2>4. (account.basis * quantity) \div account.position < account.basis
    BY <1>1, <2>1, <2>2, DivBelow
  <2> QED BY <1>1, <1>3, <2>3, <2>4 DEF Released
<1> QED BY <1>1, <1>2, <1>3

(* Booking a fill that the account can pay for keeps the account balanced. *)
Balanced(order, quantity, price) ==
  LET next == Booked(order, quantity, price) IN
  /\ next \in AccountType
  /\ CashDelta(order, quantity, price) \in Int
  /\ next.cash = account.cash + CashDelta(order, quantity, price)
  /\ next.position = account.position + (IF order.side = "buy" THEN quantity ELSE - quantity)
  /\ next.position = 0 <=> next.basis = 0
  /\ next.cash + next.basis = InitialCash + next.realized

LEMMA BookedBalances ==
  ASSUME account \in AccountType, account.position = 0 <=> account.basis = 0,
         account.cash + account.basis = InitialCash + account.realized,
         NEW order, order.side \in Sides, NEW quantity \in Nat \ {0}, NEW price \in Nat \ {0},
         order.side = "buy" => quantity * UnitCost(order, price) <= account.cash,
         order.side = "sell_to_close" => quantity <= account.position
  PROVE  Balanced(order, quantity, price)
<1> DEFINE fee == quantity * price * FeeRate(order)
           cost == quantity * UnitCost(order, price)
           proceeds == quantity * price * (Scale - FeeRate(order))
<1>0. /\ account.cash \in Nat /\ account.position \in Nat /\ account.basis \in Nat
      /\ account.realized \in Int /\ account.fees \in Nat /\ InitialCash \in Nat
  BY ConfigAssumption DEF AccountType
<1>1. Scale + FeeRate(order) \in Nat \ {0} /\ Scale - FeeRate(order) \in Nat /\ FeeRate(order) \in Nat
  BY FeeTyped
<1>2. quantity * price \in Nat \ {0}
  BY MulPositive
<1>3. fee \in Nat /\ proceeds \in Nat
  BY <1>1, <1>2
<1>4. cost \in Nat \ {0}
  BY <1>1, MulPositive DEF UnitCost
<1>5. CASE order.side = "buy"
  <2>1. CashDelta(order, quantity, price) = - cost
    BY <1>5 DEF CashDelta
  <2>2. Booked(order, quantity, price) =
          [cash |-> account.cash - cost, position |-> account.position + quantity,
           basis |-> account.basis + cost, realized |-> account.realized,
           fees |-> account.fees + fee]
    BY <1>0, <1>4, <1>5, <2>1 DEF Booked
  <2> HIDE DEF fee, cost
  <2> QED BY <1>0, <1>3, <1>4, <1>5, <2>1, <2>2 DEF AccountType, cost, Balanced
<1>6. CASE order.side = "sell_to_close"
  <2>1. CashDelta(order, quantity, price) = proceeds
    BY <1>6 DEF CashDelta
  <2>2. Booked(order, quantity, price) =
          [cash |-> account.cash + proceeds, position |-> account.position - quantity,
           basis |-> account.basis - Released(quantity),
           realized |-> account.realized + proceeds - Released(quantity),
           fees |-> account.fees + fee]
    BY <1>6, <2>1 DEF Booked
  <2>3. /\ Released(quantity) \in Nat
        /\ quantity = account.position => Released(quantity) = account.basis
        /\ quantity < account.position => Released(quantity) < account.basis
    BY <1>6, ReleasedBounds
  <2>4. account.position - quantity \in Nat /\ account.basis - Released(quantity) \in Nat
    BY <1>0, <1>6, <2>3
  <2> HIDE DEF fee, proceeds
  <2> QED BY <1>0, <1>3, <1>6, <2>1, <2>2, <2>3, <2>4 DEF AccountType, Balanced
<1> QED BY <1>5, <1>6 DEF Sides

-----------------------------------------------------------------------------
(* The invariant, action by action.                                        *)

LEMMA InitInv == Init => IInv
<1> SUFFICES ASSUME Init PROVE IInv
  OBVIOUS
<1> USE DEF Init
<1>1. TypeOK
  BY ConfigAssumption DEF TypeOK, AccountType
<1>2. Progress
  BY DEF Progress, Current
<1>3. OrderShape /\ EntriesKnown /\ OneActivePerSide /\ SellsCovered
  BY DEF OrderShape, EntriesKnown, OneActivePerSide, SellsCovered, ActiveOrders
<1>4. Reconciles
  BY ConfigAssumption DEF Reconciles, LedgerChains, CashBefore, PositionBefore
<1> QED BY <1>1, <1>2, <1>3, <1>4 DEF IInv

(* What depends on nothing but the orders, the account and the ledger.     *)
LEMMA BooksUnchanged ==
  ASSUME IInv, UNCHANGED <<orders, account, ledger>>
  PROVE  (OrderShape /\ EntriesKnown /\ OneActivePerSide /\ SellsCovered /\ Reconciles)'
<1> USE DEF IInv
<1>1. OrderShape' /\ EntriesKnown'
  BY DEF OrderShape, EntriesKnown, IsActive
<1>2. OneActivePerSide' /\ SellsCovered'
  BY DEF OneActivePerSide, SellsCovered, ActiveOrders, IsActive, Remaining
<1>3. Reconciles'
  BY DEF Reconciles, LedgerChains, CashBefore, PositionBefore, Bought
<1> QED BY <1>1, <1>2, <1>3

LEMMA EnterInv ==
  ASSUME IInv, phase \in {"ready", "raised"}, decided = Current, Current < Length,
         NEW c \in Candles, candle' = c, Enter(c), UNCHANGED <<config, index, orders, account, ledger, decided>>
  PROVE  IInv'
<1>1. TypeOK'
  <2>1. Current \in 0 .. (Length - 1)
    BY ConfigAssumption DEF IInv, TypeOK, Current
  <2>2. ActiveOrders \subseteq DOMAIN orders
    BY DEF ActiveOrders
  <2>3. resets' \in Seq(0 .. (Length - 1))
    <3>1. resets \in Seq(0 .. (Length - 1))
      BY DEF IInv, TypeOK
    <3>2. Append(resets, Current) \in Seq(0 .. (Length - 1))
      BY <2>1, <3>1
    <3> QED BY <3>1, <3>2 DEF Enter
  <2>4. phase' \in {"sweep", "raised"} /\ queue' \in SUBSET DOMAIN orders /\ consumed' \in Nat
    BY <2>2 DEF IInv, TypeOK, Enter
  <2> QED BY <2>3, <2>4 DEF IInv, TypeOK
<1>2. Progress'
  BY DEF IInv, Progress, Enter, Current
<1> QED BY <1>1, <1>2, BooksUnchanged DEF IInv

(* An exception, of the callback or of a sweep.                            *)
Raises ==
  /\ phase \in {"sweep", "close"} /\ phase' = "raised"
  /\ UNCHANGED <<config, index, candle, queue, consumed, orders, account, ledger, decided, resets>>

LEMMA RaisesAre ==
  /\ StrategyRaises => Raises
  /\ \A o \in queue : EvaluationRaises(o) => Raises
BY DEF StrategyRaises, EvaluationRaises, Raises

LEMMA RaisesInv == IInv /\ Raises => IInv'
<1> SUFFICES ASSUME IInv, Raises PROVE IInv'
  OBVIOUS
<1>1. TypeOK' /\ Progress'
  BY DEF IInv, TypeOK, Progress, Current, Raises
<1> QED BY <1>1, BooksUnchanged DEF IInv, Raises

LEMMA EndCandleInv == IInv /\ EndCandle => IInv'
<1> SUFFICES ASSUME IInv, EndCandle PROVE IInv'
  OBVIOUS
<1>1. Current < Length /\ Current \in Int /\ Length \in Nat /\ index \in -1 .. (Length - 1)
  BY ConfigAssumption DEF IInv, TypeOK, Progress, Current, EndCandle
<1>2. TypeOK'
  BY <1>1 DEF IInv, TypeOK, Current, EndCandle
<1>3. Progress'
  BY <1>1 DEF IInv, Progress, Current, EndCandle
<1> QED BY <1>2, <1>3, BooksUnchanged DEF IInv, EndCandle

(* Orders that only get new statuses, and become active in no way.         *)
LEMMA FinalizeInv == IInv /\ Finalize => IInv'
<1> SUFFICES ASSUME IInv, Finalize PROVE IInv'
  OBVIOUS
<1> USE DEF IInv
<1>1. /\ DOMAIN orders' = DOMAIN orders /\ DOMAIN orders = 1 .. Len(orders)
      /\ Len(orders) \in Nat
  BY DEF TypeOK, Finalize
<1>2. \A o \in DOMAIN orders :
        /\ orders[o] \in OrderType
        /\ orders'[o] \in OrderType
        /\ orders'[o].side = orders[o].side
        /\ orders'[o].status \notin Active
  <2> SUFFICES ASSUME NEW o \in DOMAIN orders
               PROVE  /\ orders[o] \in OrderType
                      /\ orders'[o] \in OrderType
                      /\ orders'[o].side = orders[o].side
                      /\ orders'[o].status \notin Active
    OBVIOUS
  <2>1. orders[o] \in OrderType
    BY DEF TypeOK
  <2>2. orders'[o] = IF orders[o].status \in Active
                       THEN [orders[o] EXCEPT !.status = "cancelled"] ELSE orders[o]
    BY DEF Finalize, IsActive
  <2>3. "cancelled" \in Statuses /\ "cancelled" \notin Active
    BY DEF Statuses, Active
  <2> QED BY <2>1, <2>2, <2>3 DEF OrderType
<1>3. orders' \in Seq(OrderType)
  <2>1. orders' = [o \in 1 .. Len(orders) |-> orders'[o]]
    BY <1>1 DEF Finalize
  <2> QED BY <1>1, <1>2, <2>1
<1>4. TypeOK' /\ Progress'
  BY <1>1, <1>3 DEF TypeOK, Progress, Current, Finalize
<1>5. (OrderShape /\ EntriesKnown /\ OneActivePerSide /\ SellsCovered)'
  BY <1>1, <1>2 DEF OrderShape, EntriesKnown, OneActivePerSide, SellsCovered, ActiveOrders,
                    IsActive, Finalize
<1>6. Reconciles'
  BY <1>1, <1>2 DEF Reconciles, LedgerChains, CashBefore, PositionBefore, Bought,
                    EntriesKnown, Finalize
<1> QED BY <1>4, <1>5, <1>6

LEMMA DecideInv == IInv /\ Decide => IInv'
<1> SUFFICES ASSUME IInv, Decide PROVE IInv'
  OBVIOUS
<1> USE DEF IInv
<1>1. /\ Current \in 0 .. (Length - 1) /\ decided = Current /\ decided + 1 \in 1 .. Length
      /\ Length \in Nat /\ config.latency \in Nat /\ MaxActive \in Nat \ {0}
  BY ConfigAssumption DEF TypeOK, Progress, Current, Decide
<1>2. Progress'
  BY <1>1 DEF Progress, Current, Decide
<1>3. CASE UNCHANGED <<orders, queue>>
  <2>1. TypeOK'
    BY <1>1, <1>3 DEF TypeOK, Decide
  <2> QED BY <1>2, <1>3, <2>1, BooksUnchanged DEF Decide
<1>4. ASSUME NEW intent \in Intents, ~ Rejected(intent),
             orders' = Append(orders, NewOrder(intent)),
             queue' \subseteq {Len(orders) + 1}
      PROVE  IInv'
  <2> DEFINE new == NewOrder(intent)
             n == Len(orders) + 1
  <2>1. new \in OrderType
    <3>1. intent \in IntentType
      BY ConfigAssumption
    <3>2. Current + config.latency \in Nat /\ Current + 1 + config.latency \in Nat
      BY <1>1
    <3>3. new.eligible \in Nat /\ new.expires \in Nat
      BY <1>1, <3>2 DEF NewOrder
    <3>4. "accepted" \in Statuses
      BY DEF Statuses, Active
    <3> QED BY <1>1, <3>1, <3>3, <3>4 DEF NewOrder, OrderType, IntentType
  <2>2. /\ new.status = "accepted" /\ new.filled = 0 /\ new.side = intent.side
        /\ new.requested = intent.quantity
    BY DEF NewOrder
  <2> HIDE DEF new
  <2>3. /\ orders \in Seq(OrderType) /\ n \in Nat \ {0} /\ DOMAIN orders = 1 .. (n - 1)
        /\ DOMAIN orders' = 1 .. n
        /\ orders'[n] = new /\ \A o \in DOMAIN orders : orders'[o] = orders[o]
    BY <1>4, <2>1 DEF TypeOK, new
  <2>4. orders' \in Seq(OrderType)
    BY <1>4, <2>1, <2>3 DEF new
  <2>5. TypeOK'
    <3>1. queue' \in SUBSET DOMAIN orders'
      BY <1>4, <2>3
    <3>2. decided' \in 0 .. Length
      BY <1>1 DEF Decide
    <3> QED BY <2>4, <3>1, <3>2 DEF TypeOK, Decide
  <2>6. \A o \in ActiveOrders' : o = n \/ (o \in ActiveOrders /\ orders'[o] = orders[o])
    BY <2>3 DEF ActiveOrders, IsActive
  <2>7. \A o \in ActiveOrders : orders[o].side # new.side /\ orders'[o] = orders[o]
    BY <1>4, <2>2, <2>3 DEF Rejected, ActiveOrders
  <2>8. OneActivePerSide'
    BY <2>3, <2>6, <2>7 DEF OneActivePerSide
  <2>9. SellsCovered'
    <3>1. new.side = "sell_to_close" => Remaining(new) <= account.position
      BY <1>4, <2>1, <2>2 DEF Rejected, Remaining, TypeOK, AccountType, OrderType
    <3> QED BY <2>3, <2>6, <3>1 DEF SellsCovered, Remaining, Decide
  <2>10. OrderShape' /\ EntriesKnown'
    <3>1. new.filled < new.requested
      BY <2>1, <2>2 DEF OrderType
    <3>2. \A o \in DOMAIN orders' : o = n \/ (o \in DOMAIN orders /\ orders'[o] = orders[o])
      BY <2>3
    <3>3. OrderShape'
      BY <2>3, <3>1, <3>2 DEF OrderShape, IsActive
    <3>4. EntriesKnown'
      BY <2>3 DEF EntriesKnown, Decide
    <3> QED BY <3>3, <3>4
  <2>11. Reconciles'
    BY <2>3 DEF Reconciles, LedgerChains, CashBefore, PositionBefore, Bought, EntriesKnown,
                Decide
  <2> QED BY <1>2, <2>5, <2>8, <2>9, <2>10, <2>11
<1> QED BY <1>3, <1>4 DEF Decide

(* Settling an order can only end it.                                      *)
LEMMA SettleEnds ==
  ASSUME NEW order \in OrderType
  PROVE  /\ Settle(order) \in OrderType
         /\ Settle(order).side = order.side
         /\ Settle(order).status \in Active => Settle(order) = order
<1>1. "cancelled" \in Statuses /\ "expired" \in Statuses
  BY DEF Statuses
<1>2. {"cancelled", "expired"} \cap Active = {}
  BY DEF Active
<1>3. \A status \in {"cancelled", "expired"} :
        /\ [order EXCEPT !.status = status] \in OrderType
        /\ [order EXCEPT !.status = status].side = order.side
        /\ [order EXCEPT !.status = status].status = status
  BY <1>1 DEF OrderType
<1> QED BY <1>2, <1>3 DEF Settle

LEMMA WithFillFacts ==
  ASSUME NEW order \in OrderType, NEW q \in Nat \ {0}, q <= Remaining(order)
  PROVE  LET next == WithFill(order, q) IN
         /\ next \in OrderType /\ next.side = order.side
         /\ Remaining(next) = Remaining(order) - q
         /\ next.status \in Active => next.filled < next.requested
<1> DEFINE status == IF order.filled + q = order.requested THEN "filled" ELSE "partially_filled"
           next == WithFill(order, q)
<1>1. order.filled \in Nat /\ order.requested \in Nat /\ order.filled + q <= order.requested
  BY DEF OrderType, Remaining
<1>2. status \in Statuses /\ (status \in Active => order.filled + q # order.requested)
  BY DEF Statuses, Active
<1>3. /\ next \in OrderType /\ next.side = order.side /\ next.requested = order.requested
      /\ next.filled = order.filled + q /\ next.status = status
  <2>1. next = [order EXCEPT !.filled = order.filled + q, !.status = status]
    BY DEF WithFill, OrderType
  <2>2. order.filled + q \in Nat
    BY <1>1
  <2> HIDE DEF next, status
  <2> QED BY <1>2, <2>1, <2>2 DEF OrderType
<1> HIDE DEF next, status
<1> QED BY <1>1, <1>2, <1>3 DEF Remaining, next

(* One order moves on: its successor is the same or ended when nothing was *)
(* filled, and every other order is as it was.                             *)
LEMMA OneOrderTyped ==
  ASSUME orders \in Seq(OrderType), NEW o \in DOMAIN orders, NEW next \in OrderType,
         next.side = orders[o].side, orders' = [orders EXCEPT ![o] = next]
  PROVE  /\ orders' \in Seq(OrderType) /\ DOMAIN orders' = DOMAIN orders
         /\ orders'[o] = next
         /\ \A p \in DOMAIN orders : p # o => orders'[p] = orders[p]
         /\ \A p \in DOMAIN orders : orders'[p].side = orders[p].side
  OBVIOUS

LEMMA MissInv ==
  ASSUME IInv, NEW o \in DOMAIN orders,
         phase \in {"sweep", "close"}, queue' = queue \ {o},
         orders' = [orders EXCEPT ![o] = Settle(orders[o])],
         UNCHANGED <<config, account, ledger, consumed, phase, index, candle, decided, resets>>
  PROVE  IInv'
<1> USE DEF IInv
<1>1. orders[o] \in OrderType /\ orders \in Seq(OrderType)
  BY DEF TypeOK
<1>2. /\ Settle(orders[o]) \in OrderType /\ Settle(orders[o]).side = orders[o].side
      /\ Settle(orders[o]).status \in Active => Settle(orders[o]) = orders[o]
  BY <1>1, SettleEnds
<1>3. /\ orders' \in Seq(OrderType) /\ DOMAIN orders' = DOMAIN orders
      /\ orders'[o] = Settle(orders[o])
      /\ \A p \in DOMAIN orders : p # o => orders'[p] = orders[p]
      /\ \A p \in DOMAIN orders : orders'[p].side = orders[p].side
  BY <1>1, <1>2, OneOrderTyped
<1>4. TypeOK' /\ Progress'
  BY <1>3 DEF TypeOK, Progress, Current
<1>5. \A p \in ActiveOrders' : p \in ActiveOrders /\ orders'[p] = orders[p]
  BY <1>2, <1>3 DEF ActiveOrders, IsActive
<1>6. (OneActivePerSide /\ SellsCovered)'
  BY <1>5 DEF OneActivePerSide, SellsCovered, Remaining
<1>7. (OrderShape /\ EntriesKnown)'
  BY <1>3, <1>5 DEF OrderShape, EntriesKnown, ActiveOrders, IsActive
<1>8. Reconciles'
  BY <1>3 DEF Reconciles, LedgerChains, CashBefore, PositionBefore, Bought, EntriesKnown
<1> QED BY <1>4, <1>6, <1>7, <1>8

LEMMA FillBalances ==
  ASSUME TypeOK, Reconciles, NEW order, order.side \in Sides, NEW quantity, quantity \in Nat \ {0},
         NEW price, price \in Nat \ {0},
         order.side = "buy" => quantity * UnitCost(order, price) <= account.cash,
         order.side = "sell_to_close" => quantity <= account.position
  PROVE  Balanced(order, quantity, price)
<1>1. /\ account \in AccountType
      /\ account.position = 0 <=> account.basis = 0
      /\ account.cash + account.basis = InitialCash + account.realized
  BY DEF TypeOK, Reconciles
<1> QED BY <1>1, BookedBalances

LEMMA FillInv ==
  ASSUME IInv, NEW o \in DOMAIN orders, phase \in {"sweep", "close"}, queue' = queue \ {o},
         NEW price \in Int, price = FillPrice(orders[o], Reference),
         NEW q, q = Candidate(orders[o], price), Fillable(orders[o], price),
         orders' = [orders EXCEPT ![o] = Settle(WithFill(orders[o], q))],
         account' = Booked(orders[o], q, price),
         ledger' = Append(ledger, Entry(o, q, price)), consumed' = consumed + q,
         UNCHANGED <<config, phase, index, candle, decided, resets>>
  PROVE  IInv'
<1> USE DEF IInv
<1> DEFINE order == orders[o]
           next == Settle(WithFill(order, q))
           entry == Entry(o, q, price)
           n == Len(ledger) + 1
<1>1. order \in OrderType /\ orders \in Seq(OrderType) /\ order.side \in Sides
  <2>1. orders \in Seq(OrderType) /\ orders[o] \in OrderType
    BY DEF TypeOK
  <2> QED BY <2>1 DEF OrderType
<1>2. o \in ActiveOrders /\ order.filled < order.requested /\ Current < Length
  BY DEF Fillable, ActiveOrders, IsActive, OrderShape, Progress
<1>3. /\ price \in Nat \ {0} /\ q \in Nat \ {0} /\ q <= Remaining(order)
      /\ order.side = "buy" => q * UnitCost(order, price) <= account.cash
      /\ order.side = "sell_to_close" => q <= account.position
  BY <1>1, <1>2, FillBounds
<1>4. /\ WithFill(order, q) \in OrderType /\ WithFill(order, q).side = order.side
      /\ Remaining(WithFill(order, q)) = Remaining(order) - q
      /\ WithFill(order, q).status \in Active
           => WithFill(order, q).filled < WithFill(order, q).requested
  BY <1>1, <1>3, WithFillFacts
<1>5. /\ next \in OrderType /\ next.side = order.side
      /\ next.status \in Active => /\ Remaining(next) = Remaining(order) - q
                                   /\ next.filled < next.requested
  BY <1>4, SettleEnds
<1> HIDE DEF next
<1>6. /\ orders' \in Seq(OrderType) /\ DOMAIN orders' = DOMAIN orders
      /\ orders'[o] = next
      /\ \A p \in DOMAIN orders : p # o => orders'[p] = orders[p]
      /\ \A p \in DOMAIN orders : orders'[p].side = orders[p].side
  BY <1>1, <1>5, OneOrderTyped DEF next
<1>7. /\ account' \in AccountType /\ CashDelta(order, q, price) \in Int
      /\ account'.cash = account.cash + CashDelta(order, q, price)
      /\ account'.position = account.position + (IF order.side = "buy" THEN q ELSE - q)
      /\ account'.position = 0 <=> account'.basis = 0
      /\ account'.cash + account'.basis = InitialCash + account'.realized
  <2>1. Balanced(order, q, price)
    BY <1>1, <1>2, <1>3, FillBalances
  <2> QED BY <2>1 DEF Balanced
<1>8. /\ entry.order = o /\ entry.quantity = q
      /\ entry.cashDelta = CashDelta(order, q, price)
      /\ entry.cash = account'.cash /\ entry.position = account'.position
  BY DEF Entry
<1>9. entry \in EntryType
  <2>1. q * price * FeeRate(order) \in Nat
    BY <1>3, FeeTyped
  <2>2. Current \in 0 .. (Length - 1)
    <3>1. index \in -1 .. (Length - 1) /\ Length \in Nat
      BY ConfigAssumption DEF TypeOK
    <3> QED BY <1>2, <3>1 DEF Current
  <2>3. o \in Nat \ {0}
    BY <1>1
  <2> QED BY <1>3, <1>7, <2>1, <2>2, <2>3 DEF Entry, EntryType, AccountType
<1> HIDE DEF entry
<1>10. /\ ledger \in Seq(EntryType) /\ n \in Nat \ {0} /\ DOMAIN ledger = 1 .. (n - 1)
       /\ ledger' \in Seq(EntryType) /\ DOMAIN ledger' = 1 .. n /\ Len(ledger') = n
       /\ ledger'[n] = entry /\ \A k \in 1 .. (n - 1) : ledger'[k] = ledger[k]
  BY <1>9 DEF TypeOK, entry
<1>11. TypeOK' /\ Progress'
  <2>1. consumed' \in Nat
    BY <1>3 DEF TypeOK
  <2> QED BY <1>6, <1>7, <1>10, <2>1 DEF TypeOK, Progress, Current
<1>12. \A p \in ActiveOrders' : p \in ActiveOrders /\ (p # o => orders'[p] = orders[p])
  BY <1>2, <1>6 DEF ActiveOrders, IsActive
<1>13. OneActivePerSide'
  BY <1>6, <1>12 DEF OneActivePerSide, ActiveOrders
<1>14. SellsCovered'
  <2> SUFFICES ASSUME NEW p \in ActiveOrders', orders'[p].side = "sell_to_close"
               PROVE  Remaining(orders'[p]) <= account'.position
    BY DEF SellsCovered, Remaining
  <2>1. account.position \in Nat /\ p \in ActiveOrders /\ orders[p].side = "sell_to_close"
    BY <1>6, <1>12 DEF TypeOK, AccountType, ActiveOrders
  <2>2. Remaining(orders[p]) <= account.position /\ Remaining(orders[p]) \in Int
    <3>1. orders[p] \in OrderType
      BY <1>1, <2>1 DEF ActiveOrders
    <3>2. Remaining(orders[p]) \in Int
      BY <3>1 DEF Remaining, OrderType
    <3> QED BY <2>1, <3>2 DEF SellsCovered
  <2>3. CASE p = o
    <3>1. next.status \in Active
      BY <1>6, <2>3 DEF ActiveOrders, IsActive
    <3>2. Remaining(next) = Remaining(order) - q
      BY <1>5, <3>1
    <3>3. account'.position = account.position - q
      BY <1>3, <1>7, <2>1, <2>3
    <3> QED BY <1>3, <1>6, <2>1, <2>2, <2>3, <3>2, <3>3
  <2>4. CASE p # o
    <3>1. order.side = "buy"
      BY <1>1, <1>2, <2>1, <2>4 DEF OneActivePerSide, Sides
    <3> QED BY <1>3, <1>7, <1>12, <2>1, <2>2, <2>4, <3>1
  <2> QED BY <2>3, <2>4
<1>15. (OrderShape /\ EntriesKnown)'
  <2>1. OrderShape'
    BY <1>5, <1>6, <1>12 DEF OrderShape, ActiveOrders, IsActive
  <2>2. EntriesKnown'
    BY <1>6, <1>8, <1>10 DEF EntriesKnown
  <2> QED BY <2>1, <2>2
<1>16. Reconciles'
  <2>1. \A k \in 1 .. n : CashBefore(k)' = CashBefore(k) /\ PositionBefore(k)' = PositionBefore(k)
    <3>1. \A k \in 1 .. n : k = 1 \/ k - 1 \in 1 .. (n - 1)
      BY <1>10
    <3> QED BY <1>10, <3>1 DEF CashBefore, PositionBefore
  <2>2. \A k \in 1 .. (n - 1) : Bought(ledger[k])' = Bought(ledger[k])
    <3>1. \A k \in 1 .. (n - 1) : ledger'[k] = ledger[k] /\ ledger[k].order \in DOMAIN orders
      BY <1>10 DEF EntriesKnown
    <3> QED BY <1>6, <3>1 DEF Bought
  <2>3. CashBefore(n) = account.cash /\ PositionBefore(n) = account.position
    BY DEF Reconciles
  <2>4. LedgerChains'
    <3> SUFFICES ASSUME NEW k \in DOMAIN ledger'
                 PROVE  /\ ledger'[k].cash = CashBefore(k)' + ledger'[k].cashDelta
                        /\ ledger'[k].position = PositionBefore(k)' + Bought(ledger[k])'
      BY DEF LedgerChains
    <3>1. k \in 1 .. n
      BY <1>10
    <3>2. CashBefore(k)' = CashBefore(k) /\ PositionBefore(k)' = PositionBefore(k)
      BY <2>1, <3>1
    <3>3. CASE k = n
      <4>1. /\ ledger'[k].cash = account'.cash /\ ledger'[k].position = account'.position
            /\ ledger'[k].cashDelta = CashDelta(order, q, price)
        BY <1>8, <1>10, <3>3
      <4>2. CashBefore(k) = account.cash /\ PositionBefore(k) = account.position
        BY <2>3, <3>3
      <4>3. Bought(ledger[k])' = IF order.side = "buy" THEN q ELSE - q
        BY <1>6, <1>8, <1>10, <3>3 DEF Bought
      <4> QED BY <1>7, <3>2, <4>1, <4>2, <4>3
    <3>4. CASE k # n
      <4>1. k \in 1 .. (n - 1) /\ k \in DOMAIN ledger /\ ledger'[k] = ledger[k]
        BY <1>10, <3>1, <3>4
      <4>2. /\ ledger[k].cash = CashBefore(k) + ledger[k].cashDelta
            /\ ledger[k].position = PositionBefore(k) + Bought(ledger[k])
        BY <4>1 DEF Reconciles, LedgerChains
      <4> QED BY <2>2, <3>2, <4>1, <4>2
    <3> QED BY <3>3, <3>4
  <2>5. /\ (CashBefore(Len(ledger) + 1))' = account'.cash
        /\ (PositionBefore(Len(ledger) + 1))' = account'.position
    BY <1>8, <1>10 DEF CashBefore, PositionBefore
  <2> QED BY <1>7, <2>4, <2>5 DEF Reconciles
<1> QED BY <1>11, <1>13, <1>14, <1>15, <1>16

LEMMA EvaluateOrderInv ==
  ASSUME IInv, NEW o \in queue, EvaluateOrder(o)
  PROVE  IInv'
<1> DEFINE price == FillPrice(orders[o], Reference)
<1>1. o \in DOMAIN orders /\ orders[o] \in OrderType
  BY DEF IInv, TypeOK
<1>2. price \in Int
  BY <1>1, PriceIsInt DEF IInv
<1>3. CASE Fillable(orders[o], price)
  BY <1>1, <1>2, <1>3, FillInv DEF EvaluateOrder
<1>4. CASE ~ Fillable(orders[o], price)
  BY <1>1, <1>4, MissInv DEF EvaluateOrder
<1> QED BY <1>3, <1>4

-----------------------------------------------------------------------------
LEMMA StepInv == IInv /\ [Next \/ Retry]_vars => IInv'
<1> SUFFICES ASSUME IInv, [Next \/ Retry]_vars PROVE IInv'
  OBVIOUS
<1>1. CASE StartCandle
  <2>1. decided = Current + 0 /\ Current \in Int
    BY <1>1, ConfigAssumption DEF IInv, TypeOK, Progress, StartCandle, Current
  <2> QED BY <1>1, <2>1, EnterInv DEF StartCandle
<1>2. ASSUME NEW o \in queue, EvaluateOrder(o) PROVE IInv'
  BY <1>2, EvaluateOrderInv
<1>3. CASE Retry
  <2>1. Current < Length /\ candle \in Candles
    BY <1>3 DEF IInv, Progress, TypeOK, Retry
  <2> QED BY <1>3, <2>1, EnterInv DEF Retry
<1>4. CASE UNCHANGED vars
  <2>1. TypeOK' /\ Progress'
    BY <1>4 DEF IInv, TypeOK, Progress, Current, vars
  <2> QED BY <1>4, <2>1, BooksUnchanged DEF IInv, vars
<1> QED BY <1>1, <1>2, <1>3, <1>4, DecideInv, RaisesAre, RaisesInv, EndCandleInv, FinalizeInv
        DEF Next

(* The invariant holds of every run, a repeated candle included.           *)
THEOREM InvariantHolds == SpecRetry => []IInv
BY InitInv, StepInv, PTL DEF SpecRetry

(* A run of run_backtest is one in which nobody calls again.               *)
THEOREM RunsAreRetries == Spec => SpecRetry
<1>1. [Next]_vars => [Next \/ Retry]_vars
  OBVIOUS
<1> QED BY <1>1, PTL DEF Spec, SpecRetry

(* apply_fill never overdraws cash or position, in any run.                *)
THEOREM TypeCorrect == Spec => []TypeOK
<1>1. IInv => TypeOK
  BY DEF IInv
<1> QED BY <1>1, InvariantHolds, RunsAreRetries, PTL

(* _intent_conflict_reason and the active-order check leave at most one    *)
(* order of a side working.                                                *)
THEOREM AtMostOnePerSide == Spec => []OneActivePerSide
<1>1. IInv => OneActivePerSide
  BY DEF IInv
<1> QED BY <1>1, InvariantHolds, RunsAreRetries, PTL

(* No sale, however long it rests or fills in parts, exceeds the position. *)
THEOREM SalesStayCovered == Spec => []SellsCovered
<1>1. IInv => SellsCovered
  BY DEF IInv
<1> QED BY <1>1, InvariantHolds, RunsAreRetries, PTL

(* verify_reconciliation accepts the books at every moment of every run.   *)
THEOREM BooksReconcile == Spec => []Reconciles
<1>1. IInv => Reconciles
  BY DEF IInv
<1> QED BY <1>1, InvariantHolds, RunsAreRetries, PTL

LEMMA TerminalStep ==
  ASSUME IInv, [Next \/ Retry]_vars, NEW o \in DOMAIN orders, ~ IsActive(o)
  PROVE  orders'[o] = orders[o]
<1>1. orders \in Seq(OrderType) /\ orders[o] \in OrderType
  BY DEF IInv, TypeOK
<1>2. CASE UNCHANGED orders
  BY <1>2
<1>3. ASSUME NEW p \in queue, EvaluateOrder(p), p = o PROVE orders'[o] = orders[o]
  <2>1. ~ Fillable(orders[o], FillPrice(orders[o], Reference))
    BY DEF Fillable, IsActive
  <2>2. Settle(orders[o]) = orders[o]
    BY DEF Settle, IsActive
  <2> QED BY <1>1, <1>3, <2>1, <2>2 DEF EvaluateOrder
<1>4. ASSUME NEW p \in queue, EvaluateOrder(p), p # o PROVE orders'[o] = orders[o]
  BY <1>1, <1>4 DEF EvaluateOrder
<1>5. CASE Decide
  BY <1>1, <1>5 DEF Decide
<1>6. CASE Finalize
  BY <1>6 DEF Finalize
<1> QED BY <1>2, <1>3, <1>4, <1>5, <1>6
        DEF Next, vars, StartCandle, StrategyRaises, EvaluationRaises, EndCandle, Retry

(* No later sweep, and not the end of the run, touches a terminal order.   *)
THEOREM TerminalOrdersStay == Spec => TerminalOrdersFrozen
<1>1. IInv /\ [Next \/ Retry]_vars
        => [\A o \in DOMAIN orders : ~ IsActive(o) => orders'[o] = orders[o]]_vars
  BY TerminalStep
<1> QED BY <1>1, InvariantHolds, RunsAreRetries, PTL DEF SpecRetry, TerminalOrdersFrozen

-----------------------------------------------------------------------------
(***************************************************************************)
(* Time: a fill lies in the window of its order, windows end, and nothing  *)
(* crosses a segment boundary.                                             *)
(***************************************************************************)

(* The window of an order is not empty, and under NEXT_CANDLE it begins    *)
(* after the candle of the decision.                                       *)
Windows ==
  \A o \in DOMAIN orders :
    /\ orders[o].eligible <= orders[o].expires
    /\ ~ config.sameClose => orders[o].created < orders[o].eligible

(* An order that the sweeps of this candle have done with may still fill   *)
(* from a later candle.                                                    *)
Outlasts(order) ==
  /\ Current < order.expires
  /\ order.tif \in Immediate => Current < order.eligible
Swept ==
  phase \in {"sweep", "close"} =>
    \A o \in ActiveOrders : o \in queue \/ Outlasts(orders[o])

(* Behind a boundary, only orders of the new segment work, and the account *)
(* is flat until the new segment fills one.                                *)
Behind(b) == b <= index \/ (phase \in {"sweep", "close"} /\ b <= Current)
Isolated ==
  \A b \in Boundaries : Behind(b) =>
    /\ \A o \in ActiveOrders : b <= orders[o].created
    /\ (ledger = <<>> \/ ledger[Len(ledger)].candle < b) => account.position = 0

CInv == Windows /\ NoLookahead /\ Swept /\ WindowsEnd /\ Isolated /\ SegmentsIsolated

-----------------------------------------------------------------------------
(* What no step changes of an order.                                       *)
Same(next, order) ==
  /\ next.created = order.created /\ next.eligible = order.eligible
  /\ next.expires = order.expires /\ next.tif = order.tif /\ next.side = order.side

LEMMA SettleSame ==
  ASSUME NEW order \in OrderType
  PROVE  Same(Settle(order), order)
  BY DEF Settle, Same, OrderType

LEMMA WithFillSame ==
  ASSUME NEW order \in OrderType, NEW q
  PROVE  Same(WithFill(order, q), order)
  BY DEF WithFill, Same, OrderType

LEMMA OrderTyped ==
  ASSUME IInv, NEW o \in DOMAIN orders
  PROVE  /\ orders[o] \in OrderType
         /\ orders[o].created \in Int /\ orders[o].eligible \in Int /\ orders[o].expires \in Int
<1>1. orders[o] \in OrderType
  BY DEF IInv, TypeOK
<1> QED BY <1>1 DEF OrderType

LEMMA CurrentTyped ==
  ASSUME IInv
  PROVE  index \in Int /\ Current \in Int /\ Current = index + 1
  BY DEF IInv, TypeOK, Current

LEMMA BoundaryTyped ==
  ASSUME NEW b \in Boundaries
  PROVE  b \in Int
  BY ConfigAssumption

(* An order that is settled and still works has a later candle.            *)
LEMMA SettledOutlasts ==
  ASSUME IInv, NEW order \in OrderType, order.eligible <= order.expires,
         Settle(order).status \in Active
  PROVE  Outlasts(order) /\ order.status \in Active
<1>1. order.eligible \in Int /\ order.expires \in Int /\ Current \in Int
  BY CurrentTyped DEF OrderType
<1>2. \A status \in {"cancelled", "expired"} :
        [order EXCEPT !.status = status].status \notin Active
  BY DEF OrderType, Active
<1>3. order.status \in Active
  BY <1>2 DEF Settle
<1>4. CASE Current >= order.eligible
  BY <1>1, <1>2, <1>3, <1>4 DEF Settle, Outlasts
<1>5. CASE Current < order.eligible
  BY <1>1, <1>3, <1>5 DEF Outlasts
<1> QED BY <1>1, <1>4, <1>5

(* One evaluation of one order, as far as time is concerned.               *)
LEMMA Evaluation ==
  ASSUME IInv, Windows, NEW o \in queue, EvaluateOrder(o)
  PROVE  /\ o \in DOMAIN orders /\ DOMAIN orders' = DOMAIN orders
         /\ \A p \in DOMAIN orders : Same(orders'[p], orders[p])
         /\ \A p \in DOMAIN orders : p # o => orders'[p] = orders[p]
         /\ orders'[o].status \in Active => Outlasts(orders[o]) /\ IsActive(o)
         /\ UNCHANGED <<config, phase, index>> /\ queue' = queue \ {o}
         /\ \/ UNCHANGED <<ledger, account>>
            \/ /\ IsActive(o) /\ Current \in orders[o].eligible .. orders[o].expires
               /\ \E entry : /\ ledger' = Append(ledger, entry)
                             /\ entry.order = o /\ entry.candle = Current
<1> DEFINE order == orders[o]
           price == FillPrice(order, Reference)
           q == Candidate(order, price)
<1>1. o \in DOMAIN orders /\ order \in OrderType /\ orders \in Seq(OrderType)
  BY DEF IInv, TypeOK
<1>2. UNCHANGED <<config, phase, index>> /\ queue' = queue \ {o}
  BY DEF EvaluateOrder
<1>3. order.eligible <= order.expires
  BY <1>1 DEF Windows
<1>4. CASE Fillable(order, price)
  <2> DEFINE next == Settle(WithFill(order, q))
  <2>1. orders' = [orders EXCEPT ![o] = next] /\ ledger' = Append(ledger, Entry(o, q, price))
    BY <1>4 DEF EvaluateOrder
  <2>2. WithFill(order, q) \in OrderType
    <3>1. price \in Int /\ order.filled < order.requested /\ Current < Length
      BY <1>1, <1>4, PriceIsInt DEF IInv, OrderShape, Fillable, IsActive, Progress, EvaluateOrder
    <3>2. q \in Nat \ {0} /\ q <= Remaining(order)
      BY <1>1, <1>4, <3>1, FillBounds DEF IInv
    <3> QED BY <1>1, <3>2, WithFillFacts
  <2>3. Same(WithFill(order, q), order)
    BY <1>1, WithFillSame
  <2>4. Same(next, WithFill(order, q))
    BY <2>2, SettleSame
  <2>5. Same(next, order)
    BY <2>3, <2>4 DEF Same
  <2>6. next.status \in Active => Outlasts(order)
    <3>1. WithFill(order, q).eligible <= WithFill(order, q).expires
      BY <1>3, <2>3 DEF Same
    <3>2. next.status \in Active => Outlasts(WithFill(order, q))
      BY <2>2, <3>1, SettledOutlasts
    <3> QED BY <2>3, <3>2 DEF Same, Outlasts
  <2>7. IsActive(o) /\ Current \in order.eligible .. order.expires
    BY <1>4 DEF Fillable, IsActive
  <2>8. Entry(o, q, price).order = o /\ Entry(o, q, price).candle = Current
    BY DEF Entry
  <2> HIDE DEF next, q, price
  <2>9. /\ DOMAIN orders' = DOMAIN orders /\ orders'[o] = next
        /\ \A p \in DOMAIN orders : p # o => orders'[p] = orders[p]
    BY <1>1, <2>1
  <2>10. \A p \in DOMAIN orders : Same(orders'[p], orders[p])
    BY <2>5, <2>9 DEF Same
  <2> QED BY <1>1, <1>2, <2>1, <2>6, <2>7, <2>8, <2>9, <2>10
<1>5. CASE ~ Fillable(order, price)
  <2>1. orders' = [orders EXCEPT ![o] = Settle(order)] /\ UNCHANGED <<ledger, account>>
    BY <1>5 DEF EvaluateOrder
  <2>2. Same(Settle(order), order)
    BY <1>1, SettleSame
  <2>3. Settle(order).status \in Active => Outlasts(order) /\ IsActive(o)
    BY <1>1, <1>3, SettledOutlasts DEF IsActive
  <2>4. /\ DOMAIN orders' = DOMAIN orders /\ orders'[o] = Settle(order)
        /\ \A p \in DOMAIN orders : p # o => orders'[p] = orders[p]
    BY <1>1, <2>1
  <2>5. \A p \in DOMAIN orders : Same(orders'[p], orders[p])
    BY <2>2, <2>4 DEF Same
  <2> QED BY <1>1, <1>2, <2>1, <2>3, <2>4, <2>5
<1> QED BY <1>4, <1>5

-----------------------------------------------------------------------------
LEMMA InitTime == Init => CInv
<1> SUFFICES ASSUME Init PROVE CInv
  OBVIOUS
<1> USE DEF Init
<1>1. Windows /\ NoLookahead /\ Swept /\ WindowsEnd
  BY DEF Windows, NoLookahead, Swept, WindowsEnd, ActiveOrders
<1>2. Isolated
  BY DEF Isolated, ActiveOrders
<1>3. SegmentsIsolated
  BY DEF SegmentsIsolated
<1> QED BY <1>1, <1>2, <1>3 DEF CInv

(* Entries keep what they say as long as their orders keep their windows.  *)
LEMMA EntriesKeep ==
  ASSUME IInv, CInv, UNCHANGED <<config, ledger>>,
         \A o \in DOMAIN orders : Same(orders'[o], orders[o])
  PROVE  NoLookahead' /\ SegmentsIsolated'
<1>1. \A k \in DOMAIN ledger : Same(orders'[ledger[k].order], orders[ledger[k].order])
  BY DEF IInv, EntriesKnown
<1>2. NoLookahead'
  BY <1>1 DEF CInv, NoLookahead, Same
<1>3. SegmentsIsolated'
  BY <1>1 DEF CInv, SegmentsIsolated, Same
<1> QED BY <1>2, <1>3

LEMMA EnterTime ==
  ASSUME IInv, CInv, phase \in {"ready", "raised"}, NEW c, Enter(c),
         UNCHANGED <<config, index, orders, account, ledger, decided>>
  PROVE  CInv'
<1>1. NoLookahead' /\ SegmentsIsolated'
  BY EntriesKeep DEF Same
<1>2. Windows'
  BY DEF CInv, Windows
<1>3. /\ phase' \in {"sweep", "raised"}
      /\ phase' = "sweep" => /\ queue' = ActiveOrders
                             /\ Current \in Boundaries => ActiveOrders = {} /\ account.position = 0
  BY DEF Enter
<1>4. ActiveOrders' = ActiveOrders /\ Current' = Current
  BY DEF ActiveOrders, IsActive, Current
<1>5. Swept'
  BY <1>3, <1>4 DEF Swept
<1>6. WindowsEnd'
  BY <1>3 DEF WindowsEnd
<1>7. Isolated'
  <2> SUFFICES ASSUME NEW b \in Boundaries, Behind(b)'
               PROVE  /\ \A o \in ActiveOrders : b <= orders[o].created
                      /\ (ledger = <<>> \/ ledger[Len(ledger)].candle < b) => account.position = 0
    BY <1>4 DEF Isolated
  <2>1. b <= index \/ (phase' = "sweep" /\ b = Current)
    BY <1>3, <1>4, CurrentTyped, BoundaryTyped DEF Behind
  <2>2. CASE b <= index
    BY <2>2 DEF CInv, Isolated, Behind
  <2>3. CASE phase' = "sweep" /\ b = Current
    BY <1>3, <2>3
  <2> QED BY <2>1, <2>2, <2>3
<1> QED BY <1>1, <1>2, <1>5, <1>6, <1>7 DEF CInv

LEMMA RaiseTime ==
  ASSUME IInv, CInv, Raises
  PROVE  CInv'
<1>1. UNCHANGED <<config, index, orders, account, ledger>> /\ phase' = "raised"
  BY DEF Raises
<1>2. NoLookahead' /\ SegmentsIsolated'
  BY <1>1, EntriesKeep DEF Same
<1>3. Windows' /\ Swept' /\ WindowsEnd'
  BY <1>1 DEF CInv, Windows, Swept, WindowsEnd
<1>4. Isolated'
  BY <1>1 DEF CInv, Isolated, Behind, ActiveOrders, IsActive, Current
<1> QED BY <1>2, <1>3, <1>4 DEF CInv

LEMMA EndTime ==
  ASSUME IInv, CInv, EndCandle
  PROVE  CInv'
<1>1. /\ UNCHANGED <<config, orders, account, ledger, queue>>
      /\ phase = "close" /\ phase' = "ready" /\ queue = {} /\ index' = Current
  BY DEF EndCandle
<1>2. NoLookahead' /\ SegmentsIsolated'
  BY <1>1, EntriesKeep DEF Same
<1>3. Windows' /\ Swept'
  BY <1>1 DEF CInv, Windows, Swept
<1>4. ActiveOrders' = ActiveOrders
  BY <1>1 DEF ActiveOrders, IsActive
<1>5. WindowsEnd'
  BY <1>1, <1>4 DEF CInv, Swept, WindowsEnd, Outlasts
<1>6. Isolated'
  BY <1>1, <1>4 DEF CInv, Isolated, Behind
<1> QED BY <1>2, <1>3, <1>5, <1>6 DEF CInv

LEMMA FinalizeTime ==
  ASSUME IInv, CInv, Finalize
  PROVE  CInv'
<1>1. /\ UNCHANGED <<config, index, account, ledger>> /\ phase' = "final"
      /\ DOMAIN orders' = DOMAIN orders
      /\ \A o \in DOMAIN orders : orders'[o] =
           IF IsActive(o) THEN [orders[o] EXCEPT !.status = "cancelled"] ELSE orders[o]
  BY DEF Finalize
<1>2. \A o \in DOMAIN orders : Same(orders'[o], orders[o]) /\ orders'[o].status \notin Active
  BY <1>1, OrderTyped DEF OrderType, Same, IsActive, Active
<1>3. NoLookahead' /\ SegmentsIsolated'
  BY <1>1, <1>2, EntriesKeep
<1>4. Windows'
  BY <1>1, <1>2 DEF CInv, Windows, Same
<1>5. Swept' /\ WindowsEnd'
  BY <1>1 DEF Swept, WindowsEnd
<1>6. Isolated'
  <2>1. ActiveOrders' = {}
    BY <1>1, <1>2 DEF ActiveOrders, IsActive
  <2>2. \A b \in Boundaries : Behind(b)' => Behind(b)
    BY <1>1 DEF Behind, Current
  <2> QED BY <1>1, <2>1, <2>2 DEF CInv, Isolated
<1> QED BY <1>3, <1>4, <1>5, <1>6 DEF CInv

(* The window of a new order begins at the candle of its decision or later.*)
LEMMA NewOrderWindow ==
  ASSUME IInv, NEW intent \in Intents
  PROVE  LET new == NewOrder(intent) IN
         /\ new.created = Current /\ new.eligible \in Int /\ new.expires \in Int
         /\ new.eligible <= new.expires
         /\ ~ config.sameClose => Current < new.eligible
         /\ Current <= new.eligible
         /\ new.tif \in Immediate => new.expires = new.eligible
<1>1. /\ config.latency \in Nat /\ MaxActive \in Nat \ {0} /\ Current \in Int
  BY ConfigAssumption, CurrentTyped DEF IInv, TypeOK
<1> DEFINE late == IF config.sameClose THEN 0 ELSE 1
           new == NewOrder(intent)
<1>2. /\ new.created = Current /\ new.eligible = Current + config.latency + late
      /\ new.expires = IF new.tif \in Immediate THEN new.eligible
                       ELSE new.eligible + MaxActive - 1
  BY DEF NewOrder
<1>3. late \in Nat /\ (~ config.sameClose => late = 1)
  OBVIOUS
<1> HIDE DEF late, new
<1>4. new.eligible \in Int /\ Current <= new.eligible
      /\ (~ config.sameClose => Current < new.eligible)
  BY <1>1, <1>2, <1>3
<1> QED BY <1>1, <1>2, <1>4 DEF new

LEMMA DecideTime ==
  ASSUME IInv, CInv, Decide
  PROVE  CInv'
<1>1. /\ UNCHANGED <<config, index, account, ledger>>
      /\ phase = "sweep" /\ queue = {} /\ phase' = "close"
  BY DEF Decide
<1>2. CASE UNCHANGED <<orders, queue>>
  <2>1. NoLookahead' /\ SegmentsIsolated'
    BY <1>1, <1>2, EntriesKeep DEF Same
  <2>2. ActiveOrders' = ActiveOrders /\ Current' = Current
    BY <1>1, <1>2 DEF ActiveOrders, IsActive, Current
  <2>3. Windows' /\ Swept' /\ WindowsEnd'
    BY <1>1, <1>2, <2>2 DEF CInv, Windows, Swept, WindowsEnd, Outlasts
  <2>4. Isolated'
    BY <1>1, <1>2, <2>2 DEF CInv, Isolated, Behind
  <2> QED BY <2>1, <2>3, <2>4 DEF CInv
<1>3. ASSUME NEW intent \in Intents,
             orders' = Append(orders, NewOrder(intent)),
             queue' = IF config.sameClose /\ NewOrder(intent).eligible = Current
                        THEN {Len(orders) + 1} ELSE {}
      PROVE  CInv'
  <2> DEFINE new == NewOrder(intent)
             n == Len(orders) + 1
  <2>1. /\ new.created = Current /\ new.eligible \in Int /\ new.expires \in Int
        /\ new.eligible <= new.expires
        /\ ~ config.sameClose => Current < new.eligible
        /\ Current <= new.eligible
        /\ new.tif \in Immediate => new.expires = new.eligible
    BY NewOrderWindow
  <2>2. orders \in Seq(OrderType)
    BY DEF IInv, TypeOK
  <2> HIDE DEF new
  <2>3. /\ DOMAIN orders' = DOMAIN orders \cup {n} /\ orders'[n] = new /\ n \notin DOMAIN orders
        /\ \A o \in DOMAIN orders : orders'[o] = orders[o]
    <3>1. Len(orders) \in Nat /\ DOMAIN orders = 1 .. Len(orders)
      BY <2>2
    <3>2. orders' = Append(orders, new)
      BY <1>3 DEF new
    <3> QED BY <2>2, <3>1, <3>2
  <2>4. NoLookahead' /\ SegmentsIsolated'
    BY <1>1, <2>3, EntriesKeep DEF Same
  <2>5. Windows'
    BY <1>1, <2>1, <2>3 DEF CInv, Windows
  <2>6. Current' = Current
    BY <1>1 DEF Current
  <2>7. \A o \in ActiveOrders' : o = n \/ (o \in ActiveOrders /\ orders'[o] = orders[o])
    BY <2>3 DEF ActiveOrders, IsActive
  <2>8. Swept'
    <3> SUFFICES ASSUME NEW o \in ActiveOrders'
                 PROVE  o \in queue' \/ Outlasts(orders[o])'
      BY DEF Swept
    <3>1. CASE o = n
      <4>1. CASE config.sameClose /\ new.eligible = Current
        BY <1>3, <3>1, <4>1 DEF new
      <4>2. CASE ~ (config.sameClose /\ new.eligible = Current)
        <5>1. Current < new.eligible
          BY <2>1, <4>2, CurrentTyped
        <5> QED BY <2>1, <2>3, <2>6, <3>1, <5>1, CurrentTyped DEF Outlasts
      <4> QED BY <4>1, <4>2
    <3>2. CASE o \in ActiveOrders /\ orders'[o] = orders[o]
      BY <1>1, <2>6, <3>2 DEF CInv, Swept, Outlasts
    <3> QED BY <2>7, <3>1, <3>2
  <2>9. WindowsEnd'
    BY <1>1 DEF WindowsEnd
  <2>10. Isolated'
    <3> SUFFICES ASSUME NEW b \in Boundaries, Behind(b)'
                 PROVE  /\ \A o \in ActiveOrders' : b <= orders'[o].created
                        /\ (ledger = <<>> \/ ledger[Len(ledger)].candle < b)
                             => account.position = 0
      BY <1>1 DEF Isolated
    <3>1. Behind(b) /\ b <= Current
      BY <1>1, <2>6, CurrentTyped, BoundaryTyped DEF Behind
    <3> QED BY <2>1, <2>3, <2>7, <3>1 DEF CInv, Isolated
  <2> QED BY <2>4, <2>5, <2>8, <2>9, <2>10 DEF CInv
<1> QED BY <1>2, <1>3 DEF Decide

LEMMA EvaluateTime ==
  ASSUME IInv, CInv, NEW o \in queue, EvaluateOrder(o)
  PROVE  CInv'
<1>1. /\ o \in DOMAIN orders /\ DOMAIN orders' = DOMAIN orders
      /\ \A p \in DOMAIN orders : Same(orders'[p], orders[p])
      /\ \A p \in DOMAIN orders : p # o => orders'[p] = orders[p]
      /\ orders'[o].status \in Active => Outlasts(orders[o]) /\ IsActive(o)
      /\ UNCHANGED <<config, phase, index>> /\ queue' = queue \ {o}
      /\ \/ UNCHANGED <<ledger, account>>
         \/ /\ IsActive(o) /\ Current \in orders[o].eligible .. orders[o].expires
            /\ \E entry : /\ ledger' = Append(ledger, entry)
                          /\ entry.order = o /\ entry.candle = Current
  BY Evaluation DEF CInv
<1>2. phase \in {"sweep", "close"} /\ Current' = Current
  BY <1>1 DEF EvaluateOrder, Current
<1>3. Windows'
  BY <1>1 DEF CInv, Windows, Same
<1>4. \A p \in ActiveOrders' : p \in ActiveOrders
  BY <1>1 DEF ActiveOrders, IsActive
<1>5. Swept'
  <2> SUFFICES ASSUME NEW p \in ActiveOrders'
               PROVE  p \in queue' \/ Outlasts(orders[p])'
    BY DEF Swept
  <2>1. p \in DOMAIN orders /\ p \in ActiveOrders
    BY <1>4 DEF ActiveOrders
  <2>2. Outlasts(orders[p]) => Outlasts(orders[p])'
    BY <1>1, <1>2, <2>1 DEF Outlasts, Same
  <2>3. CASE p = o
    BY <1>1, <2>2, <2>3 DEF ActiveOrders, IsActive
  <2>4. CASE p # o
    BY <1>1, <1>2, <2>1, <2>2, <2>4 DEF CInv, Swept
  <2> QED BY <2>3, <2>4
<1>6. WindowsEnd'
  BY <1>1, <1>2 DEF WindowsEnd
<1>7. \A b \in Boundaries : Behind(b)' <=> Behind(b)
  BY <1>1, <1>2 DEF Behind
<1>8. CASE UNCHANGED <<ledger, account>>
  <2>1. NoLookahead' /\ SegmentsIsolated'
    BY <1>1, <1>8, EntriesKeep
  <2>2. Isolated'
    <3>1. \A p \in ActiveOrders' : orders'[p].created = orders[p].created
      BY <1>1, <1>4 DEF ActiveOrders, Same
    <3> QED BY <1>4, <1>7, <1>8, <3>1 DEF CInv, Isolated
  <2> QED BY <1>3, <1>5, <1>6, <2>1, <2>2 DEF CInv
<1>9. ASSUME IsActive(o), Current \in orders[o].eligible .. orders[o].expires,
             NEW entry, ledger' = Append(ledger, entry), entry.order = o, entry.candle = Current
      PROVE  CInv'
  <2> DEFINE n == Len(ledger) + 1
  <2>1. /\ Len(ledger) \in Nat /\ DOMAIN ledger = 1 .. Len(ledger)
        /\ DOMAIN ledger' = 1 .. n /\ Len(ledger') = n /\ ledger'[n] = entry
        /\ \A k \in 1 .. Len(ledger) : ledger'[k] = ledger[k]
    <3>1. ledger \in Seq(EntryType)
      BY DEF IInv, TypeOK
    <3> QED BY <1>9, <3>1
  <2>2. \A k \in DOMAIN ledger' :
          \/ k = n /\ ledger'[k].order = o /\ ledger'[k].candle = Current
          \/ k \in DOMAIN ledger /\ ledger'[k] = ledger[k]
    BY <1>9, <2>1
  <2>3. \A k \in DOMAIN ledger : ledger[k].order \in DOMAIN orders
    BY DEF IInv, EntriesKnown
  <2>4. NoLookahead'
    <3> SUFFICES ASSUME NEW k \in DOMAIN ledger'
                 PROVE  LET order == orders'[ledger'[k].order] IN
                        /\ ledger'[k].candle \in order.eligible .. order.expires
                        /\ ~ config'.sameClose => ledger'[k].candle > order.created
      BY DEF NoLookahead
    <3>1. CASE ledger'[k].order = o /\ ledger'[k].candle = Current
      <4>1. Same(orders'[o], orders[o])
        BY <1>1
      <4>2. /\ orders[o].created \in Int /\ orders[o].eligible \in Int
            /\ orders[o].expires \in Int /\ Current \in Int
        BY <1>1, OrderTyped, CurrentTyped
      <4>3. ~ config.sameClose => orders[o].created < orders[o].eligible
        BY <1>1 DEF CInv, Windows
      <4> QED BY <1>1, <1>9, <3>1, <4>1, <4>2, <4>3 DEF Same
    <3>2. CASE k \in DOMAIN ledger /\ ledger'[k] = ledger[k]
      <4>1. Same(orders'[ledger[k].order], orders[ledger[k].order])
        BY <1>1, <2>3, <3>2
      <4> QED BY <1>1, <3>2, <4>1 DEF CInv, NoLookahead, Same
    <3> QED BY <2>2, <3>1, <3>2
  <2>5. \A b \in Boundaries : b <= Current =>
          b <= orders[o].created
          /\ ((ledger = <<>> \/ ledger[Len(ledger)].candle < b) => account.position = 0)
    BY <1>1, <1>2, <1>9 DEF CInv, Isolated, Behind, ActiveOrders
  <2>6. SegmentsIsolated'
    <3> SUFFICES ASSUME NEW b \in Boundaries, NEW k \in DOMAIN ledger', ledger'[k].candle >= b
                 PROVE  /\ orders'[ledger'[k].order].created >= b
                        /\ (k > 1 /\ ledger'[k - 1].candle < b) => ledger'[k - 1].position = 0
      BY DEF SegmentsIsolated
    <3>1. CASE k = n /\ ledger'[k].order = o /\ ledger'[k].candle = Current
      <4>1. b <= Current /\ b \in Int /\ Current \in Int /\ orders[o].created \in Int
        BY <1>1, <3>1, BoundaryTyped, CurrentTyped, OrderTyped
      <4>2. orders'[o].created >= b
        BY <1>1, <2>5, <4>1 DEF Same
      <4>3. ASSUME k > 1, ledger'[k - 1].candle < b PROVE ledger'[k - 1].position = 0
        <5>1. k - 1 = Len(ledger) /\ Len(ledger) # 0 /\ ledger'[k - 1] = ledger[Len(ledger)]
          BY <2>1, <3>1, <4>3
        <5>2. account.position = 0
          BY <2>5, <4>1, <4>3, <5>1
        <5>3. account.position = ledger[Len(ledger)].position
          BY <2>1, <5>1 DEF IInv, Reconciles, PositionBefore
        <5> QED BY <5>1, <5>2, <5>3
      <4> QED BY <3>1, <4>2, <4>3
    <3>2. CASE k \in DOMAIN ledger /\ ledger'[k] = ledger[k]
      <4>1. Same(orders'[ledger[k].order], orders[ledger[k].order])
        BY <1>1, <2>3, <3>2
      <4>2. k > 1 => ledger'[k - 1] = ledger[k - 1]
        BY <2>1, <3>2
      <4> QED BY <3>2, <4>1, <4>2 DEF CInv, SegmentsIsolated, Same
    <3> QED BY <2>2, <3>1, <3>2
  <2>7. Isolated'
    <3> SUFFICES ASSUME NEW b \in Boundaries, Behind(b)
                 PROVE  /\ \A p \in ActiveOrders' : b <= orders'[p].created
                        /\ (ledger' = <<>> \/ ledger'[Len(ledger')].candle < b)
                             => account'.position = 0
      BY <1>7 DEF Isolated
    <3>1. \A p \in ActiveOrders' : p \in ActiveOrders /\ orders'[p].created = orders[p].created
      BY <1>1, <1>4 DEF ActiveOrders, Same
    <3>2. ~ (ledger' = <<>> \/ ledger'[Len(ledger')].candle < b)
      <4>1. b <= Current /\ b \in Int /\ Current \in Int
        BY CurrentTyped, BoundaryTyped DEF Behind
      <4>2. Len(ledger') # 0 /\ ledger'[Len(ledger')].candle = Current
        BY <1>9, <2>1
      <4> QED BY <4>1, <4>2
    <3> QED BY <3>1, <3>2 DEF CInv, Isolated
  <2> QED BY <1>3, <1>5, <1>6, <2>4, <2>6, <2>7 DEF CInv
<1> QED BY <1>1, <1>8, <1>9

LEMMA StepTime == IInv /\ CInv /\ [Next \/ Retry]_vars => CInv'
<1> SUFFICES ASSUME IInv, CInv, [Next \/ Retry]_vars PROVE CInv'
  OBVIOUS
<1>1. CASE StartCandle
  BY <1>1, EnterTime DEF StartCandle
<1>2. CASE Retry
  BY <1>2, EnterTime DEF Retry
<1>3. CASE UNCHANGED vars
  <2>1. NoLookahead' /\ SegmentsIsolated'
    BY <1>3, EntriesKeep DEF vars, Same
  <2>2. Windows' /\ Swept' /\ WindowsEnd' /\ Isolated'
    BY <1>3 DEF vars, CInv, Windows, Swept, WindowsEnd, Isolated, Behind, ActiveOrders, IsActive,
       Outlasts, Current
  <2> QED BY <2>1, <2>2 DEF CInv
<1> QED BY <1>1, <1>2, <1>3, EvaluateTime, DecideTime, RaisesAre, RaiseTime, EndTime, FinalizeTime
   DEF Next

(* Windows, sweeps and segments, in every run, a repeated candle included. *)
THEOREM TimeHolds == SpecRetry => []CInv
<1>1. IInv /\ CInv /\ [Next \/ Retry]_vars => CInv'
  BY StepTime
<1> QED BY <1>1, InitTime, InvariantHolds, PTL DEF SpecRetry

(* A fill is taken from a candle of the order's window, and under          *)
(* NEXT_CANDLE from one the strategy had not seen; and an order that is    *)
(* active between candles can still fill, so that every order ends with    *)
(* its window (fills.py, engine.py:174-348).                               *)
THEOREM WindowsAreKept == Spec => []WindowsKept
<1>1. CInv => WindowsKept
  BY DEF CInv, WindowsKept
<1> QED BY <1>1, TimeHolds, RunsAreRetries, PTL

(* No order and no position of a segment reaches the next one (engine.py:  *)
(* 309-345).                                                               *)
THEOREM SegmentsStayIsolated == Spec => []SegmentsIsolated
<1>1. CInv => SegmentsIsolated
  BY DEF CInv
<1> QED BY <1>1, TimeHolds, RunsAreRetries, PTL

-----------------------------------------------------------------------------
(***************************************************************************)
(* Sums over finite sets: MapThenSumSet is a recursive function over the   *)
(* subsets of a set, and has the value that one expects of a sum.          *)
(***************************************************************************)

Pick(s) == CHOOSE x \in s : TRUE

(* F is the recursive function behind the sum of g over a set.             *)
IsSum(F, g, D) ==
  F = [s \in SUBSET D |-> IF s = {} THEN 0 ELSE g[Pick(s)] + F[s \ {Pick(s)}]]

LEMMA PickIn ==
  ASSUME NEW s, s # {}
  PROVE  Pick(s) \in s
BY DEF Pick

(* Of some subsets of a finite set one contains no other.                  *)
LEMMA SmallestSubset ==
  ASSUME NEW D, IsFiniteSet(D), NEW C, C \subseteq SUBSET D, C # {}
  PROVE  \E s \in C : \A t \in C : t \subseteq s => t = s
<1> DEFINE R == StrictSubsetOrdering(D)
<1>1. IsWellFoundedOn(R, SUBSET D)
  BY FS_StrictSubsetOrderingWellFounded, FS_FiniteSubsetsOfFinite
<1>2. PICK s \in C : \A t \in C : ~ (<<t, s>> \in R)
  <2> HIDE DEF R
  <2> QED BY <1>1, WFMin
<1>3. \A t \in C : t \subseteq s => t = s
  BY <1>2 DEF StrictSubsetOrdering
<1> QED BY <1>3

LEMMA SumStep ==
  ASSUME NEW D, NEW g, NEW F, IsSum(F, g, D), NEW s \in SUBSET D, s # {}
  PROVE  /\ Pick(s) \in s /\ s \ {Pick(s)} \in SUBSET D /\ s \ {Pick(s)} # s
         /\ F[s] = g[Pick(s)] + F[s \ {Pick(s)}]
BY PickIn DEF IsSum

LEMMA SumTyped ==
  ASSUME NEW D, IsFiniteSet(D), NEW g, NEW F, IsSum(F, g, D), \A x \in D : g[x] \in Int,
         NEW s \in SUBSET D
  PROVE  F[s] \in Int
<1> DEFINE Bad == {t \in SUBSET D : F[t] \notin Int}
<1>1. SUFFICES ASSUME Bad # {} PROVE FALSE
  OBVIOUS
<1>2. PICK t \in Bad : \A u \in Bad : u \subseteq t => u = t
  <2> HIDE DEF Bad
  <2>1. Bad \subseteq SUBSET D
    BY DEF Bad
  <2> QED BY <1>1, <2>1, SmallestSubset
<1>3. t # {}
  BY <1>2 DEF IsSum
<1>4. t \in SUBSET D
  BY <1>2
<1>5. /\ Pick(t) \in t /\ t \ {Pick(t)} \in SUBSET D /\ t \ {Pick(t)} # t
      /\ F[t] = g[Pick(t)] + F[t \ {Pick(t)}]
  BY <1>3, <1>4, SumStep
<1>6. F[t \ {Pick(t)}] \in Int
  BY <1>2, <1>5
<1> QED BY <1>2, <1>5, <1>6

(* The sum over a set depends on the set and its values only.              *)
LEMMA SumsAgree ==
  ASSUME NEW D, NEW E, IsFiniteSet(D), NEW g, NEW h, NEW F, NEW G,
         IsSum(F, g, D), IsSum(G, h, E),
         NEW s \in SUBSET D, s \in SUBSET E, \A x \in s : g[x] = h[x] /\ g[x] \in Int
  PROVE  F[s] = G[s] /\ F[s] \in Int
<1> DEFINE Bad == {t \in SUBSET D : t \subseteq s /\ ~ (F[t] = G[t] /\ F[t] \in Int)}
<1>1. SUFFICES ASSUME Bad # {} PROVE FALSE
  OBVIOUS
<1>2. PICK t \in Bad : \A u \in Bad : u \subseteq t => u = t
  <2> HIDE DEF Bad
  <2>1. Bad \subseteq SUBSET D
    BY DEF Bad
  <2> QED BY <1>1, <2>1, SmallestSubset
<1>3. CASE t = {}
  <2>1. F[t] = 0 /\ G[t] = 0
    BY <1>3 DEF IsSum
  <2> QED BY <2>1
<1>4. CASE t # {}
  <2> DEFINE u == t \ {Pick(t)}
  <2>1. F[t] = g[Pick(t)] + F[u] /\ Pick(t) \in t /\ u # t
    BY <1>4, SumStep
  <2>2. G[t] = h[Pick(t)] + G[u]
    BY <1>4, SumStep
  <2>3. u \notin Bad
    BY <1>2, <2>1
  <2>4. F[u] = G[u] /\ F[u] \in Int
    BY <2>3
  <2>5. g[Pick(t)] = h[Pick(t)] /\ g[Pick(t)] \in Int
    BY <2>1
  <2> QED BY <2>1, <2>2, <2>4, <2>5
<1> QED BY <1>3, <1>4

LEMMA SumExists ==
  ASSUME NEW D, IsFiniteSet(D), NEW g, \A x \in D : g[x] \in Int
  PROVE  \E F : IsSum(F, g, D)
<1> DEFINE Bad == {t \in SUBSET D : ~ \E F : IsSum(F, g, t)}
<1>1. SUFFICES ASSUME Bad # {} PROVE FALSE
  OBVIOUS
<1>2. PICK t \in Bad : \A u \in Bad : u \subseteq t => u = t
  <2> HIDE DEF Bad
  <2>1. Bad \subseteq SUBSET D
    BY DEF Bad
  <2> QED BY <1>1, <2>1, SmallestSubset
<1> DEFINE Of(u) == CHOOSE F : IsSum(F, g, u)
           Total == [s \in SUBSET t |-> IF s # t THEN Of(s)[s]
                                        ELSE IF s = {} THEN 0
                                        ELSE g[Pick(s)] + Of(s \ {Pick(s)})[s \ {Pick(s)}]]
<1>3. \A u \in SUBSET t : u # t => IsSum(Of(u), g, u)
  BY <1>2
<1> HIDE DEF Of
<1>4. ASSUME NEW s \in SUBSET t PROVE Total[s] = IF s = {} THEN 0 ELSE g[Pick(s)] + Total[s \ {Pick(s)}]
  <2>1. CASE s = {}
    <3>1. CASE s = t
      BY <2>1, <3>1
    <3>2. CASE s # t
      <4>1. Of(s)[s] = 0
        BY <1>3, <2>1, <3>2 DEF IsSum
      <4> QED BY <2>1, <3>2, <4>1
    <3> QED BY <3>1, <3>2
  <2>2. CASE s # {}
    <3> DEFINE u == s \ {Pick(s)}
    <3>1. Pick(s) \in s /\ u \in SUBSET t /\ u # t /\ u # s
      BY <2>2, PickIn
    <3>2. Total[u] = Of(u)[u]
      BY <3>1
    <3>3. CASE s = t
      BY <2>2, <3>2, <3>3
    <3>4. CASE s # t
      <4>1. IsSum(Of(s), g, s) /\ IsSum(Of(u), g, u)
        BY <1>3, <3>1, <3>4
      <4>2. Of(s)[s] = g[Pick(s)] + Of(s)[u]
        BY <2>2, <4>1, SumStep
      <4>3. Of(s)[u] = Of(u)[u]
        <5>1. IsFiniteSet(s) /\ u \in SUBSET s /\ \A x \in u : g[x] \in Int
          BY FS_Subset
        <5> QED BY <4>1, <5>1, SumsAgree
      <4> QED BY <2>2, <3>2, <3>4, <4>2, <4>3
    <3> QED BY <3>3, <3>4
  <2> QED BY <2>1, <2>2
<1>5. IsSum(Total, g, t)
  <2>1. Total = [s \in SUBSET t |-> Total[s]]
    OBVIOUS
  <2> HIDE DEF Total
  <2> QED BY <1>4, <2>1 DEF IsSum
<1> HIDE DEF Total
<1> QED BY <1>2, <1>5

(* Any element may be the first.                                           *)
LEMMA SumWithout ==
  ASSUME NEW D, IsFiniteSet(D), NEW g, NEW F, IsSum(F, g, D), \A x \in D : g[x] \in Int,
         NEW s \in SUBSET D, NEW x \in s
  PROVE  F[s] = g[x] + F[s \ {x}]
<1> DEFINE Bad == {t \in SUBSET D : \E y \in t : F[t] # g[y] + F[t \ {y}]}
<1>0. \A t \in SUBSET D : F[t] \in Int
  BY SumTyped
<1>1. SUFFICES ASSUME Bad # {} PROVE FALSE
  OBVIOUS
<1>2. PICK t \in Bad : \A u \in Bad : u \subseteq t => u = t
  <2> HIDE DEF Bad
  <2>1. Bad \subseteq SUBSET D
    BY DEF Bad
  <2> QED BY <1>1, <2>1, SmallestSubset
<1> DEFINE p == Pick(t)
<1>3. PICK y \in t : F[t] # g[y] + F[t \ {y}]
  OBVIOUS
<1>4. p \in t /\ F[t] = g[p] + F[t \ {p}]
  <2>1. t \in SUBSET D /\ t # {}
    BY <1>3
  <2> QED BY <2>1, SumStep
<1> HIDE DEF p
<1>5. p # y
  BY <1>3, <1>4
<1>6. F[t \ {p}] = g[y] + F[(t \ {p}) \ {y}]
  <2>1. t \ {p} \notin Bad
    BY <1>2, <1>4
  <2> QED BY <1>5, <2>1
<1>7. F[t \ {y}] = g[p] + F[(t \ {y}) \ {p}]
  <2>1. t \ {y} \notin Bad
    BY <1>2, <1>3
  <2> QED BY <1>4, <1>5, <2>1
<1>8. (t \ {y}) \ {p} = (t \ {p}) \ {y} /\ (t \ {p}) \ {y} \in SUBSET D
  OBVIOUS
<1>9. g[p] \in Int /\ g[y] \in Int /\ F[(t \ {p}) \ {y}] \in Int
  BY <1>0, <1>4, <1>8
<1>10. F[t \ {y}] = g[p] + F[(t \ {p}) \ {y}]
  BY <1>7, <1>8
<1> HIDE DEF Bad
<1>11. F[t] = g[y] + F[t \ {y}]
  BY <1>4, <1>6, <1>9, <1>10
<1> QED BY <1>3, <1>11

(* One more element adds its value.                                        *)
LEMMA SumOneMore ==
  ASSUME NEW K, IsFiniteSet(K), NEW n, n \notin K, NEW g, NEW h, NEW F, NEW G,
         \A k \in K : g[k] = h[k] /\ g[k] \in Int, h[n] \in Int,
         IsSum(F, g, K), IsSum(G, h, K \cup {n})
  PROVE  G[K \cup {n}] = F[K] + h[n]
<1> DEFINE L == K \cup {n}
<1>1. IsFiniteSet(L) /\ K \in SUBSET L /\ K \in SUBSET K /\ L \ {n} = K /\ n \in L /\ L \in SUBSET L
  BY FS_AddElement
<1>2. \A k \in L : h[k] \in Int
  OBVIOUS
<1> HIDE DEF L
<1>3. G[L] = h[n] + G[K]
  BY <1>1, <1>2, SumWithout DEF L
<1>4. F[K] = G[K] /\ F[K] \in Int
  <2>1. IsSum(G, h, L)
    BY DEF L
  <2> QED BY <1>1, <2>1, SumsAgree, SMTT(60)
<1>5. G[L] = F[K] + h[n]
  BY <1>3, <1>4
<1> QED BY <1>5 DEF L

(* The same, in the form in which it is used.                              *)
LEMMA SumGrows ==
  ASSUME NEW K, NEW F, NEW G, IsFiniteSet(K), NEW g, NEW h, NEW n
  PROVE  (/\ n \notin K /\ h[n] \in Int
          /\ IsSum(F, g, K) /\ IsSum(G, h, K \cup {n})
          /\ \A k \in K : g[k] = h[k] /\ g[k] \in Int)
         => G[K \cup {n}] = F[K] + h[n]
BY SumOneMore

-----------------------------------------------------------------------------
(***************************************************************************)
(* Consumption: what the fills of one candle take from it.                 *)
(***************************************************************************)

(* The entries of the ledger that took from candle i, and what some of     *)
(* them took together.                                                     *)
TakenFrom(i) == {k \in DOMAIN ledger : ledger[k].candle = i}
FilledBy(list, K) == MapThenSumSet(LAMBDA k : list[k].quantity, K)

(* The counter of the fill simulator is that sum, while a candle is in     *)
(* process; entries of a candle that is still to come do not exist.        *)
Consumption ==
  /\ \A k \in DOMAIN ledger :
       ledger[k].candle <= Current /\ (phase = "ready" => ledger[k].candle < Current)
  /\ phase \in {"sweep", "close"} =>
       /\ FilledBy(ledger, TakenFrom(Current)) = consumed
       /\ consumed <= (candle.volume * ParticipationPct) \div 100

LEMMA FilledSums ==
  ASSUME NEW list \in Seq(EntryType), NEW K, K \subseteq DOMAIN list
  PROVE  \E F : /\ IsSum(F, [k \in DOMAIN list |-> list[k].quantity], K)
                /\ FilledBy(list, K) = F[K]
<1> DEFINE g == [k \in DOMAIN list |-> list[k].quantity]
           iter == CHOOSE F :
                     F = [s \in SUBSET K |-> IF s = {} THEN 0
                                             ELSE list[Pick(s)].quantity + F[s \ {Pick(s)}]]
<1>1. IsFiniteSet(K) /\ \A k \in K : g[k] \in Int
  <2>1. Len(list) \in Nat /\ DOMAIN list = 1 .. Len(list)
    OBVIOUS
  <2>2. IsFiniteSet(DOMAIN list)
    BY <2>1, FS_Interval
  <2>3. \A k \in DOMAIN list : list[k] \in EntryType
    OBVIOUS
  <2> QED BY <2>2, <2>3, FS_Subset DEF EntryType
<1>2. \A F : IsSum(F, g, K) <=>
         F = [s \in SUBSET K |-> IF s = {} THEN 0
                                 ELSE list[Pick(s)].quantity + F[s \ {Pick(s)}]]
  <2>1. \A s \in SUBSET K : s # {} => g[Pick(s)] = list[Pick(s)].quantity
    BY PickIn
  <2> HIDE DEF g
  <2> QED BY <2>1 DEF IsSum
<1>3. \E F : IsSum(F, g, K)
  <2> HIDE DEF g
  <2> QED BY <1>1, SumExists
<1>4. IsSum(iter, g, K)
  <2> HIDE DEF g
  <2>1. PICK F : F = [s \in SUBSET K |-> IF s = {} THEN 0
                                 ELSE list[Pick(s)].quantity + F[s \ {Pick(s)}]]
    BY <1>2, <1>3
  <2>2. iter = [s \in SUBSET K |-> IF s = {} THEN 0
                                 ELSE list[Pick(s)].quantity + iter[s \ {Pick(s)}]]
    BY <2>1
  <2> HIDE DEF iter
  <2> QED BY <1>2, <2>2
<1>5. FilledBy(list, K) = iter[K]
  BY DEF FilledBy, MapThenSumSet, MapThenFoldSet, Pick
<1> HIDE DEF iter
<1> QED BY <1>4, <1>5

LEMMA FilledNone ==
  ASSUME NEW list \in Seq(EntryType)
  PROVE  FilledBy(list, {}) = 0
<1>1. PICK F : IsSum(F, [k \in DOMAIN list |-> list[k].quantity], {}) /\ FilledBy(list, {}) = F[{}]
  BY FilledSums
<1> QED BY <1>1 DEF IsSum

(* One more entry adds its quantity.                                       *)
LEMMA FilledMore ==
  ASSUME NEW list \in Seq(EntryType), NEW entry \in EntryType, NEW K, K \subseteq DOMAIN list
  PROVE  LET n == Len(list) + 1 IN
         FilledBy(Append(list, entry), K \cup {n}) = FilledBy(list, K) + entry.quantity
<1> DEFINE n == Len(list) + 1
           more == Append(list, entry)
           g == [k \in DOMAIN list |-> list[k].quantity]
           h == [k \in DOMAIN more |-> more[k].quantity]
<1>1. /\ more \in Seq(EntryType) /\ DOMAIN more = 1 .. n /\ DOMAIN list = 1 .. (n - 1)
      /\ n \in Nat \ {0} /\ more[n] = entry /\ \A k \in DOMAIN list : more[k] = list[k]
  OBVIOUS
<1> HIDE DEF n, more
<1>2. n \notin K /\ K \cup {n} \subseteq DOMAIN more
  BY <1>1
<1>3. /\ \A k \in K : g[k] = h[k] /\ g[k] \in Int
      /\ \A k \in K \cup {n} : h[k] \in Int
      /\ h[n] = entry.quantity
  <2>1. \A k \in DOMAIN more : more[k].quantity \in Int
    <3>1. \A k \in DOMAIN more : more[k] \in EntryType
      BY <1>1
    <3> QED BY <3>1 DEF EntryType
  <2>2. \A k \in DOMAIN more : h[k] = more[k].quantity
    OBVIOUS
  <2>3. \A k \in K : k \in DOMAIN more /\ k \in DOMAIN list /\ g[k] = list[k].quantity
    BY <1>1
  <2> HIDE DEF g, h
  <2> QED BY <1>1, <1>2, <2>1, <2>2, <2>3
<1>4. IsFiniteSet(K)
  <2>1. IsFiniteSet(1 .. (n - 1))
    BY <1>1, FS_Interval
  <2> QED BY <1>1, <2>1, FS_Subset
<1>5. PICK F : IsSum(F, g, K) /\ FilledBy(list, K) = F[K]
  BY FilledSums
<1>6. PICK G : IsSum(G, h, K \cup {n}) /\ FilledBy(more, K \cup {n}) = G[K \cup {n}]
  BY <1>1, <1>2, FilledSums
<1> HIDE DEF g, h
<1>7. G[K \cup {n}] = F[K] + h[n]
  <2>1. n \notin K /\ h[n] \in Int /\ IsSum(F, g, K) /\ IsSum(G, h, K \cup {n})
    BY <1>2, <1>3, <1>5, <1>6
  <2>2. \A k \in K : g[k] = h[k] /\ g[k] \in Int
    BY <1>3
  <2> QED BY <1>4, <2>1, <2>2, SumGrows
<1>8. FilledBy(more, K \cup {n}) = FilledBy(list, K) + entry.quantity
  BY <1>3, <1>5, <1>6, <1>7
<1> QED BY <1>8 DEF n, more

-----------------------------------------------------------------------------
LEMMA EntriesTyped ==
  ASSUME IInv
  PROVE  \A k \in DOMAIN ledger : ledger[k].candle \in Int
<1>1. \A k \in DOMAIN ledger : ledger[k] \in EntryType
  BY DEF IInv, TypeOK
<1> QED BY <1>1 DEF EntryType

LEMMA InitConsumption == Init => Consumption
BY DEF Init, Consumption

(* Nothing is taken, and the candle in process stays the same.             *)
LEMMA NothingTaken ==
  ASSUME Consumption, UNCHANGED <<ledger, index, consumed, candle>>,
         phase' = "raised" \/ (phase \in {"sweep", "close"} /\ phase' \in {"sweep", "close"})
           \/ phase' = phase
  PROVE  Consumption'
<1>1. TakenFrom(Current)' = TakenFrom(Current) /\ Current' = Current
  BY DEF TakenFrom, Current
<1>2. (FilledBy(ledger, TakenFrom(Current)))' = FilledBy(ledger, TakenFrom(Current))
  BY <1>1
<1> QED BY <1>1, <1>2 DEF Consumption

LEMMA StartConsumption ==
  ASSUME IInv, Consumption, StartCandle
  PROVE  Consumption'
<1>1. Current' = Current /\ ledger' = ledger /\ candle' \in Candles
  BY DEF StartCandle, Current
<1>2. phase' = "raised" \/ (phase' = "sweep" /\ consumed' = 0)
  BY DEF StartCandle, Enter
<1>3. TakenFrom(Current)' = {}
  BY <1>1, CurrentTyped, EntriesTyped DEF TakenFrom, Consumption, StartCandle
<1>4. (FilledBy(ledger, TakenFrom(Current)))' = 0
  BY <1>1, <1>3, FilledNone DEF IInv, TypeOK
<1>5. 0 <= (candle'.volume * ParticipationPct) \div 100
  <2>1. candle'.volume * ParticipationPct \in Nat
    BY <1>1, ConfigAssumption DEF CandleType
  <2> QED BY <2>1, DivBounds
<1> QED BY <1>1, <1>2, <1>4, <1>5 DEF Consumption, StartCandle

LEMMA EndConsumption ==
  ASSUME IInv, Consumption, EndCandle
  PROVE  Consumption'
<1>1. Current \in Int /\ Current' = Current + 1 /\ \A k \in DOMAIN ledger : ledger[k].candle \in Int
  BY CurrentTyped, EntriesTyped DEF EndCandle, Current
<1> QED BY <1>1 DEF Consumption, EndCandle

(* A fill takes no more than what is left of the candle.                   *)
LEMMA FillConsumption ==
  ASSUME IInv, Consumption, NEW o \in queue, EvaluateOrder(o)
  PROVE  Consumption'
<1> DEFINE price == FillPrice(orders[o], Reference)
           q == Candidate(orders[o], price)
           n == Len(ledger) + 1
           cap == (candle.volume * ParticipationPct) \div 100
<1>1. o \in DOMAIN orders /\ orders[o] \in OrderType /\ phase \in {"sweep", "close"}
  BY DEF IInv, TypeOK, EvaluateOrder
<1>2. CASE ~ Fillable(orders[o], price)
  BY <1>1, <1>2, NothingTaken DEF EvaluateOrder
<1>3. CASE Fillable(orders[o], price)
  <2>1. /\ ledger' = Append(ledger, Entry(o, q, price)) /\ consumed' = consumed + q
        /\ UNCHANGED <<phase, index, candle>>
    BY <1>3 DEF EvaluateOrder
  <2>2. q \in Int /\ q <= Liquidity /\ Liquidity \in Int /\ cap \in Int /\ consumed \in Int
    <3>1. Remaining(orders[o]) \in Int
      BY <1>1 DEF Remaining, OrderType
    <3>2. cap \in Nat
      <4>1. candle.volume * ParticipationPct \in Nat
        BY CandleTyped, ConfigAssumption DEF IInv
      <4> QED BY <4>1, DivBounds
    <3>3. consumed \in Nat /\ Liquidity \in Int
      BY <3>2 DEF Liquidity, IInv, TypeOK
    <3>4. (IF orders[o].side = "buy" THEN account.cash \div UnitCost(orders[o], price) ELSE account.position) \in Int
      <4>1. account.cash \in Nat /\ account.position \in Nat
        BY DEF IInv, TypeOK, AccountType
      <4>2. UnitCost(orders[o], price) \in Nat \ {0}
        <5>1. price \in Int
          BY <1>1, PriceIsInt DEF IInv
        <5>2. price \in Nat \ {0}
          BY <1>3, <5>1, CandleTyped DEF Fillable, IInv
        <5>3. Scale + FeeRate(orders[o]) \in Nat \ {0}
          BY FeeTyped
        <5> QED BY <5>2, <5>3, MulPositive DEF UnitCost
      <4> QED BY <4>1, <4>2, DivBounds
    <3> DEFINE third == IF orders[o].side = "buy" THEN account.cash \div UnitCost(orders[o], price)
                        ELSE account.position
    <3>5. q = Min({Remaining(orders[o]), Liquidity, third})
      BY DEF Candidate
    <3> HIDE DEF q, third
    <3>6. q \in Int /\ q <= Liquidity
      BY <3>1, <3>3, <3>4, <3>5, MinOfThree DEF third
    <3> QED BY <3>2, <3>3, <3>6
  <2>3. Entry(o, q, price) \in EntryType /\ Entry(o, q, price).quantity = q
        /\ Entry(o, q, price).candle = Current
    <3>1. ledger' \in Seq(EntryType)
      BY EvaluateOrderInv DEF IInv, TypeOK
    <3>2. ledger'[n] = Entry(o, q, price) /\ n \in DOMAIN ledger'
      BY <2>1 DEF IInv, TypeOK
    <3>3. Entry(o, q, price) \in EntryType
      BY <3>1, <3>2
    <3> QED BY <3>3 DEF Entry
  <2> DEFINE entry == Entry(o, q, price)
  <2> HIDE DEF entry, q, price
  <2>4. /\ DOMAIN ledger = 1 .. (n - 1) /\ DOMAIN ledger' = 1 .. n /\ ledger \in Seq(EntryType)
        /\ n \in Nat \ {0}
        /\ ledger'[n] = entry /\ \A k \in DOMAIN ledger : ledger'[k] = ledger[k]
    BY <2>1, <2>3 DEF entry, IInv, TypeOK
  <2>5. Current' = Current
    BY <2>1 DEF Current
  <2>6. TakenFrom(Current)' = TakenFrom(Current) \cup {n} /\ TakenFrom(Current) \subseteq DOMAIN ledger
    BY <2>3, <2>4, <2>5 DEF TakenFrom, entry
  <2>7. (FilledBy(ledger, TakenFrom(Current)))' = FilledBy(ledger, TakenFrom(Current)) + q
    <3>1. FilledBy(Append(ledger, entry), TakenFrom(Current) \cup {n})
            = FilledBy(ledger, TakenFrom(Current)) + entry.quantity
      BY <2>3, <2>4, <2>6, FilledMore DEF entry
    <3> QED BY <2>1, <2>3, <2>6, <3>1 DEF entry
  <2>8. consumed' <= cap
    BY <2>1, <2>2 DEF Liquidity
  <2>9. \A k \in DOMAIN ledger' : ledger'[k].candle <= Current
    <3>1. Current \in Int
      BY CurrentTyped
    <3> QED BY <2>3, <2>4, <3>1 DEF Consumption, entry
  <2> QED BY <1>1, <2>1, <2>5, <2>7, <2>8, <2>9 DEF Consumption
<1> QED BY <1>2, <1>3

LEMMA StepConsumption == IInv /\ Consumption /\ [Next]_vars => Consumption'
<1> SUFFICES ASSUME IInv, Consumption, [Next]_vars PROVE Consumption'
  OBVIOUS
<1>1. CASE Decide
  BY <1>1, NothingTaken DEF Decide
<1>2. CASE Raises
  BY <1>2, NothingTaken DEF Raises
<1>3. CASE Finalize
  BY <1>3, CurrentTyped DEF Finalize, Consumption, Current
<1>4. CASE UNCHANGED vars
  BY <1>4, NothingTaken DEF vars
<1> QED BY <1>1, <1>2, <1>3, <1>4, RaisesAre, StartConsumption, EndConsumption,
   FillConsumption DEF Next

(* All fills of one candle together stay within its participation cap      *)
(* (simulator/liquidity.py through engine.py:309), for every dataset and   *)
(* strategy: the consumption that the sweeps count is the sum of the       *)
(* ledger's entries for the candle.                                        *)
THEOREM CandlesFillOnce == Spec => []CandleFilledOnce
<1>1. Consumption => CandleFilledOnce
  BY DEF Consumption, CandleFilledOnce, FilledBy, TakenFrom
<1>2. IInv /\ Consumption /\ [Next]_vars => Consumption'
  BY StepConsumption
<1> QED BY <1>1, <1>2, InitConsumption, InvariantHolds, RunsAreRetries, PTL DEF Spec

-----------------------------------------------------------------------------
(***************************************************************************)
(* The schedule of a case, for all of its requests and observations.  Its  *)
(* helpers recurse over the events and over the boundaries: what they      *)
(* return is proved on the smallest number of events, or the smallest set  *)
(* of boundaries, for which it would be something else.                    *)
(***************************************************************************)

(* A set of candles has a first one.                                       *)
LEMMA LeastElement ==
  ASSUME NEW T, T \subseteq Nat, T # {}
  PROVE  \E m \in T : \A n \in T : m <= n
<1> DEFINE R == OpToRel(<, Nat)
<1>1. IsWellFoundedOn(R, Nat)
  BY NatLessThanWellFounded
<1>2. \A x, y \in Nat : <<y, x>> \in R <=> y < x
  BY DEF OpToRel
<1> HIDE DEF R
<1>3. PICK x \in T : \A y \in T : ~ (<<y, x>> \in R)
  <2>1. \E x \in T : \A y \in T : ~ (<<y, x>> \in R)
    BY <1>1, WFMin
  <2> QED BY <2>1
<1>4. ASSUME NEW n \in T PROVE x <= n
  <2>1. x \in Nat /\ n \in Nat
    OBVIOUS
  <2>2. ~ (n < x)
    BY <1>2, <1>3, <2>1
  <2> QED BY <2>1, <2>2
<1> QED BY <1>4

\* Of the sets in C, one that contains no other.
Smallest(C, s) == s \in C /\ \A t \in C : t \subseteq s => t = s

(* Sets of candles of which one is the last.                               *)
Bounded(D) == \E hi \in Nat : D \subseteq 0 .. hi

LEMMA BoundedPart ==
  ASSUME NEW D, Bounded(D), NEW s \in SUBSET D
  PROVE  Bounded(s)
BY DEF Bounded

LEMMA SmallestWithin ==
  ASSUME NEW D, Bounded(D), NEW C, C \subseteq SUBSET D, C # {}
  PROVE  \E s : Smallest(C, s)
<1>1. IsFiniteSet(D)
  <2>1. PICK hi \in Nat : D \subseteq 0 .. hi
    BY DEF Bounded
  <2>2. IsFiniteSet(0 .. hi)
    BY FS_Interval
  <2> QED BY <2>1, <2>2, FS_Subset
<1>2. \E s \in C : \A t \in C : t \subseteq s => t = s
  BY <1>1, SmallestSubset
<1> QED BY <1>2 DEF Smallest

-----------------------------------------------------------------------------
(***************************************************************************)
(* Schedules.  The events are in order and an entry is answered by an exit *)
(* before anything else; cutting a schedule before a boundary keeps a      *)
(* beginning of it, perhaps with an exit more.                             *)
(***************************************************************************)

EventType == [at : Nat, action : {"enter_long", "exit_to_cash"}]
InOrder(es) == \A k, l \in DOMAIN es : k < l => es[k].at < es[l].at
Answered(es) == \A k \in DOMAIN es : es[k].action = "enter_long" /\ k + 1 \in DOMAIN es
                                       => es[k + 1].action = "exit_to_cash"
Sound(es) == es \in Seq(EventType) /\ InOrder(es) /\ Answered(es)

(* Out of the market before b, with time for the exit to fill.             *)
Closed(es, b) ==
  \A k \in DOMAIN es : es[k].action = "enter_long" /\ es[k].at < b =>
    k + 1 \in DOMAIN es /\ es[k + 1].at + 1 + request.latency < b

\* F is the recursive function behind EventsOf.
IsKept(F, es, candles) ==
  F = [n \in 0 .. Len(es) |->
         IF n = 0 THEN <<>>
         ELSE IF es[n].at \in candles THEN Append(F[n - 1], es[n])
         ELSE F[n - 1]]

(* Of a schedule in order, the events up to a candle are its beginning.    *)
LEMMA EventsOfBeginning ==
  ASSUME NEW es \in Seq(EventType), NEW candles, NEW m \in 0 .. Len(es),
         \A k \in 1 .. Len(es) : es[k].at \in candles <=> k <= m
  PROVE  EventsOf(es, candles) = [k \in 1 .. m |-> es[k]]
<1> DEFINE Least(n) == IF n < m THEN n ELSE m
           g == [n \in 0 .. Len(es) |-> [k \in 1 .. Least(n) |-> es[k]]]
<1>0. Len(es) \in Nat /\ m \in Nat /\ m <= Len(es) /\ \A n \in 1 .. Len(es) : es[n] \in EventType
  OBVIOUS
<1>1. ASSUME NEW n \in 1 .. Len(es) PROVE
        g[n] = IF es[n].at \in candles THEN Append(g[n - 1], es[n]) ELSE g[n - 1]
  <2>1. n - 1 \in 0 .. Len(es) /\ n \in 0 .. Len(es)
    BY <1>0
  <2>2. CASE n <= m
    <3>1. Least(n) = n /\ Least(n - 1) = n - 1
      BY <1>0, <2>2
    <3>2. g[n - 1] = [k \in 1 .. n - 1 |-> es[k]] /\ g[n] = [k \in 1 .. n |-> es[k]]
      BY <2>1, <3>1
    <3>3. g[n - 1] \in Seq(EventType) /\ Len(g[n - 1]) = n - 1
      <4>1. [k \in 1 .. n - 1 |-> es[k]] \in [1 .. n - 1 -> EventType]
        BY <1>0
      <4> QED BY <3>2, <4>1
    <3> HIDE DEF g
    <3>4. Append(g[n - 1], es[n]) = [k \in 1 .. n |-> es[k]]
      BY <3>2, <3>3
    <3> QED BY <2>2, <3>2, <3>4
  <2>3. CASE ~ (n <= m)
    <3>1. Least(n) = m /\ Least(n - 1) = m
      BY <1>0, <2>3
    <3> QED BY <2>1, <2>3, <3>1
  <2> QED BY <2>2, <2>3
<1>2. g[0] = <<>>
  <2>1. Least(0) = 0
    BY <1>0
  <2>2. g[0] = [k \in 1 .. 0 |-> es[k]]
    BY <1>0, <2>1
  <2> QED BY <2>2
<1>3. IsKept(g, es, candles)
  <2>1. g = [n \in 0 .. Len(es) |-> g[n]]
    OBVIOUS
  <2> HIDE DEF g
  <2>2. \A n \in 0 .. Len(es) : g[n] = IF n = 0 THEN <<>>
                                      ELSE IF es[n].at \in candles THEN Append(g[n - 1], es[n])
                                      ELSE g[n - 1]
    BY <1>0, <1>1, <1>2
  <2> QED BY <2>1, <2>2 DEF IsKept
<1>4. ASSUME NEW F, IsKept(F, es, candles) PROVE F = g
  <2>1. F = [n \in 0 .. Len(es) |-> F[n]]
    BY <1>4 DEF IsKept
  <2>2. F[0] = <<>> /\ \A n \in 1 .. Len(es) :
          F[n] = IF es[n].at \in candles THEN Append(F[n - 1], es[n]) ELSE F[n - 1]
    <3>1. \A n \in 0 .. Len(es) : F[n] = IF n = 0 THEN <<>>
                                         ELSE IF es[n].at \in candles THEN Append(F[n - 1], es[n])
                                         ELSE F[n - 1]
      BY <1>4 DEF IsKept
    <3>2. 0 \in 0 .. Len(es) /\ \A n \in 1 .. Len(es) : n \in 0 .. Len(es) /\ n # 0
      BY <1>0
    <3> QED BY <3>1, <3>2
  <2> DEFINE Bad == {n \in 0 .. Len(es) : F[n] # g[n]}
  <2>3. Bad = {}
    <3> SUFFICES ASSUME Bad # {} PROVE FALSE
      OBVIOUS
    <3>1. PICK n \in Bad : \A l \in Bad : n <= l
      <4>1. Bad \subseteq Nat
        OBVIOUS
      <4> HIDE DEF Bad
      <4> QED BY <4>1, LeastElement
    <3> HIDE DEF g
    <3>2. n # 0 /\ n - 1 \in 0 .. Len(es) /\ n \in 1 .. Len(es)
      BY <1>0, <1>2, <2>2
    <3>3. F[n - 1] = g[n - 1]
      BY <3>1, <3>2
    <3> QED BY <1>1, <2>2, <3>2, <3>3
  <2>4. g = [n \in 0 .. Len(es) |-> g[n]]
    OBVIOUS
  <2> HIDE DEF g
  <2> QED BY <2>1, <2>3, <2>4
<1>5. EventsOf(es, candles) = (CHOOSE F : IsKept(F, es, candles))[Len(es)]
  BY DEF EventsOf, IsKept
<1>6. (CHOOSE F : IsKept(F, es, candles)) = g
  <2> HIDE DEF g
  <2> QED BY <1>3, <1>4
<1>7. g[Len(es)] = [k \in 1 .. m |-> es[k]]
  BY <1>0
<1> QED BY <1>5, <1>6, <1>7

LEMMA BeginningUpTo ==
  ASSUME NEW es \in Seq(EventType), InOrder(es), NEW safe \in Int
  PROVE  \E m \in 0 .. Len(es) : \A k \in 1 .. Len(es) : es[k].at <= safe <=> k <= m
<1>0. Len(es) \in Nat /\ \A k \in 1 .. Len(es) : es[k].at \in Nat
  <2>1. \A k \in 1 .. Len(es) : es[k] \in EventType
    OBVIOUS
  <2> QED BY <2>1 DEF EventType
<1> DEFINE Late == {k \in 1 .. Len(es) : ~ (es[k].at <= safe)}
<1>1. CASE Late = {}
  <2>1. Len(es) \in 0 .. Len(es) /\ \A k \in 1 .. Len(es) : es[k].at <= safe <=> k <= Len(es)
    BY <1>0, <1>1
  <2> QED BY <2>1
<1>2. CASE Late # {}
  <2>1. PICK l \in Late : \A k \in Late : l <= k
    <3>1. Late \subseteq Nat
      OBVIOUS
    <3> HIDE DEF Late
    <3> QED BY <1>2, <3>1, LeastElement
  <2>2. l \in 1 .. Len(es) /\ l - 1 \in 0 .. Len(es)
    BY <1>0
  <2>3. \A k \in 1 .. Len(es) : k < l => es[k].at <= safe
    BY <1>0, <2>1
  <2>4. \A k \in 1 .. Len(es) : k > l => es[l].at < es[k].at
    BY <2>2 DEF InOrder
  <2>5. \A k \in 1 .. Len(es) : k >= l => ~ (es[k].at <= safe)
    BY <1>0, <2>1, <2>2, <2>4
  <2>6. \A k \in 1 .. Len(es) : es[k].at <= safe <=> k <= l - 1
    BY <2>2, <2>3, <2>5
  <2> QED BY <2>2, <2>6
<1> QED BY <1>1, <1>2
(* What ForceCash makes of es: a beginning of it that ends in cash, or one *)
(* that ends long and an exit at the safe candle.                          *)
EndsInCash(es, r, m) == Len(r) = m /\ (m > 0 => es[m].action = "exit_to_cash")
LeavesAt(es, r, m, safe) ==
  /\ Len(r) = m + 1 /\ r[m + 1] = Event(safe, "exit_to_cash") /\ 0 <= safe
  /\ m > 0 /\ es[m].at < safe /\ es[m].action = "enter_long"
  /\ m < Len(es) => safe < es[m + 1].at
IsCut(es, r, safe) ==
  /\ r \in Seq(EventType)
  /\ \E m \in 0 .. Len(es) :
       /\ \A k \in 1 .. m : r[k] = es[k] /\ es[k].at <= safe
       /\ EndsInCash(es, r, m) \/ LeavesAt(es, r, m, safe)

LEMMA EventFacts ==
  /\ \A e \in EventType : /\ e.at \in Nat
                          /\ e.action \in {"enter_long", "exit_to_cash"}
                          /\ e = Event(e.at, e.action)
  /\ \A i \in Nat : /\ Event(i, "exit_to_cash") \in EventType
                    /\ Event(i, "enter_long") \in EventType
  /\ \A i, a : Event(i, a).at = i /\ Event(i, a).action = a
BY DEF EventType, Event

LEMMA BeginningIsSeq ==
  ASSUME NEW es \in Seq(EventType), NEW m \in 0 .. Len(es)
  PROVE  /\ [k \in 1 .. m |-> es[k]] \in Seq(EventType)
         /\ Len([k \in 1 .. m |-> es[k]]) = m
<1>1. [k \in 1 .. m |-> es[k]] \in [1 .. m -> EventType] /\ m \in Nat
  OBVIOUS
<1> QED BY <1>1

LEMMA ForceCashCuts ==
  ASSUME NEW es, Sound(es), NEW b \in Nat, request.latency \in Nat
  PROVE  IsCut(es, ForceCash(es, b), b - 2 - request.latency)
<1> DEFINE safe == b - 2 - request.latency
           early == EventsOf(es, 0 .. safe)
           kept == WithoutEntryAt(early, safe)
           r == ForceCash(es, b)
<1>0. es \in Seq(EventType) /\ InOrder(es) /\ Answered(es) /\ safe \in Int /\ Len(es) \in Nat
  BY DEF Sound
<1>a. r = IF safe < 0 THEN early
          ELSE IF Long(kept) THEN Append(kept, Event(safe, "exit_to_cash")) ELSE kept
  BY DEF ForceCash
<1>b. kept = IF early # <<>> /\ early[Len(early)] = Event(safe, "enter_long")
               THEN SubSeq(early, 1, Len(early) - 1) ELSE early
  BY DEF WithoutEntryAt, Last, Front
<1>c. Long(kept) <=> kept # <<>> /\ kept[Len(kept)].action = "enter_long"
  BY DEF Long, Last
<1> HIDE DEF safe, r, kept
<1>1. PICK p \in 0 .. Len(es) : \A k \in 1 .. Len(es) : es[k].at <= safe <=> k <= p
  BY <1>0, BeginningUpTo
<1>2. \A k \in 1 .. Len(es) : es[k] \in EventType /\ es[k].at \in Nat
  BY <1>0, EventFacts
<1>3. early = [k \in 1 .. p |-> es[k]]
  <2>1. \A k \in 1 .. Len(es) : es[k].at \in 0 .. safe <=> k <= p
    BY <1>0, <1>1, <1>2
  <2> QED BY <1>0, <2>1, EventsOfBeginning
<1> HIDE DEF early
<1>4. early \in Seq(EventType) /\ Len(early) = p /\ p \in Nat /\ p <= Len(es)
      /\ (early = <<>> <=> p = 0) /\ \A k \in 1 .. p : early[k] = es[k]
  <2>1. early \in Seq(EventType) /\ Len(early) = p
    BY <1>0, <1>3, BeginningIsSeq
  <2> QED BY <1>0, <1>3, <2>1
<1>5. \A k \in 1 .. p : es[k].at <= safe
  BY <1>0, <1>1
<1>6. CASE p = 0
  <2>1. early = <<>>
    BY <1>4, <1>6
  <2>2. kept = <<>> /\ ~ Long(kept)
    BY <1>b, <1>c, <2>1
  <2>3. r = <<>>
    BY <1>a, <2>1, <2>2
  <2>4. EndsInCash(es, r, 0) /\ 0 \in 0 .. Len(es) /\ r \in Seq(EventType)
    BY <1>0, <2>3 DEF EndsInCash
  <2>5. \A k \in 1 .. 0 : r[k] = es[k] /\ es[k].at <= safe
    OBVIOUS
  <2>6. IsCut(es, r, safe)
    BY <2>4, <2>5 DEF IsCut
  <2> QED BY <2>6 DEF r, safe
<1>7. CASE p > 0 /\ es[p] = Event(safe, "enter_long")
  <2>1. kept = [k \in 1 .. p - 1 |-> early[k]] /\ p - 1 \in 0 .. Len(es)
    <3>1. kept = SubSeq(early, 1, p - 1)
      <4>1. early # <<>> /\ early[p] = Event(safe, "enter_long")
        BY <1>4, <1>7
      <4> QED BY <1>b, <1>4, <4>1
    <3> QED BY <1>0, <1>4, <1>7, <3>1
  <2>2. kept = [k \in 1 .. p - 1 |-> es[k]]
    BY <1>4, <2>1
  <2>3. kept \in Seq(EventType) /\ Len(kept) = p - 1 /\ \A k \in 1 .. p - 1 : kept[k] = es[k]
    BY <1>0, <2>1, <2>2, BeginningIsSeq
  <2>4. p - 1 > 0 => es[p - 1].action = "exit_to_cash"
    <3> SUFFICES ASSUME p - 1 > 0 PROVE es[p - 1].action = "exit_to_cash"
      OBVIOUS
    <3>1. p - 1 \in DOMAIN es /\ (p - 1) + 1 = p /\ p \in DOMAIN es
      BY <1>0, <1>4
    <3>2. es[p].action = "enter_long"
      BY <1>7, EventFacts
    <3>3. es[p - 1].action # "enter_long"
      BY <1>0, <3>1, <3>2 DEF Answered
    <3>4. es[p - 1].action \in {"enter_long", "exit_to_cash"}
      BY <1>2, <3>1, EventFacts
    <3> QED BY <3>3, <3>4
  <2>5. ~ Long(kept)
    BY <1>4, <1>7, <1>c, <2>3, <2>4
  <2>6. 0 <= safe
    BY <1>0, <1>2, <1>4, <1>5, <1>7
  <2>7. r = kept
    BY <1>0, <1>a, <2>5, <2>6
  <2>8. EndsInCash(es, r, p - 1)
    BY <2>3, <2>4, <2>7 DEF EndsInCash
  <2>9. \A k \in 1 .. p - 1 : r[k] = es[k] /\ es[k].at <= safe
    BY <1>4, <1>5, <2>3, <2>7
  <2>10. IsCut(es, r, safe)
    BY <2>1, <2>3, <2>7, <2>8, <2>9 DEF IsCut
  <2> QED BY <2>10 DEF r, safe
<1>8. CASE p > 0 /\ es[p] # Event(safe, "enter_long")
  <2>1. early[p] = es[p] /\ early # <<>>
    BY <1>4, <1>8
  <2>2. kept = early
    BY <1>b, <1>4, <1>8, <2>1
  <2>3. es[p].at <= safe /\ es[p] \in EventType /\ es[p].at \in Nat /\ 0 <= safe
    BY <1>0, <1>2, <1>4, <1>5, <1>8
  <2>4. CASE es[p].action = "enter_long"
    <3>1. es[p].at < safe
      <4>1. es[p].at # safe
        BY <1>8, <2>3, <2>4, EventFacts
      <4> QED BY <1>0, <2>3, <4>1
    <3>2. Long(kept)
      BY <1>4, <1>c, <2>1, <2>2, <2>4
    <3>3. r = Append(early, Event(safe, "exit_to_cash"))
      BY <1>0, <1>a, <2>2, <2>3, <3>2
    <3>4. Event(safe, "exit_to_cash") \in EventType
      BY <1>0, <2>3, EventFacts
    <3>5. /\ r \in Seq(EventType) /\ Len(r) = p + 1 /\ r[p + 1] = Event(safe, "exit_to_cash")
          /\ \A k \in 1 .. p : r[k] = es[k]
      BY <1>4, <3>3, <3>4
    <3>6. p < Len(es) => safe < es[p + 1].at
      <4> SUFFICES ASSUME p < Len(es) PROVE safe < es[p + 1].at
        OBVIOUS
      <4>1. p + 1 \in 1 .. Len(es) /\ ~ (p + 1 <= p)
        BY <1>0, <1>4
      <4>2. ~ (es[p + 1].at <= safe) /\ es[p + 1].at \in Nat
        BY <1>1, <1>2, <4>1
      <4> QED BY <1>0, <4>2
    <3>7. LeavesAt(es, r, p, safe)
      BY <1>8, <2>3, <2>4, <3>1, <3>5, <3>6 DEF LeavesAt
    <3>8. IsCut(es, r, safe)
      BY <1>5, <3>5, <3>7 DEF IsCut
    <3> QED BY <3>8 DEF r, safe
  <2>5. CASE es[p].action = "exit_to_cash"
    <3>1. ~ Long(kept)
      BY <1>4, <1>c, <2>1, <2>2, <2>5
    <3>2. r = early
      BY <1>0, <1>a, <2>2, <2>3, <3>1
    <3>3. EndsInCash(es, r, p)
      BY <1>4, <2>5, <3>2 DEF EndsInCash
    <3>4. IsCut(es, r, safe)
      BY <1>4, <1>5, <3>2, <3>3 DEF IsCut
    <3> QED BY <3>4 DEF r, safe
  <2> QED BY <2>3, <2>4, <2>5, EventFacts
<1> QED BY <1>4, <1>6, <1>7, <1>8
InCash(es) == Len(es) > 0 => es[Len(es)].action = "exit_to_cash"

(* HoldsBounded, of any schedule.                                          *)
Paced(es) ==
  \A k \in DOMAIN es : k + 1 \in DOMAIN es /\ Unbroken(es[k].at, es[k + 1].at) =>
    LET span == es[k + 1].at - es[k].at IN
    IF es[k].action = "exit_to_cash"
      THEN es[k + 1].action # "exit_to_cash" => span > request.policy.cooldown
      ELSE span <= request.policy.maximumHold + 1

\* Where the times of the events are before a candle, and what stays closed.
Until(es, i) == \A k \in DOMAIN es : es[k].at <= i

LEMMA ForcedIsBroken ==
  ASSUME request.latency \in Nat, NEW b \in request.boundaries, b \in Nat,
         NEW i \in Nat, NEW j \in Nat, i < b, b - 2 - request.latency <= j
  PROVE  ~ Unbroken(i, j)
BY DEF Unbroken

LEMMA CutKeeps ==
  ASSUME NEW es, Sound(es), request.latency \in Nat, NEW b \in request.boundaries, b \in Nat,
         NEW r, IsCut(es, r, b - 2 - request.latency)
  PROVE  /\ Sound(r) /\ InCash(r) /\ Until(r, b - 2 - request.latency) /\ Closed(r, b)
         /\ \A c \in Nat : Closed(es, c) => Closed(r, c)
         /\ Paced(es) => Paced(r)
<1> DEFINE safe == b - 2 - request.latency
           lat == request.latency
<1>0. es \in Seq(EventType) /\ InOrder(es) /\ Answered(es) /\ Len(es) \in Nat /\ DOMAIN es = 1 .. Len(es)
      /\ safe \in Int /\ lat \in Nat /\ safe = b - 2 - lat
  BY DEF Sound
<1>1. IsCut(es, r, safe)
  OBVIOUS
<1> HIDE DEF safe, lat
<1>2. PICK m \in 0 .. Len(es) :
        /\ \A k \in 1 .. m : r[k] = es[k] /\ es[k].at <= safe
        /\ EndsInCash(es, r, m) \/ LeavesAt(es, r, m, safe)
  BY <1>1 DEF IsCut
<1>3. r \in Seq(EventType) /\ Len(r) \in Nat /\ DOMAIN r = 1 .. Len(r) /\ m \in Nat /\ m <= Len(es)
  BY <1>0, <1>1, <1>2 DEF IsCut
<1>4. /\ \A k \in 1 .. Len(es) : es[k].at \in Nat /\ es[k].action \in {"enter_long", "exit_to_cash"}
      /\ \A k \in 1 .. Len(r) : r[k].at \in Nat /\ r[k].action \in {"enter_long", "exit_to_cash"}
  BY <1>0, <1>3, EventFacts
<1>5. \A k \in 1 .. m : r[k] = es[k] /\ r[k].at = es[k].at /\ r[k].action = es[k].action
                        /\ es[k].at <= safe /\ k \in 1 .. Len(es)
  BY <1>2, <1>3
<1>6. CASE EndsInCash(es, r, m)
  <2>1. Len(r) = m /\ DOMAIN r = 1 .. m /\ (m > 0 => r[m].action = "exit_to_cash")
    BY <1>3, <1>5, <1>6 DEF EndsInCash
  <2>2. InOrder(r)
    BY <1>0, <1>5, <2>1 DEF InOrder
  <2>3. Answered(r)
    <3> SUFFICES ASSUME NEW k \in 1 .. m, r[k].action = "enter_long", k + 1 \in 1 .. m
                 PROVE  r[k + 1].action = "exit_to_cash"
      BY <2>1 DEF Answered
    <3>1. k \in DOMAIN es /\ k + 1 \in DOMAIN es /\ es[k].action = "enter_long"
      BY <1>0, <1>5
    <3> QED BY <1>0, <1>5, <3>1 DEF Answered
  <2>4. \A k \in 1 .. m : r[k].action = "enter_long" => k + 1 \in 1 .. m
    BY <1>3, <2>1
  <2>5. InCash(r) /\ Until(r, safe)
    BY <1>5, <2>1 DEF InCash, Until
  <2>6. Closed(r, b)
    <3> SUFFICES ASSUME NEW k \in 1 .. m, r[k].action = "enter_long"
                 PROVE  k + 1 \in 1 .. m /\ r[k + 1].at + 1 + lat < b
      BY <2>1 DEF Closed, lat
    <3>1. k + 1 \in 1 .. m
      BY <2>4
    <3>2. r[k + 1].at <= safe /\ r[k + 1].at \in Nat
      BY <1>4, <1>5, <2>1, <3>1
    <3> QED BY <1>0, <3>1, <3>2
  <2>7. ASSUME NEW c \in Nat, Closed(es, c) PROVE Closed(r, c)
    <3> SUFFICES ASSUME NEW k \in 1 .. m, r[k].action = "enter_long", r[k].at < c
                 PROVE  k + 1 \in 1 .. m /\ r[k + 1].at + 1 + lat < c
      BY <2>1 DEF Closed, lat
    <3>1. k + 1 \in 1 .. m
      BY <2>4
    <3>2. es[k + 1].at + 1 + lat < c
      <4>1. k \in DOMAIN es /\ es[k].action = "enter_long" /\ es[k].at < c
        BY <1>0, <1>5
      <4> QED BY <2>7, <4>1 DEF Closed, lat
    <3> QED BY <1>5, <3>1, <3>2
  <2>8. ASSUME Paced(es) PROVE Paced(r)
    <3>1. \A k \in 1 .. m : k + 1 \in 1 .. m =>
            k \in DOMAIN es /\ k + 1 \in DOMAIN es /\ r[k] = es[k] /\ r[k + 1] = es[k + 1]
      BY <1>0, <1>5
    <3> QED BY <2>1, <2>8, <3>1 DEF Paced
  <2> QED BY <1>3, <2>2, <2>3, <2>5, <2>6, <2>7, <2>8 DEF Sound, safe
<1>7. CASE LeavesAt(es, r, m, safe)
  <2>1. /\ Len(r) = m + 1 /\ DOMAIN r = 1 .. (m + 1) /\ m > 0 /\ 0 <= safe
        /\ r[m + 1].at = safe /\ r[m + 1].action = "exit_to_cash"
        /\ r[m].action = "enter_long" /\ r[m].at < safe /\ es[m].action = "enter_long"
        /\ m < Len(es) => safe < es[m + 1].at
    BY <1>3, <1>5, <1>7, EventFacts DEF LeavesAt
  <2>0. \A k \in 1 .. (m + 1) : k \in 1 .. m \/ k = m + 1
    BY <1>3
  <2>a. \A k \in 1 .. m : r[k].at < safe
    <3> SUFFICES ASSUME NEW k \in 1 .. m, k # m PROVE r[k].at < safe
      BY <2>1
    <3>1. k < m /\ k \in DOMAIN es /\ m \in DOMAIN es
      BY <1>0, <1>3, <1>5
    <3>2. es[k].at < es[m].at
      BY <1>0, <3>1 DEF InOrder
    <3> QED BY <1>0, <1>4, <1>5, <2>1, <3>1, <3>2
  <2>2. InOrder(r)
    <3> SUFFICES ASSUME NEW k \in 1 .. (m + 1), NEW l \in 1 .. (m + 1), k < l
                 PROVE  r[k].at < r[l].at
      BY <2>1 DEF InOrder
    <3>1. CASE l = m + 1
      BY <1>3, <2>1, <2>a, <3>1
    <3>2. CASE l \in 1 .. m
      <4>1. k \in 1 .. m /\ k \in DOMAIN es /\ l \in DOMAIN es
        BY <1>0, <1>3, <1>5, <3>2
      <4> QED BY <1>0, <1>5, <3>2, <4>1 DEF InOrder
    <3> QED BY <2>0, <3>1, <3>2
  <2>3. Answered(r)
    <3> SUFFICES ASSUME NEW k \in 1 .. (m + 1), r[k].action = "enter_long", k + 1 \in 1 .. (m + 1)
                 PROVE  r[k + 1].action = "exit_to_cash"
      BY <2>1 DEF Answered
    <3>1. CASE k = m
      BY <2>1, <3>1
    <3>2. CASE k # m
      <4>1. k \in 1 .. m /\ k + 1 \in 1 .. m
        BY <1>3, <3>2
      <4>2. k \in DOMAIN es /\ k + 1 \in DOMAIN es /\ es[k].action = "enter_long"
        BY <1>0, <1>5, <4>1
      <4> QED BY <1>0, <1>5, <4>1, <4>2 DEF Answered
    <3> QED BY <3>1, <3>2
  <2>4. \A k \in 1 .. (m + 1) : r[k].action = "enter_long" => k \in 1 .. m /\ k + 1 \in 1 .. (m + 1)
    BY <1>3, <2>0, <2>1
  <2>5. InCash(r) /\ Until(r, safe)
    <3>1. \A k \in 1 .. (m + 1) : r[k].at <= safe
      BY <1>0, <1>5, <2>0, <2>1
    <3> QED BY <2>1, <3>1 DEF InCash, Until
  <2>6. Closed(r, b)
    <3> SUFFICES ASSUME NEW k \in 1 .. (m + 1), r[k].action = "enter_long"
                 PROVE  k + 1 \in 1 .. (m + 1) /\ r[k + 1].at + 1 + lat < b
      BY <2>1 DEF Closed, lat
    <3>1. k + 1 \in 1 .. (m + 1)
      BY <2>4
    <3>2. r[k + 1].at <= safe /\ r[k + 1].at \in Nat
      BY <1>4, <2>1, <2>5, <3>1 DEF Until
    <3> QED BY <1>0, <3>1, <3>2
  <2>7. ASSUME NEW c \in Nat, Closed(es, c) PROVE Closed(r, c)
    <3> SUFFICES ASSUME NEW k \in 1 .. (m + 1), r[k].action = "enter_long", r[k].at < c
                 PROVE  k + 1 \in 1 .. (m + 1) /\ r[k + 1].at + 1 + lat < c
      BY <2>1 DEF Closed, lat
    <3>1. k \in 1 .. m /\ k + 1 \in 1 .. (m + 1)
      BY <2>4
    <3>2. k + 1 \in 1 .. Len(es) /\ es[k + 1].at + 1 + lat < c
      <4>1. k \in DOMAIN es /\ es[k].action = "enter_long" /\ es[k].at < c
        BY <1>0, <1>5, <3>1
      <4> QED BY <1>0, <2>7, <4>1 DEF Closed, lat
    <3>3. CASE k + 1 \in 1 .. m
      BY <1>5, <3>1, <3>2, <3>3
    <3>4. CASE k = m
      <4>1. m < Len(es)
        BY <1>0, <1>3, <3>2, <3>4
      <4>2. safe < es[m + 1].at /\ r[m + 1].at = safe /\ es[m + 1].at \in Nat
        BY <1>4, <2>1, <3>2, <3>4, <4>1
      <4> QED BY <1>0, <3>1, <3>2, <3>4, <4>2
    <3> QED BY <1>3, <3>1, <3>3, <3>4
  <2>8. ASSUME Paced(es) PROVE Paced(r)
    <3>1. \A k \in 1 .. m : k + 1 \in 1 .. m =>
            k \in DOMAIN es /\ k + 1 \in DOMAIN es /\ r[k] = es[k] /\ r[k + 1] = es[k + 1]
      BY <1>0, <1>5
    <3>2. ~ Unbroken(r[m].at, r[m + 1].at)
      <4>1. r[m].at \in Nat /\ r[m].at < b /\ r[m + 1].at = safe /\ safe \in Nat
        BY <1>0, <1>3, <1>4, <2>1
      <4> QED BY <4>1, ForcedIsBroken DEF safe
    <3>3. \A k \in 1 .. (m + 1) : k + 1 \in 1 .. (m + 1) => k = m \/ (k \in 1 .. m /\ k + 1 \in 1 .. m)
      BY <1>3
    <3> QED BY <2>1, <2>8, <3>1, <3>2, <3>3 DEF Paced
  <2> QED BY <1>3, <2>2, <2>3, <2>5, <2>6, <2>7, <2>8 DEF Sound, safe
<1> QED BY <1>2, <1>6, <1>7
(***************************************************************************)
(* Several boundaries: the fold is a recursive function over sets of them. *)
(***************************************************************************)

LEMMA LatestIn ==
  ASSUME NEW s, Bounded(s), s # {}
  PROVE  Max(s) \in s
<1>0. PICK hi \in Nat : s \subseteq 0 .. hi
  BY DEF Bounded
<1> DEFINE U == {hi - n : n \in s}
<1>1. U \subseteq Nat /\ U # {}
  <2>1. \A n \in s : hi - n \in Nat
    BY <1>0
  <2> QED BY <2>1
<1>2. PICK u \in U : \A v \in U : u <= v
  BY <1>1, LeastElement
<1>3. PICK m \in s : u = hi - m
  BY <1>2
<1>4. \A n \in s : m >= n
  <2> SUFFICES ASSUME NEW n \in s PROVE m >= n
    OBVIOUS
  <2>1. hi - m <= hi - n
    BY <1>2, <1>3
  <2>2. m \in 0 .. hi /\ n \in 0 .. hi
    BY <1>0
  <2> QED BY <2>1, <2>2
<1> QED BY <1>4 DEF Max

\* The boundaries before the last one.
Earlier(s) == s \ {Max(s)}

LEMMA EarlierIs ==
  ASSUME NEW s, Bounded(s), s # {}
  PROVE  Earlier(s) \subseteq s /\ Earlier(s) # s
BY LatestIn DEF Earlier

\* F is the recursive function behind ForceCashAll.
IsForced(F, es, B) ==
  F = [s \in SUBSET B |-> IF s = {} THEN es ELSE ForceCash(F[Earlier(s)], Max(s))]
ForcedAt(F, es, s) == F[s] = IF s = {} THEN es ELSE ForceCash(F[Earlier(s)], Max(s))

LEMMA ForcedStep ==
  ASSUME NEW es, NEW B, NEW F, IsForced(F, es, B), NEW s \in SUBSET B
  PROVE  ForcedAt(F, es, s)
BY DEF IsForced, ForcedAt

LEMMA ForcedAgree ==
  ASSUME NEW es, NEW D, NEW E, NEW F, NEW G, IsForced(F, es, D), IsForced(G, es, E),
         Bounded(D), NEW t \in SUBSET D, t \in SUBSET E
  PROVE  F[t] = G[t]
<1> DEFINE Bad == {s \in SUBSET t : F[s] # G[s]}
<1>1. SUFFICES ASSUME Bad # {} PROVE FALSE
  OBVIOUS
<1>2. PICK s : Smallest(Bad, s)
  <2>1. Bad \subseteq SUBSET D
    OBVIOUS
  <2> HIDE DEF Bad
  <2> QED BY <1>1, <2>1, SmallestWithin
<1>3. s \in SUBSET D /\ s \in SUBSET E /\ F[s] # G[s]
      /\ \A u : u \subseteq s /\ u # s => F[u] = G[u]
  BY <1>2 DEF Smallest
<1> HIDE DEF Bad
<1>4. ForcedAt(F, es, s) /\ ForcedAt(G, es, s)
  BY <1>3, ForcedStep
<1>5. s # {}
  BY <1>3, <1>4 DEF ForcedAt
<1>6. F[Earlier(s)] = G[Earlier(s)]
  <2>1. Earlier(s) \subseteq s /\ Earlier(s) # s
    BY <1>3, <1>5, BoundedPart, EarlierIs
  <2> QED BY <1>3, <2>1
<1> QED BY <1>3, <1>4, <1>5, <1>6 DEF ForcedAt

LEMMA ForcedExists ==
  ASSUME NEW es, NEW D, Bounded(D)
  PROVE  \E F : IsForced(F, es, D)
<1> DEFINE Bad == {t \in SUBSET D : ~ \E F : IsForced(F, es, t)}
<1>1. SUFFICES ASSUME Bad # {} PROVE FALSE
  OBVIOUS
<1>2. PICK t : Smallest(Bad, t)
  <2>1. Bad \subseteq SUBSET D
    OBVIOUS
  <2> HIDE DEF Bad
  <2> QED BY <1>1, <2>1, SmallestWithin
<1>0. /\ t \in SUBSET D /\ ~ \E F : IsForced(F, es, t)
      /\ \A u \in SUBSET t : u # t => \E F : IsForced(F, es, u)
  BY <1>2 DEF Smallest
<1> HIDE DEF Bad
<1> DEFINE Before(u) == CHOOSE F : IsForced(F, es, u)
           Whole == [s \in SUBSET t |->
                       IF s # t THEN Before(s)[s]
                       ELSE IF s = {} THEN es
                       ELSE ForceCash(Before(Earlier(s))[Earlier(s)], Max(s))]
<1>3. \A u \in SUBSET t : u # t => IsForced(Before(u), es, u)
  BY <1>0
<1> HIDE DEF Before
<1>4. ASSUME NEW s \in SUBSET t
      PROVE  Whole[s] = IF s = {} THEN es ELSE ForceCash(Whole[Earlier(s)], Max(s))
  <2>1. CASE s = {}
    <3>1. CASE s = t
      BY <2>1, <3>1
    <3>2. CASE s # t
      <4>1. IsForced(Before(s), es, s) /\ s \in SUBSET s
        BY <1>3, <3>2
      <4>2. ForcedAt(Before(s), es, s)
        BY <4>1, ForcedStep
      <4>3. Before(s)[s] = es
        BY <2>1, <4>2 DEF ForcedAt
      <4> QED BY <2>1, <3>2, <4>3
    <3> QED BY <3>1, <3>2
  <2>2. CASE s # {}
    <3> DEFINE u == Earlier(s)
    <3>1. Bounded(s)
      BY <1>0, BoundedPart
    <3>2. u \subseteq s /\ u # s
      BY <2>2, <3>1, EarlierIs
    <3> HIDE DEF u
    <3>3. u \in SUBSET t /\ u # t /\ u \in SUBSET s /\ u \in SUBSET u /\ s \in SUBSET s
      BY <3>2
    <3>4. Whole[u] = Before(u)[u]
      BY <3>3
    <3>5. CASE s = t
      BY <2>2, <3>4, <3>5 DEF u
    <3>6. CASE s # t
      <4> DEFINE G == Before(s)
                 H == Before(u)
      <4>1. IsForced(G, es, s) /\ IsForced(H, es, u)
        BY <1>3, <3>3, <3>6
      <4>2. Whole[s] = G[s] /\ Whole[u] = H[u]
        BY <3>4, <3>6
      <4> HIDE DEF G, H, Whole
      <4>3. ForcedAt(G, es, s)
        BY <3>3, <4>1, ForcedStep
      <4>4. G[u] = H[u]
        BY <3>1, <3>3, <4>1, ForcedAgree
      <4> QED BY <2>2, <4>2, <4>3, <4>4 DEF ForcedAt, u
    <3> QED BY <3>5, <3>6
  <2> QED BY <2>1, <2>2
<1>5. IsForced(Whole, es, t)
  <2>1. Whole = [s \in SUBSET t |-> Whole[s]]
    OBVIOUS
  <2> HIDE DEF Whole
  <2> QED BY <1>4, <2>1 DEF IsForced
<1> HIDE DEF Whole
<1> QED BY <1>0, <1>5

\* What a sequence of boundaries makes of a schedule.
Forced(es, r, B) ==
  /\ Sound(r)
  /\ B = {} => r = es
  /\ B # {} => InCash(r) /\ \E b \in B : Until(r, b - 2 - request.latency)
  /\ \A b \in B : Closed(r, b)
  /\ \A c \in Nat : Closed(es, c) => Closed(r, c)
  /\ Paced(es) => Paced(r)

LEMMA ForceCashAllForces ==
  ASSUME NEW es, Sound(es), request.latency \in Nat, NEW B \in SUBSET request.boundaries, Bounded(B)
  PROVE  Forced(es, ForceCashAll(es, B), B)
<1> DEFINE F == CHOOSE G : IsForced(G, es, B)
           Bad == {s \in SUBSET B : ~ Forced(es, F[s], s)}
<1>1. ForceCashAll(es, B) = F[B]
  BY DEF ForceCashAll, MapThenFoldSet, IsForced, Earlier
<1>2. IsForced(F, es, B)
  BY ForcedExists
<1> HIDE DEF F
<1>3. Bad = {}
  <2> SUFFICES ASSUME Bad # {} PROVE FALSE
    OBVIOUS
  <2>2. PICK s : Smallest(Bad, s)
    <3>1. Bad \subseteq SUBSET B
      OBVIOUS
    <3> HIDE DEF Bad
    <3> QED BY <3>1, SmallestWithin
  <2>0. /\ s \in SUBSET B /\ s \subseteq request.boundaries
        /\ ~ Forced(es, F[s], s)
        /\ \A u : u \subseteq s /\ u # s => Forced(es, F[u], u)
    BY <2>2 DEF Smallest
  <2> HIDE DEF Bad
  <2>5. Bounded(s) /\ \A c \in s : c \in Nat
    <3>1. Bounded(s)
      BY <2>0, BoundedPart
    <3>2. PICK hi \in Nat : s \subseteq 0 .. hi
      BY <3>1 DEF Bounded
    <3> QED BY <3>1, <3>2
  <2>1. ForcedAt(F, es, s)
    BY <1>2, <2>0, ForcedStep
  <2>3. CASE s = {}
    <3>1. F[s] = es
      BY <2>1, <2>3 DEF ForcedAt
    <3> QED BY <2>0, <2>3, <3>1 DEF Forced
  <2>4. CASE s # {}
    <3> DEFINE b == Max(s)
               u == Earlier(s)
    <3>1. b \in s /\ b \in Nat /\ b \in request.boundaries
      <4>1. Max(s) \in s
        BY <2>4, <2>5, LatestIn
      <4> QED BY <2>0, <2>5, <4>1
    <3>2. F[s] = ForceCash(F[u], b)
      BY <2>1, <2>4 DEF ForcedAt
    <3>3. Forced(es, F[u], u)
      <4>1. u \subseteq s /\ u # s
        BY <2>4, <2>5, EarlierIs
      <4> HIDE DEF u, b
      <4> QED BY <2>0, <4>1
    <3>0. \A c \in s : c = b \/ c \in u
      BY DEF Earlier
    <3> HIDE DEF b, u
    <3>4. Sound(F[u])
      BY <3>3 DEF Forced
    <3>5. IsCut(F[u], F[s], b - 2 - request.latency)
      BY <3>1, <3>2, <3>4, ForceCashCuts
    <3>6. /\ Sound(F[s]) /\ InCash(F[s]) /\ Until(F[s], b - 2 - request.latency) /\ Closed(F[s], b)
          /\ \A c \in Nat : Closed(F[u], c) => Closed(F[s], c)
          /\ Paced(F[u]) => Paced(F[s])
      BY <3>1, <3>4, <3>5, CutKeeps
    <3>7. ASSUME NEW c \in s PROVE Closed(F[s], c)
      <4>1. CASE c = b
        BY <3>6, <4>1
      <4>2. CASE c # b
        <5>1. c \in u /\ c \in Nat
          BY <2>5, <3>0, <4>2
        <5> QED BY <3>3, <3>6, <5>1 DEF Forced
      <4> QED BY <4>1, <4>2
    <3>8. Forced(es, F[s], s)
      BY <2>4, <3>1, <3>3, <3>6, <3>7 DEF Forced
    <3> QED BY <2>0, <3>8
  <2> QED BY <2>3, <2>4
<1>4. Forced(es, F[B], B)
  BY <1>3
<1> QED BY <1>1, <1>4
-----------------------------------------------------------------------------
(* The two ways in which a schedule changes otherwise: its last entry is   *)
(* withdrawn, or an event is appended.                                     *)

LEMMA WithdrawKeeps ==
  ASSUME NEW es, Sound(es), Len(es) > 0, es[Len(es)].action = "enter_long",
         NEW r, r = [k \in 1 .. Len(es) - 1 |-> es[k]]
  PROVE  /\ Sound(r) /\ InCash(r) /\ Len(r) = Len(es) - 1
         /\ \A k \in DOMAIN r : r[k] = es[k] /\ es[k].at < es[Len(es)].at
         /\ \A c : Closed(es, c) => Closed(r, c)
         /\ Paced(es) => Paced(r)
<1> DEFINE n == Len(es)
           m == n - 1
<1>0. es \in Seq(EventType) /\ InOrder(es) /\ Answered(es) /\ n \in Nat /\ n > 0 /\ DOMAIN es = 1 .. n
      /\ m \in 0 .. n /\ m \in Nat /\ n = m + 1 /\ es[n].action = "enter_long"
  BY DEF Sound
<1>1. r \in Seq(EventType) /\ Len(r) = m
  BY <1>0, BeginningIsSeq
<1>2. DOMAIN r = 1 .. m /\ \A k \in 1 .. m : r[k] = es[k] /\ k \in DOMAIN es /\ k < n /\ k + 1 \in DOMAIN es
  BY <1>0, <1>1
<1> HIDE DEF n, m
<1>3. InOrder(r)
  BY <1>0, <1>2 DEF InOrder
<1>4. Answered(r)
  BY <1>0, <1>2 DEF Answered
<1>5. \A k \in 1 .. m : r[k].action = "enter_long" => k + 1 \in 1 .. m
  <2> SUFFICES ASSUME NEW k \in 1 .. m, r[k].action = "enter_long", k = m PROVE FALSE
    BY <1>0
  <2>1. k \in DOMAIN es /\ k + 1 \in DOMAIN es /\ k + 1 = n /\ es[k].action = "enter_long"
    BY <1>0, <1>2
  <2> QED BY <1>0, <2>1 DEF Answered
<1>6. InCash(r)
  <2> SUFFICES ASSUME m > 0 PROVE r[m].action = "exit_to_cash"
    BY <1>1 DEF InCash
  <2>1. m \in 1 .. m /\ ~ (m + 1 \in 1 .. m) /\ r[m] = es[m] /\ es[m] \in EventType
    BY <1>0, <1>2
  <2> QED BY <1>5, <2>1, EventFacts
<1>7. \A k \in DOMAIN r : r[k] = es[k] /\ es[k].at < es[n].at
  BY <1>0, <1>2 DEF InOrder
<1>8. ASSUME NEW c, Closed(es, c) PROVE Closed(r, c)
  BY <1>2, <1>5, <1>8 DEF Closed
<1>9. ASSUME Paced(es) PROVE Paced(r)
  BY <1>2, <1>9 DEF Paced
<1> QED BY <1>1, <1>3, <1>4, <1>6, <1>7, <1>8, <1>9 DEF Sound, n, m

(* What the pace asks of an event after the last one.                      *)
PacedNext(es, i, action) ==
  Len(es) > 0 /\ Unbroken(es[Len(es)].at, i) =>
    LET span == i - es[Len(es)].at IN
    IF es[Len(es)].action = "exit_to_cash"
      THEN action # "exit_to_cash" => span > request.policy.cooldown
      ELSE span <= request.policy.maximumHold + 1

(* An event may follow a schedule, and the schedule that it makes.         *)
MayFollow(es, i, action) ==
  /\ Sound(es) /\ i \in Nat /\ Until(es, i - 1)
  /\ action \in {"enter_long", "exit_to_cash"}
  /\ action = "enter_long" => InCash(es)

Follows(es, i, action, r) ==
  /\ Sound(r) /\ Until(r, i) /\ Len(r) = Len(es) + 1 /\ r[Len(r)] = Event(i, action)
  /\ \A c \in Nat : c <= i /\ Closed(es, c) => Closed(r, c)
  /\ Paced(es) /\ PacedNext(es, i, action) => Paced(r)

LEMMA AppendKeeps ==
  ASSUME NEW es, NEW i, NEW action, MayFollow(es, i, action),
         NEW r, r = Append(es, Event(i, action))
  PROVE  Follows(es, i, action, r)
<1> DEFINE n == Len(es)
           e == Event(i, action)
<1>0. es \in Seq(EventType) /\ InOrder(es) /\ Answered(es) /\ n \in Nat /\ DOMAIN es = 1 .. n
      /\ e \in EventType /\ e.at = i /\ e.action = action
      /\ i \in Nat /\ Until(es, i - 1) /\ action \in {"enter_long", "exit_to_cash"} /\ (action = "enter_long" => InCash(es))
  BY EventFacts DEF Sound, MayFollow
<1>1. /\ r \in Seq(EventType) /\ Len(r) = n + 1 /\ DOMAIN r = 1 .. (n + 1) /\ r[n + 1] = e
      /\ \A k \in 1 .. n : r[k] = es[k] /\ k \in DOMAIN es
  BY <1>0
<1>2. \A k \in 1 .. n : es[k].at \in Nat /\ es[k].at < i /\ es[k].action \in {"enter_long", "exit_to_cash"}
  <2>1. \A k \in 1 .. n : es[k] \in EventType /\ es[k].at <= i - 1
    BY <1>0 DEF Until
  <2> QED BY <1>0, <2>1, EventFacts
<1> HIDE DEF n, e
<1>3. \A k \in 1 .. (n + 1) : k \in 1 .. n \/ k = n + 1
  BY <1>0
<1>4. InOrder(r)
  <2> SUFFICES ASSUME NEW k \in 1 .. (n + 1), NEW l \in 1 .. (n + 1), k < l
               PROVE  r[k].at < r[l].at
    BY <1>1 DEF InOrder
  <2>1. k \in 1 .. n
    BY <1>0
  <2>2. CASE l = n + 1
    BY <1>0, <1>1, <1>2, <2>1, <2>2
  <2>3. CASE l \in 1 .. n
    BY <1>0, <1>1, <2>1, <2>3 DEF InOrder
  <2> QED BY <1>3, <2>2, <2>3
<1>5. Answered(r)
  <2> SUFFICES ASSUME NEW k \in 1 .. (n + 1), r[k].action = "enter_long", k + 1 \in 1 .. (n + 1)
               PROVE  r[k + 1].action = "exit_to_cash"
    BY <1>1 DEF Answered
  <2>1. k \in 1 .. n /\ es[k].action = "enter_long"
    BY <1>0, <1>1
  <2>2. CASE k = n
    <3>1. ~ InCash(es)
      BY <2>1, <2>2 DEF InCash, n
    <3>2. action = "exit_to_cash"
      BY <1>0, <3>1
    <3> QED BY <1>0, <1>1, <2>2, <3>2
  <2>3. CASE k # n
    <3>1. k + 1 \in 1 .. n
      BY <1>0, <2>1, <2>3
    <3> QED BY <1>0, <1>1, <2>1, <3>1 DEF Answered
  <2> QED BY <2>2, <2>3
<1>6. Until(r, i)
  BY <1>0, <1>1, <1>2, <1>3 DEF Until
<1>7. ASSUME NEW c \in Nat, c <= i, Closed(es, c) PROVE Closed(r, c)
  <2> SUFFICES ASSUME NEW k \in 1 .. (n + 1), r[k].action = "enter_long", r[k].at < c
               PROVE  k + 1 \in 1 .. (n + 1) /\ r[k + 1].at + 1 + request.latency < c
    BY <1>1 DEF Closed
  <2>1. k # n + 1
    BY <1>0, <1>1, <1>7
  <2>2. k \in DOMAIN es /\ es[k].action = "enter_long" /\ es[k].at < c
    BY <1>0, <1>1, <1>3, <2>1
  <2>3. k + 1 \in DOMAIN es /\ es[k + 1].at + 1 + request.latency < c
    BY <1>7, <2>2 DEF Closed
  <2> QED BY <1>0, <1>1, <2>3
<1>8. ASSUME Paced(es), PacedNext(es, i, action) PROVE Paced(r)
  <2>1. \A k \in 1 .. (n + 1) : k + 1 \in 1 .. (n + 1) => (k = n /\ n > 0) \/ (k \in 1 .. n /\ k + 1 \in 1 .. n)
    BY <1>0
  <2>2. n > 0 => r[n] = es[n] /\ r[n + 1].at = i /\ r[n + 1].action = action
    BY <1>0, <1>1
  <2>3. PacedNext(es, i, action) /\ n = Len(es)
    BY <1>8 DEF n
  <2> SUFFICES ASSUME NEW k \in 1 .. (n + 1), k + 1 \in 1 .. (n + 1), Unbroken(r[k].at, r[k + 1].at)
               PROVE  IF r[k].action = "exit_to_cash"
                        THEN r[k + 1].action # "exit_to_cash"
                               => r[k + 1].at - r[k].at > request.policy.cooldown
                        ELSE r[k + 1].at - r[k].at <= request.policy.maximumHold + 1
    BY <1>1 DEF Paced
  <2>4. CASE k = n /\ n > 0
    BY <2>2, <2>3, <2>4 DEF PacedNext
  <2>5. CASE k \in 1 .. n /\ k + 1 \in 1 .. n
    BY <1>0, <1>1, <1>8, <2>5 DEF Paced
  <2> QED BY <2>1, <2>4, <2>5
<1> QED BY <1>1, <1>4, <1>5, <1>6, <1>7, <1>8 DEF Sound, Follows, n, e
-----------------------------------------------------------------------------
(***************************************************************************)
(* The invariant of the schedule in the making.                            *)
(***************************************************************************)

SimType == [long : BOOLEAN, specialist : {"none", "trend", "mean_reversion"},
            age : Nat, cooldown : Nat, streak : Nat]

LEMMA RequestFacts ==
  ASSUME request \in Requests
  PROVE  /\ request.rule \in Rules /\ request.latency \in Nat
         /\ request.decisions \subseteq Nat /\ request.decisions # {}
         /\ request.boundaries \subseteq Nat \ {0}
         /\ request.policy.maximumHold \in Nat /\ request.policy.cooldown \in Nat
BY ScheduleAssumption

(* What the arbiter and the comparators do to the simulated position.      *)
MovesPosition(s, d) ==
  /\ d.next \in SimType
  /\ d.action = "enter_long" => ~ s.long /\ d.next.long
  /\ d.action = "exit_to_cash" => s.long /\ ~ d.next.long
  /\ d.action \notin {"enter_long", "exit_to_cash"} => (d.next.long <=> s.long)

(* And what the arbiter does to its counters.                              *)
Counts(s, d) ==
  /\ d.action = "exit_to_cash" => d.next.cooldown = request.policy.cooldown
  /\ s.long /\ d.action # "exit_to_cash" =>
       s.age < request.policy.maximumHold /\ d.next.age = s.age + 1
  /\ d.action = "enter_long" => s.cooldown = 0 /\ d.next.age = 0
  /\ ~ s.long /\ d.action # "enter_long" => d.next.cooldown >= s.cooldown - 1

LEMMA CashFields ==
  /\ Cash \in SimType /\ ~ Cash.long /\ Cash.age = 0 /\ Cash.cooldown = 0
  /\ \A n \in Nat : /\ [Cash EXCEPT !.cooldown = n] \in SimType
                    /\ ~ [Cash EXCEPT !.cooldown = n].long
                    /\ [Cash EXCEPT !.cooldown = n].cooldown = n
  /\ \A x \in {"none", "trend", "mean_reversion"} :
       LET entered == [Cash EXCEPT !.long = TRUE, !.specialist = x] IN
       entered \in SimType /\ entered.long /\ entered.age = 0
  /\ \A long \in BOOLEAN : /\ [Cash EXCEPT !.long = long] \in SimType
                           /\ [Cash EXCEPT !.long = long].long = long
BY DEF Cash, SimType

LEMMA DecideCashMoves ==
  ASSUME NEW s \in SimType, ~ s.long, NEW o
  PROVE  MovesPosition(s, DecideCash(s, o)) /\ Counts(s, DecideCash(s, o))
<1> DEFINE d == DecideCash(s, o)
           x == Specialist(Regime(o))
<1>0. s.cooldown \in Nat /\ x \in {"none", "trend", "mean_reversion"}
  BY DEF SimType, Specialist
<1> HIDE DEF x
<1>1. CASE s.cooldown > 0
  <2>1. d = [action |-> "remain_in_cash", next |-> [Cash EXCEPT !.cooldown = s.cooldown - 1]]
    BY <1>1 DEF DecideCash
  <2>2. d.action = "remain_in_cash" /\ d.next = [Cash EXCEPT !.cooldown = s.cooldown - 1]
    BY <2>1
  <2>3. s.cooldown - 1 \in Nat
    BY <1>0, <1>1
  <2> HIDE DEF d
  <2>4. d.next \in SimType /\ ~ d.next.long /\ d.next.cooldown = s.cooldown - 1
    BY <2>2, <2>3, CashFields
  <2>5. MovesPosition(s, d) /\ Counts(s, d)
    BY <1>0, <2>2, <2>4 DEF MovesPosition, Counts
  <2> QED BY <2>5 DEF d
<1>2. CASE ~ (s.cooldown > 0) /\ Enters(o)
  <2>1. d = [action |-> "enter_long", next |-> [Cash EXCEPT !.long = TRUE, !.specialist = x]]
    BY <1>2 DEF DecideCash, x
  <2>2. d.action = "enter_long" /\ d.next = [Cash EXCEPT !.long = TRUE, !.specialist = x]
    BY <2>1
  <2> HIDE DEF d
  <2>3. d.next \in SimType /\ d.next.long /\ d.next.age = 0
    <3> DEFINE entered == [Cash EXCEPT !.long = TRUE, !.specialist = x]
    <3>1. entered \in SimType /\ entered.long /\ entered.age = 0
      BY <1>0, CashFields
    <3>2. d.next = entered
      BY <2>2
    <3> HIDE DEF entered
    <3> QED BY <3>1, <3>2
  <2>4. s.cooldown = 0
    BY <1>0, <1>2
  <2>5. MovesPosition(s, d) /\ Counts(s, d)
    BY <2>2, <2>3, <2>4 DEF MovesPosition, Counts
  <2> QED BY <2>5 DEF d
<1>3. CASE ~ (s.cooldown > 0) /\ ~ Enters(o)
  <2>1. d = [action |-> "remain_in_cash", next |-> Cash]
    BY <1>3 DEF DecideCash
  <2>2. d.action = "remain_in_cash" /\ d.next = Cash
    BY <2>1
  <2> HIDE DEF d
  <2>3. s.cooldown = 0
    BY <1>0, <1>3
  <2>4. MovesPosition(s, d) /\ Counts(s, d)
    BY <2>2, <2>3, CashFields DEF MovesPosition, Counts
  <2> QED BY <2>4 DEF d
<1> QED BY <1>1, <1>2, <1>3

LEMMA DecideLongMoves ==
  ASSUME request \in Requests, NEW s \in SimType, s.long, NEW o
  PROVE  MovesPosition(s, DecideLong(s, o)) /\ Counts(s, DecideLong(s, o))
<1> DEFINE d == DecideLong(s, o)
<1>0. s.age \in Nat /\ s.streak \in Nat /\ s.cooldown \in Nat
  BY DEF SimType
<1>1. CASE Leaves(s, o)
  <2>1. d = [action |-> "exit_to_cash", next |-> [Cash EXCEPT !.cooldown = request.policy.cooldown]]
    BY <1>1 DEF DecideLong
  <2>2. d.action = "exit_to_cash" /\ d.next = [Cash EXCEPT !.cooldown = request.policy.cooldown]
    BY <2>1
  <2> HIDE DEF d
  <2>3. d.next \in SimType /\ ~ d.next.long /\ d.next.cooldown = request.policy.cooldown
    BY <2>2, CashFields, RequestFacts
  <2>4. MovesPosition(s, d) /\ Counts(s, d)
    BY <2>2, <2>3 DEF MovesPosition, Counts
  <2> QED BY <2>4 DEF d
<1>2. CASE ~ Leaves(s, o)
  <2> DEFINE streak == Streak(s, o)
  <2>1. d = [action |-> "remain_long", next |-> [s EXCEPT !.age = s.age + 1, !.streak = streak]]
    BY <1>2 DEF DecideLong
  <2>2. d.action = "remain_long" /\ d.next = [s EXCEPT !.age = s.age + 1, !.streak = streak]
    BY <2>1
  <2>3. s.age + 1 \in Nat /\ streak \in Nat
    BY <1>0 DEF Streak
  <2> HIDE DEF d, streak
  <2>4. d.next \in SimType /\ d.next.long /\ d.next.age = s.age + 1
    BY <2>2, <2>3 DEF SimType
  <2>5. s.age < request.policy.maximumHold
    BY <1>0, <1>2, RequestFacts DEF Leaves
  <2>6. MovesPosition(s, d) /\ Counts(s, d)
    BY <2>2, <2>4, <2>5 DEF MovesPosition, Counts
  <2> QED BY <2>6 DEF d
<1> QED BY <1>1, <1>2

LEMMA DecideThresholdMoves ==
  ASSUME NEW s \in SimType, NEW o
  PROVE  MovesPosition(s, DecideThreshold(s, o))
<1> DEFINE d == DecideThreshold(s, o)
           p == Probability(o, request.rule)
           long == IF s.long THEN Allowed(o) /\ p > Policy.exit ELSE Allowed(o) /\ p >= Policy.entry
           action == IF long /\ ~ s.long THEN "enter_long"
                     ELSE IF s.long /\ ~ long THEN "exit_to_cash" ELSE "remain"
           next == [Cash EXCEPT !.long = long]
<1>1. d = [action |-> action, next |-> next]
  BY DEF DecideThreshold
<1>2. long \in BOOLEAN /\ s.long \in BOOLEAN
  BY DEF SimType
<1> HIDE DEF long, action, next, d
<1>3. d.action = action /\ d.next = next
  BY <1>1
<1>4. d.next \in SimType /\ (d.next.long <=> long)
  BY <1>2, <1>3, CashFields DEF next
<1>5. MovesPosition(s, d)
  BY <1>2, <1>3, <1>4 DEF MovesPosition, action
<1> QED BY <1>5 DEF d

LEMMA DecideBaselineMoves ==
  ASSUME NEW s \in SimType, NEW o
  PROVE  MovesPosition(s, DecideBaseline(s, o))
<1> DEFINE d == DecideBaseline(s, o)
           said == BaselineAction(o.held, o.should)
           allowed == request.gate \in {"none", Regime(o)}
           enters == ~ s.long /\ allowed /\ said \in {"enter", "hold"}
           leaves == s.long /\ (said = "exit" \/ ~ allowed)
           action == IF enters THEN "enter_long" ELSE IF leaves THEN "exit_to_cash" ELSE "remain"
           long == enters \/ (s.long /\ ~ leaves)
<1>1. d = [action |-> action, next |-> [Cash EXCEPT !.long = long]]
  BY DEF DecideBaseline
<1>2. long \in BOOLEAN /\ (enters => ~ s.long /\ long) /\ (leaves => s.long /\ ~ long)
      /\ (~ enters /\ ~ leaves => (long <=> s.long))
  OBVIOUS
<1> HIDE DEF enters, leaves, long, action
<1>3. d.action = action /\ d.next = [Cash EXCEPT !.long = long]
  BY <1>1
<1> HIDE DEF d
<1>4. d.next \in SimType /\ (d.next.long <=> long)
  BY <1>2, <1>3, CashFields
<1>5. MovesPosition(s, d)
  BY <1>2, <1>3, <1>4 DEF MovesPosition, action
<1> QED BY <1>5 DEF d

LEMMA DecisionMoves ==
  ASSUME request \in Requests, NEW s \in SimType, NEW o
  PROVE  /\ MovesPosition(s, Decision(s, o))
         /\ request.rule = "candidate" => Counts(s, Decision(s, o))
BY DecideBaselineMoves, DecideThresholdMoves, DecideLongMoves, DecideCashMoves DEF Decision
(* The clocks of a candidate's position: its age is the distance to its    *)
(* entry, and what is left of the cooldown after an unbroken exit.         *)
Held(es, s, i) ==
  /\ s.long => i - es[Len(es)].at = s.age /\ s.age <= request.policy.maximumHold
  /\ ~ s.long /\ Len(es) > 0 /\ Unbroken(es[Len(es)].at, i) =>
       i - es[Len(es)].at + s.cooldown >= request.policy.cooldown

(* A schedule that knows the candles up to i, and the position s at it.    *)
Ready(es, s, i) ==
  /\ Sound(es) /\ Until(es, i)
  /\ \A b \in request.boundaries : b <= i => Closed(es, b)
  /\ s \in SimType /\ (s.long <=> ~ InCash(es))
  /\ request.rule = "candidate" => Paced(es) /\ Held(es, s, i)

Finished ==
  /\ Sound(events) /\ Until(events, LastDecision) /\ InCash(events)
  /\ \A b \in request.boundaries : Closed(events, b)
  /\ request.rule = "candidate" => Paced(events)

ScheduleInv ==
  /\ request \in Requests
  /\ previous \in {-1} \cup request.decisions
  /\ IF scheduled THEN Finished ELSE Ready(events, sim, previous)

LEMMA NothingYet ==
  /\ Sound(<<>>) /\ InCash(<<>>) /\ Paced(<<>>)
  /\ \A i : Until(<<>>, i) /\ Closed(<<>>, i)
BY DEF Sound, InOrder, Answered, InCash, Paced, Until, Closed

LEMMA InitSchedule == ScheduleInit => ScheduleInv
<1> SUFFICES ASSUME ScheduleInit PROVE ScheduleInv
  OBVIOUS
<1>1. Held(<<>>, Cash, -1)
  BY CashFields DEF Held
<1> QED BY <1>1, NothingYet, CashFields DEF ScheduleInit, ScheduleInv, Ready

LEMMA IndexFacts ==
  ASSUME ScheduleInv, Pending # {}
  PROVE  /\ Index \in request.decisions /\ Index \in Nat /\ previous < Index /\ previous \in Int
         /\ \A j \in request.decisions : previous < j => Index <= j
<1>1. request.decisions \subseteq Nat /\ previous \in Int /\ previous >= -1
  BY RequestFacts DEF ScheduleInv
<1>2. Pending \subseteq Nat
  BY <1>1 DEF Pending
<1>3. \E m \in Pending : \A n \in Pending : m <= n
  BY <1>2, LeastElement
<1>4. Index \in Pending /\ \A n \in Pending : Index <= n
  BY <1>3 DEF Index, Min
<1> QED BY <1>1, <1>2, <1>4 DEF Pending

LEMMA LongIs ==
  ASSUME NEW es, Sound(es)
  PROVE  ~ InCash(es) <=> Len(es) > 0 /\ es[Len(es)].action = "enter_long"
<1>1. es \in Seq(EventType) /\ Len(es) \in Nat
  BY DEF Sound
<1>2. Len(es) > 0 => es[Len(es)].action \in {"enter_long", "exit_to_cash"}
  BY <1>1, EventFacts
<1> QED BY <1>2 DEF InCash

(* A candle that is no decision, or a boundary, breaks what reaches it.    *)
LEMMA BreaksAtGap ==
  ASSUME ScheduleInv, Pending # {}, ~ Contiguous(Index), NEW x \in Nat,
         x <= previous \/ \E b \in CrossedBoundaries(Index) : x < b
  PROVE  ~ Unbroken(x, Index)
<1> DEFINE i == Index
<1>1. /\ i \in Nat /\ previous \in Int /\ previous < i /\ previous # -1
      /\ \A j \in request.decisions : previous < j => i <= j
  BY IndexFacts DEF Contiguous
<1>2. previous \in Nat /\ request.latency \in Nat /\ request.boundaries \subseteq Nat
  BY <1>1, RequestFacts DEF ScheduleInv
<1>3. \A b \in CrossedBoundaries(i) : b \in request.boundaries /\ previous < b /\ b <= i
  BY DEF CrossedBoundaries
<1> HIDE DEF i
<1>4. CASE \E b \in CrossedBoundaries(i) : x < b
  <2>1. PICK b \in CrossedBoundaries(i) : x < b
    BY <1>4
  <2>2. b \in request.boundaries /\ b \in Nat /\ b <= i + request.latency + 1
    BY <1>1, <1>2, <1>3, <2>1
  <2>3. ~ Unbroken(x, i)
    BY <1>1, <1>2, <2>1, <2>2 DEF Unbroken
  <2> QED BY <2>3 DEF i
<1>5. CASE CrossedBoundaries(i) = {}
  <2>1. i # previous + 1
    BY <1>5 DEF Contiguous, i
  <2>2. previous + 1 \notin request.decisions /\ x <= previous
    BY <1>1, <1>2, <1>5, <2>1 DEF i
  <2>3. previous + 1 \in x .. i
    BY <1>1, <1>2, <2>1, <2>2
  <2>4. ~ Unbroken(x, i)
    BY <2>2, <2>3 DEF Unbroken
  <2> QED BY <2>4 DEF i
<1>6. CASE CrossedBoundaries(i) # {} /\ x <= previous
  <2>1. PICK b \in CrossedBoundaries(i) : TRUE
    BY <1>6
  <2>2. x < b
    BY <1>2, <1>3, <1>6, <2>1
  <2> QED BY <1>4, <2>2
<1> QED BY <1>4, <1>5, <1>6 DEF i

(* What the gap and the boundaries before a prediction leave of the        *)
(* schedule: it is in cash unless the prediction follows at once.          *)
LEMMA GapPrepares ==
  ASSUME ScheduleInv, ~ scheduled, Pending # {}, ~ Contiguous(Index)
  PROVE  LET es == EventsBefore(Index) IN
         /\ Sound(es) /\ Until(es, Index - 1) /\ InCash(es)
         /\ \A b \in request.boundaries : b <= Index => Closed(es, b)
         /\ request.rule = "candidate" => Paced(es)
         /\ Len(es) > 0 => ~ Unbroken(es[Len(es)].at, Index)
<1> DEFINE i == Index
           es == EventsBefore(i)
           B == CrossedBoundaries(i)
           lat == request.latency
<1>1. /\ i \in Nat /\ previous \in Int /\ previous < i /\ previous # -1
      /\ \A j \in request.decisions : previous < j => i <= j
  BY IndexFacts DEF Contiguous
<1>2. /\ previous \in Nat /\ lat \in Nat /\ request.boundaries \subseteq Nat
      /\ Ready(events, sim, previous)
  BY <1>1, RequestFacts DEF ScheduleInv
<1>3. \A b \in B : b \in request.boundaries /\ b \in Nat /\ previous < b /\ b <= i
  BY <1>2 DEF CrossedBoundaries
<1>4. \A b \in request.boundaries : b <= i => b <= previous \/ b \in B
  BY <1>1, <1>2 DEF CrossedBoundaries
<1>5. /\ Sound(events) /\ Until(events, previous) /\ (sim.long <=> ~ InCash(events))
      /\ \A b \in request.boundaries : b <= previous => Closed(events, b)
      /\ request.rule = "candidate" => Paced(events) /\ Held(events, sim, previous)
  BY <1>2 DEF Ready
<1>6. CASE B # {}
  <2>1. es = ForceCashAll(events, B)
    BY <1>6 DEF EventsBefore
  <2>2. B \in SUBSET request.boundaries /\ Bounded(B)
    <3>1. B \subseteq 0 .. i
      BY <1>1, <1>3
    <3> QED BY <1>1, <1>3, <3>1 DEF Bounded
  <2> HIDE DEF B, es, lat
  <2>3. Forced(events, es, B)
    BY <1>2, <1>5, <2>1, <2>2, ForceCashAllForces DEF lat
  <2>4. PICK b \in B : Until(es, b - 2 - lat)
    BY <1>6, <2>3 DEF Forced, lat
  <2>5. Sound(es) /\ InCash(es) /\ (Paced(events) => Paced(es))
    BY <1>6, <2>3 DEF Forced
  <2>6. es \in Seq(EventType) /\ DOMAIN es = 1 .. Len(es) /\ Len(es) \in Nat
        /\ \A k \in DOMAIN es : es[k].at \in Nat
    BY <2>5, EventFacts DEF Sound
  <2>7. \A k \in DOMAIN es : es[k].at < b /\ es[k].at <= i - 1
    <3> SUFFICES ASSUME NEW k \in DOMAIN es PROVE es[k].at < b /\ es[k].at <= i - 1
      OBVIOUS
    <3>1. es[k].at <= b - 2 - lat
      BY <2>4 DEF Until
    <3> QED BY <1>1, <1>2, <1>3, <2>6, <3>1
  <2>8. \A c \in request.boundaries : c <= i => Closed(es, c)
    <3> SUFFICES ASSUME NEW c \in request.boundaries, c <= i PROVE Closed(es, c)
      OBVIOUS
    <3>1. CASE c \in B
      BY <2>3, <3>1 DEF Forced
    <3>2. CASE c <= previous
      BY <1>2, <1>5, <2>3, <3>2 DEF Forced
    <3> QED BY <1>4, <3>1, <3>2
  <2>9. Len(es) > 0 => ~ Unbroken(es[Len(es)].at, i)
    <3> SUFFICES ASSUME Len(es) > 0 PROVE ~ Unbroken(es[Len(es)].at, i)
      OBVIOUS
    <3>1. Len(es) \in DOMAIN es
      BY <2>6
    <3> QED BY <2>6, <2>7, <3>1, BreaksAtGap DEF B
  <2> QED BY <1>5, <2>5, <2>7, <2>8, <2>9 DEF Until, es
<1>7. CASE B = {} /\ ~ sim.long
  <2>1. es = events
    BY <1>7 DEF EventsBefore
  <2>2. events \in Seq(EventType) /\ DOMAIN events = 1 .. Len(events) /\ Len(events) \in Nat
        /\ \A k \in DOMAIN events : events[k].at \in Nat /\ events[k].at <= previous
    BY <1>5, EventFacts DEF Sound, Until
  <2>3. Until(events, i - 1)
    BY <1>1, <2>2 DEF Until
  <2>4. \A c \in request.boundaries : c <= i => Closed(events, c)
    BY <1>4, <1>5, <1>7
  <2>5. Len(events) > 0 => ~ Unbroken(events[Len(events)].at, i)
    BY <2>2, BreaksAtGap
  <2> HIDE DEF es, i
  <2>6. /\ Sound(es) /\ Until(es, i - 1) /\ InCash(es)
        /\ \A c \in request.boundaries : c <= i => Closed(es, c)
        /\ request.rule = "candidate" => Paced(es)
        /\ Len(es) > 0 => ~ Unbroken(es[Len(es)].at, i)
    BY <1>5, <1>7, <2>1, <2>3, <2>4, <2>5
  <2> QED BY <2>6 DEF es, i
<1>8. CASE B = {} /\ sim.long
  <2>1. es = CloseBeforeGap(events)
    BY <1>8 DEF EventsBefore
  <2> DEFINE n == Len(events)
  <2>2. events \in Seq(EventType) /\ n \in Nat /\ n > 0 /\ DOMAIN events = 1 .. n
        /\ events[n].action = "enter_long" /\ events # <<>>
        /\ \A k \in DOMAIN events : events[k].at \in Nat /\ events[k].at <= previous
    <3>1. n > 0 /\ events[n].action = "enter_long"
      BY <1>5, <1>8, LongIs
    <3>2. events \in Seq(EventType) /\ n \in Nat /\ DOMAIN events = 1 .. n
          /\ \A k \in DOMAIN events : events[k].at \in Nat /\ events[k].at <= previous
      BY <1>5, EventFacts DEF Sound, Until
    <3> QED BY <3>1, <3>2
  <2>3. CASE events[n] = Event(previous, "enter_long")
    <3> DEFINE r == [k \in 1 .. n - 1 |-> events[k]]
    <3>1. WithoutEntryAt(events, previous) = r
      <4>1. WithoutEntryAt(events, previous) = SubSeq(events, 1, n - 1)
        BY <2>2, <2>3 DEF WithoutEntryAt, Last, Front
      <4> QED BY <2>2, <4>1
    <3>2. r # events
      <4>1. DOMAIN r = 1 .. n - 1
        OBVIOUS
      <4>2. n \notin 1 .. n - 1 /\ n \in DOMAIN events
        BY <2>2
      <4> QED BY <4>1, <4>2
    <3>3. es = r
      BY <2>1, <3>1, <3>2 DEF CloseBeforeGap
    <3>4. /\ Sound(r) /\ InCash(r) /\ Len(r) = n - 1
          /\ \A k \in DOMAIN r : r[k] = events[k] /\ events[k].at < events[n].at
          /\ \A c : Closed(events, c) => Closed(r, c)
          /\ Paced(events) => Paced(r)
      BY <1>5, <2>2, WithdrawKeeps
    <3> HIDE DEF r, n
    <3>5. \A k \in DOMAIN r : r[k].at \in Nat /\ r[k].at <= previous
      <4>1. r \in Seq(EventType) /\ DOMAIN r = 1 .. Len(r)
        BY <3>4 DEF Sound
      <4>2. \A k \in DOMAIN r : k \in DOMAIN events
        BY <2>2, <3>4, <4>1
      <4> QED BY <2>2, <3>4, <4>2
    <3>6. Until(r, i - 1)
      BY <1>1, <3>5 DEF Until
    <3>7. \A c \in request.boundaries : c <= i => Closed(r, c)
      BY <1>4, <1>5, <1>8, <3>4
    <3>8. Len(r) > 0 => ~ Unbroken(r[Len(r)].at, i)
      <4> SUFFICES ASSUME Len(r) > 0 PROVE ~ Unbroken(r[Len(r)].at, i)
        OBVIOUS
      <4>1. Len(r) \in DOMAIN r
        BY <3>4 DEF Sound
      <4> QED BY <3>5, <4>1, BreaksAtGap
    <3> HIDE DEF es, i
    <3>9. /\ Sound(es) /\ Until(es, i - 1) /\ InCash(es)
          /\ \A c \in request.boundaries : c <= i => Closed(es, c)
          /\ request.rule = "candidate" => Paced(es)
          /\ Len(es) > 0 => ~ Unbroken(es[Len(es)].at, i)
      BY <1>5, <3>3, <3>4, <3>6, <3>7, <3>8
    <3> QED BY <3>9 DEF es, i
  <2>4. CASE events[n] # Event(previous, "enter_long")
    <3> DEFINE r == Append(events, Event(previous, "exit_to_cash"))
    <3>1. es = r
      <4>1. WithoutEntryAt(events, previous) = events
        BY <2>2, <2>4 DEF WithoutEntryAt, Last
      <4> QED BY <2>1, <4>1 DEF CloseBeforeGap
    <3>2. events[n].at # previous
      <4>1. events[n] \in EventType /\ events[n] = Event(events[n].at, events[n].action)
        BY <2>2, EventFacts
      <4> QED BY <2>2, <2>4, <4>1
    <3>3. Until(events, previous - 1)
      <4> SUFFICES ASSUME NEW k \in DOMAIN events PROVE events[k].at <= previous - 1
        BY DEF Until
      <4>1. n \in DOMAIN events /\ events[n].at < previous /\ events[n].at \in Nat
        BY <1>2, <2>2, <3>2
      <4>2. k # n => events[k].at < events[n].at
        BY <1>5, <2>2 DEF Sound, InOrder
      <4> QED BY <1>2, <2>2, <4>1, <4>2
    <3> DEFINE action == "exit_to_cash"
    <3>4. action \in {"enter_long", "exit_to_cash"} /\ (action = "enter_long" => InCash(events))
          /\ r = Append(events, Event(previous, action))
      OBVIOUS
    <3> HIDE DEF r, n, action
    <3>5. /\ Sound(r) /\ Until(r, previous) /\ Len(r) = Len(events) + 1
          /\ r[Len(r)] = Event(previous, action)
          /\ \A c \in Nat : c <= previous /\ Closed(events, c) => Closed(r, c)
          /\ Paced(events) /\ PacedNext(events, previous, action) => Paced(r)
      <4>1. MayFollow(events, previous, action)
        BY <1>2, <1>5, <3>3, <3>4 DEF MayFollow
      <4>2. Follows(events, previous, action, r)
        BY <3>4, <4>1, AppendKeeps
      <4> QED BY <4>2 DEF Follows
    <3>6. r[Len(r)].action = "exit_to_cash" /\ r[Len(r)].at = previous
      BY <3>5, EventFacts DEF action
    <3>7. request.rule = "candidate" => Paced(r)
      <4> SUFFICES ASSUME request.rule = "candidate" PROVE Paced(r)
        OBVIOUS
      <4>1. /\ previous - events[n].at = sim.age /\ sim.age <= request.policy.maximumHold
            /\ Paced(events)
        BY <1>5, <1>8 DEF Held, n
      <4>2. events[n].at \in Nat /\ request.policy.maximumHold \in Nat
        BY <2>2, RequestFacts DEF ScheduleInv
      <4>3. previous - events[n].at <= request.policy.maximumHold + 1
        BY <1>2, <4>1, <4>2
      <4>4. PacedNext(events, previous, action)
        BY <2>2, <4>3 DEF PacedNext, n
      <4> QED BY <3>5, <4>1, <4>4
    <3>8. \A c \in request.boundaries : c <= i => Closed(r, c)
      BY <1>2, <1>4, <1>5, <1>8, <3>5
    <3>9. Until(r, i - 1)
      <4>1. \A k \in DOMAIN r : r[k].at \in Nat /\ r[k].at <= previous
        BY <3>5, EventFacts DEF Sound, Until
      <4> QED BY <1>1, <4>1 DEF Until
    <3>10. ~ Unbroken(r[Len(r)].at, i)
      BY <1>2, <3>6, BreaksAtGap
    <3> HIDE DEF es, i
    <3>11. /\ Sound(es) /\ Until(es, i - 1) /\ InCash(es)
           /\ \A c \in request.boundaries : c <= i => Closed(es, c)
           /\ request.rule = "candidate" => Paced(es)
           /\ Len(es) > 0 => ~ Unbroken(es[Len(es)].at, i)
      BY <1>5, <3>1, <3>5, <3>6, <3>7, <3>8, <3>9, <3>10 DEF InCash
    <3> QED BY <3>11 DEF es, i
  <2> QED BY <2>3, <2>4
<1> QED BY <1>6, <1>7, <1>8, <1>5, <1>2 DEF Ready, SimType

(* A position s before candle i, and the schedule it goes with: both are   *)
(* ready for the decision of the candle.                                   *)
Clocks(es, s, i) ==
  /\ s.long => i - 1 - es[Len(es)].at = s.age /\ s.age <= request.policy.maximumHold
  /\ ~ s.long /\ Len(es) > 0 /\ Unbroken(es[Len(es)].at, i) =>
       i - 1 - es[Len(es)].at + s.cooldown >= request.policy.cooldown
Joins(es, s, i) ==
  /\ Sound(es) /\ i \in Nat /\ Until(es, i - 1)
  /\ \A b \in request.boundaries : b <= i => Closed(es, b)
  /\ s \in SimType /\ (s.long <=> ~ InCash(es))
  /\ request.rule = "candidate" => Paced(es) /\ Clocks(es, s, i)

LEMMA GapJoins ==
  ASSUME ScheduleInv, ~ scheduled, Pending # {}, ~ Contiguous(Index)
  PROVE  Joins(EventsBefore(Index), Cash, Index)
<1> DEFINE es == EventsBefore(Index)
           i == Index
<1>1. i \in Nat
  BY IndexFacts
<1>2. /\ Sound(es) /\ Until(es, i - 1) /\ InCash(es)
      /\ \A b \in request.boundaries : b <= i => Closed(es, b)
      /\ request.rule = "candidate" => Paced(es)
      /\ Len(es) > 0 => ~ Unbroken(es[Len(es)].at, i)
  BY GapPrepares
<1> HIDE DEF es, i
<1>3. Clocks(es, Cash, i)
  BY <1>2, CashFields DEF Clocks
<1>4. Joins(es, Cash, i)
  BY <1>1, <1>2, <1>3, CashFields DEF Joins
<1> QED BY <1>4 DEF es, i

LEMMA ContiguousJoins ==
  ASSUME ScheduleInv, ~ scheduled, Pending # {}, Contiguous(Index)
  PROVE  Joins(EventsBefore(Index), sim, Index)
<1> DEFINE i == Index
<1>1. i \in Nat /\ previous \in Int /\ previous >= -1 /\ previous < i
      /\ request.boundaries \subseteq Nat /\ Ready(events, sim, previous)
  BY IndexFacts, RequestFacts DEF ScheduleInv
<1>2. CrossedBoundaries(i) = {} /\ (previous = -1 \/ i = previous + 1)
  BY DEF Contiguous, CrossedBoundaries
<1>3. EventsBefore(i) = events
  BY <1>2 DEF EventsBefore
<1>4. /\ Sound(events) /\ Until(events, previous) /\ (sim.long <=> ~ InCash(events)) /\ sim \in SimType
      /\ \A b \in request.boundaries : b <= previous => Closed(events, b)
      /\ request.rule = "candidate" => Paced(events) /\ Held(events, sim, previous)
  BY <1>1 DEF Ready
<1>5. events \in Seq(EventType) /\ DOMAIN events = 1 .. Len(events) /\ Len(events) \in Nat
      /\ \A k \in DOMAIN events : events[k].at \in Nat /\ events[k].at <= previous
  BY <1>4, EventFacts DEF Sound, Until
<1>6. CASE previous = -1
  <2>1. events = <<>> /\ ~ sim.long
    <3>1. \A k \in DOMAIN events : FALSE
      BY <1>5, <1>6
    <3>2. Len(events) = 0
      BY <1>5, <3>1
    <3> QED BY <1>4, <1>5, <3>2 DEF InCash
  <2>2. Clocks(events, sim, i)
    BY <2>1 DEF Clocks
  <2>3. Joins(events, sim, i)
    BY <1>1, <1>4, <2>1, <2>2, NothingYet DEF Joins
  <2> QED BY <1>3, <2>3
<1>7. CASE i = previous + 1 /\ previous \in Nat
  <2>1. \A b \in request.boundaries : b <= i => Closed(events, b)
    <3> SUFFICES ASSUME NEW b \in request.boundaries, b <= i PROVE Closed(events, b)
      OBVIOUS
    <3>1. b \in Nat /\ ~ (previous < b /\ b <= i)
      BY <1>1, <1>2, <1>7 DEF CrossedBoundaries
    <3> QED BY <1>4, <1>7, <3>1
  <2>2. request.rule = "candidate" => Clocks(events, sim, i)
    <3> SUFFICES ASSUME request.rule = "candidate" PROVE Clocks(events, sim, i)
      OBVIOUS
    <3>1. Held(events, sim, previous) /\ i - 1 = previous
      BY <1>4, <1>7
    <3>2. \A x \in Nat : Unbroken(x, i) => Unbroken(x, previous)
      <4> SUFFICES ASSUME NEW x \in Nat, Unbroken(x, i) PROVE Unbroken(x, previous)
        OBVIOUS
      <4>1. \A n \in x .. previous : n \in x .. i
        BY <1>7
      <4>2. \A b \in request.boundaries :
              b <= previous + 1 + request.latency + 1 => b <= i + 1 + request.latency + 1
        BY <1>1, <1>7, RequestFacts DEF ScheduleInv
      <4> HIDE DEF i
      <4> QED BY <4>1, <4>2 DEF Unbroken
    <3>3. Len(events) > 0 => events[Len(events)].at \in Nat
      BY <1>5
    <3> HIDE DEF i
    <3> QED BY <1>4, <3>1, <3>2, <3>3 DEF Clocks, Held
  <2>3. Until(events, i - 1)
    BY <1>4, <1>7
  <2> HIDE DEF i
  <2>4. Joins(events, sim, i)
    BY <1>1, <1>4, <2>1, <2>2, <2>3 DEF Joins
  <2> QED BY <1>3, <2>4 DEF i
<1> QED BY <1>1, <1>2, <1>6, <1>7

(* The schedule after the decision d of candle i.                          *)
After(es, d, i) ==
  IF d.action \in {"enter_long", "exit_to_cash"} THEN Append(es, Event(i, d.action)) ELSE es

LEMMA DecisionKeeps ==
  ASSUME request \in Requests, NEW es, NEW s, NEW i, Joins(es, s, i), NEW d,
         MovesPosition(s, d), request.rule = "candidate" => Counts(s, d)
  PROVE  Ready(After(es, d, i), d.next, i)
<1>1. /\ Sound(es) /\ i \in Nat /\ Until(es, i - 1)
      /\ \A b \in request.boundaries : b <= i => Closed(es, b)
      /\ s \in SimType /\ (s.long <=> ~ InCash(es))
      /\ request.rule = "candidate" => Paced(es) /\ Clocks(es, s, i)
  BY DEF Joins
<1>2. /\ request.boundaries \subseteq Nat
      /\ request.policy.maximumHold \in Nat /\ request.policy.cooldown \in Nat
  BY RequestFacts
<1>3. es \in Seq(EventType) /\ DOMAIN es = 1 .. Len(es) /\ Len(es) \in Nat
      /\ \A k \in DOMAIN es : es[k].at \in Nat /\ es[k].at <= i - 1
  BY <1>1, EventFacts DEF Sound, Until
<1>4. /\ s.long \in BOOLEAN /\ s.age \in Nat /\ s.cooldown \in Nat
      /\ d.next \in SimType /\ d.next.long \in BOOLEAN /\ d.next.age \in Nat /\ d.next.cooldown \in Nat
  BY <1>1 DEF SimType, MovesPosition
<1> DEFINE x == es[Len(es)].at
           n == Len(es)
<1>5. ~ InCash(es) <=> n > 0 /\ es[n].action = "enter_long"
  BY <1>1, LongIs
<1>6. n > 0 => x \in Nat
  BY <1>3
<1>7. CASE d.action \in {"enter_long", "exit_to_cash"}
  <2> DEFINE r == After(es, d, i)
             action == d.action
  <2>1. r = Append(es, Event(i, action))
    BY <1>7 DEF After
  <2>2. MayFollow(es, i, action)
    BY <1>1, <1>7 DEF MayFollow, MovesPosition
  <2> HIDE DEF r
  <2>3. Follows(es, i, action, r)
    BY <2>1, <2>2, AppendKeeps
  <2>4. /\ Sound(r) /\ Until(r, i) /\ Len(r) = Len(es) + 1 /\ r[Len(r)] = Event(i, action)
        /\ \A c \in Nat : c <= i /\ Closed(es, c) => Closed(r, c)
        /\ Paced(es) /\ PacedNext(es, i, action) => Paced(r)
    BY <2>3 DEF Follows
  <2>5. r[Len(r)].at = i /\ r[Len(r)].action = action /\ Len(r) > 0
    BY <1>3, <2>4, EventFacts
  <2>6. d.next.long <=> ~ InCash(r)
    BY <1>7, <2>5 DEF InCash, MovesPosition
  <2>7. ASSUME request.rule = "candidate" PROVE Paced(r) /\ Held(r, d.next, i)
    <3>1. Counts(s, d) /\ Paced(es) /\ Clocks(es, s, i)
      BY <1>1, <2>7
    <3>2. CASE action = "enter_long"
      <4>1. s.cooldown = 0 /\ ~ s.long /\ d.next.age = 0 /\ d.next.long
        BY <3>1, <3>2 DEF Counts, MovesPosition
      <4>2. Len(es) > 0 /\ Unbroken(x, i) => i - 1 - x >= request.policy.cooldown
        <5>1. Len(es) > 0 /\ Unbroken(x, i) => i - 1 - x + s.cooldown >= request.policy.cooldown
          BY <3>1, <4>1 DEF Clocks
        <5> HIDE DEF x
        <5>2. n > 0 => i - 1 - x + 0 = i - 1 - x
          BY <1>1, <1>6
        <5> QED BY <4>1, <5>1, <5>2
      <4>3. ~ (n > 0 /\ es[n].action = "enter_long")
        BY <1>1, <1>5, <4>1
      <4>4. n > 0 => es[n].action = "exit_to_cash"
        BY <1>3, <4>3, EventFacts
      <4>5. Len(es) > 0 /\ Unbroken(x, i) => i - x > request.policy.cooldown
        BY <1>1, <1>2, <1>6, <4>2
      <4>6. PacedNext(es, i, action)
        BY <4>4, <4>5 DEF PacedNext
      <4>7. Held(r, d.next, i)
        BY <1>1, <1>2, <2>5, <4>1 DEF Held
      <4> QED BY <2>4, <3>1, <4>6, <4>7
    <3>3. CASE action = "exit_to_cash"
      <4>1. s.long /\ ~ d.next.long /\ d.next.cooldown = request.policy.cooldown
        BY <3>1, <3>3 DEF Counts, MovesPosition
      <4>2. i - 1 - x = s.age /\ s.age <= request.policy.maximumHold
        BY <3>1, <4>1 DEF Clocks
      <4>3. n > 0 /\ es[n].action = "enter_long"
        BY <1>1, <1>5, <4>1
      <4>4. i - x <= request.policy.maximumHold + 1
        BY <1>1, <1>2, <1>4, <1>6, <4>2, <4>3
      <4>5. PacedNext(es, i, action)
        BY <4>3, <4>4 DEF PacedNext
      <4>6. Held(r, d.next, i)
        BY <1>1, <1>2, <2>5, <4>1 DEF Held
      <4> QED BY <2>4, <3>1, <4>5, <4>6
    <3> QED BY <1>7, <3>2, <3>3
  <2>8. \A b \in request.boundaries : b <= i => Closed(r, b)
    BY <1>1, <1>2, <2>4
  <2>9. Ready(r, d.next, i)
    BY <1>4, <2>4, <2>6, <2>7, <2>8 DEF Ready
  <2> QED BY <2>9 DEF r
<1>8. CASE d.action \notin {"enter_long", "exit_to_cash"}
  <2>1. After(es, d, i) = es
    BY <1>8 DEF After
  <2>2. d.next.long <=> s.long
    BY <1>8 DEF MovesPosition
  <2>3. Until(es, i)
    BY <1>1, <1>3 DEF Until
  <2>4. ASSUME request.rule = "candidate" PROVE Held(es, d.next, i)
    <3>1. Counts(s, d) /\ Clocks(es, s, i) /\ d.action # "exit_to_cash" /\ d.action # "enter_long"
      BY <1>1, <1>8, <2>4
    <3>2. CASE s.long
      <4>1. i - 1 - x = s.age /\ s.age < request.policy.maximumHold /\ d.next.age = s.age + 1 /\ d.next.long
        BY <2>2, <3>1, <3>2 DEF Clocks, Counts
      <4>2. n > 0
        BY <1>1, <1>5, <3>2
      <4>3. i - x = d.next.age /\ d.next.age <= request.policy.maximumHold
        BY <1>1, <1>2, <1>4, <1>6, <4>1, <4>2
      <4> QED BY <4>1, <4>3 DEF Held
    <3>3. CASE ~ s.long
      <4>1. d.next.cooldown >= s.cooldown - 1 /\ ~ d.next.long
        BY <2>2, <3>1, <3>3 DEF Counts
      <4>2. Len(es) > 0 /\ Unbroken(x, i) => i - 1 - x + s.cooldown >= request.policy.cooldown
        BY <3>1, <3>3 DEF Clocks
      <4>3. Len(es) > 0 /\ Unbroken(x, i) => i - x + d.next.cooldown >= request.policy.cooldown
        <5> DEFINE before == s.cooldown
                   after == d.next.cooldown
                   wait == request.policy.cooldown
        <5>1. before \in Nat /\ after \in Nat /\ wait \in Nat /\ after >= before - 1
          BY <1>2, <1>4, <4>1
        <5>2. n > 0 /\ Unbroken(x, i) => i - 1 - x + before >= wait
          BY <4>2
        <5> HIDE DEF before, after, wait, x
        <5>3. n > 0 /\ Unbroken(x, i) => i - x + after >= wait
          BY <1>1, <1>6, <5>1, <5>2
        <5> QED BY <5>3 DEF before, after, wait, x
      <4> QED BY <4>1, <4>3 DEF Held
    <3> QED BY <3>2, <3>3
  <2>5. Ready(es, d.next, i)
    BY <1>1, <1>4, <2>2, <2>3, <2>4 DEF Ready
  <2> QED BY <2>1, <2>5
<1> QED BY <1>7, <1>8

LEMMA PredictKeeps ==
  ASSUME ScheduleInv, NEW o, Predict(o)
  PROVE  ScheduleInv'
<1> DEFINE i == Index
           s == IF Contiguous(i) THEN sim ELSE Cash
           d == Decision(s, o)
           es == EventsBefore(i)
<1>1. /\ ~ scheduled /\ Pending # {} /\ request \in Requests
      /\ events' = After(es, d, i) /\ sim' = d.next /\ previous' = i
      /\ request' = request /\ scheduled' = scheduled
  BY DEF Predict, After, ScheduleInv
<1>2. i \in request.decisions
  BY <1>1, IndexFacts
<1>3. Joins(es, s, i)
  BY <1>1, GapJoins, ContiguousJoins
<1>4. s \in SimType
  BY <1>3 DEF Joins
<1> HIDE DEF i, s, es
<1>5. MovesPosition(s, d) /\ (request.rule = "candidate" => Counts(s, d))
  BY <1>1, <1>4, DecisionMoves
<1> HIDE DEF d
<1>6. Ready(After(es, d, i), d.next, i)
  BY <1>1, <1>3, <1>5, DecisionKeeps
<1>7. Ready(events', sim', previous')
  BY <1>1, <1>6
<1>8. Ready(events, sim, previous)'
  BY <1>1, <1>7 DEF Ready, Sound, Until, Closed, Paced, Held, Unbroken, InCash
<1> QED BY <1>1, <1>2, <1>8 DEF ScheduleInv

LEMMA LastIs ==
  ASSUME ScheduleInv, Pending = {}
  PROVE  LastDecision = previous /\ previous \in Nat /\ previous \in request.decisions
<1>1. request.decisions \subseteq Nat /\ request.decisions # {} /\ previous \in Int
      /\ previous \in {-1} \cup request.decisions
  BY RequestFacts DEF ScheduleInv
<1>2. \A j \in request.decisions : j <= previous
  BY <1>1 DEF Pending
<1>3. previous \in request.decisions
  BY <1>1, <1>2
<1>4. \A m \in request.decisions : (\A n \in request.decisions : m >= n) => m = previous
  BY <1>1, <1>2, <1>3
<1>5. LastDecision = previous
  BY <1>1, <1>2, <1>3, <1>4 DEF LastDecision, Max
<1> QED BY <1>1, <1>3, <1>5

(* What is kept of a schedule that ends long: all but an entry of the last *)
(* decision.                                                               *)
KeptAtEnd == EventsOf(events, Nat \ {LastDecision})

LEMMA LastKept ==
  ASSUME ScheduleInv, ~ scheduled, Pending = {}, sim.long
  PROVE  /\ Len(events) > 0 /\ events[Len(events)].action = "enter_long"
         /\ events[Len(events)].at = LastDecision =>
              KeptAtEnd = [k \in 1 .. Len(events) - 1 |-> events[k]]
         /\ events[Len(events)].at # LastDecision => KeptAtEnd = events
<1> DEFINE last == LastDecision
           n == Len(events)
           kept == EventsOf(events, Nat \ {last})
<1>0. KeptAtEnd = kept
  BY DEF KeptAtEnd
<1>1. last = previous /\ last \in Nat
  BY LastIs
<1>2. Sound(events) /\ Until(events, last) /\ ~ InCash(events)
  BY <1>1 DEF ScheduleInv, Ready
<1> HIDE DEF last
<1>3. /\ events \in Seq(EventType) /\ n \in Nat /\ n > 0 /\ DOMAIN events = 1 .. n
      /\ n - 1 \in 0 .. n /\ n \in 0 .. n /\ n \in 1 .. n
      /\ events[n].action = "enter_long" /\ InOrder(events)
      /\ \A k \in 1 .. n : events[k].at \in Nat /\ events[k].at <= last
  <2>1. n > 0 /\ events[n].action = "enter_long"
    BY <1>2, LongIs
  <2>2. events \in Seq(EventType) /\ n \in Nat /\ DOMAIN events = 1 .. n /\ InOrder(events)
        /\ \A k \in 1 .. n : events[k].at \in Nat /\ events[k].at <= last
    BY <1>2, EventFacts DEF Sound, Until
  <2> QED BY <2>1, <2>2
<1> HIDE DEF n
<1>4. \A k \in 1 .. n : k # n => events[k].at < events[n].at
  <2>1. \A k \in 1 .. n : k # n => k < n
    BY <1>3
  <2> QED BY <1>3, <2>1 DEF InOrder
<1>5. ASSUME events[n].at = last PROVE kept = [k \in 1 .. n - 1 |-> events[k]]
  <2>1. \A k \in 1 .. n : k # n <=> k <= n - 1
    BY <1>3
  <2>2. \A k \in 1 .. n : events[k].at \in Nat /\ (k # n => events[k].at < last)
    BY <1>3, <1>4, <1>5
  <2>3. \A k \in 1 .. n : events[k].at = last <=> k = n
    BY <1>1, <1>5, <2>2
  <2>4. \A k \in 1 .. n : events[k].at \in Nat \ {last} <=> k <= n - 1
    BY <2>1, <2>2, <2>3
  <2>5. kept = [k \in 1 .. n - 1 |-> events[k]]
    BY <1>3, <2>4, EventsOfBeginning DEF n
  <2> HIDE DEF kept
  <2> QED BY <1>5, <2>5
<1>6. ASSUME events[n].at # last PROVE kept = events
  <2>1. events[n].at \in Nat /\ events[n].at < last
    BY <1>1, <1>3, <1>6
  <2>2. \A k \in 1 .. n : events[k].at \in Nat /\ events[k].at < last
    BY <1>1, <1>3, <1>4, <2>1
  <2>3. \A k \in 1 .. n : events[k].at \in Nat \ {last} <=> k <= n
    BY <1>1, <1>3, <2>2
  <2>4. kept = [k \in 1 .. n |-> events[k]]
    BY <1>3, <2>3, EventsOfBeginning DEF n
  <2> HIDE DEF kept
  <2>5. kept = events
    BY <1>3, <2>4
  <2> QED BY <1>6, <2>5
<1> HIDE DEF kept
<1>7. /\ n > 0 /\ events[n].action = "enter_long"
      /\ events[n].at = last => kept = [k \in 1 .. n - 1 |-> events[k]]
      /\ events[n].at # last => kept = events
  BY <1>3, <1>5, <1>6
<1> QED BY <1>0, <1>7 DEF n, last

(* The end: a position that the loop leaves is closed at the last decision. *)
LEMMA LastCloses ==
  ASSUME ScheduleInv, ~ scheduled, Pending = {}, sim.long,
         NEW es, es = Append(EventsOf(events, Nat \ {LastDecision}), Event(LastDecision, "exit_to_cash"))
  PROVE  /\ Sound(es) /\ Until(es, LastDecision) /\ InCash(es)
         /\ \A b \in request.boundaries : b <= LastDecision => Closed(es, b)
         /\ request.rule = "candidate" => Paced(es)
<1> DEFINE last == LastDecision
           n == Len(events)
           kept == EventsOf(events, Nat \ {last})
           action == "exit_to_cash"
<1>1. last = previous /\ last \in Nat
  BY LastIs
<1>2. Ready(events, sim, last) /\ request \in Requests
  BY <1>1 DEF ScheduleInv
<1> HIDE DEF last
<1>3. /\ Sound(events) /\ Until(events, last) /\ ~ InCash(events)
      /\ \A b \in request.boundaries : b <= last => Closed(events, b)
      /\ request.rule = "candidate" => Paced(events) /\ Held(events, sim, last)
      /\ sim.age \in Nat
  BY <1>2 DEF Ready, SimType
<1>4. /\ events \in Seq(EventType) /\ n \in Nat /\ n > 0 /\ DOMAIN events = 1 .. n
      /\ n - 1 \in 0 .. n /\ n \in 0 .. n /\ n \in 1 .. n
      /\ events[n].action = "enter_long" /\ InOrder(events)
      /\ \A k \in 1 .. n : events[k].at \in Nat /\ events[k].at <= last
  <2>1. n > 0 /\ events[n].action = "enter_long"
    BY <1>3, LongIs
  <2>2. events \in Seq(EventType) /\ n \in Nat /\ DOMAIN events = 1 .. n /\ InOrder(events)
        /\ \A k \in 1 .. n : events[k].at \in Nat /\ events[k].at <= last
    BY <1>3, EventFacts DEF Sound, Until
  <2> QED BY <2>1, <2>2
<1>5. \A k \in 1 .. n : k # n => events[k].at < events[n].at
  <2> HIDE DEF n
  <2>1. \A k \in 1 .. n : k # n => k < n
    BY <1>4
  <2> QED BY <1>4, <2>1 DEF InOrder
<1>6. Sound(kept) /\ Until(kept, last - 1)
      /\ (\A b \in request.boundaries : b <= last => Closed(kept, b))
      /\ (request.rule = "candidate" => Paced(kept) /\ PacedNext(kept, last, action))
  <2>1. CASE events[n].at = last
    <3> DEFINE r == [k \in 1 .. n - 1 |-> events[k]]
    <3>2. kept = r
      BY <2>1, LastKept DEF last, KeptAtEnd
    <3>3. /\ Sound(r) /\ InCash(r) /\ Len(r) = n - 1
          /\ \A k \in DOMAIN r : r[k] = events[k] /\ events[k].at < events[n].at
          /\ \A c : Closed(events, c) => Closed(r, c)
          /\ Paced(events) => Paced(r)
      BY <1>3, <1>4, WithdrawKeeps
    <3> HIDE DEF r, n
    <3>4. DOMAIN r = 1 .. Len(r)
      BY <3>3 DEF Sound
    <3>5. Until(r, last - 1)
      <4>1. \A k \in DOMAIN r : k \in 1 .. n
        BY <1>4, <3>3, <3>4
      <4> QED BY <1>1, <1>4, <2>1, <3>3, <4>1 DEF Until
    <3>6. PacedNext(r, last, action)
      BY <3>3 DEF PacedNext, InCash
    <3> HIDE DEF kept, action
    <3> QED BY <1>3, <3>2, <3>3, <3>5, <3>6
  <2>2. CASE events[n].at # last
    <3>0. \A k \in 1 .. n : events[k].at \in Nat /\ events[k].at < last
      <4> HIDE DEF n
      <4>1. events[n].at \in Nat /\ events[n].at < last
        BY <1>1, <1>4, <2>2
      <4> QED BY <1>1, <1>4, <1>5, <4>1
    <3>3. kept = events
      BY <2>2, LastKept DEF last, KeptAtEnd
    <3>4. Until(events, last - 1)
      BY <1>1, <1>4, <3>0 DEF Until
    <3>5. request.rule = "candidate" => PacedNext(events, last, action)
      <4> SUFFICES ASSUME request.rule = "candidate" PROVE PacedNext(events, last, action)
        OBVIOUS
      <4>1. last - events[n].at = sim.age /\ sim.age <= request.policy.maximumHold
        BY <1>3 DEF Held
      <4>2. last - events[n].at <= request.policy.maximumHold + 1
        BY <1>1, <1>2, <1>3, <1>4, <4>1, RequestFacts
      <4> QED BY <1>4, <4>2 DEF PacedNext
    <3> HIDE DEF kept, action
    <3> QED BY <1>3, <3>3, <3>4, <3>5
  <2> QED BY <2>1, <2>2
<1>7. MayFollow(kept, last, action)
  BY <1>1, <1>6 DEF MayFollow
<1>8. es = Append(kept, Event(last, action))
  BY DEF last
<1> HIDE DEF kept, action
<1>9. Follows(kept, last, action, es)
  BY <1>7, <1>8, AppendKeeps
<1>10. request.boundaries \subseteq Nat
  BY <1>2, RequestFacts
<1>11. InCash(es)
  BY <1>9, EventFacts DEF Follows, InCash, action
<1>12. \A b \in request.boundaries : b <= last => Closed(es, b)
  BY <1>6, <1>9, <1>10 DEF Follows
<1> QED BY <1>6, <1>9, <1>11, <1>12 DEF Follows, last

LEMMA ConcludeKeeps ==
  ASSUME ScheduleInv, Conclude
  PROVE  ScheduleInv'
<1> DEFINE last == LastDecision
           closed == IF sim.long
                       THEN Append(EventsOf(events, Nat \ {last}), Event(last, "exit_to_cash"))
                       ELSE events
           B == {b \in request.boundaries : last < b /\ b <= last + 1 + request.latency}
           r == ForceCashAll(closed, B)
           lat == request.latency
<1>1. /\ ~ scheduled /\ Pending = {} /\ scheduled' /\ events' = r /\ request' = request
      /\ previous' = previous
  BY DEF Conclude, EventsAtEnd
<1>2. last = previous /\ last \in Nat
  BY <1>1, LastIs
<1>3. /\ request \in Requests /\ lat \in Nat /\ request.boundaries \subseteq Nat
      /\ Ready(events, sim, last)
  BY <1>1, <1>2, RequestFacts DEF ScheduleInv
<1>4. /\ Sound(closed) /\ Until(closed, last) /\ InCash(closed)
      /\ \A b \in request.boundaries : b <= last => Closed(closed, b)
      /\ request.rule = "candidate" => Paced(closed)
  <2>1. CASE sim.long
    BY <1>1, <2>1, LastCloses
  <2>2. CASE ~ sim.long
    <3>1. closed = events
      BY <2>2
    <3> HIDE DEF closed, last
    <3> QED BY <1>3, <2>2, <3>1 DEF Ready
  <2> QED BY <2>1, <2>2
<1> HIDE DEF closed
<1>5. B \in SUBSET request.boundaries /\ Bounded(B)
  <2>1. last + 1 + lat \in Nat /\ B \subseteq 0 .. last + 1 + lat
    BY <1>2, <1>3
  <2> QED BY <2>1 DEF Bounded
<1>6. \A b \in request.boundaries : b \in B \/ b <= last \/ b > last + 1 + lat
  BY <1>2, <1>3
<1>7. \A b \in B : b \in Nat /\ b - 2 - lat <= last
  BY <1>2, <1>3
<1> HIDE DEF B, r, last, lat
<1>8. Forced(closed, r, B)
  BY <1>3, <1>4, <1>5, ForceCashAllForces DEF r, lat
<1>9. Sound(r) /\ InCash(r) /\ (request.rule = "candidate" => Paced(r))
  BY <1>4, <1>8 DEF Forced
<1>10. r \in Seq(EventType) /\ DOMAIN r = 1 .. Len(r) /\ Len(r) \in Nat /\ Answered(r)
       /\ \A k \in DOMAIN r : r[k].at \in Nat
  BY <1>9, EventFacts DEF Sound
<1>11. Until(r, last)
  <2>1. CASE B = {}
    BY <1>4, <1>8, <2>1 DEF Forced
  <2>2. CASE B # {}
    <3>1. PICK b \in B : Until(r, b - 2 - lat)
      BY <1>8, <2>2 DEF Forced, lat
    <3>2. b - 2 - lat \in Int /\ b - 2 - lat <= last
      BY <1>3, <1>7
    <3> QED BY <1>2, <1>10, <3>1, <3>2 DEF Until
  <2> QED BY <2>1, <2>2
<1>12. ASSUME NEW b \in request.boundaries PROVE Closed(r, b)
  <2>1. CASE b \in B
    BY <1>8, <2>1 DEF Forced
  <2>2. CASE b <= last
    BY <1>3, <1>4, <1>8, <2>2 DEF Forced
  <2>3. CASE b > last + 1 + lat
    <3> SUFFICES ASSUME NEW k \in DOMAIN r, r[k].action = "enter_long"
                 PROVE  k + 1 \in DOMAIN r /\ r[k + 1].at + 1 + lat < b
      BY DEF Closed, lat
    <3>1. k # Len(r)
      BY <1>9, <1>10 DEF InCash
    <3>2. k + 1 \in DOMAIN r
      BY <1>10, <3>1
    <3>3. r[k + 1].at \in Nat /\ r[k + 1].at <= last /\ b \in Nat
      BY <1>3, <1>10, <1>11, <3>2 DEF Until
    <3> QED BY <1>2, <1>3, <2>3, <3>2, <3>3
  <2> QED BY <1>6, <2>1, <2>2, <2>3
<1>13. /\ Sound(events') /\ Until(events', LastDecision) /\ InCash(events')
       /\ \A b \in request.boundaries : Closed(events', b)
       /\ request.rule = "candidate" => Paced(events')
  BY <1>1, <1>9, <1>11, <1>12 DEF last
<1>14. LastDecision' = LastDecision
  BY <1>1 DEF LastDecision
<1>15. Finished'
  BY <1>1, <1>13, <1>14 DEF Finished, Sound, Until, Closed, Paced, Unbroken, InCash
<1> QED BY <1>1, <1>15 DEF ScheduleInv

(* An unfinished schedule makes no promise yet; a finished one keeps it.   *)
LEMMA FinishedSound == ScheduleInv => ScheduleSound
<1> SUFFICES ASSUME ScheduleInv, scheduled PROVE ScheduleSound
  BY DEF ScheduleSound
<1>1. Finished /\ request \in Requests
  BY DEF ScheduleInv
<1>2. /\ Sound(events) /\ Until(events, LastDecision) /\ InCash(events)
      /\ \A b \in request.boundaries : Closed(events, b)
  BY <1>1 DEF Finished
<1>3. events \in Seq(EventType) /\ DOMAIN events = 1 .. Len(events) /\ Len(events) \in Nat
      /\ InOrder(events) /\ Answered(events)
      /\ \A k \in DOMAIN events : events[k].action \in {"enter_long", "exit_to_cash"}
  BY <1>2, EventFacts DEF Sound
<1>4. \A k \in Entries : k \in DOMAIN events /\ events[k].action = "enter_long"
  BY <1>3 DEF Entries, Exits
<1>5. ASSUME NEW k \in DOMAIN events, k > 1 PROVE events[k - 1].at < events[k].at
  <2>1. k - 1 \in DOMAIN events /\ k - 1 < k
    BY <1>3, <1>5
  <2> QED BY <1>3, <2>1 DEF InOrder
<1>6. ASSUME NEW k \in Entries PROVE k + 1 \in DOMAIN events /\ Exits(k + 1)
  <2>1. k # Len(events)
    BY <1>2, <1>3, <1>4, <1>6 DEF InCash
  <2>2. k + 1 \in DOMAIN events
    BY <1>3, <1>4, <1>6, <2>1
  <2> QED BY <1>3, <1>4, <1>6, <2>2 DEF Answered, Exits
<1>7. \A b \in request.boundaries, k \in Entries :
        events[k].at < b => events[k + 1].at + 1 + request.latency < b
  BY <1>2, <1>4 DEF Closed
<1> QED BY <1>2, <1>5, <1>6, <1>7 DEF ScheduleSound, Until

(* The decisions of a young position: its age is what Held says it is.     *)
LEMMA YoungStays ==
  ASSUME ScheduleInv, ~ scheduled, request.rule = "candidate"
  PROVE  YoungHeld
<1> SUFFICES ASSUME Young, NEW o \in Observations, Decision(sim, o).action = "exit_to_cash"
             PROVE  Protects(o) \/ Streak(sim, o) > request.policy.tolerance
  BY DEF YoungHeld
<1> DEFINE at == events[Len(events)].at
<1>1. /\ request \in Requests /\ sim \in SimType /\ events \in Seq(EventType)
      /\ previous \in {-1} \cup request.decisions
      /\ Until(events, previous) /\ (sim.long <=> ~ InCash(events)) /\ Held(events, sim, previous)
  BY DEF ScheduleInv, Ready, Sound
<1>2. events # <<>> /\ Len(events) \in DOMAIN events /\ at \in Nat /\ at <= previous
  <2>1. events # <<>>
    BY DEF Young, Long
  <2>2. Len(events) \in DOMAIN events /\ events[Len(events)] \in EventType
    BY <1>1, <2>1
  <2> QED BY <1>1, <2>1, <2>2 DEF EventType, Until
<1>3. Last(events) = events[Len(events)] /\ events[Len(events)].action = "enter_long"
  BY <1>1, <1>2 DEF Young, Long, Last
<1>4. sim.long /\ previous - at = sim.age /\ sim.age \in Nat
  <2>1. sim.long
    BY <1>1, <1>2, <1>3 DEF InCash
  <2> QED BY <1>1, <2>1 DEF Held, SimType
<1>5. Index = previous + 1 /\ Index - at <= request.policy.minimumHold
  <2>1. previous # -1
    BY <1>2
  <2> QED BY <1>3, <2>1 DEF Young, Contiguous
<1>6. previous \in Int /\ request.policy.minimumHold \in Int /\ request.policy.maximumHold \in Int
      /\ request.policy.minimumHold <= request.policy.maximumHold
  BY <1>1, RequestFacts, ScheduleAssumption
<1> HIDE DEF at
<1>7. sim.age < request.policy.minimumHold /\ sim.age < request.policy.maximumHold
  BY <1>2, <1>4, <1>5, <1>6
<1>8. Leaves(sim, o)
  <2>1. Decision(sim, o) = DecideLong(sim, o)
    BY <1>4 DEF Decision
  <2>2. ~ Leaves(sim, o) => DecideLong(sim, o).action = "remain_long"
    BY DEF DecideLong
  <2> QED BY <2>1, <2>2
<1> QED BY <1>4, <1>6, <1>7, <1>8 DEF Leaves

LEMMA FinishedPaced == ScheduleInv => HoldsBounded
<1>1. ScheduleInv /\ request.rule = "candidate" /\ scheduled => SpansBounded
  BY DEF ScheduleInv, Finished, SpansBounded, Paced, Exits
<1> QED BY <1>1, YoungStays DEF HoldsBounded

-----------------------------------------------------------------------------
(* A schedule that is not told the boundaries holds only over decisions    *)
(* that follow each other.                                                 *)
Gapless(es) ==
  \A k \in DOMAIN es : es[k].action = "enter_long" /\ k + 1 \in DOMAIN es =>
    \A n \in es[k].at .. es[k + 1].at : n \in request.decisions

\* A position that the schedule leaves open is held over decisions up to i.
OpenUntil(es, i) ==
  ~ InCash(es) => \A n \in es[Len(es)].at .. i : n \in request.decisions

GapInv ==
  request.boundaries = {} => Gapless(events) /\ (~ scheduled => OpenUntil(events, previous))

LEMMA AppendGapless ==
  ASSUME NEW es \in Seq(EventType), NEW i, NEW action, Gapless(es), OpenUntil(es, i)
  PROVE  Gapless(Append(es, Event(i, action)))
<1> DEFINE n == Len(es)
           e == Event(i, action)
           r == Append(es, e)
<1>1. n \in Nat /\ DOMAIN es = 1 .. n /\ DOMAIN r = 1 .. (n + 1) /\ r[n + 1] = e
      /\ \A k \in 1 .. n : r[k] = es[k]
  OBVIOUS
<1>2. e.at = i
  BY EventFacts
<1> HIDE DEF e, r
<1>3. ASSUME NEW k \in 1 .. (n + 1), r[k].action = "enter_long", k + 1 \in 1 .. (n + 1),
             NEW j \in r[k].at .. r[k + 1].at
      PROVE  j \in request.decisions
  <2>1. k \in 1 .. n /\ r[k] = es[k]
    BY <1>1, <1>3
  <2>2. CASE k = n
    <3>1. ~ InCash(es)
      BY <1>1, <1>3, <2>1, <2>2 DEF InCash
    <3> QED BY <1>1, <1>2, <1>3, <2>1, <2>2, <3>1 DEF OpenUntil
  <2>3. CASE k # n
    <3> HIDE DEF n
    <3>1. k + 1 \in 1 .. n
      BY <1>1, <2>1, <2>3
    <3>2. r[k + 1] = es[k + 1]
      BY <1>1, <3>1
    <3> QED BY <1>1, <1>3, <2>1, <3>1, <3>2 DEF Gapless
  <2> QED BY <2>2, <2>3
<1>4. Gapless(r)
  BY <1>1, <1>3 DEF Gapless
<1> QED BY <1>4 DEF r, e

LEMMA WithdrawGapless ==
  ASSUME NEW es \in Seq(EventType), Len(es) > 0, Gapless(es),
         NEW r, r = [k \in 1 .. Len(es) - 1 |-> es[k]]
  PROVE  Gapless(r)
<1>1. DOMAIN r = 1 .. Len(es) - 1 /\ DOMAIN es = 1 .. Len(es) /\ Len(es) \in Nat
      /\ \A k \in DOMAIN r : r[k] = es[k] /\ k \in DOMAIN es
  OBVIOUS
<1> QED BY <1>1 DEF Gapless

LEMMA GapPredict ==
  ASSUME ScheduleInv, GapInv, request.boundaries = {}, ~ scheduled, Pending # {}
  PROVE  Gapless(EventsBefore(Index)) /\ OpenUntil(EventsBefore(Index), Index)
<1> DEFINE i == Index
           es == EventsBefore(i)
           n == Len(events)
<1>1. /\ i \in request.decisions /\ i \in Nat /\ previous < i /\ previous \in Int /\ previous >= -1
      /\ Ready(events, sim, previous) /\ CrossedBoundaries(i) = {}
      /\ Gapless(events) /\ OpenUntil(events, previous)
  BY IndexFacts, RequestFacts DEF ScheduleInv, CrossedBoundaries, GapInv
<1>2. /\ Sound(events) /\ Until(events, previous) /\ (sim.long <=> ~ InCash(events))
      /\ events \in Seq(EventType) /\ n \in Nat /\ DOMAIN events = 1 .. n
      /\ \A k \in DOMAIN events : events[k].at \in Nat /\ events[k].at <= previous
  BY <1>1, EventFacts DEF Ready, Sound, Until
<1>3. CASE Contiguous(i)
  <2>1. es = events
    BY <1>1, <1>3 DEF EventsBefore
  <2>2. ASSUME ~ InCash(events), NEW j \in events[n].at .. i PROVE j \in request.decisions
    <3>1. n \in DOMAIN events
      BY <1>2, <2>2 DEF InCash
    <3>2. events[n].at \in Nat /\ previous # -1
      BY <1>1, <1>2, <3>1
    <3>3. i = previous + 1
      BY <1>3, <3>2 DEF Contiguous
    <3>4. j \in events[n].at .. previous \/ j = i
      BY <1>1, <2>2, <3>2, <3>3
    <3> QED BY <1>1, <2>2, <3>4 DEF OpenUntil
  <2>3. OpenUntil(events, i)
    BY <2>2 DEF OpenUntil
  <2> HIDE DEF es, i
  <2>4. Gapless(es) /\ OpenUntil(es, i)
    BY <1>1, <2>1, <2>3
  <2> QED BY <2>4 DEF es, i
<1>4. CASE ~ Contiguous(i)
  <2>1. InCash(es)
    BY <1>4, GapPrepares
  <2>2. CASE ~ sim.long
    <3>1. es = events
      BY <1>1, <2>2 DEF EventsBefore
    <3> HIDE DEF es, i
    <3>2. Gapless(es) /\ OpenUntil(es, i)
      BY <1>1, <2>1, <3>1 DEF OpenUntil
    <3> QED BY <3>2 DEF es, i
  <2>3. CASE sim.long
    <3>1. es = CloseBeforeGap(events)
      BY <1>1, <1>4, <2>3 DEF EventsBefore
    <3>2. n > 0 /\ events # <<>>
      BY <1>2, <2>3, LongIs
    <3>3. WithoutEntryAt(events, previous) = events
          \/ WithoutEntryAt(events, previous) = [k \in 1 .. n - 1 |-> events[k]]
      <4>1. WithoutEntryAt(events, previous) = events
            \/ WithoutEntryAt(events, previous) = SubSeq(events, 1, n - 1)
        BY DEF WithoutEntryAt, Front
      <4> QED BY <1>2, <3>2, <4>1
    <3>4. es = [k \in 1 .. n - 1 |-> events[k]] \/ es = Append(events, Event(previous, "exit_to_cash"))
      BY <3>1, <3>3 DEF CloseBeforeGap
    <3> HIDE DEF es, i
    <3>5. Gapless(es)
      BY <1>1, <1>2, <3>2, <3>4, AppendGapless, WithdrawGapless
    <3>6. Gapless(es) /\ OpenUntil(es, i)
      BY <2>1, <3>5 DEF OpenUntil
    <3> QED BY <3>6 DEF es, i
  <2> QED BY <2>2, <2>3
<1> QED BY <1>3, <1>4

LEMMA PredictGap ==
  ASSUME ScheduleInv, GapInv, NEW o, Predict(o)
  PROVE  GapInv'
<1> DEFINE i == Index
           s == IF Contiguous(i) THEN sim ELSE Cash
           d == Decision(s, o)
           es == EventsBefore(i)
           r == After(es, d, i)
<1>1. /\ ~ scheduled /\ Pending # {} /\ events' = r /\ previous' = i
      /\ request' = request /\ scheduled' = scheduled
  BY DEF Predict, After
<1>2. i \in request.decisions /\ i \in Nat
  BY <1>1, IndexFacts
<1>3. es \in Seq(EventType)
  <2>1. Joins(es, s, i)
    BY <1>1, GapJoins, ContiguousJoins
  <2> HIDE DEF es, s, i
  <2> QED BY <2>1 DEF Joins, Sound
<1>4. ASSUME request.boundaries = {} PROVE Gapless(r) /\ OpenUntil(r, i)
  <2>1. Gapless(es) /\ OpenUntil(es, i)
    BY <1>1, <1>4, GapPredict
  <2> HIDE DEF es, d, i
  <2>2. CASE r = es
    BY <2>1, <2>2
  <2>3. CASE r = Append(es, Event(i, d.action))
    <3>1. Gapless(r)
      BY <1>3, <2>1, <2>3, AppendGapless
    <3>2. r[Len(r)] = Event(i, d.action)
      BY <1>3, <2>3
    <3>3. r[Len(r)].at = i
      BY <3>2, EventFacts
    <3> HIDE DEF r
    <3>4. OpenUntil(r, i)
      BY <1>2, <3>3 DEF OpenUntil
    <3> QED BY <3>1, <3>4
  <2> QED BY <2>2, <2>3 DEF After
<1> HIDE DEF r, i
<1>5. request.boundaries = {} => Gapless(events') /\ OpenUntil(events', previous')
  BY <1>1, <1>4
<1> QED BY <1>1, <1>5 DEF GapInv, Gapless, OpenUntil, InCash

LEMMA ConcludeGap ==
  ASSUME ScheduleInv, GapInv, Conclude
  PROVE  GapInv'
<1> DEFINE last == LastDecision
           kept == EventsOf(events, Nat \ {last})
           closed == IF sim.long THEN Append(kept, Event(last, "exit_to_cash")) ELSE events
           B == {b \in request.boundaries : last < b /\ b <= last + 1 + request.latency}
           n == Len(events)
<1>1. /\ ~ scheduled /\ Pending = {} /\ scheduled' /\ events' = ForceCashAll(closed, B)
      /\ request' = request
  BY DEF Conclude, EventsAtEnd
<1>2. /\ request \in Requests /\ last = previous /\ Sound(events) /\ events \in Seq(EventType)
      /\ Len(events) \in Nat
  BY <1>1, LastIs DEF ScheduleInv, Ready, Sound
<1>3. ASSUME request.boundaries = {} PROVE Gapless(events')
  <2>1. Gapless(events) /\ OpenUntil(events, last)
    BY <1>1, <1>2, <1>3 DEF GapInv
  <2>2. Sound(closed)
    <3>1. CASE sim.long
      BY <1>1, <3>1, LastCloses
    <3> QED BY <1>2, <3>1
  <2>3. ASSUME sim.long PROVE Gapless(closed)
    <3>1. /\ n > 0 /\ events[n].action = "enter_long"
          /\ kept = [k \in 1 .. n - 1 |-> events[k]] \/ kept = events
      BY <1>1, <2>3, LastKept DEF KeptAtEnd
    <3>2. CASE kept = events
      <4> HIDE DEF kept
      <4> QED BY <1>2, <2>1, <2>3, <3>2, AppendGapless
    <3>3. CASE kept = [k \in 1 .. n - 1 |-> events[k]]
      <4> HIDE DEF kept, last
      <4>1. Gapless(kept)
        BY <1>2, <2>1, <3>1, <3>3, WithdrawGapless
      <4>2. InCash(kept) /\ kept \in Seq(EventType)
        BY <1>2, <3>1, <3>3, WithdrawKeeps DEF Sound
      <4>3. OpenUntil(kept, last)
        BY <4>2 DEF OpenUntil
      <4> QED BY <2>3, <4>1, <4>2, <4>3, AppendGapless
    <3> QED BY <3>1, <3>2, <3>3
  <2>4. Gapless(closed)
    BY <2>1, <2>3
  <2>5. B = {} /\ B \in SUBSET request.boundaries /\ Bounded(B)
    BY <1>3 DEF Bounded
  <2> HIDE DEF closed, B
  <2>6. Forced(closed, ForceCashAll(closed, B), B)
    BY <1>2, <2>2, <2>5, RequestFacts, ForceCashAllForces
  <2>7. ForceCashAll(closed, B) = closed
    BY <2>5, <2>6 DEF Forced
  <2> QED BY <1>1, <2>4, <2>7
<1> QED BY <1>1, <1>3 DEF GapInv, Gapless

LEMMA InitGap == ScheduleInit => GapInv
BY NothingYet DEF ScheduleInit, GapInv, Gapless, OpenUntil

LEMMA ScheduleKeeps == ScheduleInv /\ GapInv /\ ScheduleNext => (ScheduleInv /\ GapInv)'
BY PredictKeeps, ConcludeKeeps, PredictGap, ConcludeGap DEF ScheduleNext

LEMMA ScheduleHolds == RunSpec => [](ScheduleInv /\ GapInv)
<1>1. RunInit => ScheduleInv /\ GapInv
  BY InitSchedule, InitGap DEF RunInit
<1>2. ScheduleInv /\ GapInv /\ [RunNext]_runVars => (ScheduleInv /\ GapInv)'
  <2> SUFFICES ASSUME ScheduleInv, GapInv, [RunNext]_runVars PROVE (ScheduleInv /\ GapInv)'
    OBVIOUS
  <2>1. CASE ScheduleNext
    BY <2>1, ScheduleKeeps
  <2>2. CASE UNCHANGED scheduleVars
    <3>1. ScheduleInv'
      BY <2>2 DEF scheduleVars, ScheduleInv, Ready, Finished, Sound, Until, Closed, Paced, Held,
                  Unbroken, InCash, LastDecision
    <3>2. GapInv'
      BY <2>2 DEF scheduleVars, GapInv, Gapless, OpenUntil, InCash
    <3> QED BY <3>1, <3>2
  <2> QED BY <2>1, <2>2 DEF RunNext, runVars
<1> QED BY <1>1, <1>2, PTL DEF RunSpec

(* Whatever the observations, the gaps between the decisions and the       *)
(* boundaries are, the strategy gets a schedule that it accepts: ordered,  *)
(* alternating, in cash at its end and, in time, before every boundary     *)
(* that it was told of (study_predictions.py:74-123, 363-373).             *)
THEOREM SchedulesAreSound == RunSpec => []ScheduleSound
BY ScheduleHolds, FinishedSound, PTL

(* A candidate holds for at most one decision more than its maximum and    *)
(* waits for its whole cooldown, wherever nothing comes between its        *)
(* decisions (arbitration.py:181-377): the counters are those of the       *)
(* schedule, not only of the loop that computes it.                        *)
THEOREM HoldsAreBounded == RunSpec => []HoldsBounded
BY ScheduleHolds, FinishedPaced, PTL

-----------------------------------------------------------------------------
(***************************************************************************)
(* Study cases: one order at a time, long or in cash.                      *)
(***************************************************************************)

(* The strategy works with one order at a time, a market order for one     *)
(* candle, and buys only out of cash.                                      *)
OneOrder ==
  /\ \A o \in DOMAIN orders : orders[o].tif = "bar"
  /\ \A o, p \in ActiveOrders : o = p
  /\ \A o \in ActiveOrders : orders[o].side = "buy" => account.position = 0

(* A case is a run of the engine, as far as the engine's state goes.       *)
LEMMA CaseIsRun == RunNext => [Next]_vars
BY DEF RunNext, RunCase, Next, FollowSchedule

LEMMA ProposalFacts ==
  ASSUME NEW intent \in Accepted
  PROVE  ActiveOrders = {} /\ intent.tif = "bar" /\ (intent.side = "buy" => account.position = 0)
<1>1. intent \in Proposals
  BY DEF Accepted
<1>2. ActiveOrders = {}
  BY <1>1 DEF Proposals
<1>3. CASE intent \in {MarketOrder("buy", Affordable)} /\ account.position = 0
  BY <1>2, <1>3 DEF MarketOrder
<1>4. CASE intent \in {MarketOrder("sell_to_close", account.position)}
  BY <1>2, <1>4 DEF MarketOrder
<1> QED BY <1>1, <1>3, <1>4 DEF Proposals

LEMMA FollowOneOrder == IInv /\ OneOrder /\ FollowSchedule => OneOrder'
<1> SUFFICES ASSUME IInv, OneOrder, FollowSchedule PROVE OneOrder'
  OBVIOUS
<1>1. orders \in Seq(OrderType) /\ account' = account
  BY DEF IInv, TypeOK, FollowSchedule, Decide
<1>2. CASE Accepted = {}
  BY <1>1, <1>2 DEF FollowSchedule, OneOrder, ActiveOrders, IsActive
<1>3. CASE Accepted # {}
  <2>1. PICK intent \in Accepted : orders' = Append(orders, NewOrder(intent))
    BY <1>3 DEF FollowSchedule
  <2> DEFINE n == Len(orders) + 1
             order == NewOrder(intent)
  <2>2. ActiveOrders = {} /\ order.tif = "bar" /\ (order.side = "buy" => account.position = 0)
    BY ProposalFacts DEF NewOrder
  <2>3. DOMAIN orders' = DOMAIN orders \cup {n} /\ orders'[n] = order
        /\ \A o \in DOMAIN orders : orders'[o] = orders[o]
    <3> HIDE DEF order
    <3>1. \A new : LET more == Append(orders, new) IN
            DOMAIN more = DOMAIN orders \cup {n} /\ more[n] = new
            /\ \A o \in DOMAIN orders : more[o] = orders[o]
      BY <1>1
    <3> QED BY <2>1, <3>1 DEF order
  <2> HIDE DEF n, order
  <2>4. (ActiveOrders)' \subseteq {n}
    BY <2>2, <2>3 DEF ActiveOrders, IsActive
  <2>5. \A o \in DOMAIN orders' : orders'[o].tif = "bar"
    BY <2>2, <2>3 DEF OneOrder
  <2>6. \A o \in (ActiveOrders)' : orders'[o].side = "buy" => account'.position = 0
    BY <1>1, <2>2, <2>3, <2>4
  <2> QED BY <2>4, <2>5, <2>6 DEF OneOrder
<1> QED BY <1>2, <1>3

(* An evaluation that fills buys into an empty account or sells from the   *)
(* position, and leaves no order behind.                                   *)
LEMMA EvaluateCase ==
  ASSUME IInv, CInv, OneOrder, NEW o \in queue, EvaluateOrder(o)
  PROVE  /\ OneOrder'
         /\ resets' = resets
         /\ \/ account' = account
            \/ account.position = 0 /\ account'.position \in Nat \ {0}
            \/ account'.position \in 0 .. (account.position - 1)
<1>1. /\ o \in DOMAIN orders /\ DOMAIN orders' = DOMAIN orders
      /\ \A p \in DOMAIN orders : Same(orders'[p], orders[p])
      /\ \A p \in DOMAIN orders : p # o => orders'[p] = orders[p]
      /\ orders'[o].status \in Active => Outlasts(orders[o]) /\ IsActive(o)
      /\ \/ UNCHANGED <<ledger, account>>
         \/ IsActive(o) /\ Current \in orders[o].eligible .. orders[o].expires
  BY Evaluation DEF CInv
<1>2. resets' = resets
  BY DEF EvaluateOrder
<1>3. (ActiveOrders)' \subseteq ActiveOrders
  BY <1>1 DEF ActiveOrders, IsActive
<1>4. /\ \A p \in DOMAIN orders' : orders'[p].tif = "bar"
      /\ \A p, s \in (ActiveOrders)' : p = s
  BY <1>1, <1>3 DEF OneOrder, Same
<1>5. CASE account' = account
  <2>1. \A p \in (ActiveOrders)' : orders'[p].side = "buy" => account'.position = 0
    BY <1>1, <1>3, <1>5 DEF OneOrder, Same, ActiveOrders
  <2> QED BY <1>2, <1>4, <1>5, <2>1 DEF OneOrder
<1>6. CASE account' # account
  <2> DEFINE price == FillPrice(orders[o], Reference)
             q == Candidate(orders[o], price)
  <2>1. Fillable(orders[o], price) /\ account' = Booked(orders[o], q, price)
    BY <1>6 DEF EvaluateOrder
  <2>2. orders[o] \in OrderType /\ phase \in {"sweep", "close"} /\ orders[o].side \in Sides
    <3>1. orders[o] \in OrderType
      BY <1>1 DEF IInv, TypeOK
    <3> QED BY <3>1 DEF EvaluateOrder, OrderType
  <2>3. q \in Nat \ {0} /\ (orders[o].side = "sell_to_close" => q <= account.position)
    <3>1. orders[o].filled < orders[o].requested /\ Current < Length /\ price \in Int
      BY <1>1, <1>6, <2>2, PriceIsInt DEF IInv, OrderShape, Progress
    <3> QED BY <2>1, <2>2, <3>1, FillBounds DEF IInv
  <2> HIDE DEF q, price
  <2>4. account.position \in Nat
    BY DEF IInv, TypeOK, AccountType
  <2>5. (ActiveOrders)' = {}
    <3>1. ~ (orders'[o].status \in Active)
      <4>1. orders[o].tif = "bar" /\ orders[o].eligible \in Int /\ Current \in Int
        BY <1>1, <2>2, CurrentTyped DEF OneOrder, OrderType
      <4>2. orders[o].eligible <= Current
        BY <1>1, <1>6, <4>1
      <4> QED BY <1>1, <4>1, <4>2 DEF Outlasts, Immediate
    <3>2. \A p \in ActiveOrders : p = o
      BY <1>1, <1>6 DEF OneOrder, ActiveOrders
    <3> QED BY <1>3, <3>1, <3>2 DEF ActiveOrders, IsActive
  <2>6. CASE orders[o].side = "buy"
    <3>1. account.position = 0
      BY <1>1, <1>6, <2>6 DEF OneOrder, ActiveOrders
    <3>2. account'.position = account.position + q
      BY <2>1, <2>6 DEF Booked
    <3> QED BY <1>2, <1>4, <2>3, <2>5, <3>1, <3>2 DEF OneOrder
  <2>7. CASE orders[o].side = "sell_to_close"
    <3>1. account'.position = account.position - q
      BY <2>1, <2>7 DEF Booked
    <3> QED BY <1>2, <1>4, <2>3, <2>4, <2>5, <2>7, <3>1 DEF OneOrder
  <2> QED BY <2>2, <2>6, <2>7 DEF Sides
<1> QED BY <1>5, <1>6

LEMMA StartCase ==
  ASSUME IInv, OneOrder, StartCandle
  PROVE  /\ OneOrder' /\ account' = account
         /\ resets' = resets \/ (account.position = 0 /\ Len(resets') = Len(resets) + 1)
<1>1. resets \in Seq(0 .. (Length - 1))
  BY DEF IInv, TypeOK
<1>2. UNCHANGED <<orders, account>>
  BY DEF StartCandle
<1>3. OneOrder'
  BY <1>2 DEF OneOrder, ActiveOrders, IsActive
<1>4. Len(Append(resets, Current)) = Len(resets) + 1
  BY <1>1
<1>5. resets' = resets \/ (account.position = 0 /\ resets' = Append(resets, Current))
  BY DEF StartCandle, Enter
<1> QED BY <1>2, <1>3, <1>4, <1>5

LEMMA FinalizeOneOrder == IInv /\ OneOrder /\ Finalize => OneOrder'
<1> SUFFICES ASSUME IInv, OneOrder, Finalize PROVE OneOrder'
  OBVIOUS
<1>1. /\ DOMAIN orders' = DOMAIN orders /\ account' = account
      /\ \A o \in DOMAIN orders : /\ orders'[o].tif = orders[o].tif
                                  /\ orders'[o].status \notin Active
  <2>1. \A o \in DOMAIN orders :
          orders'[o] = IF IsActive(o) THEN [orders[o] EXCEPT !.status = "cancelled"] ELSE orders[o]
    BY DEF Finalize
  <2>2. "cancelled" \notin Active
    BY DEF Active
  <2>3. \A o \in DOMAIN orders : orders[o] \in OrderType
    BY DEF IInv, TypeOK
  <2>4. \A o \in DOMAIN orders : orders'[o].tif = orders[o].tif
    BY <2>1, <2>3 DEF OrderType
  <2>5. \A o \in DOMAIN orders : orders'[o].status \notin Active
    BY <2>1, <2>2, <2>3 DEF IsActive, OrderType
  <2> QED BY <2>4, <2>5 DEF Finalize
<1> QED BY <1>1 DEF OneOrder, ActiveOrders, IsActive

(* One step of a case is a step of LongOrCash, or changes nothing that it  *)
(* speaks of.                                                              *)
LEMMA CaseStep ==
  ASSUME IInv, CInv, OneOrder, RunNext
  PROVE  /\ OneOrder'
         /\ [Abstract!Next]_(Abstract!vars)
<1>1. CASE ScheduleNext /\ UNCHANGED vars
  BY <1>1 DEF vars, OneOrder, ActiveOrders, IsActive, Abstract!vars
<1>2. CASE StartCandle
  BY <1>2, StartCase DEF Abstract!vars, Abstract!Next, Abstract!NextSegment
<1>3. ASSUME NEW o \in queue, EvaluateOrder(o)
      PROVE  OneOrder' /\ [Abstract!Next]_(Abstract!vars)
  BY <1>3, EvaluateCase DEF Abstract!vars, Abstract!Next, Abstract!Buy, Abstract!Reduce
<1>4. CASE FollowSchedule
  BY <1>4, FollowOneOrder DEF FollowSchedule, Decide, Abstract!vars
<1>5. CASE EndCandle
  BY <1>5 DEF EndCandle, OneOrder, ActiveOrders, IsActive, Abstract!vars
<1>6. CASE Finalize
  BY <1>6, FinalizeOneOrder DEF Finalize, Abstract!vars
<1>7. ASSUME NEW o \in queue, EvaluationRaises(o)
      PROVE  OneOrder' /\ [Abstract!Next]_(Abstract!vars)
  BY <1>7 DEF EvaluationRaises, OneOrder, ActiveOrders, IsActive, Abstract!vars
<1> QED BY <1>1, <1>2, <1>3, <1>4, <1>5, <1>6, <1>7 DEF RunNext, RunCase

LEMMA CaseInv == RunSpec => [](IInv /\ CInv /\ OneOrder)
<1>1. RunInit => IInv /\ CInv /\ OneOrder
  BY InitInv, InitTime DEF RunInit, Init, OneOrder, ActiveOrders
<1>2. IInv /\ CInv /\ OneOrder /\ [RunNext]_runVars => (IInv /\ CInv /\ OneOrder)'
  <2> SUFFICES ASSUME IInv, CInv, OneOrder, [RunNext]_runVars
               PROVE  (IInv /\ CInv /\ OneOrder)'
    OBVIOUS
  <2>1. [Next \/ Retry]_vars
    BY CaseIsRun DEF runVars
  <2>2. IInv' /\ CInv'
    BY <2>1, StepInv, StepTime
  <2>3. CASE RunNext
    BY <2>2, <2>3, CaseStep
  <2>4. CASE UNCHANGED runVars
    BY <2>2, <2>4 DEF runVars, vars, OneOrder, ActiveOrders, IsActive
  <2> QED BY <2>3, <2>4
<1> QED BY <1>1, <1>2, PTL DEF RunSpec

(* A study case is long or in cash: it buys in one fill out of cash and    *)
(* into an account without orders, only reduces what it has bought, and    *)
(* passes segment boundaries flat (study_strategy.py:85-133, engine.py:    *)
(* 309-345), whatever the schedule, the candles and the latency are.       *)
THEOREM CasesAreLongOrCash == RunSpec => IsLongOrCash
<1>1. RunInit => Abstract!Init
  BY DEF RunInit, Init, Abstract!Init
<1>2. IInv /\ CInv /\ OneOrder /\ [RunNext]_runVars => [Abstract!Next]_(Abstract!vars)
  <2>1. UNCHANGED runVars => UNCHANGED Abstract!vars
    BY DEF runVars, vars, Abstract!vars
  <2> QED BY <2>1, CaseStep
<1> QED BY <1>1, <1>2, CaseInv, PTL DEF RunSpec, IsLongOrCash, Abstract!Spec

-----------------------------------------------------------------------------
(***************************************************************************)
(* Study cases and their schedule: what is held is what the schedule said. *)
(***************************************************************************)

Excused == ExitCutShort \/ ExitUnheard

\* The strategy has been called with candle i.
Heard(i) == i <= index \/ (phase = "close" /\ i <= Current)

(* Every order is the answer to an event, for one candle.                  *)
FromSchedule ==
  \A o \in DOMAIN orders :
    /\ orders[o].eligible = orders[o].created + 1 + config.latency
    /\ orders[o].expires = orders[o].eligible
    /\ Heard(orders[o].created)
    /\ Scheduled(orders[o].created,
                 IF orders[o].side = "buy" THEN "enter_long" ELSE "exit_to_cash")

(* The position is the one that entry k has bought, and its exit is still  *)
(* to come or has an order that sells all of it.                           *)
HeldBy(k) ==
  /\ Fills(k) <= Current /\ account.position >= MinQuantity
  /\ \A o \in ActiveOrders : /\ orders[o].created = events[k + 1].at
                             /\ Remaining(orders[o]) = account.position
  /\ Heard(events[k + 1].at) => ActiveOrders # {}

Holds ==
  phase # "final" /\ account.position > 0 /\ ~ Excused => \E k \in Entries : HeldBy(k)

FollowInv ==
  /\ ~ scheduled => orders = <<>> /\ account.position = 0 /\ phase = "ready"
  /\ phase = "close" => queue = {}
  /\ FromSchedule
  /\ Holds

\* The requests that the two study runners make for a case.
Planned == Told /\ EvaluationEnd = Length /\ CashAtTheEnds

StudyInv == IInv /\ CInv /\ OneOrder /\ ScheduleInv /\ GapInv /\ FollowInv

LEMMA ConfigFacts ==
  ASSUME IInv
  PROVE  config \in Configs /\ config.latency \in Nat /\ ~ config.sameClose
<1>1. config \in Configs
  BY DEF IInv, TypeOK
<1> QED BY <1>1, ConfigAssumption, StudyAssumption

(* Entry and exit of a position: nothing is scheduled between the two.     *)
LEMMA EntryFacts ==
  ASSUME ScheduleInv, scheduled, NEW k \in Entries
  PROVE  /\ k \in DOMAIN events /\ k + 1 \in DOMAIN events
         /\ events[k].at \in Nat /\ events[k + 1].at \in Nat
         /\ events[k].at < events[k + 1].at
         /\ events[k + 1] = Event(events[k + 1].at, "exit_to_cash")
         /\ events[k + 1].at <= LastDecision
         /\ \A l \in DOMAIN events : events[l].at = events[k + 1].at => l = k + 1
         /\ \A l \in DOMAIN events :
              ~ (events[k].at < events[l].at /\ events[l].at < events[k + 1].at)
<1>1. ScheduleSound /\ events \in Seq(EventType) /\ InOrder(events)
  BY FinishedSound DEF ScheduleInv, Finished, Sound
<1>2. DOMAIN events \subseteq Nat /\ \A l \in DOMAIN events : events[l] \in EventType
  BY <1>1
<1>3. k \in DOMAIN events /\ k + 1 \in DOMAIN events /\ Exits(k + 1)
  BY <1>1 DEF ScheduleSound, Entries
<1>4. \A l \in DOMAIN events : events[l].at \in Nat
  BY <1>2, EventFacts
<1>5. events[k + 1] = Event(events[k + 1].at, "exit_to_cash")
  BY <1>2, <1>3, EventFacts DEF Exits
<1>6. \A l, m \in DOMAIN events : l < m => events[l].at < events[m].at
  BY <1>1 DEF InOrder
<1>7. ASSUME NEW l \in DOMAIN events PROVE l < k + 1 \/ l = k + 1 \/ k + 1 < l
  BY <1>2, <1>3
<1>8. \A l \in DOMAIN events : events[l].at = events[k + 1].at => l = k + 1
  BY <1>3, <1>4, <1>6, <1>7
<1>9. ASSUME NEW l \in DOMAIN events, events[k].at < events[l].at,
             events[l].at < events[k + 1].at
      PROVE  FALSE
  <2>1. ~ (l < k) /\ l # k /\ ~ (k + 1 < l) /\ l # k + 1
    BY <1>3, <1>4, <1>6, <1>9
  <2> QED BY <1>2, <1>3, <2>1
<1>10. events[k].at < events[k + 1].at
  BY <1>2, <1>3, <1>6
<1>11. events[k + 1].at <= LastDecision
  BY <1>1, <1>3 DEF ScheduleSound
<1> QED BY <1>3, <1>4, <1>5, <1>8, <1>9, <1>10, <1>11

(* An order to buy comes from an entry.                                    *)
LEMMA ScheduledEntry ==
  ASSUME NEW i, Scheduled(i, "enter_long")
  PROVE  \E k \in Entries : events[k].at = i
BY EventFacts DEF Scheduled, Entries, Exits

(* What has been excused stays so.                                         *)
LEMMA ExcusedStays ==
  ASSUME IInv, RunCase, scheduled, UNCHANGED scheduleVars, Excused
  PROVE  Excused'
<1>1. config' = config /\ events' = events
  BY DEF RunCase, StartCandle, EvaluateOrder, EvaluationRaises, FollowSchedule, Decide, EndCandle,
         Finalize, scheduleVars
<1>2. CASE ExitUnheard
  BY <1>1, <1>2 DEF Excused, ExitUnheard, Entries, Exits, Fills
<1>3. CASE ExitCutShort
  <2>1. PICK o \in DOMAIN orders : orders[o].side = "sell_to_close" /\ orders[o].status = "cancelled"
    BY <1>3 DEF ExitCutShort
  <2>2. ~ IsActive(o)
    BY <2>1 DEF IsActive, Active
  <2>3. [Next \/ Retry]_vars
    BY CaseIsRun DEF RunNext
  <2>4. orders'[o] = orders[o]
    BY <2>2, <2>3, TerminalStep
  <2>5. o \in DOMAIN orders'
    <3>1. orders \in Seq(OrderType)
      BY DEF IInv, TypeOK
    <3>2. CASE FollowSchedule
      BY <3>1, <3>2 DEF FollowSchedule
    <3> QED BY <3>1, <3>2 DEF RunCase, StartCandle, EvaluateOrder, EvaluationRaises, EndCandle,
       Finalize
  <2> QED BY <2>1, <2>4, <2>5 DEF Excused, ExitCutShort
<1> QED BY <1>2, <1>3 DEF Excused

-----------------------------------------------------------------------------
(* A step that leaves orders and account alone moves only the clock.       *)
LEMMA ClockFollows ==
  ASSUME StudyInv, scheduled, RunCase, UNCHANGED scheduleVars,
         UNCHANGED <<config, orders, account>>, phase # "final", phase' # "close",
         \A i \in Int : Heard(i)' <=> Heard(i), Current <= Current', Current' \in Int
  PROVE  FollowInv'
<1>1. events' = events /\ request' = request /\ scheduled'
  BY DEF scheduleVars
<1>2. FromSchedule'
  <2> SUFFICES ASSUME NEW o \in DOMAIN orders
               PROVE  /\ orders[o].eligible = orders[o].created + 1 + config.latency
                      /\ orders[o].expires = orders[o].eligible
                      /\ Heard(orders[o].created)'
                      /\ Scheduled(orders[o].created,
                           IF orders[o].side = "buy" THEN "enter_long" ELSE "exit_to_cash")
    BY <1>1 DEF FromSchedule, Scheduled
  <2>1. orders[o].created \in Int
    BY OrderTyped DEF StudyInv
  <2> QED BY <2>1 DEF StudyInv, FollowInv, FromSchedule
<1>3. ASSUME account.position > 0, ~ Excused' PROVE (\E k \in Entries : HeldBy(k))'
  <2>1. ~ Excused
    BY <1>3, ExcusedStays DEF StudyInv
  <2>2. PICK k \in Entries : HeldBy(k)
    BY <1>3, <2>1 DEF StudyInv, FollowInv, Holds
  <2>3. Fills(k) \in Int /\ Current \in Int
    BY EntryFacts, ConfigFacts, CurrentTyped DEF StudyInv, Fills
  <2>4. (ActiveOrders)' = ActiveOrders /\ Entries' = Entries /\ Fills(k)' = Fills(k)
    BY <1>1 DEF ActiveOrders, IsActive, Entries, Exits, Fills
  <2>5. HeldBy(k)'
    <3>1. events[k + 1].at \in Int
      BY EntryFacts DEF StudyInv
    <3> QED BY <1>1, <3>1, <2>2, <2>3, <2>4 DEF HeldBy, Remaining
  <2> QED BY <2>4, <2>5
<1> QED BY <1>1, <1>2, <1>3 DEF FollowInv, Holds

LEMMA StartFollows ==
  ASSUME StudyInv, scheduled, StartCandle, UNCHANGED scheduleVars
  PROVE  FollowInv'
<1>1. /\ phase = "ready" /\ phase' \in {"sweep", "raised"}
      /\ UNCHANGED <<config, orders, account, index>>
  BY DEF StartCandle, Enter
<1>2. \A i \in Int : Heard(i)' <=> Heard(i)
  BY <1>1 DEF Heard
<1>3. Current' = Current /\ Current \in Int
  BY <1>1, CurrentTyped DEF StudyInv, Current
<1> QED BY <1>1, <1>2, <1>3, ClockFollows DEF RunCase

LEMMA EndFollows ==
  ASSUME StudyInv, scheduled, EndCandle, UNCHANGED scheduleVars
  PROVE  FollowInv'
<1>1. /\ phase = "close" /\ phase' = "ready" /\ index' = Current
      /\ UNCHANGED <<config, orders, account>>
  BY DEF EndCandle
<1>2. index \in Int /\ Current = index + 1 /\ Current' = Current + 1
  BY <1>1, CurrentTyped DEF StudyInv, Current
<1>3. \A i \in Int : Heard(i)' <=> Heard(i)
  BY <1>1, <1>2 DEF Heard
<1> QED BY <1>1, <1>2, <1>3, ClockFollows DEF RunCase

LEMMA FinalizeFollows ==
  ASSUME StudyInv, scheduled, Finalize, UNCHANGED scheduleVars
  PROVE  FollowInv'
<1>1. /\ phase = "ready" /\ phase' = "final" /\ DOMAIN orders' = DOMAIN orders
      /\ UNCHANGED <<config, account, index>>
  BY DEF Finalize
<1>2. ASSUME NEW o \in DOMAIN orders PROVE Same(orders'[o], orders[o])
  <2>1. orders[o] \in OrderType
    BY OrderTyped DEF StudyInv
  <2> QED BY <2>1 DEF Finalize, Same, OrderType
<1>3. FromSchedule'
  BY <1>1, <1>2 DEF StudyInv, FollowInv, FromSchedule, Same, Heard, Scheduled, scheduleVars
<1> QED BY <1>1, <1>3 DEF FollowInv, Holds, scheduleVars

(* The new order is the answer to the event of this candle.                *)
LEMMA AcceptedFollows ==
  ASSUME StudyInv, NEW intent \in Accepted
  PROVE  /\ NewOrder(intent).created = Current
         /\ NewOrder(intent).eligible = Current + 1 + config.latency
         /\ NewOrder(intent).expires = NewOrder(intent).eligible
         /\ Remaining(NewOrder(intent)) = intent.quantity
         /\ NewOrder(intent).status \in Active
         /\ \/ /\ intent.side = "buy" /\ account.position = 0
               /\ Scheduled(Current, "enter_long")
            \/ /\ intent = MarketOrder("sell_to_close", account.position)
               /\ intent.side # "buy" /\ account.position > 0
               /\ Scheduled(Current, "exit_to_cash")
         /\ NewOrder(intent).side = intent.side
<1>1. config.latency \in Nat /\ ~ config.sameClose /\ Current \in Int
  BY ConfigFacts, CurrentTyped DEF StudyInv
<1>2. intent \in Proposals /\ intent.tif = "bar"
  BY ProposalFacts DEF Accepted
<1>3. \/ /\ intent = MarketOrder("buy", Affordable) /\ account.position = 0
         /\ Scheduled(Current, "enter_long")
      \/ /\ intent = MarketOrder("sell_to_close", account.position) /\ account.position > 0
         /\ Scheduled(Current, "exit_to_cash")
  BY <1>2 DEF Proposals
<1>4. MarketOrder("buy", Affordable).side = "buy"
      /\ MarketOrder("sell_to_close", account.position).side = "sell_to_close"
  BY DEF MarketOrder
<1>5. intent.quantity \in Int
  <2>1. account.position \in Int
    BY DEF StudyInv, IInv, TypeOK, AccountType
  <2>2. account.cash \in Nat /\ candle.close * Scale \in Nat \ {0}
    <3>1. TypeOK /\ Scale \in Nat \ {0}
      BY ConfigAssumption DEF StudyInv, IInv
    <3>2. candle.close \in Nat \ {0}
      BY <3>1, CandleTyped
    <3> QED BY <3>1, <3>2, MulPositive DEF TypeOK, AccountType
  <2>3. Affordable \in Int
    BY <2>2, DivBounds DEF Affordable
  <2> QED BY <1>3, <2>1, <2>3 DEF MarketOrder
<1> QED BY <1>1, <1>2, <1>3, <1>4, <1>5 DEF NewOrder, Remaining, Active, Immediate

(* The exit of a position is heard by a strategy without orders, and the   *)
(* whole position is put up for sale.                                      *)
LEMMA ExitIsSold ==
  ASSUME StudyInv, scheduled, phase = "sweep", queue = {}, NEW k \in Entries, HeldBy(k),
         account.position > 0
  PROVE  IF events[k + 1].at = Current
           THEN ActiveOrders = {} /\ Accepted = {MarketOrder("sell_to_close", account.position)}
           ELSE Accepted = {}
<1> DEFINE e == events[k + 1].at
           sale == MarketOrder("sell_to_close", account.position)
<1>1. /\ k + 1 \in DOMAIN events /\ events[k].at \in Int /\ e \in Int /\ events[k].at < e
      /\ events[k + 1] = Event(e, "exit_to_cash")
      /\ \A l \in DOMAIN events : events[l].at = e => l = k + 1
      /\ \A l \in DOMAIN events : ~ (events[k].at < events[l].at /\ events[l].at < e)
  BY EntryFacts DEF StudyInv
<1>2. index \in Int /\ Current = index + 1
  BY CurrentTyped DEF StudyInv
<1>3. \A i \in Int : Heard(i) <=> i < Current
  BY <1>2 DEF Heard
<1>4. events[k].at < Current
  BY <1>1, <1>2, ConfigFacts DEF HeldBy, Fills, StudyInv
<1>5. CASE e = Current
  <2>1. \A o \in ActiveOrders : orders[o].created = Current /\ Heard(orders[o].created)
    BY <1>5 DEF HeldBy, ActiveOrders, StudyInv, FollowInv, FromSchedule
  <2>2. ActiveOrders = {}
    BY <1>2, <1>3, <2>1
  <2>3. ~ Scheduled(Current, "enter_long") /\ Scheduled(Current, "exit_to_cash")
    BY <1>1, <1>5, EventFacts DEF Scheduled
  <2>4. Proposals = {sale}
    BY <2>2, <2>3 DEF Proposals
  <2>5. /\ sale.side = "sell_to_close" /\ sale.type = "market"
        /\ sale.quantity = account.position
    BY DEF MarketOrder
  <2>6. ~ Rejected(sale)
    <3>1. account.position \in Int /\ MinQuantity \in Int
      BY ConfigAssumption DEF StudyInv, IInv, TypeOK, AccountType
    <3> HIDE DEF sale
    <3> QED BY <2>2, <2>5, <3>1 DEF Rejected, HeldBy
  <2> QED BY <1>5, <2>2, <2>4, <2>6 DEF Accepted
<1>6. CASE e # Current
  <2>1. SUFFICES ASSUME NEW intent \in Accepted PROVE FALSE
    BY <1>6
  <2>2. ActiveOrders = {} /\ Scheduled(Current, "exit_to_cash")
    BY ProposalFacts, AcceptedFollows
  <2>3. ~ Heard(e)
    BY <2>2 DEF HeldBy
  <2>4. Current < e
    BY <1>1, <1>2, <1>3, <1>6, <2>3
  <2>5. PICK l \in DOMAIN events : events[l] = Event(Current, "exit_to_cash")
    BY <2>2 DEF Scheduled
  <2> QED BY <1>1, <1>4, <2>4, <2>5, EventFacts
<1> QED BY <1>5, <1>6

LEMMA ScheduleFollows ==
  ASSUME StudyInv, scheduled, FollowSchedule, UNCHANGED scheduleVars
  PROVE  FollowInv'
<1>1. /\ phase = "sweep" /\ phase' = "close" /\ queue = {} /\ queue' = {}
      /\ UNCHANGED <<config, index, account>>
  BY ConfigFacts DEF FollowSchedule, Decide, StudyInv
<1>2. index \in Int /\ Current = index + 1 /\ Current' = Current
  BY <1>1, CurrentTyped DEF StudyInv, Current
<1>3. \A i \in Int : /\ Heard(i) <=> i < Current
                     /\ Heard(i)' <=> i <= Current
  BY <1>1, <1>2 DEF Heard
<1>4. events' = events /\ scheduled'
  BY DEF scheduleVars
<1>5. \A o \in DOMAIN orders : orders[o].created \in Int
  BY OrderTyped DEF StudyInv
<1>6. CASE orders' = orders
  <2>1. FromSchedule'
    <3> SUFFICES ASSUME NEW o \in DOMAIN orders
                 PROVE  /\ orders[o].eligible = orders[o].created + 1 + config.latency
                        /\ orders[o].expires = orders[o].eligible
                        /\ orders[o].created <= Current
                        /\ Scheduled(orders[o].created,
                             IF orders[o].side = "buy" THEN "enter_long" ELSE "exit_to_cash")
      BY <1>1, <1>2, <1>4, <1>6 DEF FromSchedule, Scheduled, Heard
    <3> QED BY <1>2, <1>3, <1>5 DEF StudyInv, FollowInv, FromSchedule
  <2>2. ASSUME account.position > 0, ~ Excused' PROVE (\E k \in Entries : HeldBy(k))'
    <3>1. ~ Excused
      BY <2>2, ExcusedStays DEF StudyInv, RunCase
    <3>2. PICK k \in Entries : HeldBy(k)
      BY <1>1, <2>2, <3>1 DEF StudyInv, FollowInv, Holds
    <3>3. events[k + 1].at # Current
      <4>1. Accepted = {}
        <5>1. orders \in Seq(OrderType)
          BY DEF StudyInv, IInv, TypeOK
        <5>2. \A new : Append(orders, new) # orders
          BY <5>1
        <5> QED BY <1>6, <5>2 DEF FollowSchedule
      <4> QED BY <1>1, <2>2, <3>2, <4>1, ExitIsSold
    <3>4. HeldBy(k)'
      <4>1. events[k + 1].at \in Int
        BY EntryFacts DEF StudyInv
      <4>2. Heard(events[k + 1].at)' <=> Heard(events[k + 1].at)
        BY <1>2, <1>3, <1>4, <3>3, <4>1
      <4>3. (ActiveOrders)' = ActiveOrders
        BY <1>6 DEF ActiveOrders, IsActive
      <4> QED BY <1>1, <1>2, <1>4, <1>6, <3>2, <4>2, <4>3 DEF HeldBy, Fills, Remaining
    <3> QED BY <1>4, <3>4 DEF Entries, Exits
  <2> QED BY <1>1, <1>4, <2>1, <2>2 DEF FollowInv, Holds
<1>7. ASSUME NEW intent \in Accepted, orders' = Append(orders, NewOrder(intent))
      PROVE  FollowInv'
  <2> DEFINE n == Len(orders) + 1
             order == NewOrder(intent)
  <2>1. DOMAIN orders' = DOMAIN orders \cup {n} /\ orders'[n] = order
        /\ \A o \in DOMAIN orders : orders'[o] = orders[o]
    <3> HIDE DEF order
    <3>1. orders \in Seq(OrderType)
      BY DEF StudyInv, IInv, TypeOK
    <3>2. \A new : LET more == Append(orders, new) IN
            DOMAIN more = DOMAIN orders \cup {n} /\ more[n] = new
            /\ \A o \in DOMAIN orders : more[o] = orders[o]
      BY <3>1
    <3> QED BY <1>7, <3>2 DEF order
  <2>2. /\ order.created = Current /\ order.eligible = Current + 1 + config.latency
        /\ order.expires = order.eligible /\ Remaining(order) = intent.quantity
        /\ order.status \in Active
        /\ \/ order.side = "buy" /\ account.position = 0 /\ Scheduled(Current, "enter_long")
           \/ /\ intent = MarketOrder("sell_to_close", account.position)
              /\ order.side # "buy" /\ Scheduled(Current, "exit_to_cash")
    BY AcceptedFollows
  <2>3. ActiveOrders = {}
    BY ProposalFacts
  <2> HIDE DEF n, order
  <2>4. FromSchedule'
    <3> SUFFICES ASSUME NEW o \in DOMAIN orders'
                 PROVE  /\ orders'[o].eligible = orders'[o].created + 1 + config.latency
                        /\ orders'[o].expires = orders'[o].eligible
                        /\ orders'[o].created <= Current
                        /\ Scheduled(orders'[o].created,
                             IF orders'[o].side = "buy" THEN "enter_long" ELSE "exit_to_cash")
      BY <1>1, <1>2, <1>4 DEF FromSchedule, Scheduled, Heard
    <3>1. CASE o = n
      BY <1>2, <1>3, <2>1, <2>2, <3>1
    <3>2. CASE o # n
      BY <1>2, <1>3, <1>5, <2>1, <3>2 DEF StudyInv, FollowInv, FromSchedule
    <3> QED BY <3>1, <3>2
  <2>5. ASSUME account.position > 0, ~ Excused' PROVE (\E k \in Entries : HeldBy(k))'
    <3>1. ~ Excused
      BY <2>5, ExcusedStays DEF StudyInv, RunCase
    <3>2. PICK k \in Entries : HeldBy(k)
      BY <1>1, <2>5, <3>1 DEF StudyInv, FollowInv, Holds
    <3>3. /\ events[k + 1].at = Current
          /\ intent = MarketOrder("sell_to_close", account.position)
      BY <1>1, <2>5, <3>2, ExitIsSold
    <3>4. Remaining(order) = account.position
      BY <2>2, <3>3 DEF MarketOrder
    <3>5. (ActiveOrders)' = {n}
      BY <2>1, <2>2, <2>3 DEF ActiveOrders, IsActive
    <3>6. HeldBy(k)'
      <4>1. Fills(k)' = Fills(k)
        BY <1>1, <1>4 DEF Fills
      <4>2. Remaining(orders'[n]) = account.position /\ orders'[n].created = events[k + 1].at
        BY <2>1, <2>2, <3>3, <3>4
      <4> QED BY <1>1, <1>2, <1>4, <3>2, <3>5, <4>1, <4>2 DEF HeldBy, Remaining
    <3> QED BY <1>4, <3>6 DEF Entries, Exits
  <2> QED BY <1>1, <1>4, <2>4, <2>5 DEF FollowInv, Holds
<1> QED BY <1>6, <1>7 DEF FollowSchedule

(* Fills for one candle only: an order for a bar that fills does it in its *)
(* one candle, and one that is not filled up is cancelled there.           *)
LEMMA FillFollows ==
  ASSUME StudyInv, scheduled, UNCHANGED scheduleVars, NEW o \in queue, EvaluateOrder(o),
         Fillable(orders[o], FillPrice(orders[o], Reference)),
         account'.position > 0, ~ Excused'
  PROVE  (\E k \in Entries : HeldBy(k))'
<1> DEFINE order == orders[o]
           price == FillPrice(order, Reference)
           q == Candidate(order, price)
           next == Settle(WithFill(order, q))
<1>1. /\ o \in DOMAIN orders /\ order \in OrderType /\ order.tif = "bar" /\ order.side \in Sides
      /\ order.filled < order.requested /\ IsActive(o)
  <2>1. o \in DOMAIN orders
    BY DEF StudyInv, IInv, TypeOK
  <2>2. order \in OrderType
    BY <2>1, OrderTyped DEF StudyInv
  <2>3. IsActive(o)
    BY DEF Fillable, IsActive
  <2> QED BY <2>1, <2>2, <2>3 DEF StudyInv, IInv, OrderShape, OneOrder, OrderType
<1>2. /\ phase = "sweep" /\ UNCHANGED <<config, phase, index>>
      /\ orders' = [orders EXCEPT ![o] = next] /\ account' = Booked(order, q, price)
  BY DEF EvaluateOrder, StudyInv, FollowInv
<1>3. index \in Int /\ Current = index + 1 /\ Current' = Current
  BY <1>2, CurrentTyped DEF StudyInv, Current
<1>4. /\ q \in Nat \ {0} /\ q <= Remaining(order) /\ MinQuantity <= q
      /\ order.side = "sell_to_close" => q <= account.position
  <2>1. TypeOK /\ price \in Int /\ Current < Length
    BY <1>1, <1>2, PriceIsInt DEF StudyInv, IInv, Progress
  <2> QED BY <1>1, <2>1, FillBounds DEF Fillable
<1>5. WithFill(order, q) \in OrderType /\ Remaining(WithFill(order, q)) = Remaining(order) - q
      /\ Same(WithFill(order, q), order)
  BY <1>1, <1>4, WithFillFacts, WithFillSame
<1>6. /\ Current = order.eligible /\ order.eligible = order.created + 1 + config.latency
      /\ order.created \in Int /\ config.latency \in Nat
      /\ Scheduled(order.created, IF order.side = "buy" THEN "enter_long" ELSE "exit_to_cash")
  <2>1. Current \in order.eligible .. order.expires
    BY DEF Fillable
  <2> QED BY <1>1, <1>3, <2>1, OrderTyped, ConfigFacts DEF StudyInv, FollowInv, FromSchedule
<1>7. events' = events
  BY DEF scheduleVars
<1>8. (ActiveOrders)' = {} /\ next.side = order.side
      /\ (WithFill(order, q).status \in Active => next.status = "cancelled")
  <2>1. /\ DOMAIN orders' = DOMAIN orders /\ orders'[o] = next
        /\ \A p \in DOMAIN orders : p # o => orders'[p] = orders[p]
    <3>1. orders \in Seq(OrderType)
      BY DEF StudyInv, IInv, TypeOK
    <3> HIDE DEF next
    <3> QED BY <1>1, <1>2, <3>1
  <2>2. WithFill(order, q).status \in Active => next = [WithFill(order, q) EXCEPT !.status = "cancelled"]
    BY <1>1, <1>3, <1>5, <1>6 DEF Settle, Same, Immediate
  <2>3. WithFill(order, q).status \notin Active => next = WithFill(order, q)
    BY DEF Settle
  <2> HIDE DEF next, q
  <2>4. [WithFill(order, q) EXCEPT !.status = "cancelled"].status = "cancelled"
        /\ [WithFill(order, q) EXCEPT !.status = "cancelled"].side = WithFill(order, q).side
    BY <1>5 DEF OrderType
  <2>5. next.status \notin Active /\ next.side = order.side
    BY <1>5, <2>2, <2>3, <2>4 DEF Active, Same
  <2>6. \A p \in ActiveOrders : p = o
    BY <1>1 DEF StudyInv, OneOrder, ActiveOrders
  <2> QED BY <2>1, <2>2, <2>4, <2>5, <2>6 DEF ActiveOrders, IsActive
<1> HIDE DEF q, price, next
<1>9. CASE order.side = "buy"
  <2>1. PICK k \in Entries : events[k].at = order.created
    BY <1>6, <1>9, ScheduledEntry
  <2>2. events[k + 1].at \in Int /\ Fills(k) = Current
    BY <1>6, <2>1, EntryFacts DEF StudyInv, Fills
  <2>3. account.position = 0
    BY <1>1, <1>9 DEF StudyInv, OneOrder, ActiveOrders
  <2>4. account'.position = q
    BY <1>2, <1>4, <1>9, <2>3 DEF Booked
  <2>5. k \in Entries' /\ Fills(k)' = Fills(k)
    BY <1>2, <1>7 DEF Entries, Exits, Fills
  <2>6. ~ (events[k + 1].at <= Fills(k) - 1)
    <3>1. ~ ExitUnheard'
      BY DEF Excused
    <3>2. k + 1 \in DOMAIN events
      BY EntryFacts DEF StudyInv
    <3> QED BY <1>7, <2>5, <3>1, <3>2 DEF ExitUnheard
  <2>7. ~ (Heard(events[k + 1].at))'
    BY <1>2, <1>3, <1>7, <2>2, <2>6 DEF Heard
  <2>8. MinQuantity \in Int
    BY ConfigAssumption
  <2>9. HeldBy(k)'
    BY <1>3, <1>4, <1>7, <1>8, <2>2, <2>4, <2>5, <2>7, <2>8 DEF HeldBy
  <2> QED BY <2>5, <2>9
<1>10. CASE order.side = "sell_to_close"
  <2>1. account'.position = account.position - q /\ account.position \in Int
    BY <1>2, <1>10 DEF Booked, StudyInv, IInv, TypeOK, AccountType
  <2>2. account.position > 0 /\ ~ Excused
    <3>1. RunCase
      BY DEF RunCase
    <3> QED BY <1>4, <2>1, <3>1, ExcusedStays DEF StudyInv
  <2>3. PICK k \in Entries : HeldBy(k)
    BY <1>2, <2>2 DEF StudyInv, FollowInv, Holds
  <2>4. Remaining(order) = account.position
    BY <1>1, <2>3 DEF HeldBy, ActiveOrders
  <2>5. WithFill(order, q).status \in Active
    <3>1. order.requested \in Int /\ order.filled \in Int
      BY <1>1 DEF OrderType
    <3>2. order.filled + q # order.requested
      BY <1>4, <2>1, <2>4, <3>1 DEF Remaining
    <3> QED BY <1>1, <3>2 DEF WithFill, OrderType, Active
  <2>6. o \in DOMAIN orders' /\ orders'[o] = next
    <3>1. orders \in Seq(OrderType)
      BY DEF StudyInv, IInv, TypeOK
    <3> QED BY <1>1, <1>2, <3>1
  <2>7. ExitCutShort'
    BY <1>8, <1>10, <2>5, <2>6 DEF ExitCutShort
  <2> QED BY <2>7 DEF Excused
<1> QED BY <1>1, <1>9, <1>10 DEF Sides

(* An order that does not fill waits, or ends with its exit cut short.     *)
LEMMA MissFollows ==
  ASSUME StudyInv, scheduled, UNCHANGED scheduleVars, NEW o \in queue, EvaluateOrder(o),
         ~ Fillable(orders[o], FillPrice(orders[o], Reference)),
         account'.position > 0, ~ Excused'
  PROVE  (\E k \in Entries : HeldBy(k))'
<1>1. /\ orders' = [orders EXCEPT ![o] = Settle(orders[o])] /\ account' = account
      /\ phase = "sweep" /\ UNCHANGED <<config, phase, index>>
  BY DEF EvaluateOrder, StudyInv, FollowInv
<1>2. o \in DOMAIN orders /\ orders[o] \in OrderType /\ orders \in Seq(OrderType)
      /\ orders[o].tif = "bar" /\ orders[o].side \in Sides
  <2>1. o \in DOMAIN orders /\ orders \in Seq(OrderType)
    BY DEF StudyInv, IInv, TypeOK
  <2> QED BY <2>1, OrderTyped DEF StudyInv, OneOrder, OrderType
<1>3. o \in DOMAIN orders' /\ orders'[o] = Settle(orders[o])
  BY <1>1, <1>2
<1>4. ~ Excused
  BY ExcusedStays DEF StudyInv, RunCase
<1>5. PICK k \in Entries : HeldBy(k)
  BY <1>1, <1>4 DEF StudyInv, FollowInv, Holds
<1>6. Settle(orders[o]) = orders[o]
  <2>1. SUFFICES ASSUME orders[o].status \in Active, Current >= orders[o].eligible
                 PROVE  FALSE
    BY DEF Settle
  <2>2. Settle(orders[o]) = [orders[o] EXCEPT !.status = "cancelled"]
    BY <1>2, <2>1 DEF Settle, Immediate
  <2>3. orders[o].side # "buy"
    BY <1>1, <1>2, <2>1 DEF StudyInv, OneOrder, ActiveOrders, IsActive
  <2>4. orders'[o].side = "sell_to_close" /\ orders'[o].status = "cancelled"
    BY <1>2, <1>3, <2>2, <2>3 DEF OrderType, Sides
  <2> QED BY <1>3, <2>4 DEF Excused, ExitCutShort
<1>7. orders' = orders
  BY <1>1, <1>2, <1>6
<1>8. events' = events /\ Current' = Current
  BY <1>1 DEF scheduleVars, Current
<1>9. HeldBy(k)' /\ Entries' = Entries
  BY <1>1, <1>5, <1>7, <1>8
     DEF HeldBy, Fills, ActiveOrders, IsActive, Remaining, Heard, Entries, Exits
<1> QED BY <1>9

LEMMA EvaluateFollows ==
  ASSUME StudyInv, scheduled, UNCHANGED scheduleVars, NEW o \in queue, EvaluateOrder(o)
  PROVE  FollowInv'
<1>1. /\ o \in DOMAIN orders /\ DOMAIN orders' = DOMAIN orders
      /\ \A p \in DOMAIN orders : Same(orders'[p], orders[p])
      /\ UNCHANGED <<config, phase, index>> /\ queue' = queue \ {o}
  BY Evaluation DEF StudyInv, CInv
<1>2. phase = "sweep"
  BY DEF EvaluateOrder, StudyInv, FollowInv
<1>3. FromSchedule'
  BY <1>1 DEF StudyInv, FollowInv, FromSchedule, Same, Heard, Current, Scheduled, scheduleVars
<1>4. Holds'
  BY FillFollows, MissFollows DEF Holds
<1> QED BY <1>1, <1>2, <1>3, <1>4 DEF FollowInv, scheduleVars

LEMMA RaiseFollows ==
  ASSUME StudyInv, scheduled, UNCHANGED scheduleVars, NEW o \in queue, EvaluationRaises(o)
  PROVE  FollowInv'
<1>1. /\ phase = "sweep" /\ phase' = "raised"
      /\ UNCHANGED <<config, orders, account, index>>
  BY DEF EvaluationRaises, StudyInv, FollowInv
<1>2. \A i \in Int : Heard(i)' <=> Heard(i)
  BY <1>1 DEF Heard
<1>3. Current' = Current /\ Current \in Int
  BY <1>1, CurrentTyped DEF StudyInv, Current
<1>4. RunCase
  BY DEF RunCase
<1> QED BY <1>1, <1>2, <1>3, <1>4, ClockFollows

LEMMA FollowStep ==
  ASSUME StudyInv, [RunNext]_runVars
  PROVE  FollowInv'
<1>1. CASE ScheduleNext /\ UNCHANGED vars
  <2>1. ~ scheduled
    BY <1>1 DEF ScheduleNext, Predict, Conclude
  <2>2. orders' = <<>> /\ account'.position = 0 /\ phase' = "ready"
    BY <1>1, <2>1 DEF StudyInv, FollowInv, vars
  <2> QED BY <2>2 DEF FollowInv, FromSchedule, Holds
<1>2. CASE scheduled /\ RunCase /\ UNCHANGED scheduleVars
  BY <1>2, StartFollows, EvaluateFollows, RaiseFollows, ScheduleFollows, EndFollows, FinalizeFollows
     DEF RunCase
<1>3. CASE UNCHANGED runVars
  BY <1>3 DEF runVars, vars, scheduleVars, StudyInv, FollowInv, FromSchedule, Holds, Scheduled,
              Heard, Current, Excused, ExitCutShort, ExitUnheard, Entries, Exits, Fills, HeldBy,
              ActiveOrders, IsActive, Remaining
<1> QED BY <1>1, <1>2, <1>3 DEF RunNext

LEMMA FollowHolds == RunSpec => []StudyInv
<1>1. RunInit => FollowInv
  BY DEF RunInit, Init, ScheduleInit, FollowInv, FromSchedule, Holds
<1>2. StudyInv /\ [RunNext]_runVars => FollowInv'
  BY FollowStep
<1>3. RunSpec => [](IInv /\ CInv /\ OneOrder /\ ScheduleInv /\ GapInv)
  BY CaseInv, ScheduleHolds, PTL
<1>4. IInv /\ CInv /\ OneOrder /\ ScheduleInv /\ GapInv /\ FollowInv <=> StudyInv
  BY DEF StudyInv
<1> QED BY <1>1, <1>2, <1>3, <1>4, PTL DEF RunSpec

(* A case is long only where its schedule is (study_strategy.py:85-133,    *)
(* study_execution.py), whatever the fills, the latency and the schedule   *)
(* are; what excuses it is an exit that the liquidity of its candle cuts   *)
(* short, or one that comes while the entry still waits for its fill.      *)
THEOREM CasesFollowTheirSchedules == RunSpec => []FollowsSchedule
<1>1. StudyInv => FollowsSchedule
  <2> SUFFICES ASSUME StudyInv, phase = "close", account.position > 0, ~ Excused
               PROVE  ScheduleLongAt(Current)
    BY DEF FollowsSchedule, Excused
  <2>1. scheduled
    BY DEF StudyInv, FollowInv
  <2>2. PICK k \in Entries : HeldBy(k)
    BY DEF StudyInv, FollowInv, Holds
  <2>3. /\ events[k + 1].at \in Int /\ config.latency \in Nat
        /\ index \in Int /\ Current = index + 1
    BY <2>1, EntryFacts, ConfigFacts, CurrentTyped DEF StudyInv
  <2>4. CASE Heard(events[k + 1].at)
    <3>1. PICK o \in ActiveOrders : orders[o].created = events[k + 1].at
      BY <2>2, <2>4 DEF HeldBy
    <3>2. /\ Outlasts(orders[o]) /\ orders[o].tif = "bar"
          /\ orders[o].eligible = orders[o].created + 1 + config.latency
      BY DEF StudyInv, FollowInv, CInv, Swept, OneOrder, FromSchedule, ActiveOrders
    <3>3. Current < Fills(k + 1)
      BY <3>1, <3>2 DEF Outlasts, Immediate, Fills
    <3> QED BY <2>2, <3>3 DEF ScheduleLongAt, HeldBy
  <2>5. CASE ~ Heard(events[k + 1].at)
    <3>1. Current < Fills(k + 1)
      BY <2>3, <2>5 DEF Heard, Fills
    <3> QED BY <2>2, <3>1 DEF ScheduleLongAt, HeldBy
  <2> QED BY <2>4, <2>5
<1> QED BY <1>1, FollowHolds, PTL

-----------------------------------------------------------------------------
(* Before a boundary, an exit of the schedule has time to fill.            *)
LEMMA ExitInTime ==
  ASSUME StudyInv, scheduled, Told, NEW b \in Boundaries, NEW k \in Entries, events[k].at < b
  PROVE  events[k + 1].at + 1 + config.latency < b
<1>1. /\ k \in DOMAIN events /\ k + 1 \in DOMAIN events
      /\ events[k].at \in Int /\ events[k + 1].at \in Int
      /\ events[k].at < events[k + 1].at
  BY EntryFacts DEF StudyInv
<1>2. b \in Int /\ config \in Configs /\ config.latency \in Nat /\ request \in Requests
  BY BoundaryTyped, ConfigFacts DEF StudyInv, ScheduleInv
<1>3. CASE request.boundaries = Boundaries /\ request.latency = config.latency
  <2>1. ScheduleSound
    BY FinishedSound DEF StudyInv
  <2> QED BY <1>3, <2>1 DEF ScheduleSound
<1>4. CASE request.boundaries = {}
  <2>1. \A n \in events[k].at .. events[k + 1].at : n \in request.decisions
    <3>1. Gapless(events)
      BY <1>4 DEF StudyInv, GapInv
    <3>2. events[k].action = "enter_long"
      <4>1. events \in Seq(EventType)
        BY DEF StudyInv, ScheduleInv, Finished, Sound
      <4> QED BY <1>1, <4>1, EventFacts DEF Entries, Exits
    <3> QED BY <1>1, <3>1, <3>2 DEF Gapless
  <2>2. \A d \in request.decisions : d < b => d + 1 + config.latency < b
    BY <1>2, <1>4, GuardAssumption
  <2>3. events[k + 1].at < b
    <3>1. SUFFICES ASSUME b <= events[k + 1].at PROVE FALSE
      BY <1>1, <1>2
    <3>2. b - 1 \in events[k].at .. events[k + 1].at
      BY <1>1, <1>2, <3>1
    <3> QED BY <1>2, <2>1, <2>2, <3>2
  <2>4. events[k + 1].at \in request.decisions
    BY <1>1, <2>1
  <2> QED BY <2>2, <2>3, <2>4
<1> QED BY <1>3, <1>4 DEF Told

(* What a boundary refuses is excused: an order that it meets is a buy     *)
(* whose exit has passed it by, a position one whose exit was cut short.   *)
LEMMA RefusalExcused ==
  ASSUME StudyInv, scheduled, Told, phase = "ready", Current \in Boundaries,
         ActiveOrders # {} \/ account.position # 0
  PROVE  Excused
<1> SUFFICES ASSUME ~ Excused PROVE FALSE
  OBVIOUS
<1>1. /\ index \in Int /\ Current = index + 1 /\ config.latency \in Nat
      /\ \A i \in Int : Heard(i) <=> i <= index
  BY CurrentTyped, ConfigFacts DEF StudyInv, Heard
<1>2. ASSUME NEW o \in ActiveOrders
      PROVE  /\ o \in DOMAIN orders /\ orders[o].created \in Int
             /\ index < orders[o].eligible
             /\ orders[o].eligible = orders[o].created + 1 + config.latency
             /\ orders[o].created <= index
             /\ Scheduled(orders[o].created,
                  IF orders[o].side = "buy" THEN "enter_long" ELSE "exit_to_cash")
  <2>1. o \in DOMAIN orders
    BY DEF ActiveOrders
  <2>2. orders[o].tif = "bar" /\ orders[o].created \in Int
    BY <2>1, OrderTyped DEF StudyInv, OneOrder
  <2>3. index < orders[o].eligible
    BY <2>2 DEF StudyInv, CInv, WindowsEnd, Immediate
  <2> QED BY <1>1, <2>1, <2>2, <2>3 DEF StudyInv, FollowInv, FromSchedule
<1>3. account.position \in Nat
  BY DEF StudyInv, IInv, TypeOK, AccountType
<1>4. CASE account.position = 0
  <2>1. PICK o \in ActiveOrders : TRUE
    BY <1>4
  <2>2. orders[o].side = "buy"
    <3>1. orders[o] \in OrderType /\ orders[o].filled < orders[o].requested
      BY <1>2, OrderTyped DEF StudyInv, IInv, OrderShape, ActiveOrders
    <3>2. orders[o].side = "sell_to_close" => Remaining(orders[o]) <= account.position
      BY DEF StudyInv, IInv, SellsCovered
    <3> QED BY <1>4, <3>1, <3>2 DEF Remaining, OrderType, Sides
  <2>3. PICK k \in Entries : events[k].at = orders[o].created
    BY <1>2, <2>2, ScheduledEntry
  <2>4. k + 1 \in DOMAIN events /\ events[k + 1].at \in Int
    BY EntryFacts DEF StudyInv
  <2>5. events[k + 1].at + 1 + config.latency < Current
    BY <1>1, <1>2, <2>3, ExitInTime
  <2>6. events[k + 1].at <= Fills(k) - 1
    BY <1>1, <1>2, <2>3, <2>4, <2>5 DEF Fills
  <2> QED BY <2>4, <2>6 DEF Excused, ExitUnheard
<1>5. CASE account.position > 0
  <2>1. PICK k \in Entries : HeldBy(k)
    BY <1>5 DEF StudyInv, FollowInv, Holds
  <2>2. events[k].at \in Int /\ events[k + 1].at \in Int
    BY EntryFacts DEF StudyInv
  <2>3. events[k].at < Current
    BY <1>1, <2>1, <2>2 DEF HeldBy, Fills
  <2>4. events[k + 1].at + 1 + config.latency < Current
    BY <2>3, ExitInTime
  <2>5. Heard(events[k + 1].at)
    BY <1>1, <2>2, <2>4
  <2>6. PICK o \in ActiveOrders : orders[o].created = events[k + 1].at
    BY <2>1, <2>5 DEF HeldBy
  <2> QED BY <1>1, <1>2, <2>2, <2>4, <2>6
<1> QED BY <1>3, <1>4, <1>5

(* The exit of every position is heard before the case ends; what is still *)
(* held then has an order to sell, which the end of the run cancels.       *)
LEMMA LastDecisionIs ==
  ASSUME request \in Requests
  PROVE  LastDecision \in request.decisions /\ LastDecision \in 0 .. DatasetLength - 1
<1>1. request.decisions \in SUBSET (0 .. DatasetLength - 1) /\ request.decisions # {}
  BY StudyAssumption, RequestFacts
<1>2. Bounded(request.decisions)
  BY <1>1, StudyAssumption DEF Bounded
<1>3. LastDecision \in request.decisions
  BY <1>1, <1>2, LatestIn DEF LastDecision
<1> QED BY <1>1, <1>3

LEMMA RestExcused ==
  ASSUME StudyInv, scheduled, EvaluationEnd = Length, Finalize, UNCHANGED scheduleVars,
         account.position > 0
  PROVE  Excused'
<1> SUFFICES ASSUME ~ Excused' PROVE FALSE
  OBVIOUS
<1>1. phase = "ready" /\ Current = Length
  BY DEF Finalize
<1>2. ~ Excused
  BY ExcusedStays DEF StudyInv, RunCase
<1>3. PICK k \in Entries : HeldBy(k)
  BY <1>1, <1>2 DEF StudyInv, FollowInv, Holds
<1>4. LastDecision < Length
  <2>1. DatasetLength \in Nat /\ config.latency \in Nat
    BY StudyAssumption, ConfigFacts DEF StudyInv
  <2>2. LastDecision \in 0 .. DatasetLength - 1
    BY LastDecisionIs DEF StudyInv, ScheduleInv
  <2> DEFINE a == DatasetLength
             b == LastDecision + 2 + config.latency
  <2>3. a \in Int /\ b \in Int /\ LastDecision \in Int /\ LastDecision < a /\ LastDecision < b
    BY <2>1, <2>2
  <2> HIDE DEF a, b
  <2>4. Min({a, b}) \in {a, b}
    <3>1. \E x \in {a, b} : \A y \in {a, b} : x =< y
      BY <2>3
    <3> QED BY <3>1 DEF Min
  <2> QED BY <2>3, <2>4 DEF EvaluationEnd, a, b
<1>5. events[k + 1].at \in Int /\ events[k + 1].at <= LastDecision
  BY EntryFacts DEF StudyInv
<1>6. Heard(events[k + 1].at)
  <2>1. index \in Int /\ Current = index + 1 /\ Length \in Int
    BY CurrentTyped, ConfigAssumption DEF StudyInv
  <2>2. LastDecision \in Int
    BY LastDecisionIs, StudyAssumption DEF StudyInv, ScheduleInv
  <2> QED BY <1>1, <1>4, <1>5, <2>1, <2>2 DEF Heard
<1>7. PICK o \in ActiveOrders : TRUE
  BY <1>3, <1>6 DEF HeldBy
<1>8. o \in DOMAIN orders /\ orders[o] \in OrderType /\ IsActive(o) /\ orders[o].side # "buy"
  <2>1. o \in DOMAIN orders /\ IsActive(o)
    BY DEF ActiveOrders
  <2> QED BY <2>1, OrderTyped DEF StudyInv, OneOrder
<1>9. o \in DOMAIN orders' /\ orders'[o] = [orders[o] EXCEPT !.status = "cancelled"]
  BY <1>8 DEF Finalize
<1>10. orders'[o].side = "sell_to_close" /\ orders'[o].status = "cancelled"
  BY <1>8, <1>9 DEF OrderType, Sides
<1> QED BY <1>9, <1>10 DEF Excused, ExitCutShort

LEMMA EndsStep ==
  ASSUME StudyInv, Planned, [RunNext]_runVars
  PROVE  Planned'
<1>1. config' = config /\ request' = request
  BY DEF RunNext, RunCase, StartCandle, EvaluateOrder, EvaluationRaises, FollowSchedule, Decide,
         EndCandle, Finalize, ScheduleNext, Predict, Conclude, runVars, vars, scheduleVars
<1>2. Told' /\ (EvaluationEnd = Length)'
  BY <1>1 DEF Planned, Told, EvaluationEnd, LastDecision
<1> SUFFICES CashAtTheEnds'
  BY <1>2 DEF Planned
<1>3. CASE UNCHANGED runVars
  BY <1>3 DEF runVars, vars, scheduleVars, Planned, CashAtTheEnds, ExitCutShort, ExitUnheard,
              OrderUnpriced, Unpriced, Current, Entries, Exits, Fills
<1>4. CASE ScheduleNext /\ UNCHANGED vars
  <2>1. phase' = "ready"
    BY <1>4 DEF ScheduleNext, Predict, Conclude, vars, StudyInv, FollowInv
  <2> QED BY <2>1 DEF CashAtTheEnds
<1>5. CASE scheduled /\ UNCHANGED scheduleVars /\ StartCandle
  <2>1. phase = "ready" /\ UNCHANGED <<config, account, orders>>
    BY <1>5 DEF StartCandle
  <2>2. phase' # "final"
    BY <1>5 DEF StartCandle, Enter
  <2>3. ASSUME phase' = "raised" PROVE Excused'
    <3>1. Current \in Boundaries /\ (ActiveOrders # {} \/ account.position # 0)
      BY <1>5, <2>3 DEF StartCandle, Enter
    <3>2. Excused
      BY <1>5, <2>1, <3>1, RefusalExcused DEF Planned
    <3> QED BY <1>5, <3>2, ExcusedStays DEF RunCase, StudyInv
  <2> QED BY <2>2, <2>3 DEF CashAtTheEnds, Excused
<1>6. CASE scheduled /\ UNCHANGED scheduleVars /\ Finalize
  <2>1. phase' = "final" /\ account' = account
    BY <1>6 DEF Finalize
  <2> QED BY <1>6, <2>1, RestExcused DEF Planned, CashAtTheEnds, Excused
<1>7. CASE (\E o \in queue : EvaluateOrder(o)) \/ FollowSchedule \/ EndCandle
  <2>1. phase' \in {"sweep", "close", "ready"}
    BY <1>7 DEF EvaluateOrder, FollowSchedule, Decide, EndCandle
  <2> QED BY <2>1 DEF CashAtTheEnds
<1>8. ASSUME NEW o \in queue, EvaluationRaises(o) PROVE CashAtTheEnds'
  <2>1. phase = "sweep" /\ Unpriced(orders[o], candle.open)
    BY <1>8 DEF EvaluationRaises, StudyInv, FollowInv, Reference
  <2>2. OrderUnpriced'
    BY <1>8, <2>1 DEF OrderUnpriced, Unpriced, EvaluationRaises, Current
  <2> QED BY <2>2 DEF CashAtTheEnds
<1> QED BY <1>2, <1>3, <1>4, <1>5, <1>6, <1>7, <1>8 DEF RunNext, RunCase

(* A case comes to a boundary and to its end in cash, because its schedule *)
(* or the guard zones of its decisions leave every exit the time to fill   *)
(* (study_predictions.py:74-123, study_plans.py:99-102, splits.py:534);    *)
(* what is refused there, or left over, is an exit that was cut short or   *)
(* not heard, or an order that the adverse costs leave without a price.    *)
THEOREM CasesEndInCash == RunSpec => []CashAtTheEnds
<1>1. RunInit => Planned
  BY DEF RunInit, Init, Planned, CashAtTheEnds
<1>2. StudyInv /\ Planned /\ [RunNext]_runVars => Planned'
  BY EndsStep
<1>3. Planned => CashAtTheEnds
  BY DEF Planned
<1> QED BY <1>1, <1>2, <1>3, FollowHolds, PTL DEF RunSpec
=============================================================================
