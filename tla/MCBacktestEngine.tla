-------------------------- MODULE MCBacktestEngine --------------------------
(* Small instances of BacktestEngine: candles whose ranges overlap, so that *)
(* a limit at 3 crosses one and touches another, a thin, a thick and no     *)
(* volume, an open at which a sale is worth nothing, and identities whose   *)
(* order is not the order of the decisions.                                 *)
EXTENDS BacktestEngine

Thin == [open |-> 3, high |-> 4, low |-> 2, close |-> 3, volume |-> 2]
Thick == [open |-> 4, high |-> 5, low |-> 3, close |-> 4, volume |-> 6]
Dry == [open |-> 1, high |-> 5, low |-> 1, close |-> 4, volume |-> 0]
MCCandles == {Thin, Thick, Dry}

Intent(s, ty, q, l, tif) == [side |-> s, type |-> ty, quantity |-> q, limit |-> l, tif |-> tif]
MCIntents ==
  {Intent("buy", "market", 2, 1, "ioc"), Intent("buy", "limit", 3, 4, "gtc"),
   Intent("buy", "market", 3, 1, "gtc"), Intent("buy", "limit", 2, 3, "gtc"),
   Intent("sell_to_close", "market", 1, 1, "bar"),
   Intent("sell_to_close", "limit", 2, 3, "gtc"), Intent("sell_to_close", "market", 2, 1, "gtc")}

(* NEXT_CANDLE with conservative limits; same-close with touched limits. *)
MCConfigs ==
  {[latency |-> 1, sameClose |-> FALSE, optimistic |-> FALSE],
   [latency |-> 0, sameClose |-> TRUE, optimistic |-> TRUE]}

MCKey == [d \in 1 .. Length |-> (3 * d) % 7]
=============================================================================
