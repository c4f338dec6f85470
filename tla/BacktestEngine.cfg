\* The official and the diagnostic policies, over a segment boundary.
SPECIFICATION Spec
CONSTANTS
  Candles <- MCCandles
  Intents <- MCIntents
  Length = 6
  Boundaries = {4}
  InitialCash = 190
  Scale = 10
  MakerFee = 1
  TakerFee = 2
  AdverseBps = 1000
  PriceTick = 1
  MinQuantity = 1
  MinNotional = 3
  ParticipationPct = 50
  MaxActive = 3
  Configs <- MCConfigs
  Key <- MCKey
INVARIANTS SellsCovered Reconciles CandleFilledOnce WindowsKept SegmentsIsolated
CHECK_DEADLOCK FALSE
