\* Schedules of a test window and their runs, with and without latency.
SPECIFICATION RunSpec
CONSTANTS
  Candles <- MCCandles
  Intents <- MCIntents
  Length = 16
  Boundaries = {8}
  InitialCash = 190
  Scale = 10
  MakerFee = 1
  TakerFee = 1
  AdverseBps = 1000
  PriceTick = 1
  MinQuantity = 1
  MinNotional = 3
  ParticipationPct = 50
  MaxActive = 3
  Configs <- MCConfigs
  Key <- MCKey
  Observations <- MCObservations
  Policy <- MCPolicy
  Requests <- MCRequests
  DatasetLength = 25
INVARIANTS ScheduleSound HoldsBounded FollowsSchedule CashAtTheEnds
PROPERTIES IsLongOrCash
CHECK_DEADLOCK FALSE
