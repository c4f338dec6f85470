SPECIFICATION Spec
CONSTANTS
  Jobs = {j1, j2}
  Commits = {c1, c2}
  None = None
  MonthTicks = 2
  Cutoff = 1
  MaxClock = 1
  Purge = 3
  Embargo = 3
  LabelExitOffset = 4
  Lookback = 4
  MonthLength = 6
  PeriodsPerYear = 700
  Histories <- MCHistories
  Cases <- MCCases
SYMMETRY Interchangeable
INVARIANTS SealsAreEarned ReplayAgrees PlanIsCausal FailClosed
PROPERTIES ImplementsSealOnce
