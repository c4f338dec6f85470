\* Two runs with windows of their own retrieve the same candles.
SPECIFICATION Spec
CONSTANTS
  Runs = {r1, r2}
  Replayers = {}
  Requests <- MCWindows
  Answers <- MCShortAnswers
  ServerTimes = {2}
  Clock = {1}
  MaxAttempts = 1
  MaxPages = 4
  None = None
INVARIANTS ManifestsAgree
CHECK_DEADLOCK FALSE
