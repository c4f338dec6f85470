SPECIFICATION FairSpec
CONSTANTS
  Runs <- MCRuns
  PreFinalIds <- MCPreFinalIds
  PreFinal <- MCPreFinal
  MaxAttempts = 2
INVARIANTS EvaluatedOnce SealedOnce InconclusiveStaysSealed
PROPERTIES RunsEnd
CHECK_DEADLOCK FALSE
