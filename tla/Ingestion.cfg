\* One run, and a replay that starts at any time and may be repeated.
SPECIFICATION FairSpec
CONSTANTS
  Runs = {r1}
  Replayers = {x}
  Requests <- MCRequests
  Answers <- MCAnswers
  ServerTimes = {2, 4}
  Clock = {1, 2}
  MaxAttempts = 2
  MaxPages = 4
  None = None
INVARIANTS EvidenceWhole DatasetsAreEvidenced ReplayAgrees VerifiedCovers
PROPERTIES IngestionEnds ReplayFinishes
CHECK_DEADLOCK FALSE
