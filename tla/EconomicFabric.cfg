SPECIFICATION FabricSpec
CONSTANTS
  Writers = {w1, w2}
  Readers = {r1}
  Puts <- MCPuts
  Bundles <- MCBundles
  Legacy <- MCLegacy
  Candidates <- MCCandidates
  Absent = Absent
  Torn = Torn
  None = None
  Tied = Tied
  Milli = 2
  Grain <- MCGrain
  DayTicks = 32
SYMMETRY Interchangeable
INVARIANTS ReceiptsAreTrue ManifestCloses ReplayIsWhole KnownThenOnly
PROPERTIES ConfirmsAlone
