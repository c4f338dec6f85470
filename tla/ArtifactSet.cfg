SPECIFICATION FairSpec
CONSTANTS
  Writers = {w1, w2, w3}
  Readers = {r1}
  N = 4
  Manifest = 3
  Artifacts <- MCArtifacts
  Absent = Absent
INVARIANTS NoMixture ConflictIsReal VerifiedWhole
PROPERTIES RaceIsWon
