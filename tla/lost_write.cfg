SPECIFICATION LedSpec
CONSTANTS
  Node = {n1, n2, n3}
  Stroke = {s1, s2}
  Nil = Nil
  First = n1
  SnapshotThreshold = 5
  BatchCap = 2
  MaxRetries = 1
  MaxElections = 2
  MaxCrashes = 0
  MaxLate = 0
  MaxReads = 0
  MaxCatchUps = 0
  MaxRounds = 1
SYMMETRY LedSymmetry
CHECK_DEADLOCK FALSE
INVARIANTS VisibleOnMajority
CONSTRAINT TwoWritersOnly
