SPECIFICATION ApartSpec
CONSTANTS
  Node = {n1, n2, n3}
  Stroke = {s1, s2}
  Nil = Nil
  First = n1
  SnapshotThreshold = 1
  BatchCap = 1
  MaxRetries = 2
  MaxElections = 1
  MaxCrashes = 1
  MaxLate = 1
  MaxReads = 1
  MaxCatchUps = 1
  MaxRounds = 0
SYMMETRY LedSymmetry
CHECK_DEADLOCK FALSE
INVARIANTS NoOrphanWait RestartRebuildsBoard ReadNotSuperseded ReadsSeeAcked
PROPERTY BoardsGrow
CONSTRAINT ReadsApart
