SPECIFICATION Spec
CONSTANTS
  Candidate = {c1, c2}
  Nil = Nil
  Torn = Torn
  Chosen <- MCChosen
  SnapshotThreshold = 2
  MaxTerm = 2
  MaxCrashes = 2
  MaxTorn = 0
  MaxInstalls = 1
SYMMETRY Symmetry
CHECK_DEADLOCK FALSE
INVARIANTS PersistedCommitWithinLog
