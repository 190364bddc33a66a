SPECIFICATION Spec
CONSTANTS
  Candidate = {c1, c2}
  Nil = Nil
  Torn = Torn
  Chosen <- MCChosen
  SnapshotThreshold = 2
  MaxTerm = 2
  MaxCrashes = 3
  MaxTorn = 2
  MaxInstalls = 1
SYMMETRY Symmetry
CHECK_DEADLOCK FALSE
INVARIANTS VotesDurable EntriesDurable BoardDurable
