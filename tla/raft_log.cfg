SPECIFICATION Spec
CONSTANTS
  MaxIndex = 3
  MaxTerm = 3
  MaxBatch = 3
INVARIANTS MergeIsTheLoop AbortChangesNothing
PROPERTY CommittedTermsKept
CHECK_DEADLOCK FALSE
