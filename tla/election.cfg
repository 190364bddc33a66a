SPECIFICATION Spec
CONSTANTS
  Node = {n1, n2, n3}
  Stroke = {}
  Nil = Nil
  First = n1
  SnapshotThreshold = 5
  BatchCap = 2
  MaxRetries = 1
  MaxElections = 2
  MaxCrashes = 1
  MaxLate = 1
  MaxReads = 0
  MaxCatchUps = 0
  MaxRounds = 2
SYMMETRY Symmetry
CHECK_DEADLOCK FALSE
INVARIANTS ElectionSafety PeerVoteKept NeverStuck
PROPERTY TermsAndVotesAdvance
