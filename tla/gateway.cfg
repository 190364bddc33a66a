SPECIFICATION Spec
CONSTANTS
  c1 = c1
  c2 = c2
  c3 = c3
  u1 = u1
  u2 = u2
  u3 = u3
  b1 = b1
  b2 = b2
  Conn = {c1, c2, c3}
  User = {u1, u2, u3}
  BoardOf <- MCBoardOf
  UserOf <- MCUserOf
  Stroke = {x1}
  Nil = Nil
  NumPeers = 1
  Hint = {2}
  maxUsersPerBoard = 1
  MAX_WRITE_ATTEMPTS = 2
  MaxHints = 1
  MaxCloses = 2
  MaxReadFailures = 1
  MaxFailovers = 1
  MaxMisnamed = 1
CHECK_DEADLOCK FALSE
INVARIANTS TypeOK NoLeakedSockets ShownIsCommitted NoStrokeMissed PresenceComplete
PROPERTY RoundsEnd
CONSTRAINT FewAtOnce
SYMMETRY TabSymmetry
