SPECIFICATION Spec
CONSTANTS
  b1 = b1
  b2 = b2
  Batches = {b1, b2, b3}
  Snapshots = {s1, s2}
  Faulty = {b3}
  Lives <- MCLives
  SnapshotLife = 2
  HistoryDepth = 1
  EventBudget = 2
  PruneBatch = 1
  Polls = {p1, p2}
  MaxClock = 2
  MaxSessions = 2
  MaxSent = 2
INVARIANTS OneCopy
PROPERTIES RefusalIsHonest LatestIsNews
SYMMETRY MCSymmetry
CHECK_DEADLOCK FALSE
