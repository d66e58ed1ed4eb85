SPECIFICATION SweepSpec
CONSTANTS
  Actions = {1, 2}
  Notices = {}
  Expiring = {1}
  BatchLimit = 1
  QueueLimit = 2
  LruCapacity = 1
  InOrder = TRUE
  LogMayFail = TRUE
  Slots = {p1}
  MaxSessions = 5
  MaxFaults = 2
INVARIANTS AtMostOnce
PROPERTIES EveryEnvelopeLeaves OverdueWorkIsRetired
CHECK_DEADLOCK FALSE
