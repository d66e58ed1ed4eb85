SPECIFICATION Spec
CONSTANTS
  Actions = {2}
  Notices = {1, 3}
  Expiring = {2}
  BatchLimit = 2
  QueueLimit = 2
  LruCapacity = 1
  InOrder = FALSE
  LogMayFail = FALSE
  Slots = {p1, p2}
  MaxSessions = 3
  MaxFaults = 2
SYMMETRY SlotSymmetry
INVARIANTS AckedMeansTaken NoGap NeverOutOfRange
PROPERTIES ContractSpec RetransmittedUnchanged
CHECK_DEADLOCK FALSE
