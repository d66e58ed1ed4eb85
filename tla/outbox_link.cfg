SPECIFICATION FairSpec
CONSTANTS
  Entries = {1, 2, 3}
  Malformed = {2}
  Capacity = 2
  BatchLimit = 2
  DiskMayFail = TRUE
  Slots = {p1, p2}
  MaxSessions = 5
  MaxFaults = 2
INVARIANTS TypeOK ReleasedMeansApplied NothingLost AppliedInOrder SpacesAgree
PROPERTIES  ContractSpec EveryEntryLands
CHECK_DEADLOCK FALSE
