SPECIFICATION FairSpec
CONSTANTS
  Cut = Cut
  Absent = Absent
  BanIds = {1, 2}
  Players = {1, 2}
  Durations = {1}
  Servers = {s1}
  PageLimit = 1
  MaxClock = 2
  MaxRevision = 3
  MaxFaults = 1
INVARIANTS EnforcedIsServed
PROPERTIES OutageKeepsBans ChangesReachServers
CHECK_DEADLOCK FALSE
