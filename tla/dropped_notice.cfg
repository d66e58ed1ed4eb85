SPECIFICATION FairSpec
CONSTANTS
  Cut = Cut
  Absent = Absent
  BanIds = {1, 2}
  Players = {1, 2}
  Durations = {1}
  Servers = {s1}
  PageLimit = 1
  MaxClock = 1
  MaxRevision = 3
  MaxFaults = 2
PROPERTY SessionMakesUpForNotices
CHECK_DEADLOCK FALSE
