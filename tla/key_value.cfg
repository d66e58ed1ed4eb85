SPECIFICATION FairSpec
CONSTANTS
  s1 = s1
  c1 = c1
  c2 = c2
  god = god
  freeze = freeze
  Other = Other
  Servers = {s1}
  Changes = {c1, c2}
  Flags = {god, freeze}
  Home <- MCHome
  Named <- MCNamed
  Requested <- MCRequested
  ChangeAttempts = 2
  MaxWrites = 2
  MaxFaults = 1
PROPERTIES NoUpdateLost GameFollowsStore
CHECK_DEADLOCK FALSE
