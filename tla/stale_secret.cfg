SPECIFICATION Spec
CONSTANTS
  Plugins = {p1}
  Enrolls = {e1, e2}
  Slots = {q1}
  MaxTokens = 2
  MaxSessions = 2
  MaxFaults = 2
INVARIANT SessionsOfTheSecret
CHECK_DEADLOCK FALSE
