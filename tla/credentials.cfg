SPECIFICATION FairSpec
CONSTANTS
  Plugins = {p1, p2}
  Enrolls = {e1, e2}
  Slots = {q1, q2}
  MaxTokens = 2
  MaxSessions = 5
  MaxFaults = 1
INVARIANTS OneSecretPerToken OneLiveSession CredentialsFit
PROPERTIES OnlyLatestEnrolls RevokedMeansSilent LinkRecovers
CHECK_DEADLOCK FALSE
