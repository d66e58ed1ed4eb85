SPECIFICATION FairSpec
CONSTANTS
  narrow = narrow
  wide = wide
  Requests = {narrow, wide}
  Keyed = {narrow, wide}
  Codes = {"heal", "wipe"}
  Code <- MCCode
  Grants <- MCGrants
  LastRevision = 3
  Declares <- MCDeclares
  Attempts = 2
  QueueLimit = 1
  MaxFaults = 2
INVARIANTS OneActionPerKey AnswersHold RunsWereDelivered
PROPERTIES ApprovedWhenStored ForwardOnly ExpiryWins EveryActionEnds
CHECK_DEADLOCK FALSE
