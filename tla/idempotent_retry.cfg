SPECIFICATION Spec
CONSTANTS
  narrow = narrow
  wide = wide
  Requests = {narrow, wide}
  Keyed = {narrow, wide}
  Codes = {"heal", "wipe"}
  Code <- SameCode
  Grants <- SameGrants
  LastRevision = 2
  Declares <- MCDeclares
  Attempts = 3
  QueueLimit = 2
  MaxFaults = 0
PROPERTIES RetryIsHonoured
CHECK_DEADLOCK FALSE
