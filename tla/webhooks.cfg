SPECIFICATION FairSpec
CONSTANTS
  narrow = narrow
  wide = wide
  Hooks = {w1}
  Notes = {2}
  TypeOf <- MCTypeOf
  Tokens = {narrow, wide}
  Covers <- MCCovers
  Filters <- MCFilters
  Edits <- MCEdits
  Nothing = Nothing
  NoOne = NoOne
  Retries = 1
  PendingBound = 1
  NotifyBatch = 1
  DeliverBatch = 2
  MaxReplays = 2
  MaxFaults = 1
INVARIANTS VouchedExport
PROPERTIES PromiseKept EveryDeliveryEnds
CHECK_DEADLOCK FALSE
