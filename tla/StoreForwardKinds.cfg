SPECIFICATION FairSpec
CONSTANTS
  Payloads <- AllPayloads
  Keys <- MCKeys
  KeyOf <- AllKeyOf
  KindOf <- AllKindOf
  BatchSize = 2
  MaxQueued = 2
  Strict = TRUE
  MaxRows = 2
  MaxFaults = 1
INVARIANTS ProcessedOnce
PROPERTIES AckOnlyWhenFinal Drains
CHECK_DEADLOCK FALSE
