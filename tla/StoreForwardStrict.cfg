SPECIFICATION FairSpec
CONSTANTS
  Payloads <- TwoPayloads
  Keys <- MCKeys
  KeyOf <- TwoKeyOf
  KindOf <- TwoKindOf
  BatchSize = 2
  MaxQueued = 2
  Strict = TRUE
  MaxRows = 1
  MaxFaults = 1
PROPERTIES DatabaseRestartRecovers
CHECK_DEADLOCK FALSE
