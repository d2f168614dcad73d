SPECIFICATION Spec
CONSTANTS
  Payloads <- TwoPayloads
  Keys <- MCKeys
  KeyOf <- TwoKeyOf
  KindOf <- TwoKindOf
  BatchSize = 2
  MaxQueued = 1
  Strict = FALSE
  MaxRows = 2
  MaxFaults = 2
INVARIANTS NoLoss
PROPERTIES DeliverySpec
CHECK_DEADLOCK FALSE
