SPECIFICATION FairSpec
CONSTANTS
  Sources = {"e1", "e2"}
  Targets = {"webhook"}
  MaxAttempts = 2
  Base = 1
  Batch = 1
  CommitEach = FALSE
  MaxOverdue = 1
  MaxPass = 1
  MaxOutages = 1
  MaxFaults = 1
  Retain = 1
INVARIANTS AlarmStaysWhole RepeatsNeedFaults
PROPERTIES EveryAlertSettles
CHECK_DEADLOCK FALSE
