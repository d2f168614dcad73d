SPECIFICATION MCSpec
CONSTANTS
  Sources = {"day"}
  Targets = {"email", "whatsapp"}
  MaxAttempts = 3
  Base = 1
  Batch = 2
  CommitEach = TRUE
  MaxOverdue = 0
  MaxPass = 1
  MaxOutages = 1
  MaxFaults = 2
  Delay = 1
  CatchUp = 2
  Retain = 5
  ShiftNames = {"n1", "n2"}
  StartHours = {0, 5, 18, 23}
  Durations = {1, 12, 24}
  ZoneOffset = 2
  ShiftsBegin = 96
  ShiftsEnd = 124
  SpanLengths = {1, 7, 12, 24, 25, 50}
  MaxShiftEdits = 2
INVARIANTS ReportsSentOnce OutageOnlyDelays ShiftsExact
CHECK_DEADLOCK FALSE
