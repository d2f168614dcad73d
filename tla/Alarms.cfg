SPECIFICATION MCSpec
CONSTANTS
  DebounceIn = 2
  ExitDebounce = 2
  MinEntryDwell = 0
  OverspeedConsecutive = 2
  DwellS = 2
  MaxGap = 1
  MaxSkew = 1
  Workers = {"mqtt", "http"}
  RawWorkers = {"mqtt"}
  Locs = {"in", "out"}
  SpeedsSeen = {"slow"}
  MaxNow = 2
  LegacyStates <- LegacyRows
  BreachIds = {b1}
  NoticeAfter <- MCNoticeAfter
  WarnBefore = 1
  DeadlineFrom = "occurred"
  BreachSkew = 0
  RetainAlarms = 2
  RetainBreaches = 2
  BreachMaxTime = 5
  SilentAfter = 0
  Caps <- MCCaps
  MaxInside = 2
  KeepAlarms = 2
  KeepHealth = 2
  ConditionSteps = 1
  ConditionEnd = 3
INVARIANTS EvaluatedOnce SettledIsSilent OneAlarmPerEpisode
PROPERTIES NoLostUpdate LiveFixHeals OverdueIsAlarmed ConditionsAlarmed
CHECK_DEADLOCK FALSE
