SPECIFICATION MCSpec
CONSTANTS
  SampleStep = 4
  FirstBackoff = 2
  LastBackoff = 5
  MaxReadFailures = 2
  FrameGap = 6
  MaxOutages = 2
  BucketLength = 2
  EdgeBatch = 2
  SentKept = 2
  RefusedFrames = {1}
  Configs <- MCConfigs
  EdgeBudgets <- MCBudgets
  EdgeMaxTime = 2
INVARIANTS SampleRateKept
PROPERTIES FramesResume EventsArrive
CHECK_DEADLOCK FALSE
