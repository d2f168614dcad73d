SPECIFICATION MCSpec
CONSTANTS
  Passages = {p1, p2}
  Gates = {g1}
  GateSkews <- MCSkews
  PassageKinds = {"ok", "malformed"}
  GateOverlap = 2
  GateMaxSkew = 1
  GateRetain = 2
  GateOfflineAfter = 1
  GateMaxTime = 3
  Entries = {p1}
  Guards = {s1, s2}
  SearchGrace = 1
  OffShift = {0}
  SearchRetain = 1
  SearchMaxTime = 3
  Links = {l1, l2}
  TrackerAssets = {"a1", "a2"}
  StrictDevices = TRUE
  PacketSize = 2
  MaxTracked = 3
  MaxLinks = 3
  MaxRebinds = 1
  BucketLength = 2
  EdgeBatch = 2
  SentKept = 2
  RefusedFrames = {1}
  Configs <- MCConfigs
  EdgeBudgets <- MCBudgets
  EdgeMaxTime = 4
  NvrRuns = {r1, r2}
  NvrIds = {"e1", "e2"}
  NvrCodes = {"intrusion", "identity"}
  MaxNvrBatch = 2
  MaxNvrRuns = 3
  MaxNvrPurges = 1
  StillEvents = {1, 2, 3}
  MaxStills = 2
  StillAge = 2
  UploadLimit = 2
  MaxSaves = 3
  EvidenceEnd = 4
INVARIANTS FeedIsExact PassageAlarmsOnce RecordedOnce ReferencesHold DeletedIsPublished VendorEventsLand
CHECK_DEADLOCK FALSE
