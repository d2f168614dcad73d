SPECIFICATION MCSpec
CONSTANTS
  DebounceIn = 2
  ExitDebounce = 2
  MinEntryDwell = 2
  OverspeedConsecutive = 2
  DwellS = 2
  MaxGap = 2
  MaxSkew = 1
  Sightings <- MCSightings
  MaxNow = 5
  LegacyStates <- LegacyRows
  Subjects = {s}
  ImageZones = {"z1"}
  Places <- MCPlaces
  RuleVersions <- MCRules
  MinObservations = 2
  MinDwell = 1
  Hysteresis = 2
  Cooldown = 4
  Window = 1
  MinHits = 2
  MaxMissed = 1
  Gaps = {1}
  MaxFrames = 8
  MaxRebuilds = 1
  MinLoad = 2
  MinStep = 5
  BucketS = 2
  ChunkMax = 2
  ChunkMin = 2
  HaulWorlds <- MCWorlds
  DemandFrom = {0, 6}
INVARIANTS TrackTold EventsExact RebuildMatchesHistory
CHECK_DEADLOCK FALSE
