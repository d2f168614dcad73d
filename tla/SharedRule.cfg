SPECIFICATION RulesSpec
CONSTANTS
  Subjects = {s}
  ImageZones = {"z1"}
  Places <- MCPlaces
  RuleVersions <- MCSharedRule
  MinObservations = 2
  MinDwell = 0
  Hysteresis = 2
  Cooldown = 4
  Window = 2
  MinHits = 1
  MaxMissed = 1
  Gaps = {1}
  MaxFrames = 3
  MaxRebuilds = 1
INVARIANTS EventsFromEnoughFrames
CHECK_DEADLOCK FALSE
