SPECIFICATION MCSpec
CONSTANTS
  Supervisors = {p1, p2}
  IncidentIds = {i1}
  Alarms = {a1}
  NoAlarm = none
  MaxTimeline = 4
  Dispatchers = {p1, p2}
  NumTrucks = 2
  JobKinds <- MCJobKinds
  MaxJobs = 2
  MaxAssignments = 2
  Importers = {p1, p2}
  ImportKeys = {"k1"}
  ImportContents = {"plain", "odd", "malformed"}
  MaxRows = 2
  MaxImports = 3
  Mechanics = {p1, p2}
  WorkOrders = {"w1", "w2"}
  ServiceDays = {2}
  KeepOrders = 1
  UpkeepEnd = 4
  FuelLitres = 5
  FuelTolerance = 2
  DipError = 1
  KeepFuel = 1
  FuelEnd = 4
  FuelReports = 1
  Logins = {p1, p2}
  Passwords = {"p", "o"}
  MaxFailures = 2
  LockTime = 1
  CacheTime = 2
  MaxLogins = 3
  MaxResets = 2
  AccountEnd = 1
  Admins = {p1, p2}
  DeviceIds = {"d1", "d2"}
  DeviceAssets = {"a1", "a2"}
  MaxDeviceEdits = 2
  MaxGenerations = 2
  Registrars = {p1, p2}
  RuleVersions = {"r1"}
  DefaultRules = {"r1"}
  ModelVersions = {"k1"}
  Contents = {"x", "y"}
  Architectures = {"cleared", "restricted", "forbidden", "unaudited"}
  MaxPublications = 3
  RegistryEnd = 1
SYMMETRY MCSymmetry
INVARIANTS TimelineTellsAll FleetNotOvercommitted NothingAbsorbed HealthTellsService FlaggedIffLeaked AnswersMatchAccount BrokerFollowsTable PublishedStands
CHECK_DEADLOCK FALSE
