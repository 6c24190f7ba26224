SPECIFICATION Spec
CONSTANTS
  Window = 3
  MinObservations = 2
  EvictionTimeout = 2
  MaxSpeed = 2
  Steps = 4
  StepTime = 2
  CellSize = 2
  Threshold = 50
  Tolerance = 1
  MatchWindow = 1
  PendingMaxAge = 1
  Eligibility = 0
  PersistentReports = 2
  IdSeenSoftCap = 1
  Intruders = {1, 2}
  Places = {0, 2}
  Paces = {0, 1, 3}
  Drifts = {1}
  Clutter = 9
  MaxTime = 6
  MaxTrial = 2
  LegIds = {1}
  Bodies = {h}
  MaxPlace = 3
  MinVelocity = 1
  LegObservations = 3
  StationaryTimeout = 3
  LegEviction = 1
  CameraRadius = 2
  CameraStale = 1
  LegTime = 6
  LegReports = 5
  Agvs <- MCAgvs
  Digits <- MCDigits
  Hash <- MCHash
  IdSpacePerAgv = 3
  MaxAgvIndex = 4
  LocalIds = {0, 2}
  MaxObstacles = 1
INVARIANTS VelocityIsRight LastPlaceIsWarned PairingSound
PROPERTIES WalkersPublished SameIdSameObstacle
CHECK_DEADLOCK FALSE
