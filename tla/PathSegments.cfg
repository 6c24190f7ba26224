SPECIFICATION Spec
CONSTANTS
  ObstacleIds = {1, 2}
  AreaIds = {1}
  MaxX = 4
  MaxY = 1
  MaxPoints = 2
  MaxEntries = 2
  MaxBatch = 0
  NoContours = NoContours
  NoDraft = NoDraft
  StartRadius = 1
  MaxRadius = 4
  Margin2 = 2
INVARIANTS
  NothingMissed
  SafeSegmentAvoidsObstacles
  SafeSegmentHasClearance
  SafeSegmentAvoidsLockedAreas
