SPECIFICATION Spec
CONSTANTS
  ObstacleIds = {1, 2, 3}
  AreaIds = {1}
  MaxX = 1
  MaxY = 0
  MaxPoints = 2
  MaxEntries = 5
  MaxBatch = 2
  NoContours = NoContours
  NoDraft = NoDraft
INVARIANTS
  IndicesCoherent
  MaximumExact
