SPECIFICATION ReportsSpec
CONSTANTS
  Scanners = {s1}
  Columns = 3
  Spacing = 3
  Heights = {0, 3}
  MinGap2 = 18
  GapRate = 10
  Outlier2 = 2
  LineTol2 = 1
  MinPoints = 1
  Cell = 3
  MaxDrift2 = 9
  MaxId = 2
INVARIANTS IdsUniqueInReport IdStaysNearOrigin FitWithinTolerance
CHECK_DEADLOCK FALSE
PROPERTY StationaryKeepsId
