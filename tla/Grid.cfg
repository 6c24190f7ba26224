SPECIFICATION Spec
CONSTANTS
  Ids = {o1, o2}
  Width = 4
  Height = 4
  Res = 16
  Inflation = 8
  Shapes <- MCShapes
  ApiLayers = {"DYNAMIC"}
  RefLimit = 3
  Messages <- MCMessages
  Robot <- MCRobot
  Radius = 24
  Samples = 2
  EdgeSamples = 2
  Rim <- MCRim
  Segments <- MCSegments
  MaxUpdates = 3
SYMMETRY Symmetry
INVARIANTS GridMatchesObstacles SteadyCellsReported DeepCutIsBlocked
