SPECIFICATION Spec
CONSTANTS
  Lasers = {l1}
  Returns = {1, 2, 5}
  MinSegment = 2
  AutoActivate = TRUE
  StaleAfter = 1
  NodeTimeout = 3
  HealthPeriod = 2
  MaxRequests = 1
  MaxFaults = 1
INVARIANTS FalseClearIsWarned HaltIsTimely HaltIsLifted
