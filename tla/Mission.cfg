SPECIFICATION FairSpec
CONSTANTS
  NoDigits = NoDigits
  NoId = NoId
  AreaIds = {}
  MaxIntents = 3
  MaxNow = 1
INVARIANTS
  FlagMatchesThread
  StatusStreamWellFormed
  SuccessMeansApplied
PROPERTIES
  MissionTerminates
