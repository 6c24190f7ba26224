SPECIFICATION Spec
CONSTANTS
  MaxEvents = 2
  None = None
INVARIANT ConfirmedSettingHolds
PROPERTIES TaskEnds BridgeFreesUp
CHECK_DEADLOCK FALSE
