SPECIFICATION FairSpec
CONSTANTS
  STOP = STOP
  Event = {c1, c2, c3, c4}
  MaxSize = 2
INVARIANTS TypeOK HealthyLosesNothing
PROPERTIES NoRevival AcceptedIsHandled StopEndsThread
CHECK_DEADLOCK FALSE
