SPECIFICATION MCFleetSpec
CONSTANTS
  Process = {1, 2, 3}
  Configs <- FleetConfigs
  PoolSize = 2
  AttemptLimit = 3
  OtherId = OtherId
  NoId = NoId
  Nobody = Nobody
  MaxCrashes = 1
  MaxLeft = 1
INVARIANTS SessionIdsDiffer GivesUpLate LocksHaveLiveOwners
PROPERTY ConnectEnds
CHECK_DEADLOCK FALSE
