SPECIFICATION IdentitySpec
CONSTANTS
  Requests <- AllRequests
  Strangers <- AllStrangers
  OwnName = "own"
  Window = 2
  NoRequest = NoRequest
  MaxCycles = 5
  MaxStrangers = 1
INVARIANTS ReuseIsFarApart AdoptedOrderIsOurs
CHECK_DEADLOCK FALSE
