CONSTANTS
  MaxPubs = 3
  Kinds <- MCKinds
  MaxResends = 1
  MaxConnects = 2
  MaxBusy = 0
  MaxPacketId = 1
  ReuseIds = FALSE
SPECIFICATION Spec
INVARIANTS TypeOK CastOnce InOrder NothingLost
CHECK_DEADLOCK FALSE
