CONSTANTS
  MaxPubs = 2
  Kinds <- MCExactlyOnce
  MaxResends = 0
  MaxConnects = 0
  MaxBusy = 0
  MaxPacketId = 1
  ReuseIds = TRUE
SPECIFICATION Spec
INVARIANT AckedIsCast
CHECK_DEADLOCK FALSE
