CONSTANTS
  s0 = s0
  s1 = s1
  Sessions = {s0, s1}
  NoSession = none
  Home <- TwoHomes
  MaxSessions = 2
  CallbackCalls = {}
  MaxStarts = 2
  MaxStops = 2
  MaxSends = 0
SPECIFICATION Spec
INVARIANTS TypeOK SessionsStopFirst DrainedForGood DisconnectTold
CHECK_DEADLOCK FALSE
