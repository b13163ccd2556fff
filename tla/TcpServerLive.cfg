CONSTANTS
  s0 = s0
  s1 = s1
  Sessions = {s0, s1}
  NoSession = none
  Home <- TwoHomes
  MaxSessions = 1
  CallbackCalls = {"stopServer", "stopSession", "keep"}
  MaxStarts = 1
  MaxStops = 2
  MaxSends = 1
SPECIFICATION FairSpec
INVARIANT OneDisconnection
PROPERTIES LifeSpec ServerStops
CHECK_DEADLOCK FALSE
