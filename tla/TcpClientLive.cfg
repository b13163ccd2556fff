CONSTANTS
  Data = {d1}
  Pool = "default"
  CallbackCalls = {"send", "stop"}
  MaxStarts = 1
  MaxStops = 2
  Endpoints = 1
  BindFails = FALSE
SPECIFICATION FairSpec
INVARIANTS TypeOK NoStaleCompletion ReconnectArmed StoppedAfterJoin
PROPERTIES CallsReturn LeavesStopping EveryMessageAnswered
CHECK_DEADLOCK FALSE
