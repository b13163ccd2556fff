CONSTANTS
  Data = {d1}
  Pool = "default"
  CallbackCalls = {}
  MaxStarts = 1
  MaxStops = 1
  Endpoints = 1
  BindFails = FALSE
SPECIFICATION Spec
INVARIANT StoppedIsClosed
CHECK_DEADLOCK FALSE
