CONSTANTS
  Data = {d1, d2}
  Pool = "default"
  CallbackCalls = {"send", "start"}
  MaxStarts = 2
  MaxStops = 2
  Endpoints = 2
  BindFails = TRUE
SPECIFICATION Spec
INVARIANTS OneWriter OneReader DisconnectExpected
PROPERTIES LifeSpec
CHECK_DEADLOCK FALSE
