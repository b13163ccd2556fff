CONSTANTS
  MaxCalls = 1
  MaxConnects = 0
  CallbackStops = TRUE
SPECIFICATION Spec
INVARIANT AnsweredOnce
CHECK_DEADLOCK FALSE
