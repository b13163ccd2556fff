CONSTANTS
  MaxCalls = 2
  MaxConnects = 1
  CallbackStops = FALSE
SPECIFICATION FairSpec
INVARIANTS TypeOK AnsweredOnce EntryHasOwner
PROPERTIES LifeSpec EveryCallAnswered
CHECK_DEADLOCK FALSE
