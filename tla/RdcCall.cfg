CONSTANTS
  Keys = {k1, k2}
  MaxCalls = 2
  MaxConnects = 1
SPECIFICATION FairSpec
INVARIANTS TypeOK AnsweredOnce OwnResponse
 
CHECK_DEADLOCK FALSE
