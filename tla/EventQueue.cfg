CONSTANTS
  Events = {e1, e2, e3}
  Threads = {t1, t2}
  Strand = strand
  NoEvent = none
  MaxUser = 1
SPECIFICATION FairSpec
INVARIANTS TypeOK GuardInv FrontOnly FifoPerPusher
PROPERTY AbstractSpec
CHECK_DEADLOCK FALSE
