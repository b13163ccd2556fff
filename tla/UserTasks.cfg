CONSTANTS
  Threads = {t1, t2}
  Tasks = {k1}
  Events = {e1}
  TimerIds = {i1}
  MaxTimers = 2
  MaxStarts = 2
  MaxPosted = 1
SPECIFICATION Spec
INVARIANTS OneStopper StoppedTimerEnds DrainedBeforeReturn StopEnds
CHECK_DEADLOCK FALSE
