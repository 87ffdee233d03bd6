\* Two threads are enough: one takes over from the other, which is alive.
CONSTANTS
  Thread = {t1, t2}
  Nobody = none
  MaxCalls = 2
  MayDie = FALSE
SPECIFICATION LockSpec
PROPERTY TakeoverOnlyFromQuit
CHECK_DEADLOCK FALSE
