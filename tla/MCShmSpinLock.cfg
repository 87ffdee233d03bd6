\* A thread waits behind one that dies while a third passes by; one of them
\* comes back, so that a waiter can be passed again by the same thread.
CONSTANTS
  Thread = {t1, t2, t3}
  Nobody = none
  MaxCalls = 4
  MayDie = TRUE
SPECIFICATION FairLockSpec
INVARIANT MutualExclusion
PROPERTY ServiceNeverGoesBack
PROPERTY EveryoneGetsIn
CHECK_DEADLOCK FALSE
