\* Two callers or listeners of one locator, and the process that serves or
\* publishes it.  The bounds end a behaviour when they are used up, so
\* deadlock is not an error.
CONSTANTS
  a = a
  b = b
  s = s
  Caller = {a, b}
  Server = {s}
  Kind <- MCKind
  Scenario <- MCScenario
  MaxId = 2
  MaxConn = 2
  MaxClient = 2
  MaxFaults = 1
  MaxPartial = 1
  MaxSess = 3
  MaxSent = 2
  Nobody = nobody
SPECIFICATION Spec
INVARIANT ListenersKeepTheirPlace
INVARIANT WebRepliesGoHome
INVARIANT WebTablesAgree
PROPERTY ListenersHearInOrder
PROPERTY EveryoneIsServed
CHECK_DEADLOCK FALSE
