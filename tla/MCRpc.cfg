\* Two callers and up to two servers of one locator, on each of four
\* transports.  MaxId, MaxConn, MaxClient, MaxFaults and MaxPartial bound a
\* behaviour; it ends when they are used up, so deadlock is not an error.
CONSTANTS
  a = a
  b = b
  s1 = s1
  s2 = s2
  Caller = {a, b}
  Server = {s1, s2}
  Kind <- MCKind
  Scenario <- MCScenario
  MaxId = 2
  MaxConn = 2
  MaxClient = 2
  MaxFaults = 1
  MaxPartial = 1
  Nobody = nobody
SPECIFICATION Spec
INVARIANT RepliesGoHome
INVARIANT TablesAgree
INVARIANT FreedIsNotUsed
PROPERTY RequestsAreAnswered
CHECK_DEADLOCK FALSE
