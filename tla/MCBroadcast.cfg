\* Two importers, or a fetch and an importer, or the listener facility, on
\* each of seven transports; or two threads that bring it requests.  MaxId, MaxSent, MaxControl and MaxAsked bound a
\* behaviour; it ends when they are used up, so deadlock is not an error.
CONSTANTS
  a = a
  b = b
  r = r
  h = h
  i1 = i1
  i2 = i2
  t = t
  any = any
  Caller = {a, b, r}
  Raw = {a}
  Host = {h}
  Ident = {i1, i2}
  Topic = {t}
  Every = any
  NoTopic = none
  Kind <- MCKind
  Scenario <- MCScenario
  Wanted <- MCWanted
  Exported <- MCExported
  MaxId = 3
  MaxSent = 1
  MaxControl = 2
  MaxAsked = 3
  Nobody = nobody
SPECIFICATION Spec
INVARIANT RegistryConsistent
INVARIANT FreedIsNotUsed
INVARIANT LaterListenerHearsASuffix
INVARIANT NodesKeepTheirWord
INVARIANT FacilityKeepsTrack
PROPERTY MutexIsGivenBack
CHECK_DEADLOCK FALSE
