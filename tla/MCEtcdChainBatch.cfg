CONSTANTS
  Client = {c1}
  Id = {i1, i2}
  HeadKey = head
  NoId = noid
  MaxBatch = 2
  MaxTogether = 2
  Watcher = {}
  Cacher = {}
  Writer = {c1}
  MayLose = FALSE
  MayCrash = FALSE
SPECIFICATION Spec
INVARIANT NoRecordMissing
CHECK_DEADLOCK FALSE
