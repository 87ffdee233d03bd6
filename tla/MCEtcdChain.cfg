CONSTANTS
  Client = {c1, c2}
  Id = {i1, i2}
  HeadKey = head
  NoId = noid
  MaxBatch = 2
  MaxTogether = 1
  Watcher = {c2}
  Cacher = {c1}
  Writer = {c1, c2}
  MayLose = TRUE
  MayCrash = TRUE
SPECIFICATION FairSpec
INVARIANT OneChain
INVARIANT HeldItemsAreTrue
INVARIANT CopiesAreFinal
INVARIANT ShortcutIsRight
PROPERTY ImplementsSharedChain
PROPERTY CatchesUp
CHECK_DEADLOCK FALSE
