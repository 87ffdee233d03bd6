\* Several writers, and a batch of several items that leaves ids for the others.
CONSTANTS
  Client = {c1, c2}
  Id = {i1, i2, i3}
  HeadKey = head
  NoId = noid
  MaxBatch = 2
  MayLose = TRUE
SPECIFICATION Spec
INVARIANT OneChain
INVARIANT HeldItemsAreTrue
PROPERTY ImplementsSharedChain
CHECK_DEADLOCK FALSE
