CONSTANTS
  Client = {c1, c2, c3}
  Node = {n1, n2, n3}
  HeadPtr = head
  Nil = nil
  MaxBatch = 2
  MayCrash = TRUE
  Notify = TRUE
SPECIFICATION FairSpec
INVARIANT TypeOK
INVARIANT WellLinked
INVARIANT NoDanglingItem
INVARIANT NoLeak
PROPERTY ImplementsSharedChain
PROPERTY CatchesUp
CHECK_DEADLOCK FALSE
