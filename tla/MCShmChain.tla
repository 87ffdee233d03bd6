----------------------------- MODULE MCShmChain -----------------------------
(* ShmChain for TLC: three clients can pass each other (one appends, one    *)
(* fetches, one waits), and nodes are left when the longest batch is made. *)
EXTENDS ShmChain

ASSUME BoundsAreLargeEnough ==
  Cardinality(Client) >= 3 /\ Cardinality(Node) > MaxBatch
=============================================================================
