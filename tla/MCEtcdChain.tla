---------------------------- MODULE MCEtcdChain ----------------------------
(* EtcdChain for TLC: when there is somebody to compete with, the ids are   *)
(* enough for a batch that fills the chain.                                *)
EXTENDS EtcdChain

ASSUME BoundsAreLargeEnough ==
  Cardinality(Client) >= 2 => MaxBatch >= 2 /\ Cardinality(Id) >= MaxBatch
=============================================================================
