--------------------------- MODULE MCShmExtraData ---------------------------
(* Symmetry for checking ShmExtraData. *)
EXTENDS ShmExtraData, TLC

ExtraSymmetry == Permutations(User) \cup Permutations(Block)
=============================================================================
