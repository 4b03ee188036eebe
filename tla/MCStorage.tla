------------------------------ MODULE MCStorage ------------------------------
(* Instances of the storage node for TLC. *)
EXTENDS StorageNode, TLC

CONSTANTS a, b, u1, u2, w1, w2, p, q

NodeSymmetry == Permutations(Uploads) \cup Permutations(Operators)
=============================================================================
