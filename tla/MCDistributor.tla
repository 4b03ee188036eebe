---------------------------- MODULE MCDistributor ----------------------------
(* Instances of the distributor node's cache for TLC. *)
EXTENDS DistributorCache, TLC

CONSTANTS a, b, c, r1, r2, r3, r4

(* Objects of 1 and 2 KB: the first is in group 0 from the start, the      *)
(* second in group 1, and in group 0 once it has been used again.          *)
TwoObjects == a :> 1 @@ b :> 2

(* Objects that only get to group 0, if at all, by being used, and one     *)
(* that is too large to be cached.                                         *)
TwoAndProxied == a :> 2 @@ b :> 4 @@ c :> 6

(* An object of 4 KB, in two chunks. *)
OneObject == a :> 4

RequestSymmetry == Permutations(Requests)
=============================================================================
