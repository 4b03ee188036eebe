------------------------------ MODULE MCCouncil ------------------------------
(* Instances of the council election for TLC. *)
EXTENDS Council, TLC

CONSTANTS m1, m2, m3, s1, s2, s3, v1, v2, v3, v4

TwoMembers == {m1, m2}
ThreeMembers == {m1, m2, m3}

(* One staking account for each member. *)
ThreeOwners == s1 :> m1 @@ s2 :> m2 @@ s3 :> m3
                 @@ v1 :> None @@ v2 :> None @@ v3 :> None @@ v4 :> None

ThreeBalances == [a \in {s1, s2, s3, v1, v2, v3, v4} |-> 2]

CouncilLocks == {"voting", "candidacy", "councilor"}
NonRivalrous == {"voting"}

(* A two-seat council of m1 and m2, each voting for somebody. *)
SeatOwners == s1 :> m1 @@ s2 :> m2
SeatBalances == [a \in {s1, s2} |-> 1]

(* The voters of a ranking are interchangeable: no property names one. *)
VoterSymmetry == Permutations({v1, v2, v3, v4})
=============================================================================
