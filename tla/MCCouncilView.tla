---------------------------- MODULE MCCouncilView ----------------------------
(* Instances of the council with the query node's picture of it, for TLC. *)
EXTENDS CouncilView, TLC

CONSTANTS m1, m2, s1, s2, s3, v1

TwoMembers == {m1, m2}

(* m1 can stand again with s3 while s1 is locked in the council; s2 backs a *)
(* candidacy of m2 and votes; the other voters own no membership.           *)
TwoOwners == s1 :> m1 @@ s3 :> m1 @@ s2 :> m2 @@ v1 :> None

TwoBalances == [a \in {s1, s2, s3, v1} |-> 2]

CouncilLocks == {"voting", "candidacy", "councilor"}
NonRivalrous == {"voting"}
=============================================================================
