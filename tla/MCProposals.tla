----------------------------- MODULE MCProposals -----------------------------
(* Instances of the proposals engine for TLC. *)
EXTENDS ProposalsEngine, TLC

CONSTANTS m1, m2, m3, s1

ProposalLocks == {"proposals"}

OneOwner == s1 :> m1
OneBalance == s1 :> 3

(* Parameters of a proposal; the other percentages are two thirds. *)
Params(voting, grace, stake, constitutionality, threshold) ==
    [voting_period |-> voting, grace_period |-> grace,
     approval_quorum_percentage |-> 66, approval_threshold_percentage |-> threshold,
     slashing_quorum_percentage |-> 66, slashing_threshold_percentage |-> 66,
     required_stake |-> stake, constitutionality |-> constitutionality]

(* Two confirmations and a grace period, with a stake below the rejection  *)
(* fee; one confirmation by half of the votes, executed at once, without a *)
(* stake.                                                                  *)
LifecycleParams == {Params(2, 1, 1, 2, 66), Params(1, 0, None, 1, 50)}

(* Proposals that wait for their execution, and such that, as vetoes do in *)
(* production, execute at once.                                           *)
GraceParams == {Params(2, 1, 3, 1, 66)}
VetoParams == {Params(2, 0, None, 1, 66)}

Trio == {m1, m2, m3}
Councils == {{m1, m2}, {m2, m3}}
Singles == {{m1}, {m2}}
=============================================================================
