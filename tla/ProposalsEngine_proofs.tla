----------------------- MODULE ProposalsEngine_proofs ------------------------
(***************************************************************************)
(* Decisions on proposals, for every set of parameters, every council and  *)
(* every order of the storage iteration.                                   *)
(*                                                                         *)
(* The invariant types the proposals in storage and in the snapshot of     *)
(* process_proposals alike, for a proposal is finalized from the snapshot  *)
(* and may be stored again from there.                                     *)
(***************************************************************************)
EXTENDS ProposalsEngine, FiniteSetTheorems, TLAPS

(* A proposal has the confirmations its status implies. *)
Counted(prop) ==
    LET n == prop.nr_of_council_confirmations
        c == prop.parameters.constitutionality
    IN  /\ prop.status.tag = "Active" => n < c
        /\ prop.status.tag = "PendingConstitutionality" => 0 < n /\ n < c
        /\ prop.status.tag = "PendingExecution" => n = c

GoodProposal == {prop \in Proposal : Counted(prop)}

Tables == [Ids -> GoodProposal \cup {None}]

IndInv ==
    /\ now \in Nat
    /\ council \in SUBSET Members
    /\ proposalCount \in 0 .. MaxProposals
    /\ proposals \in Tables
    /\ todo \in Tables

-----------------------------------------------------------------------------
(* Tables of proposals.                                                    *)

(* Removing proposals leaves a table. *)
LEMMA RemovalKeepsTable ==
    ASSUME NEW t \in Tables, NEW S
    PROVE  [p \in Ids |-> IF p \in S THEN None ELSE t[p]] \in Tables
  BY DEF Tables

(* So does storing a proposal. *)
LEMMA StoreKeepsTable ==
    ASSUME NEW t \in Tables, NEW p, NEW prop \in GoodProposal \cup {None}
    PROVE  [t EXCEPT ![p] = prop] \in Tables
  BY DEF Tables

(* The updates of a proposal, one field at a time. *)
LEMMA FieldUpdates ==
    ASSUME NEW prop \in Proposal
    PROVE  /\ \A s \in ProposalStatus : [prop EXCEPT !.status = s] \in Proposal
           /\ \A n \in Nat : [prop EXCEPT !.nr_of_council_confirmations = n] \in Proposal
           /\ \A n \in Nat : [prop EXCEPT !.activated_at = n] \in Proposal
           /\ \A r \in VotingResults : [prop EXCEPT !.voting_results = r] \in Proposal
  <1>1. ASSUME NEW s \in ProposalStatus
        PROVE  [prop EXCEPT !.status = s] \in Proposal
    BY DEF Proposal
  <1>2. ASSUME NEW n \in Nat
        PROVE  [prop EXCEPT !.nr_of_council_confirmations = n] \in Proposal
    BY DEF Proposal
  <1>3. ASSUME NEW n \in Nat
        PROVE  [prop EXCEPT !.activated_at = n] \in Proposal
    BY DEF Proposal
  <1>4. ASSUME NEW r \in VotingResults
        PROVE  [prop EXCEPT !.voting_results = r] \in Proposal
    BY DEF Proposal
  <1>5. QED
    BY <1>1, <1>2, <1>3, <1>4

(* What finalize_proposal stores has the confirmations of its new status. *)
LEMMA ConfirmedIsGood ==
    ASSUME NEW prop \in GoodProposal, prop.status.tag = "Active", now \in Nat,
           NEW d \in {"PendingExecution", "PendingConstitutionality"},
           d = "PendingExecution" <=> IsConstitutionalityReached(prop)
    PROVE  Confirmed(prop, d) \in GoodProposal
  <1> DEFINE s == IF d = "PendingExecution" THEN PendingExecution(now)
                  ELSE PendingConstitutionality
             new == Confirmed(prop, d)
  <1>1. prop \in Proposal /\ Counted(prop)
    BY DEF GoodProposal
  <1>2. s \in ProposalStatus
    BY DEF ProposalStatus, PendingExecution, PendingConstitutionality
  <1>3. new \in Proposal
    <2> DEFINE mid == [prop EXCEPT !.nr_of_council_confirmations = @ + 1]
    <2>1. new = [mid EXCEPT !.status = s]
      BY DEF Confirmed
    <2>2. prop.nr_of_council_confirmations + 1 \in Nat
      BY <1>1 DEF Proposal
    <2>3. mid \in Proposal
      BY <1>1, <2>2, FieldUpdates
    <2> HIDE DEF new, mid, s
    <2>4. QED
      BY <1>2, <2>1, <2>3, FieldUpdates
  <1>4. /\ new.nr_of_council_confirmations = prop.nr_of_council_confirmations + 1
        /\ new.parameters = prop.parameters
        /\ new.status = s
    BY <1>1 DEF Confirmed, Proposal
  <1>5. /\ prop.nr_of_council_confirmations \in Nat
        /\ prop.parameters.constitutionality \in Nat
        /\ prop.nr_of_council_confirmations < prop.parameters.constitutionality
    BY <1>1 DEF Proposal, Parameters, Counted
  <1>6. CASE d = "PendingExecution"
    <2>1. s.tag = "PendingExecution"
      BY <1>6 DEF PendingExecution
    <2>2. QED
      BY <1>3, <1>4, <1>5, <1>6, <2>1 DEF GoodProposal, Counted, IsConstitutionalityReached
  <1>7. CASE d = "PendingConstitutionality"
    <2>1. s.tag = "PendingConstitutionality"
      BY <1>7 DEF PendingConstitutionality
    <2>2. QED
      BY <1>3, <1>4, <1>5, <1>7, <2>1 DEF GoodProposal, Counted, IsConstitutionalityReached
  <1>8. QED
    BY <1>6, <1>7

(* Of a decision that approves, whether enough councils have confirmed. *)
LEMMA DecisionApproves ==
    ASSUME NEW prop, NEW voters, NEW n,
           Decision(prop, voters, n) # None,
           Decision(prop, voters, n) \in {"PendingExecution", "PendingConstitutionality"}
    PROVE  Decision(prop, voters, n) = "PendingExecution" <=> IsConstitutionalityReached(prop)
  BY DEF Decision

(* A reactivated proposal is a proposal under vote, without votes. *)
LEMMA ReactivatedIsGood ==
    ASSUME NEW prop \in GoodProposal, prop.status.tag = "PendingConstitutionality", now \in Nat
    PROVE  [prop EXCEPT !.activated_at = now + 1, !.status = Active,
                        !.voting_results = NoVotes] \in GoodProposal
  <1> DEFINE new == [prop EXCEPT !.activated_at = now + 1, !.status = Active,
                                 !.voting_results = NoVotes]
  <1>1. prop \in Proposal /\ Counted(prop)
    BY DEF GoodProposal
  <1>2. NoVotes \in VotingResults /\ Active \in ProposalStatus
    BY DEF NoVotes, VotingResults, ProposalStatus
  <1>3. new \in Proposal
    <2> DEFINE dated == [prop EXCEPT !.activated_at = now + 1]
               open == [dated EXCEPT !.status = Active]
    <2>1. new = [open EXCEPT !.voting_results = NoVotes]
      OBVIOUS
    <2>2. dated \in Proposal
      BY <1>1, now + 1 \in Nat, FieldUpdates
    <2> HIDE DEF new, dated
    <2>3. open \in Proposal
      BY <1>2, <2>2, FieldUpdates
    <2> HIDE DEF open
    <2>4. QED
      BY <1>2, <2>1, <2>3, FieldUpdates
  <1>4. /\ new.nr_of_council_confirmations = prop.nr_of_council_confirmations
        /\ new.parameters = prop.parameters
        /\ new.status.tag = "Active"
    BY <1>1 DEF Proposal, Active
  <1>5. QED
    BY <1>1, <1>3, <1>4 DEF GoodProposal, Counted

(* A vote adds one to one of the four counters. *)
LEMMA VotedIsGood ==
    ASSUME NEW prop \in GoodProposal, NEW kind \in VoteKind
    PROVE  [prop EXCEPT !.voting_results[kind] = @ + 1] \in GoodProposal
  <1> DEFINE tally == [prop.voting_results EXCEPT ![kind] = @ + 1]
             new == [prop EXCEPT !.voting_results = tally]
  <1>1. prop \in Proposal /\ Counted(prop)
    BY DEF GoodProposal
  <1>2. tally \in VotingResults
    BY <1>1 DEF Proposal, VotingResults
  <1>3. new \in Proposal
    BY <1>1, <1>2, FieldUpdates
  <1>4. /\ new.nr_of_council_confirmations = prop.nr_of_council_confirmations
        /\ new.parameters = prop.parameters
        /\ new.status = prop.status
    BY <1>1 DEF Proposal
  <1>5. new \in GoodProposal
    BY <1>1, <1>3, <1>4 DEF GoodProposal, Counted
  <1>6. QED
    BY <1>5

-----------------------------------------------------------------------------
(* The invariant holds initially and every step keeps it.                  *)

(* No proposal exists at genesis. *)
LEMMA InitIndInv == Init => IndInv
  BY ProposalsAssumption DEF Init, IndInv, Tables, Nothing

(* The engine's own steps: blocks without a change of council. *)
LEMMA BlockKeepsIndInv ==
    ASSUME IndInv, QuietBlock \/ RuntimeUpgrade
    PROVE  IndInv'
  <1>1. CASE QuietBlock
    BY <1>1 DEF IndInv, QuietBlock, NewBlock, storageVars
  <1>2. CASE RuntimeUpgrade
    <2>1. proposals' \in Tables
      BY <1>2, RemovalKeepsTable DEF IndInv, RuntimeUpgrade, RemoveProposalData
    <2>2. QED
      BY <1>2, <2>1 DEF IndInv, RuntimeUpgrade, NewBlock, RemoveProposalData
  <1>3. QED
    BY <1>1, <1>2

(* A new council: what is rejected is gone, what is reactivated is good. *)
LEMMA NewCouncilKeepsIndInv ==
    ASSUME IndInv, NEW c \in CouncilChoices, NewCouncilElected(c)
    PROVE  IndInv'
  <1>1. proposals' \in Tables
    <2> DEFINE rejected == WithStatus("Active")
               reactivated == WithStatus("PendingConstitutionality")
               new(p) == [proposals[p] EXCEPT !.activated_at = now + 1, !.status = Active,
                                              !.voting_results = NoVotes]
    <2>1. ASSUME NEW p \in reactivated
          PROVE  new(p) \in GoodProposal
      <3>1. /\ proposals[p] \in GoodProposal
            /\ proposals[p].status.tag = "PendingConstitutionality"
        BY DEF IndInv, Tables, WithStatus, Existing
      <3>2. now \in Nat
        BY DEF IndInv
      <3> QED
        BY <3>1, <3>2, ReactivatedIsGood
    <2>2. \A p \in Ids : proposals[p] \in GoodProposal \cup {None}
      BY DEF IndInv, Tables
    <2>3. proposals' = [p \in Ids |-> CASE p \in rejected -> None
                                        [] p \in reactivated -> new(p)
                                        [] OTHER -> proposals[p]]
      BY DEF NewCouncilElected, Reactivate
    <2>4. rejected \cap reactivated = {}
      BY DEF WithStatus
    <2> HIDE DEF rejected, reactivated, new
    <2>5. \A p \in Ids : proposals'[p] \in GoodProposal \cup {None}
      BY <2>1, <2>2, <2>3, <2>4
    <2>6. QED
      BY <2>3, <2>5 DEF Tables
  <1>2. QED
    BY <1>1, ProposalsAssumption DEF IndInv, NewCouncilElected, NewBlock

(* A proposal of the snapshot: it is kept confirmed, or removed, or left. *)
LEMMA ProcessKeepsIndInv ==
    ASSUME IndInv, NEW p \in Ids, ProcessProposal(p)
    PROVE  IndInv'
  <1> DEFINE prop == todo[p]
  <1>1. prop \in GoodProposal
    BY DEF IndInv, Tables, ProcessProposal
  <1>2. todo' \in Tables
    BY StoreKeepsTable DEF IndInv, ProcessProposal
  <1>3. ASSUME NEW accounts, ExecuteProposal(p, accounts)
        PROVE  proposals' \in Tables /\ UNCHANGED proposalCount
    BY <1>3, RemovalKeepsTable DEF IndInv, ExecuteProposal, RemoveProposalData
  <1>4. proposals' \in Tables /\ UNCHANGED proposalCount
    <2>1. CASE ProcessActive(p, prop)
      <3> DEFINE d == Decision(prop, Cardinality(council), now)
      <3>1. CASE UNCHANGED storageVars
        BY <3>1 DEF IndInv, storageVars
      <3>2. CASE d # None /\ FinalizeProposal(p, prop, d)
        <4> HIDE DEF d
        <4>1. CASE RemoveProposalData({p}, 1)
          BY <4>1, RemovalKeepsTable DEF IndInv, RemoveProposalData
        <4>2. CASE /\ d \in {"PendingExecution", "PendingConstitutionality"}
                   /\ proposals' = [proposals EXCEPT ![p] = Confirmed(prop, d)]
                   /\ UNCHANGED proposalCount
          <5>1. d = "PendingExecution" <=> IsConstitutionalityReached(prop)
            BY <3>2, <4>2, DecisionApproves DEF d
          <5>2. Confirmed(prop, d) \in GoodProposal
            BY <1>1, <2>1, <4>2, <5>1, ConfirmedIsGood DEF IndInv, ProcessActive
          <5>3. QED
            BY <4>2, <5>2, StoreKeepsTable DEF IndInv
        <4>3. CASE ExecuteProposal(p, AccountsOf({prop}))
          BY <1>3, <4>3
        <4>4. QED
          BY <3>2, <4>1, <4>2, <4>3 DEF FinalizeProposal
      <3>3. QED
        BY <2>1, <3>1, <3>2 DEF ProcessActive
    <2>2. CASE ProcessPendingExecution(p, prop)
      BY <1>3, <2>2 DEF ProcessPendingExecution, IndInv, storageVars
    <2>3. CASE ProcessPendingConstitutionality(prop)
      BY <2>3 DEF ProcessPendingConstitutionality, IndInv, storageVars
    <2>4. QED
      BY <2>1, <2>2, <2>3 DEF ProcessProposal
  <1>5. QED
    BY <1>2, <1>4 DEF IndInv, ProcessProposal

(* The extrinsics: a proposal is created, voted on or removed. *)
LEMMA ExtrinsicKeepsIndInv ==
    ASSUME IndInv, Extrinsic
    PROVE  IndInv'
  <1>1. proposals' \in Tables /\ proposalCount' \in 0 .. MaxProposals
    <2>1. ASSUME NEW m \in Members, NEW par \in ProposalParameters,
                 NEW a \in Accounts \cup {None}, NEW block \in ExecutionBlocks,
                 NEW call \in Calls, CreateProposal(m, par, a, block, call)
          PROVE  proposals' \in Tables /\ proposalCount' \in 0 .. MaxProposals
      <3> DEFINE p == proposalCount + 1
                 prop == [parameters |-> par, proposer_id |-> m, activated_at |-> now,
                          status |-> Active, voting_results |-> NoVotes,
                          exact_execution_block |-> block,
                          nr_of_council_confirmations |-> 0, staking_account_id |-> a]
      <3>1. par \in Parameters /\ block \in Nat \cup {None}
        BY ProposalsAssumption
      <3>2. NoVotes \in VotingResults /\ Active \in ProposalStatus /\ now \in Nat
        BY DEF NoVotes, VotingResults, ProposalStatus, IndInv
      <3>3. prop \in Proposal
        BY <3>1, <3>2 DEF Proposal
      <3>4. 0 < par.constitutionality
        BY <3>1 DEF Parameters
      <3>5. prop \in GoodProposal
        BY <3>3, <3>4 DEF GoodProposal, Counted, Active
      <3>6. proposals' = [proposals EXCEPT ![p] = prop]
        BY <2>1 DEF CreateProposal
      <3> HIDE DEF prop
      <3>7. proposals' \in Tables
        BY <3>5, <3>6, StoreKeepsTable DEF IndInv
      <3>8. QED
        BY <2>1, <3>7, ProposalsAssumption DEF CreateProposal, IndInv
    <2>2. ASSUME NEW m \in Members, NEW p \in Ids, NEW kind \in VoteKind, Vote(m, p, kind)
          PROVE  proposals' \in Tables /\ proposalCount' \in 0 .. MaxProposals
      <3> DEFINE voted == [proposals[p] EXCEPT !.voting_results[kind] = @ + 1]
      <3>1. proposals[p] \in GoodProposal
        BY <2>2 DEF Vote, WithStatus, Existing, IndInv, Tables
      <3>2. voted \in GoodProposal
        BY <3>1, VotedIsGood
      <3>3. proposals' = [proposals EXCEPT ![p] = voted]
        BY <2>2 DEF Vote
      <3> HIDE DEF voted
      <3>4. proposals' \in Tables
        BY <3>2, <3>3, StoreKeepsTable DEF IndInv
      <3>5. QED
        BY <2>2, <3>4 DEF Vote, IndInv
    <2>3. ASSUME NEW p \in Ids, CancelProposal(p) \/ VetoProposal(p)
          PROVE  proposals' \in Tables /\ proposalCount' \in 0 .. MaxProposals
      <3>1. RemoveProposalData({p}, 1)
        BY <2>3 DEF CancelProposal, VetoProposal
      <3>2. QED
        BY <3>1, RemovalKeepsTable DEF RemoveProposalData, IndInv
    <2>4. QED
      BY <2>1, <2>2, <2>3 DEF Extrinsic
  <1>2. QED
    BY <1>1 DEF IndInv, Extrinsic

(* Every step stores good proposals, in storage and in the snapshot. *)
LEMMA StepKeepsIndInv == IndInv /\ [Next]_vars => IndInv'
  <1>1. CASE UNCHANGED vars
    BY <1>1 DEF IndInv, vars, storageVars
  <1>2. CASE IndInv /\ Next
    BY <1>2, BlockKeepsIndInv, NewCouncilKeepsIndInv, ProcessKeepsIndInv,
       ExtrinsicKeepsIndInv, <1>1 DEF Next, Horizon
  <1>3. QED
    BY <1>1, <1>2

(* Every proposal in storage, and in the snapshot on_initialize works      *)
(* through, is well typed and has the confirmations of its status.         *)
THEOREM ProposalsIndInv == Spec => []IndInv
  BY InitIndInv, StepKeepsIndInv, PTL DEF Spec

(* Whatever the order of the iteration, and whatever councils come and go: *)
(* a proposal waits for execution exactly when as many councils as its     *)
(* parameters ask for have confirmed it.                                   *)
THEOREM ProposalsConfirmations == Spec => []ConfirmationsCounted
  <1>1. IndInv => ConfirmationsCounted
    <2> SUFFICES ASSUME IndInv, NEW p \in Existing
                 PROVE  Counted(proposals[p]) /\ proposals[p].status \in ProposalStatus
      BY DEF ConfirmationsCounted, Counted, ProposalStatus, Active,
             PendingConstitutionality
    <2>1. proposals[p] \in GoodProposal
      BY DEF IndInv, Tables, Existing
    <2>2. QED
      BY <2>1 DEF GoodProposal, Proposal
  <1>2. QED
    BY <1>1, ProposalsIndInv, PTL

-----------------------------------------------------------------------------
(* An early rejection is final.                                            *)

(* Once an option cannot reach its threshold any more, it does not reach   *)
(* it with any votes still to come.                                        *)
LEMMA UnachievableStaysSo ==
    ASSUME NEW r \in VotingResults, NEW x \in VotingResults, NEW voters \in Nat,
           NEW k \in VoteKind, NEW percent \in 1 .. 100,
           VotesNumber(x) <= voters, \A j \in VoteKind : x[j] >= r[j],
           ~ ThresholdAchievable(r, k, voters, percent)
    PROVE  ~ ThresholdReached(x, k, percent)
  <1> DEFINE n == VotesNumber(r)
             m == VotesNumber(x)
             rest == n - r[k]
  <1>1. /\ n \in Nat /\ m \in Nat /\ r[k] \in Nat /\ x[k] \in Nat /\ rest \in Nat
        /\ x[k] <= m /\ n <= m
        /\ m - x[k] >= rest /\ m <= voters
    BY DEF VotesNumber, VotingResults, VoteKind
  <1>2. /\ ~ FractionReaches(r[k] + (voters - n), voters, percent)
    <2>1. n <= voters
      BY <1>1
    <2>2. QED
      BY <1>1, <2>1 DEF ThresholdAchievable
  <1> HIDE DEF n, m
  <1>3. r[k] + (voters - n) = voters - rest
    BY <1>1
  <1> HIDE DEF rest
  <1>4. voters > 0 => 100 * (voters - rest) < percent * voters
    <2>1. voters - rest \in 0 .. voters
      BY <1>1, <1>3 DEF rest
    <2>2. QED
      BY <1>2, <1>3, <2>1 DEF FractionReaches
  <1>5. 100 * x[k] < percent * m \/ m = 0
    <2>1. 100 * x[k] <= 100 * m - 100 * rest
      BY <1>1
    <2>2. m = 0 \/ (100 - percent) * voters < 100 * rest
      <3>1. percent * voters \in Nat /\ (100 - percent) * voters = 100 * voters - percent * voters
        OBVIOUS
      <3>2. QED
        BY <1>1, <1>4, <3>1
    <2>3. (100 - percent) * m <= (100 - percent) * voters
      <3> DEFINE c == 100 - percent
                 d == voters - m
      <3>1. c \in Nat /\ d \in Nat /\ voters = m + d
        BY <1>1
      <3>2. c * d >= 0
        BY <3>1
      <3>3. c * voters = c * m + c * d
        BY <3>1, <1>1
      <3> QED
        BY <3>1, <3>2, <3>3, <1>1
    <2>4. QED
      BY <1>1, <2>1, <2>2, <2>3
  <1>6. ~ FractionReaches(x[k], m, percent)
    BY <1>1, <1>5 DEF FractionReaches
  <1>7. QED
    BY <1>6 DEF ThresholdReached, m

(* When everybody has voted there are no votes to come. *)
LEMMA NothingToCome ==
    ASSUME NEW r \in VotingResults, NEW x \in VotingResults,
           VotesNumber(x) <= VotesNumber(r), \A j \in VoteKind : x[j] >= r[j]
    PROVE  x = r
  <1>1. \A j \in VoteKind : x[j] = r[j]
    BY DEF VotesNumber, VotingResults, VoteKind
  <1>2. QED
    BY <1>1 DEF VotingResults

(* A decision to reject, before the voting period is over, comes from the  *)
(* thresholds being out of reach or from everybody having voted.           *)
LEMMA RejectionReasons ==
    ASSUME NEW prop, NEW voters, NEW n, Decision(prop, voters, n) = "Rejected"
    PROVE  LET par == prop.parameters
               r == prop.voting_results
           IN  \/ IsRejectionImminent(par, r, voters)
               \/ /\ VotesNumber(r) = voters
                  /\ ~ IsApproved(par, r, voters) /\ ~ IsSlashed(par, r, voters)
  <1>1. None # "Rejected"
    BY ProposalsAssumption DEF ProposalDecision
  <1>2. QED
    BY <1>1 DEF Decision

(* A proposal the engine rejects before its time could not have been       *)
(* approved, nor slashed, by any further votes of the sitting council.     *)
THEOREM ProposalsEarlyRejection == Spec => []EarlyRejectionFinal
  <1>1. IndInv => EarlyRejectionFinal
    <2> SUFFICES ASSUME IndInv, NEW p \in WithStatus("Active"),
                        Decision(proposals[p], Cardinality(council),
                                 proposals[p].activated_at) = "Rejected",
                        NEW x \in [VoteKind -> 0 .. Cardinality(council)],
                        VotesNumber(x) <= Cardinality(council),
                        \A k \in VoteKind : x[k] >= proposals[p].voting_results[k]
                 PROVE  /\ ~ IsApproved(proposals[p].parameters, x, Cardinality(council))
                        /\ ~ IsSlashed(proposals[p].parameters, x, Cardinality(council))
      BY DEF EarlyRejectionFinal
    <2> DEFINE par == proposals[p].parameters
               r == proposals[p].voting_results
               voters == Cardinality(council)
    <2>1. par \in Parameters /\ r \in VotingResults
      <3>1. proposals[p] \in Proposal
        BY DEF IndInv, Tables, WithStatus, Existing, GoodProposal
      <3>2. QED
        BY <3>1 DEF Proposal
    <2>2. voters \in Nat
      BY ProposalsAssumption, FS_Subset, FS_CardinalityType DEF IndInv
    <2> HIDE DEF voters
    <2>3. x \in VotingResults
      BY <2>2 DEF VotingResults, voters
    <2>4. CASE IsRejectionImminent(par, r, voters)
      <3>1. /\ par.approval_threshold_percentage \in 1 .. 100
            /\ par.slashing_threshold_percentage \in 1 .. 100
            /\ "Approve" \in VoteKind /\ "Slash" \in VoteKind
        BY <2>1 DEF Parameters, VoteKind
      <3>2. /\ ~ ThresholdAchievable(r, "Approve", voters, par.approval_threshold_percentage)
            /\ ~ ThresholdAchievable(r, "Slash", voters, par.slashing_threshold_percentage)
        BY <2>4 DEF IsRejectionImminent
      <3>3. VotesNumber(x) <= voters
        BY DEF voters
      <3> HIDE DEF par, r
      <3>4. \A k \in VoteKind : x[k] >= r[k]
        BY DEF r
      <3>5. /\ ~ ThresholdReached(x, "Approve", par.approval_threshold_percentage)
            /\ ~ ThresholdReached(x, "Slash", par.slashing_threshold_percentage)
        BY <2>1, <2>2, <2>3, <3>1, <3>2, <3>3, <3>4, UnachievableStaysSo
      <3>6. QED
        BY <3>5 DEF IsApproved, IsSlashed, par, voters
    <2>5. CASE /\ VotesNumber(r) = voters
               /\ ~ IsApproved(par, r, voters) /\ ~ IsSlashed(par, r, voters)
      <3>1. x = r
        BY <2>1, <2>3, <2>5, NothingToCome DEF voters
      <3>2. QED
        BY <2>5, <3>1 DEF voters
    <2>6. QED
      BY <2>4, <2>5, RejectionReasons DEF voters
  <1>2. QED
    BY <1>1, ProposalsIndInv, PTL

-----------------------------------------------------------------------------
(* The tally.                                                              *)

NoVote == [m \in Members |-> None]

(* The votes ve of a proposal are those of the council c, and counted. *)
Tallied(prop, ve, c) ==
    /\ \A m \in Members : ve[m] # None => m \in c
    /\ \A k \in VoteKind : prop.voting_results[k] = Cardinality({m \in Members : ve[m] = k})

(* What an id not given out yet will find. *)
IdsFresh ==
    \A p \in Ids : p > proposalCount =>
        proposals[p] = None /\ todo[p] = None /\ voteExists[p] = NoVote

VotesTyped == voteExists \in [Ids -> [Members -> VoteKind \cup {None}]]

TallyInv ==
    /\ VotesTyped
    /\ IdsFresh
    /\ \A p \in WithStatus("Active") : Tallied(proposals[p], voteExists[p], council)

(* An empty tally counts no votes. *)
LEMMA EmptyTally ==
    ASSUME NEW prop, prop.voting_results = NoVotes, NEW c
    PROVE  Tallied(prop, NoVote, c)
  <1>1. \A k \in VoteKind : {m \in Members : NoVote[m] = k} = {}
    BY ProposalsAssumption DEF NoVote
  <1>2. QED
    BY <1>1, FS_EmptySet DEF Tallied, NoVote, NoVotes

(* The vote of a councilor who has not voted adds one to one counter. *)
LEMMA VoteCounted ==
    ASSUME NEW prop \in Proposal, NEW ve \in [Members -> VoteKind \cup {None}], NEW c,
           Tallied(prop, ve, c), NEW m \in c, m \in Members, ve[m] = None,
           NEW kind \in VoteKind
    PROVE  Tallied([prop EXCEPT !.voting_results[kind] = @ + 1], [ve EXCEPT ![m] = kind], c)
  <1> DEFINE new == [prop EXCEPT !.voting_results[kind] = @ + 1]
             nve == [ve EXCEPT ![m] = kind]
             By(f, k) == {x \in Members : f[x] = k}
  <1>1. /\ new.voting_results[kind] = prop.voting_results[kind] + 1
        /\ \A k \in VoteKind : k # kind => new.voting_results[k] = prop.voting_results[k]
    BY DEF Proposal, VotingResults
  <1>2. By(nve, kind) = By(ve, kind) \cup {m} /\ m \notin By(ve, kind)
    BY ProposalsAssumption
  <1>3. \A k \in VoteKind : k # kind => By(nve, k) = By(ve, k)
    BY ProposalsAssumption
  <1>4. IsFiniteSet(By(ve, kind))
    BY ProposalsAssumption, FS_Subset
  <1>5. Cardinality(By(nve, kind)) = Cardinality(By(ve, kind)) + 1
    BY <1>2, <1>4, FS_AddElement
  <1>6. \A x \in Members : nve[x] # None => x \in c
    BY DEF Tallied
  <1>7. \A k \in VoteKind : prop.voting_results[k] = Cardinality(By(ve, k))
    BY DEF Tallied
  <1> HIDE DEF new, nve
  <1>8. \A k \in VoteKind : new.voting_results[k] = Cardinality(By(nve, k))
    BY <1>1, <1>3, <1>5, <1>7
  <1>9. QED
    BY <1>6, <1>8 DEF Tallied, new, nve

(* Steps that remove proposals with their votes, or take them out of the   *)
(* vote, under the same council.                                           *)
LEMMA QuietTally ==
    ASSUME TallyInv, UNCHANGED <<council, proposalCount>>,
           \A p \in Ids : todo'[p] = None \/ todo'[p] = todo[p] \/ todo'[p] = proposals[p],
           voteExists' \in [Ids -> [Members -> VoteKind \cup {None}]],
           \A p \in Ids :
              /\ \/ proposals'[p] = None \/ proposals'[p] = proposals[p]
                 \/ proposals'[p].status.tag # "Active" /\ todo[p] # None
              /\ voteExists'[p] = voteExists[p]
                    \/ (voteExists'[p] = NoVote /\ proposals'[p] = None)
    PROVE  TallyInv'
  <1>1. IdsFresh'
    BY DEF TallyInv, IdsFresh
  <1>2. ASSUME NEW p \in WithStatus("Active")'
        PROVE  Tallied(proposals'[p], voteExists'[p], council')
    <2>1. /\ p \in Ids /\ proposals'[p] # None /\ proposals'[p].status.tag = "Active"
          /\ proposals'[p] = proposals[p] /\ voteExists'[p] = voteExists[p]
      BY <1>2 DEF WithStatus, Existing
    <2>2. p \in WithStatus("Active")
      BY <2>1 DEF WithStatus, Existing
    <2>3. QED
      BY <2>1, <2>2 DEF TallyInv
  <1>3. QED
    BY <1>1, <1>2 DEF TallyInv, VotesTyped

(* A removed proposal loses its votes, and no other one does. *)
LEMMA RemovalTally ==
    ASSUME TallyInv, NEW S, NEW n, RemoveProposalData(S, n)
    PROVE  /\ UNCHANGED proposalCount
           /\ voteExists' \in [Ids -> [Members -> VoteKind \cup {None}]]
           /\ \A p \in Ids :
                 \/ proposals'[p] = None /\ voteExists'[p] = NoVote
                 \/ proposals'[p] = proposals[p] /\ voteExists'[p] = voteExists[p]
  <1>1. NoVote \in [Members -> VoteKind \cup {None}]
    BY DEF NoVote
  <1>2. voteExists' = [p \in Ids |-> IF p \in S THEN NoVote ELSE voteExists[p]]
    BY DEF RemoveProposalData, NoVote
  <1>3. QED
    BY <1>1, <1>2 DEF TallyInv, VotesTyped, RemoveProposalData

(* The start of a block and a runtime upgrade keep the tallies. *)
LEMMA BlockKeepsTally ==
    ASSUME IndInv, TallyInv, QuietBlock \/ RuntimeUpgrade
    PROVE  TallyInv'
  <1>1. CASE QuietBlock
    <2>1. /\ UNCHANGED <<council, proposalCount, proposals, voteExists>>
          /\ todo' = proposals
      BY <1>1 DEF QuietBlock, storageVars
    <2>2. QED
      BY <2>1, QuietTally DEF TallyInv, VotesTyped
  <1>2. CASE RuntimeUpgrade
    <2>1. /\ RemoveProposalData(Existing, Cardinality(Existing))
          /\ UNCHANGED <<council, todo>>
      BY <1>2 DEF RuntimeUpgrade
    <2>2. QED
      BY <2>1, RemovalTally, QuietTally
  <1>3. QED
    BY <1>1, <1>2

(* A new council meets no proposal under vote but the reactivated ones, and *)
(* no vote on these.                                                        *)
LEMMA NewCouncilKeepsTally ==
    ASSUME IndInv, TallyInv, NEW c \in CouncilChoices, NewCouncilElected(c)
    PROVE  TallyInv'
  <1> DEFINE rejected == WithStatus("Active")
             reactivated == WithStatus("PendingConstitutionality")
             new(p) == [proposals[p] EXCEPT !.activated_at = now + 1, !.status = Active,
                                            !.voting_results = NoVotes]
  <1>1. /\ proposals' = [p \in Ids |-> CASE p \in rejected -> None
                                         [] p \in reactivated -> new(p)
                                         [] OTHER -> proposals[p]]
        /\ voteExists' = [p \in Ids |-> IF p \in rejected \cup reactivated
                                        THEN NoVote ELSE voteExists[p]]
        /\ UNCHANGED proposalCount /\ todo' = proposals'
    BY DEF NewCouncilElected, Reactivate, NoVote
  <1>2. rejected \cap reactivated = {}
    BY DEF WithStatus
  <1>3. VotesTyped'
    <2>1. NoVote \in [Members -> VoteKind \cup {None}]
      BY DEF NoVote
    <2>2. QED
      BY <1>1, <2>1 DEF TallyInv, VotesTyped
  <1>4. IdsFresh'
    <2>1. \A p \in rejected \cup reactivated : proposals[p] # None
      BY DEF WithStatus, Existing
    <2> HIDE DEF rejected, reactivated, new
    <2>2. QED
      BY <1>1, <2>1 DEF TallyInv, IdsFresh
  <1>5. ASSUME NEW p \in WithStatus("Active")'
        PROVE  Tallied(proposals'[p], voteExists'[p], council')
    <2>1. p \in Ids /\ proposals'[p] # None /\ proposals'[p].status.tag = "Active"
      BY <1>5 DEF WithStatus, Existing
    <2>2. p \in reactivated
      <3>1. p \notin rejected => \/ proposals[p] = None
                                 \/ proposals[p].status.tag # "Active"
        BY <2>1 DEF WithStatus, Existing
      <3> HIDE DEF rejected, reactivated, new
      <3>2. QED
        BY <1>1, <2>1, <3>1
    <2>3. proposals'[p] = new(p) /\ voteExists'[p] = NoVote
      <3> HIDE DEF rejected, reactivated, new
      <3>1. QED
        BY <1>1, <1>2, <2>1, <2>2
    <2>4. proposals[p] \in Proposal
      BY <2>2 DEF IndInv, Tables, GoodProposal, WithStatus, Existing
    <2>5. new(p).voting_results = NoVotes
      BY <2>4 DEF Proposal
    <2> HIDE DEF new
    <2>6. QED
      BY <2>3, <2>5, EmptyTally
  <1>6. QED
    BY <1>3, <1>4, <1>5 DEF TallyInv

(* So does the decision on one proposal of the snapshot. *)
LEMMA ProcessKeepsTally ==
    ASSUME IndInv, TallyInv, NEW p \in Ids, ProcessProposal(p)
    PROVE  TallyInv'
  <1> DEFINE prop == todo[p]
  <1>1. /\ todo' = [todo EXCEPT ![p] = None] /\ prop # None
        /\ UNCHANGED council
    BY DEF ProcessProposal
  <1>2. \A q \in Ids : todo'[q] = None \/ todo'[q] = todo[q]
    BY <1>1 DEF IndInv, Tables
  <1>3. ASSUME NEW S, NEW n, RemoveProposalData(S, n)
        PROVE  TallyInv'
    BY <1>1, <1>2, <1>3, RemovalTally, QuietTally
  <1>4. CASE UNCHANGED storageVars
    <2>1. UNCHANGED <<proposals, voteExists, proposalCount>>
      BY <1>4 DEF storageVars
    <2>2. QED
      BY <1>1, <1>2, <2>1, QuietTally DEF TallyInv, VotesTyped
  <1>5. ASSUME NEW d \in {"PendingExecution", "PendingConstitutionality"},
               proposals' = [proposals EXCEPT ![p] = Confirmed(prop, d)],
               UNCHANGED <<voteExists, proposalCount>>
        PROVE  TallyInv'
    <2>1. prop \in Proposal
      BY <1>1 DEF IndInv, Tables, GoodProposal
    <2>2. Confirmed(prop, d).status = IF d = "PendingExecution" THEN PendingExecution(now)
                                      ELSE PendingConstitutionality
      BY <2>1 DEF Confirmed, Proposal
    <2>3. Confirmed(prop, d).status.tag # "Active"
      BY <2>2 DEF PendingExecution, PendingConstitutionality
    <2>4. /\ proposals'[p] = Confirmed(prop, d)
          /\ \A q \in Ids : q # p => proposals'[q] = proposals[q]
      BY <1>5 DEF IndInv, Tables
    <2>5. QED
      BY <1>1, <1>2, <1>5, <2>3, <2>4, QuietTally DEF TallyInv, VotesTyped
  <1>6. CASE ProcessActive(p, prop)
    <2> DEFINE d == Decision(prop, Cardinality(council), now)
    <2>1. UNCHANGED storageVars \/ FinalizeProposal(p, prop, d)
      BY <1>6 DEF ProcessActive
    <2> HIDE DEF d
    <2>2. ASSUME FinalizeProposal(p, prop, d)
          PROVE  \/ RemoveProposalData({p}, 1)
                 \/ /\ d \in {"PendingExecution", "PendingConstitutionality"}
                    /\ proposals' = [proposals EXCEPT ![p] = Confirmed(prop, d)]
                    /\ UNCHANGED <<voteExists, proposalCount>>
                 \/ RemoveProposalData({p} \cup Vetoed(p), 1 + Cardinality(Vetoed(p)))
      BY <2>2 DEF FinalizeProposal, ExecuteProposal
    <2>3. QED
      BY <1>3, <1>4, <1>5, <2>1, <2>2
  <1>7. CASE ProcessPendingExecution(p, prop)
    BY <1>3, <1>4, <1>7 DEF ProcessPendingExecution, ExecuteProposal, storageVars
  <1>8. CASE ProcessPendingConstitutionality(prop)
    BY <1>4, <1>8 DEF ProcessPendingConstitutionality
  <1>9. QED
    BY <1>6, <1>7, <1>8 DEF ProcessProposal

(* So does every extrinsic, a vote among them. *)
LEMMA ExtrinsicKeepsTally ==
    ASSUME IndInv, TallyInv, Extrinsic
    PROVE  TallyInv'
  <1>0. UNCHANGED <<council, todo>>
    BY DEF Extrinsic
  <1>1. ASSUME NEW m \in Members, NEW par \in ProposalParameters,
               NEW a \in Accounts \cup {None}, NEW block \in ExecutionBlocks,
               NEW call \in Calls, CreateProposal(m, par, a, block, call)
        PROVE  TallyInv'
    <2> DEFINE n == proposalCount + 1
    <2>1. /\ proposalCount' = n /\ UNCHANGED voteExists
          /\ \A q \in Ids : q # n => proposals'[q] = proposals[q]
          /\ n \in Ids /\ n > proposalCount
          /\ proposals'[n].voting_results = NoVotes
      BY <1>1, ProposalsAssumption DEF CreateProposal, IndInv, Tables, Ids
    <2>2. IdsFresh'
      <3>1. proposalCount \in Nat /\ Ids \subseteq Nat
        BY DEF IndInv, Ids
      <3>2. \A q \in Ids : q > proposalCount' => q > proposalCount /\ q # n
        BY <2>1, <3>1
      <3> HIDE DEF n
      <3>3. QED
        BY <1>0, <2>1, <3>2 DEF TallyInv, IdsFresh
    <2>3. ASSUME NEW q \in WithStatus("Active")'
          PROVE  Tallied(proposals'[q], voteExists'[q], council')
      <3>1. CASE q = n
        <4>1. voteExists[n] = NoVote
          BY <2>1 DEF TallyInv, IdsFresh
        <4> HIDE DEF n
        <4>2. QED
          BY <2>1, <3>1, <4>1, EmptyTally
      <3>2. CASE q # n
        <4>1. q \in WithStatus("Active") /\ proposals'[q] = proposals[q]
          BY <2>1, <2>3, <3>2 DEF WithStatus, Existing
        <4>2. QED
          BY <1>0, <2>1, <4>1 DEF TallyInv
      <3>3. QED
        BY <3>1, <3>2
    <2>4. QED
      BY <2>1, <2>2, <2>3 DEF TallyInv, VotesTyped
  <1>2. ASSUME NEW m \in Members, NEW p \in Ids, NEW kind \in VoteKind, Vote(m, p, kind)
        PROVE  TallyInv'
    <2>1. /\ m \in council /\ p \in WithStatus("Active") /\ voteExists[p][m] = None
          /\ proposals[p] \in Proposal
          /\ voteExists[p] \in [Members -> VoteKind \cup {None}]
          /\ proposals[p] # None
      BY <1>2 DEF Vote, IndInv, Tables, GoodProposal, WithStatus, Existing, TallyInv,
         VotesTyped
    <2>2. /\ proposals'[p] = [proposals[p] EXCEPT !.voting_results[kind] = @ + 1]
          /\ \A q \in Ids : q # p => proposals'[q] = proposals[q]
      BY <1>2 DEF Vote, IndInv, Tables
    <2>3. /\ voteExists'[p] = [voteExists[p] EXCEPT ![m] = kind]
          /\ \A q \in Ids : q # p => voteExists'[q] = voteExists[q]
          /\ VotesTyped'
          /\ UNCHANGED proposalCount
      BY <1>2, <2>1 DEF Vote, TallyInv, VotesTyped
    <2>4. Tallied(proposals'[p], voteExists'[p], council')
      BY <1>0, <2>1, <2>2, <2>3, VoteCounted DEF TallyInv
    <2>5. ASSUME NEW q \in WithStatus("Active")', q # p
          PROVE  Tallied(proposals'[q], voteExists'[q], council')
      <3>1. q \in WithStatus("Active") /\ proposals'[q] = proposals[q]
        BY <2>2, <2>5 DEF WithStatus, Existing
      <3>2. QED
        BY <1>0, <2>3, <2>5, <3>1 DEF TallyInv, WithStatus, Existing
    <2>6. IdsFresh'
      BY <1>0, <2>1, <2>2, <2>3 DEF TallyInv, IdsFresh
    <2>7. QED
      BY <2>3, <2>4, <2>5, <2>6 DEF TallyInv
  <1>3. ASSUME NEW p \in Ids, CancelProposal(p) \/ VetoProposal(p)
        PROVE  TallyInv'
    <2>1. RemoveProposalData({p}, 1)
      BY <1>3 DEF CancelProposal, VetoProposal
    <2>2. QED
      BY <1>0, <2>1, RemovalTally, QuietTally
  <1>4. QED
    BY <1>1, <1>2, <1>3 DEF Extrinsic

(* Tallies are the votes, and ids that are still free have none. *)
LEMMA ProposalsTallied == Spec => []TallyInv
  <1>1. Init => TallyInv
    BY DEF Init, TallyInv, VotesTyped, IdsFresh, NoVote, NobodyVoted, Nothing, WithStatus,
       Existing
  <1>2. IndInv /\ TallyInv /\ [Next]_vars => TallyInv'
    <2>1. CASE UNCHANGED vars
      BY <2>1 DEF TallyInv, VotesTyped, IdsFresh, Tallied, WithStatus, Existing, vars,
         storageVars
    <2>2. CASE IndInv /\ TallyInv /\ Next
      BY <2>1, <2>2, BlockKeepsTally, NewCouncilKeepsTally, ProcessKeepsTally,
         ExtrinsicKeepsTally DEF Next, Horizon
    <2>3. QED
      BY <2>1, <2>2
  <1>3. QED
    BY <1>1, <1>2, ProposalsIndInv, PTL DEF Spec

(* Every tally counts the votes of the sitting council, and no others,     *)
(* even where on_initialize stores a proposal that a veto has removed.     *)
THEOREM ProposalsTally == Spec => []TallyMatchesVotes
  <1>1. TallyInv => TallyMatchesVotes
    BY DEF TallyInv, TallyMatchesVotes, Tallied
  <1>2. QED
    BY <1>1, ProposalsTallied, PTL

-----------------------------------------------------------------------------
(* Types: the stakes and the counter.                                      *)

RestTyped ==
    /\ locks \in LockTables
    /\ freeBalance \in [Accounts -> Nat]
    /\ callCode \in [Ids -> Calls \cup {None}]
    /\ activeProposalCount \in 0 .. MaxActiveProposalLimit

(* A slash leaves no balance below zero. *)
LEMMA SlashTypes ==
    ASSUME RestTyped, NEW accounts, NEW fee \in Nat, SlashAndUnstake(accounts, fee)
    PROVE  locks' \in LockTables /\ freeBalance' \in [Accounts -> Nat]
  <1>1. \A id \in LockIds : locks[id] \in [Accounts -> Nat]
    BY DEF RestTyped, LockTables
  <1>2. "proposals" \in LockIds
    BY ProposalsAssumption
  <1>3. locks' \in LockTables
    BY <1>1, <1>2 DEF RestTyped, SlashAndUnstake, RemoveLocks, LockTables
  <1>4. \A a \in Accounts : Slashable(locks, "proposals", a, fee) \in Nat
    BY <1>1, <1>2 DEF Slashable
  <1>5. \A a \in Accounts :
            BalanceAfterSlash(freeBalance[a], Slashable(locks, "proposals", a, fee)) \in Nat
    <2>1. \A x, y \in Nat : BalanceAfterSlash(x, y) \in Nat
      BY DEF BalanceAfterSlash
    <2>2. \A a \in Accounts : freeBalance[a] \in Nat
      BY DEF RestTyped
    <2>3. QED
      BY <1>4, <2>1, <2>2
  <1>6. QED
    BY <1>3, <1>5 DEF RestTyped, SlashAndUnstake

(* Removing proposals keeps the calls and the counter typed. *)
LEMMA RemovalTypes ==
    ASSUME RestTyped, NEW S, NEW n \in Nat, RemoveProposalData(S, n)
    PROVE  /\ callCode' \in [Ids -> Calls \cup {None}]
           /\ activeProposalCount' \in 0 .. MaxActiveProposalLimit
  BY ProposalsAssumption DEF RestTyped, RemoveProposalData

(* What finalize_proposal slashes is an amount. *)
LEMMA FeeTypes ==
    ASSUME NEW prop \in Proposal, NEW d
    PROVE  SlashBalance(d, prop) \in Nat
  <1>1. prop.parameters.required_stake \in Nat \cup {None}
    BY DEF Proposal, Parameters
  <1>2. QED
    BY <1>1, ProposalsAssumption DEF SlashBalance

(* Every step leaves the variables of the stakes and the votes typed. *)
LEMMA StepKeepsRestTyped ==
    ASSUME IndInv, RestTyped, Next
    PROVE  RestTyped'
  <1>0. \A S \in SUBSET Ids : IsFiniteSet(S) /\ Cardinality(S) \in Nat
    <2>1. IsFiniteSet(Ids)
      BY ProposalsAssumption, FS_Interval DEF Ids
    <2>2. QED
      BY <2>1, FS_Subset, FS_CardinalityType
  <1>1. \A tag : WithStatus(tag) \in SUBSET Ids /\ Existing \in SUBSET Ids
    BY DEF WithStatus, Existing
  <1>2. ASSUME NEW accounts, NEW fee \in Nat, SlashAndUnstake(accounts, fee),
               NEW S, NEW n \in Nat, RemoveProposalData(S, n)
        PROVE  RestTyped'
    BY <1>2, SlashTypes, RemovalTypes DEF RestTyped
  <1>3. CASE UNCHANGED <<stakeVars, callCode, activeProposalCount>>
    BY <1>3 DEF RestTyped, stakeVars
  <1>4. ASSUME NEW c \in CouncilChoices, NewCouncilElected(c)
        PROVE  RestTyped'
    <2> DEFINE rejected == WithStatus("Active")
    <2>1. /\ SlashAndUnstake(AccountsOf({proposals[p] : p \in rejected}), RejectionFee)
          /\ callCode' = [p \in Ids |-> IF p \in rejected THEN None ELSE callCode[p]]
          /\ activeProposalCount' = IF activeProposalCount > Cardinality(rejected)
                                    THEN activeProposalCount - Cardinality(rejected) ELSE 0
      BY <1>4 DEF NewCouncilElected
    <2>2. Cardinality(rejected) \in Nat /\ RejectionFee \in Nat
      BY <1>0, <1>1, ProposalsAssumption
    <2> HIDE DEF rejected
    <2>3. locks' \in LockTables /\ freeBalance' \in [Accounts -> Nat]
      BY <2>1, <2>2, SlashTypes
    <2>4. QED
      BY <2>1, <2>2, <2>3, ProposalsAssumption DEF RestTyped
  <1>5. CASE RuntimeUpgrade
    BY <1>0, <1>1, <1>2, <1>5 DEF RuntimeUpgrade
  <1>6. ASSUME NEW p \in Ids, NEW accounts, ExecuteProposal(p, accounts)
        PROVE  RestTyped'
    <2>1. Vetoed(p) \in SUBSET Ids
      BY DEF Vetoed, Existing
    <2>2. 1 + Cardinality(Vetoed(p)) \in Nat
      BY <1>0, <2>1
    <2>3. QED
      BY <1>2, <1>6, <2>2 DEF ExecuteProposal
  <1>7. ASSUME NEW p \in Ids, ProcessProposal(p)
        PROVE  RestTyped'
    <2>1. todo[p] \in Proposal
      BY <1>7 DEF ProcessProposal, IndInv, Tables, GoodProposal
    <2>2. ASSUME NEW d, FinalizeProposal(p, todo[p], d)
          PROVE  RestTyped'
      <3>1. SlashBalance(d, todo[p]) \in Nat
        BY <2>1, FeeTypes
      <3>2. CASE /\ SlashAndUnstake(AccountsOf({todo[p]}), SlashBalance(d, todo[p]))
                 /\ RemoveProposalData({p}, 1)
        BY <1>2, <3>1, <3>2
      <3>3. CASE /\ SlashAndUnstake(AccountsOf({todo[p]}), 0)
                 /\ UNCHANGED <<callCode, activeProposalCount>>
        BY <3>3, SlashTypes DEF RestTyped
      <3>4. CASE UNCHANGED <<stakeVars, callCode, activeProposalCount>>
        BY <1>3, <3>4
      <3>5. CASE ExecuteProposal(p, AccountsOf({todo[p]}))
        BY <1>6, <3>5
      <3>6. QED
        BY <2>2, <3>2, <3>3, <3>4, <3>5 DEF FinalizeProposal
    <2>3. CASE UNCHANGED <<stakeVars, storageVars>>
      BY <1>3, <2>3 DEF storageVars
    <2>4. QED
      BY <1>6, <1>7, <2>2, <2>3 DEF ProcessProposal, ProcessActive, ProcessPendingExecution,
         ProcessPendingConstitutionality
  <1>8. ASSUME NEW m \in Members, NEW par \in ProposalParameters,
               NEW a \in Accounts \cup {None}, NEW block \in ExecutionBlocks,
               NEW call \in Calls, CreateProposal(m, par, a, block, call)
        PROVE  RestTyped'
    <2>1. a # None => par.required_stake \in Nat
      BY <1>8, ProposalsAssumption DEF CreateProposal, CanCreateProposal, Parameters
    <2>2. locks' \in LockTables
      <3>1. \A id \in LockIds : locks[id] \in [Accounts -> Nat]
        BY DEF RestTyped, LockTables
      <3>2. "proposals" \in LockIds
        BY ProposalsAssumption
      <3>3. QED
        BY <1>8, <2>1, <3>1, <3>2 DEF CreateProposal, SetLock, RestTyped, LockTables
    <2>3. /\ callCode' \in [Ids -> Calls \cup {None}]
          /\ activeProposalCount' \in 0 .. MaxActiveProposalLimit
          /\ UNCHANGED freeBalance
      <3>1. activeProposalCount' = activeProposalCount + 1
        BY <1>8 DEF CreateProposal
      <3>2. activeProposalCount < MaxActiveProposalLimit
        BY <1>8 DEF CreateProposal, CanCreateProposal
      <3>3. callCode' = [callCode EXCEPT ![proposalCount + 1] = call] /\ UNCHANGED freeBalance
        BY <1>8 DEF CreateProposal
      <3>4. activeProposalCount' \in 0 .. MaxActiveProposalLimit
        BY <3>1, <3>2, ProposalsAssumption DEF RestTyped
      <3>5. QED
        BY <3>3, <3>4 DEF RestTyped
    <2>4. QED
      BY <2>2, <2>3 DEF RestTyped
  <1>9. ASSUME NEW p \in Ids, CancelProposal(p) \/ VetoProposal(p)
        PROVE  RestTyped'
    <2>1. proposals[p] \in Proposal
      BY <1>9 DEF CancelProposal, VetoProposal, WithStatus, Existing, IndInv, Tables,
         GoodProposal
    <2>2. \A d : SlashBalance(d, proposals[p]) \in Nat
      BY <2>1, FeeTypes
    <2>3. PICK d : /\ SlashAndUnstake(AccountsOf({proposals[p]}), SlashBalance(d, proposals[p]))
                   /\ RemoveProposalData({p}, 1)
      BY <1>9 DEF CancelProposal, VetoProposal
    <2>4. QED
      BY <1>2, <2>2, <2>3
  <1>10. ASSUME \/ QuietBlock \/ Horizon
                \/ \E m \in Members, p \in Ids, kind \in VoteKind : Vote(m, p, kind)
         PROVE  UNCHANGED <<stakeVars, callCode, activeProposalCount>>
    BY <1>10 DEF QuietBlock, Horizon, Vote, vars, storageVars
  <1>11. QED
    BY <1>3, <1>4, <1>5, <1>7, <1>8, <1>9, <1>10 DEF Next, Extrinsic

(* Every storage item of the engine keeps its type, and the counter of     *)
(* active proposals stays within its limit although it saturates at zero.  *)
THEOREM ProposalsTypes == Spec => []TypeOK
  <1>1. Init => RestTyped
    BY ProposalsAssumption, StakingAssumption
    DEF Init, RestTyped, LockTables, NoLocks, Nothing
  <1>2. IndInv /\ RestTyped /\ [Next]_vars => RestTyped'
    <2>1. CASE UNCHANGED vars
      BY <2>1 DEF RestTyped, vars, stakeVars, storageVars
    <2>2. QED
      BY <2>1, StepKeepsRestTyped
  <1>3. Spec => []VotesTyped
    <2>1. TallyInv => VotesTyped
      BY DEF TallyInv
    <2>2. QED
      BY <2>1, ProposalsTallied, PTL
  <1>4. IndInv /\ RestTyped /\ VotesTyped => TypeOK
    BY DEF IndInv, RestTyped, VotesTyped, TypeOK, Tables, GoodProposal
  <1>5. QED
    BY <1>1, <1>2, <1>3, <1>4, ProposalsIndInv, PTL DEF Spec

-----------------------------------------------------------------------------
(* The snapshot, and the stakes of what it holds.                          *)

Open(prop) == prop # None /\ prop.status.tag \in {"Active", "PendingConstitutionality"}

Stake(a) == locks["proposals"][a]

(* A proposal still to be processed is in storage as the snapshot has it,  *)
(* or a proposal executed before it has vetoed it and freed its account.   *)
SnapshotInv ==
    \A p \in Ids : todo[p] # None =>
        \/ proposals[p] = todo[p]
        \/ /\ proposals[p] = None
           /\ \A a \in Accounts : todo[p].staking_account_id = a => Stake(a) = 0

(* A step that locks nothing, and frees the account of every proposal that *)
(* it ends or that does not need its stake any more.                       *)
FreesStakes ==
    /\ \A a \in Accounts : Stake(a)' = 0 \/ Stake(a)' = Stake(a)
    /\ \A p \in Ids : Open(proposals[p]) =>
          \/ /\ Open(proposals'[p])
             /\ proposals'[p].staking_account_id = proposals[p].staking_account_id
             /\ proposals'[p].parameters = proposals[p].parameters
          \/ \A a \in Accounts : proposals[p].staking_account_id = a => Stake(a)' = 0

(* A slash frees the accounts and takes at most what was locked. *)
LEMMA SlashEffects ==
    ASSUME RestTyped, NEW accounts, NEW fee \in Nat, SlashAndUnstake(accounts, fee)
    PROVE  /\ \A a \in Accounts : Stake(a)' = IF a \in accounts THEN 0 ELSE Stake(a)
           /\ \A a \in Accounts : freeBalance'[a] # freeBalance[a] =>
                 /\ a \in accounts /\ fee # 0 /\ Stake(a) # 0
                 /\ freeBalance'[a] < freeBalance[a]
                 /\ freeBalance[a] - freeBalance'[a] <= Stake(a)
  <1>1. locks \in LockTables /\ "proposals" \in LockIds
    BY ProposalsAssumption DEF RestTyped
  <1>2. \A a \in Accounts : Stake(a)' = IF a \in accounts THEN 0 ELSE Stake(a)
    BY <1>1 DEF SlashAndUnstake, RemoveLocks, LockTables, Stake
  <1>3. ASSUME NEW a \in Accounts, freeBalance'[a] # freeBalance[a]
        PROVE  /\ a \in accounts /\ fee # 0 /\ Stake(a) # 0
               /\ freeBalance'[a] < freeBalance[a]
               /\ freeBalance[a] - freeBalance'[a] <= Stake(a)
    <2>1. /\ a \in accounts
          /\ freeBalance'[a] = BalanceAfterSlash(freeBalance[a],
                                  Slashable(locks, "proposals", a, fee))
      BY <1>3 DEF SlashAndUnstake
    <2>2. Stake(a) \in Nat /\ freeBalance[a] \in Nat
      BY <1>1 DEF LockTables, RestTyped, Stake
    <2>3. QED
      BY <1>3, <2>1, <2>2 DEF BalanceAfterSlash, Slashable, Stake
  <1>4. QED
    BY <1>2, <1>3

(* Such steps leave no stake without a proposal that needs it. *)
LEMMA FreesKeepsJustified ==
    ASSUME RestTyped, NoOrphanStake, FreesStakes
    PROVE  NoOrphanStake'
  <1> SUFFICES ASSUME NEW a \in Accounts, Stake(a)' # 0
               PROVE  \E p \in (WithStatus("Active") \cup
                                WithStatus("PendingConstitutionality"))' :
                         /\ proposals'[p].staking_account_id = a
                         /\ proposals'[p].parameters.required_stake = Stake(a)'
    BY DEF NoOrphanStake, Stake
  <1>1. Stake(a)' = Stake(a) /\ Stake(a) # 0
    BY DEF FreesStakes
  <1>2. PICK p \in WithStatus("Active") \cup WithStatus("PendingConstitutionality") :
           /\ proposals[p].staking_account_id = a
           /\ proposals[p].parameters.required_stake = Stake(a)
    BY <1>1 DEF NoOrphanStake, Stake
  <1>3. p \in Ids /\ Open(proposals[p])
    BY <1>2 DEF WithStatus, Existing, Open
  <1>4. /\ Open(proposals'[p])
        /\ proposals'[p].staking_account_id = a
        /\ proposals'[p].parameters = proposals[p].parameters
    BY <1>1, <1>2, <1>3 DEF FreesStakes
  <1>5. p \in (WithStatus("Active") \cup WithStatus("PendingConstitutionality"))'
    BY <1>3, <1>4 DEF WithStatus, Existing, Open
  <1>6. QED
    BY <1>1, <1>2, <1>4, <1>5

(* The account of a proposal is among those of the proposals it is in. *)
LEMMA AccountListed ==
    ASSUME NEW props, NEW prop \in props, NEW a \in Accounts, prop.staking_account_id = a
    PROVE  a \in AccountsOf(props)
  BY ProposalsAssumption DEF AccountsOf

(* Removing proposals together with their accounts. *)
LEMMA RemovalFrees ==
    ASSUME IndInv, RestTyped, NEW accounts, NEW fee \in Nat, SlashAndUnstake(accounts, fee),
           NEW S, NEW n, RemoveProposalData(S, n),
           \A p \in S \cap Ids : Open(proposals[p]) =>
              \A a \in Accounts : proposals[p].staking_account_id = a => a \in accounts
    PROVE  /\ FreesStakes
           /\ \A p \in Ids : proposals'[p] = IF p \in S THEN None ELSE proposals[p]
  <1>1. \A p \in Ids : proposals'[p] = IF p \in S THEN None ELSE proposals[p]
    BY DEF RemoveProposalData
  <1>2. \A a \in Accounts : Stake(a)' = IF a \in accounts THEN 0 ELSE Stake(a)
    BY SlashEffects
  <1>3. QED
    BY <1>1, <1>2 DEF FreesStakes

(* What a confirmed proposal keeps. *)
LEMMA ConfirmedKeeps ==
    ASSUME NEW prop \in Proposal, NEW d \in {"PendingExecution", "PendingConstitutionality"}
    PROVE  /\ Confirmed(prop, d) \in Proposal \/ now \notin Nat
           /\ Confirmed(prop, d).staking_account_id = prop.staking_account_id
           /\ Confirmed(prop, d).parameters = prop.parameters
           /\ Confirmed(prop, d).status = IF d = "PendingExecution"
                                          THEN PendingExecution(now)
                                          ELSE PendingConstitutionality
  <1> DEFINE s == IF d = "PendingExecution" THEN PendingExecution(now)
                  ELSE PendingConstitutionality
             counted == [prop EXCEPT !.nr_of_council_confirmations = @ + 1]
  <1>1. Confirmed(prop, d) = [counted EXCEPT !.status = s]
    BY DEF Confirmed, Proposal
  <1>2. /\ counted \in Proposal
        /\ counted.staking_account_id = prop.staking_account_id
        /\ counted.parameters = prop.parameters
    BY DEF Proposal
  <1>3. now \in Nat => s \in ProposalStatus
    BY DEF PendingExecution, PendingConstitutionality, ProposalStatus
  <1> HIDE DEF counted, s
  <1>4. now \in Nat => [counted EXCEPT !.status = s] \in Proposal
    BY <1>2, <1>3, FieldUpdates
  <1>5. /\ [counted EXCEPT !.status = s].staking_account_id = counted.staking_account_id
        /\ [counted EXCEPT !.status = s].parameters = counted.parameters
        /\ [counted EXCEPT !.status = s].status = s
    BY <1>2 DEF Proposal
  <1>6. QED
    BY <1>1, <1>2, <1>4, <1>5 DEF s

(* The outcomes of processing one proposal of the snapshot: it is left as  *)
(* it is, confirmed, or removed with what it vetoes.                       *)
Left(p) == UNCHANGED <<stakeVars, storageVars>>

Kept(p, d) ==
    /\ proposals' = [proposals EXCEPT ![p] = Confirmed(todo[p], d)]
    /\ UNCHANGED <<callCode, proposalCount, activeProposalCount, voteExists>>
    /\ \/ d = "PendingConstitutionality" /\ UNCHANGED stakeVars
       \/ /\ d = "PendingExecution" /\ SlashAndUnstake(AccountsOf({todo[p]}), 0)
          /\ ~ IsReadyForExecution(Confirmed(todo[p], d), now)

Closed(p, fee) ==
    /\ SlashAndUnstake(AccountsOf({todo[p]}), fee)
    /\ RemoveProposalData({p}, 1)

Executed(p, accounts) ==
    /\ accounts = AccountsOf({todo[p]}) \/ todo[p].status.tag = "PendingExecution"
    /\ ExecuteProposal(p, accounts)

(* One of them it is, and what is left is not due. *)
LEMMA ProcessOutcomes ==
    ASSUME IndInv, NEW p \in Ids, ProcessProposal(p)
    PROVE  \/ /\ Left(p)
              /\ todo[p].status.tag = "Active" => ~ IsVotingPeriodExpired(todo[p], now)
              /\ ~ IsReadyForExecution(todo[p], now)
           \/ /\ todo[p].status.tag = "Active"
              /\ \E d \in {"PendingExecution", "PendingConstitutionality"} : Kept(p, d)
           \/ /\ todo[p].status.tag = "Active"
              /\ \E fee \in Nat : Closed(p, fee)
           \/ \E accounts : Executed(p, accounts)
  <1> DEFINE prop == todo[p]
  <1>1. prop \in Proposal
    BY DEF ProcessProposal, IndInv, Tables, GoodProposal
  <1>2. CASE ProcessActive(p, prop)
    <2> DEFINE d == Decision(prop, Cardinality(council), now)
    <2>1. prop.status.tag = "Active"
      BY <1>2 DEF ProcessActive
    <2>2. CASE d = None
      <3>1. UNCHANGED <<stakeVars, storageVars>>
        BY <1>2, <2>2 DEF ProcessActive
      <3>2. ~ IsVotingPeriodExpired(prop, now)
        BY <2>2, ProposalsAssumption DEF Decision, ProposalDecision
      <3>3. QED
        BY <2>1, <3>1, <3>2 DEF Left, IsReadyForExecution
    <2>3. CASE d # None
      <3>1. FinalizeProposal(p, prop, d)
        BY <1>2, <2>3 DEF ProcessActive
      <3>2. SlashBalance(d, prop) \in Nat
        BY <1>1, FeeTypes
      <3> HIDE DEF d
      <3>3. QED
        BY <2>1, <3>1, <3>2 DEF FinalizeProposal, Kept, Closed, Executed
    <2>4. QED
      BY <2>2, <2>3
  <1>3. CASE ProcessPendingExecution(p, prop)
    BY <1>3 DEF ProcessPendingExecution, Left, Executed
  <1>4. CASE ProcessPendingConstitutionality(prop)
    BY <1>4 DEF ProcessPendingConstitutionality, Left, IsReadyForExecution
  <1>5. QED
    BY <1>2, <1>3, <1>4 DEF ProcessProposal

(* What processing p does to storage: the others are left or vetoed, with  *)
(* their accounts freed; p itself is gone, confirmed, or as before.        *)
LEMMA ProcessEffects ==
    ASSUME IndInv, RestTyped, SnapshotInv, NEW p \in Ids, ProcessProposal(p)
    PROVE  /\ FreesStakes
           /\ \A q \in Ids : q # p =>
                 \/ proposals'[q] = proposals[q]
                 \/ /\ proposals'[q] = None
                    /\ \A a \in Accounts :
                          proposals[q].staking_account_id = a => Stake(a)' = 0
  <1> DEFINE prop == todo[p]
  <1>0. /\ prop # None /\ prop \in Proposal /\ proposals \in [Ids -> Proposal \cup {None}]
        /\ now \in Nat
    BY DEF ProcessProposal, IndInv, Tables, GoodProposal
  <1>1. proposals[p] = prop \/ proposals[p] = None
    BY <1>0 DEF SnapshotInv
  <1>2. CASE Left(p)
    BY <1>2 DEF Left, FreesStakes, stakeVars, storageVars, Stake
  <1>3. ASSUME prop.status.tag = "Active",
               NEW d \in {"PendingExecution", "PendingConstitutionality"}, Kept(p, d)
        PROVE  /\ FreesStakes
               /\ \A q \in Ids : q # p => proposals'[q] = proposals[q]
    <2>1. \A q \in Ids : proposals'[q] = IF q = p THEN Confirmed(prop, d) ELSE proposals[q]
      BY <1>0, <1>3 DEF Kept
    <2>2. /\ Confirmed(prop, d).staking_account_id = prop.staking_account_id
          /\ Confirmed(prop, d).parameters = prop.parameters
          /\ Confirmed(prop, d).status = IF d = "PendingExecution" THEN PendingExecution(now)
                                         ELSE PendingConstitutionality
          /\ Confirmed(prop, d) \in Proposal
      BY <1>0, ConfirmedKeeps
    <2>3. CASE d = "PendingConstitutionality" /\ UNCHANGED stakeVars
      <3>1. Open(Confirmed(prop, d))
        <4>1. None \notin Proposal
          BY NoneIsNoProposal
        <4>2. QED
          BY <2>2, <2>3, <4>1 DEF Open, PendingConstitutionality
      <3>2. \A a \in Accounts : Stake(a)' = Stake(a)
        BY <2>3 DEF stakeVars, Stake
      <3> HIDE DEF prop
      <3>3. QED
        BY <1>1, <2>1, <2>2, <3>1, <3>2 DEF FreesStakes, Open
    <2>4. CASE SlashAndUnstake(AccountsOf({prop}), 0)
      <3>1. \A a \in Accounts : Stake(a)' = IF a \in AccountsOf({prop}) THEN 0 ELSE Stake(a)
        BY <2>4, SlashEffects
      <3>2. \A a \in Accounts : prop.staking_account_id = a => Stake(a)' = 0
        BY <3>1, AccountListed
      <3> HIDE DEF prop
      <3>3. QED
        BY <1>1, <2>1, <3>1, <3>2 DEF FreesStakes, Open
    <2>5. QED
      BY <1>3, <2>1, <2>3, <2>4 DEF Kept
  <1>4. ASSUME NEW fee \in Nat, Closed(p, fee)
        PROVE  /\ FreesStakes
               /\ \A q \in Ids : q # p => proposals'[q] = proposals[q]
    <2>1. \A q \in {p} \cap Ids : Open(proposals[q]) =>
             \A a \in Accounts : proposals[q].staking_account_id = a
                                   => a \in AccountsOf({prop})
      BY <1>1, AccountListed DEF Open
    <2>2. QED
      BY <1>4, <2>1, RemovalFrees DEF Closed
  <1>5. ASSUME NEW accounts, Executed(p, accounts)
        PROVE  /\ FreesStakes
               /\ \A q \in Ids : q # p =>
                     \/ proposals'[q] = proposals[q]
                     \/ /\ proposals'[q] = None
                        /\ \A a \in Accounts :
                              proposals[q].staking_account_id = a => Stake(a)' = 0
    <2> DEFINE V == Vetoed(p)
               freed == accounts \cup AccountsOf({proposals[q] : q \in V})
    <2>1. /\ SlashAndUnstake(freed, 0)
          /\ RemoveProposalData({p} \cup V, 1 + Cardinality(V))
          /\ V \subseteq Ids
      BY <1>5 DEF Executed, ExecuteProposal, Vetoed, Existing
    <2>2. \A q \in V : \A a \in Accounts : proposals[q].staking_account_id = a => a \in freed
      BY AccountListed
    <2>3. Open(proposals[p]) => \A a \in Accounts : proposals[p].staking_account_id = a
                                                       => a \in freed
      <3> SUFFICES ASSUME Open(proposals[p]), NEW a \in Accounts,
                          proposals[p].staking_account_id = a
                   PROVE  a \in accounts
        OBVIOUS
      <3>1. proposals[p] = prop /\ prop.status.tag # "PendingExecution"
        BY <1>1 DEF Open
      <3>2. accounts = AccountsOf({prop})
        BY <1>5, <3>1 DEF Executed
      <3>3. QED
        BY <3>1, <3>2, AccountListed
    <2> HIDE DEF V, freed
    <2>4. \A q \in ({p} \cup V) \cap Ids : Open(proposals[q]) =>
             \A a \in Accounts : proposals[q].staking_account_id = a => a \in freed
      BY <2>2, <2>3
    <2>5. /\ FreesStakes
          /\ \A q \in Ids : proposals'[q] = IF q \in {p} \cup V THEN None ELSE proposals[q]
      BY <2>1, <2>4, RemovalFrees
    <2>6. \A a \in freed \cap Accounts : Stake(a)' = 0
      BY <2>1, SlashEffects
    <2>7. QED
      BY <2>2, <2>5, <2>6
  <1>6. QED
    BY <1>2, <1>3, <1>4, <1>5, ProcessOutcomes DEF Left, storageVars

(* Processing keeps the rest of the snapshot true to storage. *)
LEMMA ProcessKeepsSnapshot ==
    ASSUME IndInv, RestTyped, SnapshotInv, NEW p \in Ids, ProcessProposal(p)
    PROVE  SnapshotInv'
  <1> SUFFICES ASSUME NEW q \in Ids, todo'[q] # None
               PROVE  \/ proposals'[q] = todo'[q]
                      \/ /\ proposals'[q] = None
                         /\ \A a \in Accounts : todo'[q].staking_account_id = a
                                                   => Stake(a)' = 0
    BY DEF SnapshotInv
  <1>1. q # p /\ todo'[q] = todo[q]
    BY DEF ProcessProposal, IndInv, Tables
  <1>2. \/ proposals'[q] = proposals[q]
        \/ /\ proposals'[q] = None
           /\ \A a \in Accounts : proposals[q].staking_account_id = a => Stake(a)' = 0
    BY <1>1, ProcessEffects
  <1>3. \A a \in Accounts : Stake(a)' = 0 \/ Stake(a)' = Stake(a)
    BY ProcessEffects DEF FreesStakes
  <1>4. \/ proposals[q] = todo[q]
        \/ /\ proposals[q] = None
           /\ \A a \in Accounts : todo[q].staking_account_id = a => Stake(a) = 0
    BY <1>1 DEF SnapshotInv
  <1>5. CASE proposals[q] = todo[q]
    BY <1>1, <1>2, <1>5
  <1>6. CASE proposals[q] # todo[q]
    <2>1. proposals'[q] = None
      BY <1>2, <1>4, <1>6
    <2>2. \A a \in Accounts : todo[q].staking_account_id = a => Stake(a)' = 0
      BY <1>3, <1>4, <1>6
    <2>3. QED
      BY <1>1, <2>1, <2>2
  <1>7. QED
    BY <1>5, <1>6

(* A proposal that is neither past its voting period nor due. *)
Timely(prop, n) ==
    /\ prop.status.tag = "Active" => ~ IsVotingPeriodExpired(prop, n)
    /\ ~ IsReadyForExecution(prop, n)

(* Whatever is in storage is timely, unless it is still to be processed. *)
DueInv ==
    \A p \in Ids : proposals[p] # None =>
        proposals[p] = todo[p] \/ Timely(proposals[p], now)

(* Processing decides or executes what is due. *)
LEMMA ProcessKeepsDue ==
    ASSUME IndInv, RestTyped, SnapshotInv, DueInv, NEW p \in Ids, ProcessProposal(p)
    PROVE  DueInv'
  <1> SUFFICES ASSUME NEW q \in Ids, proposals'[q] # None
               PROVE  proposals'[q] = todo'[q] \/ Timely(proposals'[q], now)
    BY DEF DueInv, ProcessProposal, Timely, IsVotingPeriodExpired, IsReadyForExecution
  <1>0. /\ todo[p] # None /\ todo[p] \in Proposal /\ now \in Nat
        /\ proposals \in [Ids -> Proposal \cup {None}]
    BY DEF ProcessProposal, IndInv, Tables, GoodProposal
  <1>1. CASE q # p
    <2>1. todo'[q] = todo[q]
      BY <1>1 DEF ProcessProposal, IndInv, Tables
    <2>2. proposals'[q] = proposals[q]
      BY <1>1, ProcessEffects
    <2>3. QED
      BY <2>1, <2>2 DEF DueInv
  <1>2. CASE q = p
    <2>1. CASE /\ Left(p)
               /\ todo[p].status.tag = "Active" => ~ IsVotingPeriodExpired(todo[p], now)
               /\ ~ IsReadyForExecution(todo[p], now)
      <3>1. proposals'[p] = todo[p]
        BY <1>0, <1>2, <2>1 DEF Left, storageVars, SnapshotInv
      <3>2. QED
        BY <1>2, <2>1, <3>1 DEF Timely
    <2>2. ASSUME NEW d \in {"PendingExecution", "PendingConstitutionality"}, Kept(p, d)
          PROVE  Timely(proposals'[p], now)
      <3>1. proposals'[p] = Confirmed(todo[p], d)
        BY <1>0, <2>2 DEF Kept
      <3>2. Confirmed(todo[p], d).status = IF d = "PendingExecution"
                                           THEN PendingExecution(now)
                                           ELSE PendingConstitutionality
        BY <1>0, ConfirmedKeeps
      <3>3. Confirmed(todo[p], d).status.tag = d
        BY <3>2 DEF PendingExecution, PendingConstitutionality
      <3>4. QED
        BY <2>2, <3>1, <3>3 DEF Kept, Timely, IsReadyForExecution
    <2>3. ASSUME NEW fee \in Nat, Closed(p, fee) PROVE FALSE
      BY <1>2, <2>3 DEF Closed, RemoveProposalData
    <2>4. ASSUME NEW accounts, Executed(p, accounts) PROVE FALSE
      BY <1>2, <2>4 DEF Executed, ExecuteProposal, RemoveProposalData
    <2>5. QED
      BY <1>2, <2>1, <2>2, <2>3, <2>4, ProcessOutcomes
  <1>3. QED
    BY <1>1, <1>2

(* A new block: the snapshot is what is in storage. *)
LEMMA BlockStakes ==
    ASSUME IndInv, RestTyped,
           QuietBlock \/ RuntimeUpgrade
    PROVE  FreesStakes /\ SnapshotInv' /\ DueInv'
  <1>0. proposals \in [Ids -> Proposal \cup {None}] /\ now \in Nat /\ RejectionFee \in Nat
    BY ProposalsAssumption DEF IndInv, Tables, GoodProposal
  <1>1. CASE QuietBlock
    BY <1>1 DEF QuietBlock, FreesStakes, SnapshotInv, DueInv, stakeVars, storageVars, Stake
  <1>2. CASE RuntimeUpgrade
    <2> DEFINE freed == AccountsOf({proposals[p] : p \in Existing})
    <2>1. /\ SlashAndUnstake(freed, 0) /\ RemoveProposalData(Existing, Cardinality(Existing))
          /\ todo' = todo /\ todo = Nothing
      BY <1>2 DEF RuntimeUpgrade, NewBlock, Processing
    <2>2. \A p \in Existing \cap Ids : Open(proposals[p]) =>
             \A a \in Accounts : proposals[p].staking_account_id = a => a \in freed
      BY AccountListed
    <2> HIDE DEF freed
    <2>3. FreesStakes
      BY <2>1, <2>2, RemovalFrees
    <2>4. \A p \in Ids : proposals'[p] = None /\ todo'[p] = None
      BY <2>1 DEF RemoveProposalData, Existing, Nothing
    <2>5. QED
      BY <2>3, <2>4 DEF SnapshotInv, DueInv
  <1>3. QED
    BY <1>1, <1>2

(* A new council: the stakes of the rejected proposals are freed, and the  *)
(* reactivated ones keep theirs.                                           *)
LEMMA NewCouncilStakes ==
    ASSUME IndInv, RestTyped, NEW c \in CouncilChoices, NewCouncilElected(c)
    PROVE  FreesStakes /\ SnapshotInv' /\ DueInv'
  <1>0. proposals \in [Ids -> Proposal \cup {None}] /\ now \in Nat /\ RejectionFee \in Nat
    BY ProposalsAssumption DEF IndInv, Tables, GoodProposal
  <1> DEFINE rejected == WithStatus("Active")
             reactivated == WithStatus("PendingConstitutionality")
             new(p) == [proposals[p] EXCEPT !.activated_at = now + 1, !.status = Active,
                                            !.voting_results = NoVotes]
             freed == AccountsOf({proposals[p] : p \in rejected})
  <1>1. /\ proposals' = [p \in Ids |-> CASE p \in rejected -> None
                                         [] p \in reactivated -> new(p)
                                         [] OTHER -> proposals[p]]
        /\ todo' = proposals'
    BY DEF NewCouncilElected, Reactivate
  <1>a. SlashAndUnstake(freed, RejectionFee)
    BY DEF NewCouncilElected
  <1>2. rejected \cap reactivated = {}
    BY DEF WithStatus
  <1>3. \A p \in reactivated :
           /\ new(p).staking_account_id = proposals[p].staking_account_id
           /\ new(p).parameters = proposals[p].parameters
           /\ Open(new(p))
    <2> SUFFICES ASSUME NEW p \in reactivated
                 PROVE  /\ new(p).staking_account_id = proposals[p].staking_account_id
                        /\ new(p).parameters = proposals[p].parameters
                        /\ Open(new(p))
      OBVIOUS
    <2>1. proposals[p] \in GoodProposal
          /\ proposals[p].status.tag = "PendingConstitutionality"
      BY DEF IndInv, Tables, WithStatus, Existing
    <2>a. new(p) \in GoodProposal
      BY <1>0, <2>1, ReactivatedIsGood
    <2>2. new(p) \in Proposal
      BY <2>a DEF GoodProposal
    <2>3. /\ new(p).staking_account_id = proposals[p].staking_account_id
          /\ new(p).parameters = proposals[p].parameters
          /\ new(p).status = Active
      BY <2>1 DEF GoodProposal, Proposal
    <2> HIDE DEF new
    <2>4. QED
      BY <2>2, <2>3, NoneIsNoProposal DEF Open, Active
  <1>4. \A p \in Ids : Open(proposals[p]) => p \in rejected \cup reactivated
    BY DEF Open, WithStatus, Existing
  <1>5. \A p \in rejected : \A a \in Accounts :
           proposals[p].staking_account_id = a => a \in freed
    BY AccountListed
  <1> HIDE DEF rejected, reactivated, new, freed
  <1>6. \A a \in Accounts : Stake(a)' = IF a \in freed THEN 0 ELSE Stake(a)
    BY <1>0, <1>a, SlashEffects
  <1>7. FreesStakes
    BY <1>1, <1>2, <1>3, <1>4, <1>5, <1>6 DEF FreesStakes
  <1>8. QED
    BY <1>1, <1>7 DEF SnapshotInv, DueInv

(* A proposal that differs only in its votes is as timely. *)
LEMMA VotedIsTimely ==
    ASSUME NEW prop \in Proposal, NEW kind \in VoteKind, NEW n, Timely(prop, n),
           NEW new, new = [prop EXCEPT !.voting_results[kind] = @ + 1]
    PROVE  /\ Timely(new, n)
           /\ new.status = prop.status /\ new.parameters = prop.parameters
           /\ new.staking_account_id = prop.staking_account_id
  <1> DEFINE tally == [prop.voting_results EXCEPT ![kind] = @ + 1]
  <1>1. new = [prop EXCEPT !.voting_results = tally]
    BY DEF Proposal
  <1> HIDE DEF tally
  <1>2. /\ new.status = prop.status /\ new.parameters = prop.parameters
        /\ new.staking_account_id = prop.staking_account_id
        /\ new.activated_at = prop.activated_at
        /\ new.exact_execution_block = prop.exact_execution_block
    BY <1>1 DEF Proposal
  <1>3. QED
    BY <1>2 DEF Timely, IsVotingPeriodExpired, IsReadyForExecution

(* Extrinsics: between two blocks everything in storage is timely, and a   *)
(* stake is locked only together with its proposal.                        *)
LEMMA ExtrinsicStakes ==
    ASSUME IndInv, IdsFresh, RestTyped, DueInv, NoOrphanStake, Extrinsic
    PROVE  SnapshotInv' /\ DueInv' /\ NoOrphanStake'
  <1>0. /\ proposals \in [Ids -> Proposal \cup {None}] /\ now \in Nat
        /\ todo = Nothing /\ UNCHANGED <<todo, now>>
    BY DEF Extrinsic, Processing, IndInv, Tables, GoodProposal
  <1>1. SnapshotInv'
    BY <1>0 DEF SnapshotInv, Nothing
  <1>2. \A p \in Ids : proposals[p] # None => Timely(proposals[p], now)
    BY <1>0 DEF DueInv, Nothing
  <1>3. ASSUME NEW m \in Members, NEW par \in ProposalParameters,
               NEW a \in Accounts \cup {None}, NEW block \in ExecutionBlocks,
               NEW call \in Calls, CreateProposal(m, par, a, block, call)
        PROVE  DueInv' /\ NoOrphanStake'
    <2> DEFINE n == proposalCount + 1
               prop == [parameters |-> par, proposer_id |-> m, activated_at |-> now,
                        status |-> Active, voting_results |-> NoVotes,
                        exact_execution_block |-> block,
                        nr_of_council_confirmations |-> 0, staking_account_id |-> a]
    <2>1. n \in Ids /\ n > proposalCount
      BY <1>3, ProposalsAssumption DEF CreateProposal, IndInv, Ids
    <2>2. proposals[n] = None
      BY <2>1 DEF IdsFresh
    <2>3. proposals' = [proposals EXCEPT ![n] = prop]
      BY <1>3 DEF CreateProposal
    <2>4. par \in Parameters
      BY ProposalsAssumption
    <2>5. prop \in Proposal
      BY <1>0, <2>4, ProposalsAssumption
      DEF Proposal, NoVotes, VotingResults, Active, ProposalStatus
    <2>6. Timely(prop, now)
      <3>1. par.voting_period \in Nat /\ par.voting_period > 0
        BY <2>4 DEF Parameters
      <3>2. ~ (now >= now + par.voting_period)
        BY <1>0, <3>1
      <3>3. QED
        BY <3>2 DEF Timely, IsVotingPeriodExpired, IsReadyForExecution, Active
    <2>7. /\ prop.status.tag = "Active" /\ prop.parameters = par
          /\ prop.staking_account_id = a
      BY DEF Active
    <2> HIDE DEF n, prop
    <2>8. \A q \in Ids : proposals'[q] = IF q = n THEN prop ELSE proposals[q]
      BY <1>0, <2>3
    <2>9. DueInv'
      <3>1. \A q \in Ids : proposals'[q] # None => Timely(proposals'[q], now)
        BY <1>2, <2>6, <2>8
      <3>2. QED
        BY <1>0, <3>1 DEF DueInv, Timely, IsVotingPeriodExpired, IsReadyForExecution
    <2>10. \A b \in Accounts : \/ Stake(b)' = Stake(b)
                               \/ b = a /\ Stake(b)' = par.required_stake
      BY <1>3, ProposalsAssumption DEF CreateProposal, SetLock, Stake, RestTyped, LockTables
    <2>11. ASSUME NEW b \in Accounts, Stake(b)' # 0
           PROVE  \E p \in (WithStatus("Active") \cup
                            WithStatus("PendingConstitutionality"))' :
                     /\ proposals'[p].staking_account_id = b
                     /\ proposals'[p].parameters.required_stake = Stake(b)'
      <3>1. CASE Stake(b)' = Stake(b)
        <4>1. PICK p \in WithStatus("Active") \cup WithStatus("PendingConstitutionality") :
                 /\ proposals[p].staking_account_id = b
                 /\ proposals[p].parameters.required_stake = Stake(b)
          BY <2>11, <3>1 DEF NoOrphanStake, Stake
        <4>2. p \in Ids /\ p # n /\ proposals'[p] = proposals[p]
          BY <2>2, <2>8, <4>1 DEF WithStatus, Existing
        <4>3. p \in (WithStatus("Active") \cup WithStatus("PendingConstitutionality"))'
          BY <4>1, <4>2 DEF WithStatus, Existing
        <4>4. QED
          BY <3>1, <4>1, <4>2, <4>3
      <3>2. CASE b = a /\ Stake(b)' = par.required_stake
        <4>1. proposals'[n] = prop /\ prop # None
          BY <2>1, <2>5, <2>8, NoneIsNoProposal
        <4>2. n \in (WithStatus("Active") \cup WithStatus("PendingConstitutionality"))'
          BY <2>1, <2>7, <4>1 DEF WithStatus, Existing
        <4>3. QED
          BY <2>7, <3>2, <4>1, <4>2
      <3>3. QED
        BY <2>10, <2>11, <3>1, <3>2
    <2>12. NoOrphanStake'
      BY <2>11 DEF NoOrphanStake, Stake
    <2>13. QED
      BY <2>9, <2>12
  <1>4. ASSUME NEW m \in Members, NEW p \in Ids, NEW kind \in VoteKind, Vote(m, p, kind)
        PROVE  DueInv' /\ NoOrphanStake'
    <2> DEFINE new == [proposals[p] EXCEPT !.voting_results[kind] = @ + 1]
    <2>1. /\ proposals[p] \in Proposal /\ proposals[p] # None
          /\ UNCHANGED stakeVars
      BY <1>0, <1>4 DEF Vote, WithStatus, Existing
    <2>2. \A q \in Ids : proposals'[q] = IF q = p THEN new ELSE proposals[q]
      BY <1>0, <1>4 DEF Vote
    <2>3. /\ Timely(new, now)
          /\ new.status = proposals[p].status /\ new.parameters = proposals[p].parameters
          /\ new.staking_account_id = proposals[p].staking_account_id
      BY <1>2, <2>1, VotedIsTimely
    <2>4. new # None
      <3>1. proposals[p] \in GoodProposal
        BY <2>1 DEF IndInv, Tables
      <3>2. new \in GoodProposal
        BY <3>1, VotedIsGood
      <3> HIDE DEF new
      <3>3. QED
        BY <3>2, NoneIsNoProposal DEF GoodProposal
    <2> HIDE DEF new
    <2>5. DueInv'
      <3>1. \A q \in Ids : proposals'[q] # None => Timely(proposals'[q], now)
        BY <1>2, <2>2, <2>3
      <3>2. QED
        BY <1>0, <3>1 DEF DueInv, Timely, IsVotingPeriodExpired, IsReadyForExecution
    <2>6. FreesStakes
      BY <2>1, <2>2, <2>3, <2>4 DEF FreesStakes, Open, Stake, stakeVars
    <2>7. QED
      BY <2>5, <2>6, FreesKeepsJustified
  <1>5. ASSUME NEW p \in Ids, CancelProposal(p) \/ VetoProposal(p)
        PROVE  DueInv' /\ NoOrphanStake'
    <2>1. PICK fee \in Nat : /\ SlashAndUnstake(AccountsOf({proposals[p]}), fee)
                             /\ RemoveProposalData({p}, 1)
      <3>1. proposals[p] \in Proposal
        BY <1>0, <1>5 DEF CancelProposal, VetoProposal, WithStatus, Existing
      <3>2. \A d : SlashBalance(d, proposals[p]) \in Nat
        BY <3>1, FeeTypes
      <3>3. QED
        BY <1>5, <3>2 DEF CancelProposal, VetoProposal
    <2>2. \A q \in {p} \cap Ids : Open(proposals[q]) =>
             \A a \in Accounts : proposals[q].staking_account_id = a
                                   => a \in AccountsOf({proposals[p]})
      BY AccountListed
    <2>3. /\ FreesStakes
          /\ \A q \in Ids : proposals'[q] = IF q \in {p} THEN None ELSE proposals[q]
      BY <2>1, <2>2, RemovalFrees
    <2>4. \A q \in Ids : proposals'[q] # None => Timely(proposals'[q], now)
      BY <1>2, <2>3
    <2>5. DueInv'
      BY <1>0, <2>4 DEF DueInv, Timely, IsVotingPeriodExpired, IsReadyForExecution
    <2>6. QED
      BY <2>3, <2>5, FreesKeepsJustified
  <1>6. QED
    BY <1>1, <1>3, <1>4, <1>5 DEF Extrinsic

SnapshotStakes == SnapshotInv /\ DueInv /\ NoOrphanStake

(* Together they are inductive. *)
LEMMA StepKeepsStakes ==
    IndInv /\ TallyInv /\ RestTyped /\ SnapshotStakes /\ [Next]_vars => SnapshotStakes'
  <1> SUFFICES ASSUME IndInv, TallyInv, RestTyped, SnapshotStakes, [Next]_vars
               PROVE  SnapshotStakes'
    OBVIOUS
  <1> USE DEF SnapshotStakes
  <1>1. CASE UNCHANGED vars
    BY <1>1 DEF vars, stakeVars, storageVars, SnapshotInv, DueInv, Timely, Stake,
       IsVotingPeriodExpired, IsReadyForExecution, NoOrphanStake, WithStatus, Existing
  <1>2. CASE QuietBlock \/ RuntimeUpgrade
    BY <1>2, BlockStakes, FreesKeepsJustified
  <1>3. ASSUME NEW c \in CouncilChoices, NewCouncilElected(c) PROVE SnapshotStakes'
    BY <1>3, NewCouncilStakes, FreesKeepsJustified
  <1>4. ASSUME NEW p \in Ids, ProcessProposal(p) PROVE SnapshotStakes'
    BY <1>4, ProcessEffects, ProcessKeepsSnapshot, ProcessKeepsDue, FreesKeepsJustified
  <1>5. CASE Extrinsic
    BY <1>5, ExtrinsicStakes DEF TallyInv
  <1>6. QED
    BY <1>1, <1>2, <1>3, <1>4, <1>5 DEF Next, Horizon

(* The types of the rest, as an invariant. *)
LEMMA ProposalsRest == Spec => []RestTyped
  <1>1. TypeOK => RestTyped
    BY DEF TypeOK, RestTyped
  <1>2. QED
    BY <1>1, ProposalsTypes, PTL

(* The snapshot is true to storage but for vetoes, and nothing is overdue. *)
LEMMA ProposalsSnapshot == Spec => []SnapshotStakes
  <1>1. Init => SnapshotStakes
    BY ProposalsAssumption
    DEF Init, SnapshotStakes, SnapshotInv, DueInv, NoOrphanStake, Nothing, NoLocks
  <1>2. QED
    BY <1>1, StepKeepsStakes, ProposalsIndInv, ProposalsTallied, ProposalsRest, PTL DEF Spec

(* No account stays locked for a proposal that was decided, cancelled,     *)
(* vetoed or rejected with its council, whatever proposals veto each other. *)
THEOREM ProposalsStakesFreed == Spec => []NoOrphanStake
  <1>1. SnapshotStakes => NoOrphanStake
    BY DEF SnapshotStakes
  <1>2. QED
    BY <1>1, ProposalsSnapshot, PTL

(* After on_initialize, no proposal is past its voting period or due for   *)
(* execution: the hook misses none, in any order of its iteration.         *)
THEOREM ProposalsDecided == Spec => []DecidedInTime
  <1>1. IndInv /\ SnapshotStakes => DecidedInTime
    <2> SUFFICES ASSUME IndInv, SnapshotStakes, ~ Processing
                 PROVE  /\ \A p \in WithStatus("Active") :
                              now < proposals[p].activated_at
                                      + proposals[p].parameters.voting_period
                        /\ \A p \in WithStatus("PendingExecution") :
                              \/ now < proposals[p].status.since
                                         + proposals[p].parameters.grace_period
                              \/ /\ proposals[p].exact_execution_block # None
                                 /\ now < proposals[p].exact_execution_block
      BY DEF DecidedInTime
    <2>1. \A p \in Existing : Timely(proposals[p], now) /\ proposals[p] \in Proposal
      BY DEF SnapshotStakes, DueInv, Processing, Nothing, Existing, IndInv, Tables, GoodProposal
    <2>2. ASSUME NEW p \in WithStatus("Active")
          PROVE  now < proposals[p].activated_at + proposals[p].parameters.voting_period
      <3>1. /\ Timely(proposals[p], now) /\ proposals[p].status.tag = "Active"
            /\ proposals[p].activated_at \in Nat
            /\ proposals[p].parameters.voting_period \in Nat
        BY <2>1 DEF WithStatus, Proposal, Parameters
      <3>2. QED
        BY <3>1 DEF Timely, IsVotingPeriodExpired, IndInv
    <2>3. ASSUME NEW p \in WithStatus("PendingExecution")
          PROVE  \/ now < proposals[p].status.since + proposals[p].parameters.grace_period
                 \/ /\ proposals[p].exact_execution_block # None
                    /\ now < proposals[p].exact_execution_block
      <3>1. /\ ~ IsReadyForExecution(proposals[p], now)
            /\ proposals[p].status.tag = "PendingExecution"
            /\ proposals[p].parameters.grace_period \in Nat
            /\ proposals[p].exact_execution_block \in Nat \cup {None}
            /\ proposals[p].status \in ProposalStatus
        BY <2>1 DEF WithStatus, Proposal, Parameters, Timely
      <3>2. proposals[p].status.since \in Nat
        BY <3>1 DEF ProposalStatus, Active, PendingConstitutionality
      <3>3. QED
        BY <3>1, <3>2 DEF IsReadyForExecution, IndInv
    <2>4. QED
      BY <2>2, <2>3
  <1>2. QED
    BY <1>1, ProposalsIndInv, ProposalsSnapshot, PTL

(* An account loses tokens only with a proposal it backs that goes out of  *)
(* the vote, and at most its stake: not even a proposal that was vetoed    *)
(* and is processed nevertheless takes anything.                           *)
THEOREM ProposalsLosses == Spec => LossesAreStakes
  <1> DEFINE Fair(a) == freeBalance'[a] # freeBalance[a] =>
                /\ \E p \in WithStatus("Active") :
                      proposals[p].staking_account_id = a /\ proposals'[p] = None
                /\ freeBalance'[a] < freeBalance[a]
                /\ freeBalance[a] - freeBalance'[a] <= locks["proposals"][a]
  <1>1. IndInv /\ RestTyped /\ SnapshotStakes /\ [Next]_vars => \A a \in Accounts : Fair(a)
    <2> SUFFICES ASSUME IndInv, RestTyped, SnapshotStakes, [Next]_vars, NEW a \in Accounts,
                        freeBalance'[a] # freeBalance[a]
                 PROVE  /\ \E p \in WithStatus("Active") :
                              proposals[p].staking_account_id = a /\ proposals'[p] = None
                        /\ freeBalance'[a] < freeBalance[a]
                        /\ freeBalance[a] - freeBalance'[a] <= Stake(a)
      BY DEF Stake
    <2>0. /\ proposals \in [Ids -> Proposal \cup {None}]
          /\ RejectionFee \in Nat
      BY ProposalsAssumption DEF IndInv, Tables, GoodProposal
    <2>1. ASSUME NEW accounts, SlashAndUnstake(accounts, 0) PROVE FALSE
      BY <2>1, SlashEffects
    <2>2. ASSUME NEW S, NEW fee \in Nat, SlashAndUnstake(AccountsOf({proposals[p] : p \in S}), fee),
                 S \subseteq WithStatus("Active"), \A p \in S : proposals'[p] = None
          PROVE  /\ \E p \in WithStatus("Active") :
                       proposals[p].staking_account_id = a /\ proposals'[p] = None
                 /\ freeBalance'[a] < freeBalance[a]
                 /\ freeBalance[a] - freeBalance'[a] <= Stake(a)
      <3>1. /\ a \in AccountsOf({proposals[p] : p \in S})
            /\ freeBalance'[a] < freeBalance[a]
            /\ freeBalance[a] - freeBalance'[a] <= Stake(a)
        <4> DEFINE accounts == AccountsOf({proposals[p] : p \in S})
        <4>1. SlashAndUnstake(accounts, fee)
          BY <2>2
        <4> HIDE DEF accounts
        <4>2. a \in accounts /\ freeBalance'[a] < freeBalance[a]
              /\ freeBalance[a] - freeBalance'[a] <= Stake(a)
          BY <4>1, SlashEffects
        <4>3. QED
          BY <4>2 DEF accounts
      <3>2. PICK p \in S : proposals[p].staking_account_id = a
        BY <3>1 DEF AccountsOf
      <3>3. QED
        BY <2>2, <3>1, <3>2
    <2>3. CASE UNCHANGED vars \/ QuietBlock \/ Horizon
      BY <2>3 DEF vars, QuietBlock, Horizon, stakeVars
    <2>4. CASE RuntimeUpgrade
      BY <2>1, <2>4 DEF RuntimeUpgrade
    <2>5. ASSUME NEW c \in CouncilChoices, NewCouncilElected(c)
          PROVE  /\ \E p \in WithStatus("Active") :
                       proposals[p].staking_account_id = a /\ proposals'[p] = None
                 /\ freeBalance'[a] < freeBalance[a]
                 /\ freeBalance[a] - freeBalance'[a] <= Stake(a)
      <3>1. SlashAndUnstake(AccountsOf({proposals[p] : p \in WithStatus("Active")}),
                            RejectionFee)
        BY <2>5 DEF NewCouncilElected
      <3>2. \A p \in WithStatus("Active") : p \in Ids
        BY DEF WithStatus, Existing
      <3>3. WithStatus("Active") \cap WithStatus("PendingConstitutionality") = {}
        BY DEF WithStatus
      <3>4. \A p \in WithStatus("Active") : proposals'[p] = None
        BY <2>5, <3>2, <3>3 DEF NewCouncilElected, Reactivate
      <3>5. QED
        BY <2>0, <2>2, <3>1, <3>4
    <2>6. ASSUME NEW p \in Ids, ProcessProposal(p)
          PROVE  /\ \E q \in WithStatus("Active") :
                       proposals[q].staking_account_id = a /\ proposals'[q] = None
                 /\ freeBalance'[a] < freeBalance[a]
                 /\ freeBalance[a] - freeBalance'[a] <= Stake(a)
      <3>1. CASE Left(p)
        BY <3>1 DEF Left, stakeVars
      <3>2. ASSUME NEW d, Kept(p, d) PROVE FALSE
        BY <2>1, <3>2 DEF Kept, stakeVars
      <3>3. ASSUME NEW accounts, Executed(p, accounts) PROVE FALSE
        BY <2>1, <3>3 DEF Executed, ExecuteProposal
      <3>4. ASSUME todo[p].status.tag = "Active", NEW fee \in Nat, Closed(p, fee)
            PROVE  /\ \E q \in WithStatus("Active") :
                         proposals[q].staking_account_id = a /\ proposals'[q] = None
                   /\ freeBalance'[a] < freeBalance[a]
                   /\ freeBalance[a] - freeBalance'[a] <= Stake(a)
        <4>1. SlashAndUnstake(AccountsOf({todo[p]}), fee) /\ proposals'[p] = None
          BY <3>4 DEF Closed, RemoveProposalData
        <4>2. /\ a \in AccountsOf({todo[p]}) /\ Stake(a) # 0
              /\ freeBalance'[a] < freeBalance[a]
              /\ freeBalance[a] - freeBalance'[a] <= Stake(a)
          BY <4>1, SlashEffects
        <4>3. todo[p].staking_account_id = a /\ todo[p] # None
          BY <2>6, <4>2 DEF AccountsOf, ProcessProposal
        <4>4. proposals[p] = todo[p]
          BY <4>2, <4>3 DEF SnapshotStakes, SnapshotInv
        <4>5. p \in WithStatus("Active")
          BY <3>4, <4>3, <4>4 DEF WithStatus, Existing
        <4>6. QED
          BY <4>1, <4>2, <4>3, <4>4, <4>5
      <3>5. QED
        BY <2>6, <3>1, <3>2, <3>3, <3>4, ProcessOutcomes
    <2>7. CASE Extrinsic
      <3>1. ASSUME NEW p \in Ids, CancelProposal(p)
            PROVE  /\ \E q \in WithStatus("Active") :
                         proposals[q].staking_account_id = a /\ proposals'[q] = None
                   /\ freeBalance'[a] < freeBalance[a]
                   /\ freeBalance[a] - freeBalance'[a] <= Stake(a)
        <4>1. /\ p \in WithStatus("Active") /\ proposals[p] \in Proposal
              /\ SlashAndUnstake(AccountsOf({proposals[p]}),
                                 SlashBalance("Canceled", proposals[p]))
              /\ proposals'[p] = None
          BY <2>0, <3>1 DEF CancelProposal, RemoveProposalData, WithStatus, Existing
        <4>2. SlashBalance("Canceled", proposals[p]) \in Nat
          BY <4>1, FeeTypes
        <4>3. /\ a \in AccountsOf({proposals[p]}) /\ Stake(a) # 0
              /\ freeBalance'[a] < freeBalance[a]
              /\ freeBalance[a] - freeBalance'[a] <= Stake(a)
          BY <4>1, <4>2, SlashEffects
        <4>4. proposals[p].staking_account_id = a
          BY <4>3 DEF AccountsOf
        <4>5. QED
          BY <4>1, <4>3, <4>4
      <3>2. ASSUME NEW p \in Ids, VetoProposal(p) PROVE FALSE
        <4>1. SlashBalance("Vetoed", proposals[p]) = 0
          BY DEF SlashBalance
        <4>2. QED
          BY <2>1, <3>2, <4>1 DEF VetoProposal
      <3>3. QED
        BY <2>7, <3>1, <3>2 DEF Extrinsic, CreateProposal, Vote, stakeVars
    <2>8. QED
      BY <2>3, <2>4, <2>5, <2>6, <2>7 DEF Next
  <1>2. IndInv /\ RestTyped /\ SnapshotStakes /\ [Next]_vars
           => [\A a \in Accounts : Fair(a)]_vars
    BY <1>1
  <1>3. QED
    BY <1>2, ProposalsIndInv, ProposalsRest, ProposalsSnapshot, PTL DEF Spec, LossesAreStakes

-----------------------------------------------------------------------------
(* The counter of active proposals.                                        *)

(* Storage holds finitely many proposals. *)
LEMMA ExistingFinite ==
    ASSUME NEW S \in SUBSET Ids
    PROVE  IsFiniteSet(S) /\ Cardinality(S) \in Nat
  <1>1. IsFiniteSet(Ids)
    BY ProposalsAssumption, FS_Interval DEF Ids
  <1>2. IsFiniteSet(S)
    BY <1>1, FS_Subset
  <1>3. QED
    BY <1>2, FS_CardinalityType

(* Without calls that veto, the rest of the snapshot is in storage. *)
ExactInv ==
    /\ \A p \in Ids : todo[p] # None => todo[p] = proposals[p]
    /\ ActiveCountExact

(* As many are counted off as are removed. *)
LEMMA RemovalCounted ==
    ASSUME ActiveCountExact, NEW S, S \subseteq Existing,
           Existing' = Existing \ S,
           activeProposalCount' = IF activeProposalCount > Cardinality(S)
                                  THEN activeProposalCount - Cardinality(S) ELSE 0
    PROVE  ActiveCountExact'
  <1>1. Existing \in SUBSET Ids /\ S \in SUBSET Ids /\ Existing \ S \in SUBSET Ids
    BY DEF Existing
  <1>2. /\ IsFiniteSet(Existing) /\ IsFiniteSet(S) /\ IsFiniteSet(Existing \ S)
        /\ Cardinality(Existing) \in Nat /\ Cardinality(S) \in Nat
        /\ Cardinality(Existing \ S) \in Nat
    BY <1>1, ExistingFinite
  <1>3. Cardinality(Existing \ S) = Cardinality(Existing) - Cardinality(S)
    <2>1. Existing \cap S = S
      OBVIOUS
    <2>2. Cardinality(Existing \ S) = Cardinality(Existing) - Cardinality(Existing \cap S)
      BY <1>2, FS_Difference
    <2>3. QED
      BY <2>1, <2>2
  <1>4. QED
    BY <1>2, <1>3 DEF ActiveCountExact

(* A vetoing call would name a proposal; the others name none. *)
LEMMA NoVeto ==
    ASSUME Calls \subseteq {0}, RestTyped, NEW p \in Ids
    PROVE  Vetoed(p) = {}
  <1>1. callCode[p] \in {0, None}
    BY DEF RestTyped
  <1>2. 0 \notin Ids /\ None \notin Ids
    BY ProposalsAssumption DEF Ids
  <1>3. QED
    BY <1>1, <1>2 DEF Vetoed, Existing

(* Every step counts right, as long as proposals do not veto each other. *)
LEMMA StepKeepsCount ==
    ASSUME Calls \subseteq {0}
    PROVE  IndInv /\ TallyInv /\ RestTyped /\ ExactInv /\ [Next]_vars => ExactInv'
  <1> SUFFICES ASSUME IndInv, TallyInv, RestTyped, ExactInv, [Next]_vars PROVE ExactInv'
    OBVIOUS
  <1>0. /\ proposals \in [Ids -> Proposal \cup {None}] /\ todo \in [Ids -> Proposal \cup {None}]
        /\ ActiveCountExact /\ IsFiniteSet(Existing) /\ Cardinality(Existing) \in Nat
    BY ExistingFinite DEF IndInv, Tables, GoodProposal, ExactInv, Existing
  <1>1. ASSUME UNCHANGED <<proposals, activeProposalCount>>,
               \A p \in Ids : todo'[p] # None => todo'[p] = proposals[p]
        PROVE  ExactInv'
    BY <1>1 DEF ExactInv, ActiveCountExact, Existing
  <1>2. CASE UNCHANGED vars \/ Horizon \/ QuietBlock
    BY <1>1, <1>2 DEF vars, storageVars, Horizon, QuietBlock, ExactInv
  <1>3. CASE RuntimeUpgrade
    <2>1. /\ RemoveProposalData(Existing, Cardinality(Existing))
          /\ todo' = todo /\ todo = Nothing
      BY <1>3 DEF RuntimeUpgrade, NewBlock, Processing
    <2>2. Existing' = Existing \ Existing
      BY <2>1 DEF RemoveProposalData, Existing
    <2>3. ActiveCountExact'
      BY <1>0, <2>1, <2>2, RemovalCounted DEF RemoveProposalData
    <2>4. QED
      BY <2>1, <2>3 DEF ExactInv, Nothing
  <1>4. ASSUME NEW c \in CouncilChoices, NewCouncilElected(c) PROVE ExactInv'
    <2> DEFINE rejected == WithStatus("Active")
    <2>1. activeProposalCount' = IF activeProposalCount > Cardinality(rejected)
                                 THEN activeProposalCount - Cardinality(rejected) ELSE 0
      BY <1>4 DEF NewCouncilElected
    <2>2. rejected \subseteq Existing
      BY DEF WithStatus
    <2>3. \A p \in Ids : proposals'[p] # None <=> p \in Existing \ rejected
      <3> TAKE p \in Ids
      <3>1. CASE p \in rejected
        BY <1>4, <3>1 DEF NewCouncilElected, Reactivate, WithStatus
      <3>2. CASE p \in WithStatus("PendingConstitutionality")
        <4>1. p \notin rejected /\ proposals[p] \in GoodProposal /\ now \in Nat
              /\ proposals[p].status.tag = "PendingConstitutionality"
          BY <3>2 DEF WithStatus, Existing, IndInv, Tables
        <4> DEFINE new == [proposals[p] EXCEPT !.activated_at = now + 1, !.status = Active,
                                               !.voting_results = NoVotes]
        <4>2. new \in GoodProposal
          BY <4>1, ReactivatedIsGood
        <4>3. proposals'[p] = new
          BY <1>4, <3>2, <4>1 DEF NewCouncilElected, Reactivate
        <4> HIDE DEF new
        <4>4. QED
          BY <3>2, <4>1, <4>2, <4>3, NoneIsNoProposal DEF GoodProposal, WithStatus
      <3>3. CASE p \notin rejected \cup WithStatus("PendingConstitutionality")
        <4>1. proposals'[p] = proposals[p]
          BY <1>4, <3>3 DEF NewCouncilElected, Reactivate
        <4>2. QED
          BY <3>3, <4>1 DEF Existing
      <3>4. QED
        BY <3>1, <3>2, <3>3
    <2>4. Existing' = Existing \ rejected
      BY <2>3 DEF Existing
    <2> HIDE DEF rejected
    <2>5. ActiveCountExact'
      BY <1>0, <2>1, <2>2, <2>4, RemovalCounted
    <2>6. todo' = proposals'
      BY <1>4 DEF NewCouncilElected
    <2>7. QED
      BY <2>5, <2>6 DEF ExactInv
  <1>5. ASSUME NEW p \in Ids, proposals[p] # None, RemoveProposalData({p}, 1),
               \A q \in Ids : todo'[q] # None => todo'[q] = todo[q] /\ q # p
        PROVE  ExactInv'
    <2>1. \A q \in Ids : proposals'[q] = IF q = p THEN None ELSE proposals[q]
      BY <1>5 DEF RemoveProposalData
    <2>2. {p} \subseteq Existing /\ Existing' = Existing \ {p}
      BY <1>5, <2>1 DEF Existing
    <2>3. Cardinality({p}) = 1
      BY FS_Singleton
    <2>4. ActiveCountExact'
      BY <1>0, <1>5, <2>2, <2>3, RemovalCounted DEF RemoveProposalData
    <2>5. QED
      BY <1>5, <2>1, <2>4 DEF ExactInv
  <1>6. ASSUME NEW p \in Ids, ProcessProposal(p) PROVE ExactInv'
    <2>1. /\ todo[p] # None /\ proposals[p] = todo[p] /\ todo[p] \in Proposal
          /\ \A q \in Ids : todo'[q] = IF q = p THEN None ELSE todo[q]
      BY <1>0, <1>6 DEF ProcessProposal, ExactInv
    <2>2. CASE Left(p)
      BY <1>1, <2>1, <2>2 DEF Left, storageVars, ExactInv
    <2>3. ASSUME NEW d \in {"PendingExecution", "PendingConstitutionality"}, Kept(p, d)
          PROVE  ExactInv'
      <3>1. Confirmed(todo[p], d) # None
        <4>1. now \in Nat
          BY DEF IndInv
        <4>2. QED
          BY <2>1, <4>1, ConfirmedKeeps, NoneIsNoProposal
      <3>2. \A q \in Ids : proposals'[q] = IF q = p THEN Confirmed(todo[p], d) ELSE proposals[q]
        BY <1>0, <2>3 DEF Kept
      <3>3. Existing' = Existing
        BY <2>1, <3>1, <3>2 DEF Existing
      <3>4. QED
        BY <2>1, <2>3, <3>2, <3>3 DEF Kept, ExactInv, ActiveCountExact
    <2>4. ASSUME NEW fee, Closed(p, fee) PROVE ExactInv'
      BY <1>5, <2>1, <2>4 DEF Closed
    <2>5. ASSUME NEW accounts, Executed(p, accounts) PROVE ExactInv'
      <3>1. Vetoed(p) = {} /\ Cardinality({}) = 0
        BY NoVeto, FS_EmptySet
      <3>2. {p} \cup {} = {p} /\ 1 + 0 = 1
        OBVIOUS
      <3>3. RemoveProposalData({p}, 1)
        BY <2>5, <3>1, <3>2 DEF Executed, ExecuteProposal
      <3>4. QED
        BY <1>5, <2>1, <3>3
    <2>6. QED
      BY <1>6, <2>2, <2>3, <2>4, <2>5, ProcessOutcomes
  <1>7. CASE Extrinsic
    <2>0. todo' = todo /\ todo = Nothing
      BY <1>7 DEF Extrinsic, Processing
    <2>1. ASSUME NEW m \in Members, NEW par \in ProposalParameters,
                 NEW a \in Accounts \cup {None}, NEW block \in ExecutionBlocks,
                 NEW call \in Calls, CreateProposal(m, par, a, block, call)
          PROVE  ExactInv'
      <3> DEFINE n == proposalCount + 1
      <3>1. n \in Ids /\ proposals[n] = None
        BY <2>1, ProposalsAssumption DEF CreateProposal, IndInv, Ids, TallyInv, IdsFresh
      <3>2. /\ \A q \in Ids : q # n => proposals'[q] = proposals[q]
            /\ activeProposalCount' = activeProposalCount + 1
        BY <1>0, <2>1 DEF CreateProposal
      <3>3. proposals'[n] # None
        <4>1. proposals' \in Tables
          BY ExtrinsicKeepsIndInv, <1>7 DEF IndInv
        <4>2. proposals'[n] = [parameters |-> par, proposer_id |-> m, activated_at |-> now,
                               status |-> Active, voting_results |-> NoVotes,
                               exact_execution_block |-> block,
                               nr_of_council_confirmations |-> 0, staking_account_id |-> a]
          BY <1>0, <2>1, <3>1 DEF CreateProposal
        <4>3. par \in Parameters /\ now \in Nat
          BY ProposalsAssumption DEF IndInv
        <4>4. proposals'[n] \in Proposal
          BY <4>2, <4>3, ProposalsAssumption
          DEF Proposal, NoVotes, VotingResults, Active, ProposalStatus
        <4>5. QED
          BY <4>4, NoneIsNoProposal
      <3> HIDE DEF n
      <3>4. Existing' = Existing \cup {n} /\ n \notin Existing
        BY <3>1, <3>2, <3>3 DEF Existing
      <3>5. Cardinality(Existing \cup {n}) = Cardinality(Existing) + 1
        BY <1>0, <3>4, FS_AddElement
      <3>6. QED
        BY <1>0, <2>0, <3>2, <3>4, <3>5 DEF ExactInv, ActiveCountExact, Nothing
    <2>2. ASSUME NEW m \in Members, NEW p \in Ids, NEW kind \in VoteKind, Vote(m, p, kind)
          PROVE  ExactInv'
      <3>1. /\ proposals[p] # None /\ activeProposalCount' = activeProposalCount
            /\ \A q \in Ids : q # p => proposals'[q] = proposals[q]
            /\ proposals'[p] = [proposals[p] EXCEPT !.voting_results[kind] = @ + 1]
            /\ proposals[p] \in GoodProposal
        BY <1>0, <2>2 DEF Vote, WithStatus, Existing, IndInv, Tables
      <3>2. proposals'[p] \in GoodProposal
        BY <3>1, VotedIsGood
      <3>3. Existing' = Existing
        BY <3>1, <3>2, NoneIsNoProposal DEF Existing, GoodProposal
      <3>4. QED
        BY <2>0, <3>1, <3>3 DEF ExactInv, ActiveCountExact, Nothing
    <2>3. ASSUME NEW p \in Ids, CancelProposal(p) \/ VetoProposal(p)
          PROVE  ExactInv'
      <3>1. proposals[p] # None /\ RemoveProposalData({p}, 1)
        BY <2>3 DEF CancelProposal, VetoProposal, WithStatus, Existing
      <3>2. QED
        BY <1>5, <2>0, <3>1 DEF Nothing
    <2>4. QED
      BY <1>7, <2>1, <2>2, <2>3 DEF Extrinsic
  <1>8. QED
    BY <1>2, <1>3, <1>4, <1>6, <1>7 DEF Next

(* As long as no proposal executes a veto of another one, the counter that *)
(* limits new proposals is the number of proposals in storage, through     *)
(* every removal by decision, cancellation, root's veto, a new council or  *)
(* a runtime upgrade.  (With such a veto it is not: see LimitRespected.)   *)
THEOREM ProposalsCounted ==
    ASSUME Calls \subseteq {0}
    PROVE  Spec => []ActiveCountExact
  <1>1. Init => ExactInv
    <2>1. Init => Existing = {}
      BY DEF Init, Existing, Nothing
    <2>2. QED
      BY <2>1, FS_EmptySet DEF Init, ExactInv, ActiveCountExact, Nothing
  <1>2. IndInv /\ TallyInv /\ RestTyped /\ ExactInv /\ [Next]_vars => ExactInv'
    BY StepKeepsCount
  <1>3. ExactInv => ActiveCountExact
    BY DEF ExactInv
  <1>4. QED
    BY <1>1, <1>2, <1>3, ProposalsIndInv, ProposalsTallied, ProposalsRest, PTL DEF Spec
=============================================================================
