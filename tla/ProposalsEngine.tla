--------------------------- MODULE ProposalsEngine ---------------------------
(***************************************************************************)
(* The life of a proposal (runtime-modules/proposals/engine): creation     *)
(* against a stake, votes of the sitting council, the decision taken in    *)
(* on_initialize, the grace period and the execution as root.              *)
(*                                                                         *)
(* on_initialize takes a snapshot of all proposals and works through it in *)
(* the order of the storage map, which hashes the keys: todo is what is    *)
(* left of the snapshot, and any of its proposals may come next.  No       *)
(* extrinsic runs before it is done.  What a proposal executes is a call   *)
(* without effect on this pallet (0) or veto_proposal of the proposal with *)
(* the given id.                                                           *)
(***************************************************************************)
EXTENDS StakingHandler, FiniteSets, FiniteSetsExt

CONSTANTS
    Members,                  \* proposers and councilors
    None,                     \* an absent record
    Owner,                    \* the member a staking account belongs to
    CouncilChoices,           \* the councils that can be elected
    ProposalParameters,       \* the parameter records proposals come with
    ExecutionBlocks,          \* inputs for exact_execution_block, None included
    Calls,                    \* what proposals execute: 0, or the id to veto
    Interventions,            \* root's interventions: "veto", "upgrade"
    RejectionFee,
    CancellationFee,
    MaxActiveProposalLimit,
    MaxProposals,             \* bound on the proposals ever created
    MaxBlock                  \* bound on the block number

Ids == 1 .. MaxProposals

VoteKind == {"Approve", "Reject", "Slash", "Abstain"}

ProposalDecision ==
    {"PendingExecution", "PendingConstitutionality", "Slashed", "Rejected", "Expired",
     "Canceled", "CanceledByRuntime", "Vetoed"}

Parameters ==
    [voting_period : Nat \ {0}, grace_period : Nat,
     approval_quorum_percentage : 1 .. 100,
     approval_threshold_percentage : 1 .. 100,
     slashing_quorum_percentage : 1 .. 100,
     slashing_threshold_percentage : 1 .. 100,
     required_stake : Nat \cup {None}, constitutionality : Nat \ {0}]

ASSUME ProposalsAssumption ==
    /\ "proposals" \in LockIds \ NonRivalrousLocks
    /\ IsFiniteSet(Members)
    /\ None \notin Members \cup Accounts \cup Nat \cup VoteKind \cup ProposalDecision
    /\ Owner \in [Accounts -> Members \cup {None}]
    /\ CouncilChoices \subseteq SUBSET Members
    /\ {} \notin CouncilChoices
    /\ ProposalParameters \subseteq Parameters
    /\ ExecutionBlocks \subseteq Nat \cup {None}
    /\ Calls \subseteq Ids \cup {0}
    /\ Interventions \subseteq {"veto", "upgrade"}
    /\ RejectionFee \in Nat
    /\ CancellationFee \in Nat
    /\ MaxActiveProposalLimit \in Nat
    /\ MaxProposals \in Nat
    /\ MaxBlock \in Nat

VARIABLES
    now,                  \* block number
    council,              \* members of the sitting council
    locks,                \* locks of pallet_balances
    freeBalance,          \* free balances of pallet_balances
    proposals,            \* Proposals: the proposal with an id, or None
    callCode,             \* DispatchableCallCode, or None
    proposalCount,        \* ProposalCount, the last id given out
    activeProposalCount,  \* ActiveProposalCount
    voteExists,           \* VoteExistsByProposalByVoter: a vote, or None
    todo                  \* rest of the snapshot of process_proposals

storageVars == <<proposals, callCode, proposalCount, activeProposalCount, voteExists>>
stakeVars == <<locks, freeBalance>>
vars == <<now, council, stakeVars, storageVars, todo>>

VotingResults == [VoteKind -> Nat]

NoVotes == [k \in VoteKind |-> 0]

Active == [tag |-> "Active"]
PendingExecution(n) == [tag |-> "PendingExecution", since |-> n]
PendingConstitutionality == [tag |-> "PendingConstitutionality"]

ProposalStatus ==
    {Active, PendingConstitutionality} \cup [tag : {"PendingExecution"}, since : Nat]

Proposal ==
    [parameters : Parameters, proposer_id : Members, activated_at : Nat,
     status : ProposalStatus, voting_results : VotingResults,
     exact_execution_block : Nat \cup {None}, nr_of_council_confirmations : Nat,
     staking_account_id : Accounts \cup {None}]

ASSUME NoneIsNoProposal == None \notin Proposal

Existing == {p \in Ids : proposals[p] # None}

WithStatus(tag) == {p \in Existing : proposals[p].status.tag = tag}

Nothing == [p \in Ids |-> None]

NobodyVoted == [p \in Ids |-> [m \in Members |-> None]]

Init ==
    /\ now = 0
    /\ council \in CouncilChoices \cup {{}}
    /\ locks = NoLocks
    /\ freeBalance = FreeBalance
    /\ proposals = Nothing
    /\ callCode = Nothing
    /\ proposalCount = 0
    /\ activeProposalCount = 0
    /\ voteExists = NobodyVoted
    /\ todo = Nothing

-----------------------------------------------------------------------------
(* The decision on a proposal.                                             *)

VotesNumber(r) == r["Approve"] + r["Reject"] + r["Slash"] + r["Abstain"]

(* Perbill::from_rational(part, whole) >= Perbill::from_percent(percent):  *)
(* the rational is rounded down to a multiple of 10^-9, of which a percent *)
(* is one, so that the comparison is exact.  A zero denominator is taken   *)
(* for one; it cannot decide, for no quorum is zero.                       *)
FractionReaches(part, whole, percent) ==
    LET w == IF whole = 0 THEN 1 ELSE whole
        x == IF part > w THEN w ELSE part
    IN  100 * x >= percent * w

QuorumReached(r, voters, percent) == FractionReaches(VotesNumber(r), voters, percent)

ThresholdReached(r, kind, percent) == FractionReaches(r[kind], VotesNumber(r), percent)

(* Faulty variant: only the votes cast so far are looked at. *)
AchievableByVotesCast(r, kind, voters, percent) ==
    FractionReaches(r[kind], VotesNumber(r), percent)

ThresholdAchievable(r, kind, voters, percent) ==
    LET remaining == IF voters > VotesNumber(r) THEN voters - VotesNumber(r) ELSE 0
    IN  FractionReaches(r[kind] + remaining, VotesNumber(r) + remaining, percent)

IsApproved(par, r, voters) ==
    /\ QuorumReached(r, voters, par.approval_quorum_percentage)
    /\ ThresholdReached(r, "Approve", par.approval_threshold_percentage)

IsSlashed(par, r, voters) ==
    /\ QuorumReached(r, voters, par.slashing_quorum_percentage)
    /\ ThresholdReached(r, "Slash", par.slashing_threshold_percentage)

IsRejectionImminent(par, r, voters) ==
    /\ ~ ThresholdAchievable(r, "Approve", voters, par.approval_threshold_percentage)
    /\ ~ ThresholdAchievable(r, "Slash", voters, par.slashing_threshold_percentage)

(* Faulty variant: the voting period lasts one block longer. *)
ExpiredLate(prop, n) == n > prop.activated_at + prop.parameters.voting_period

IsVotingPeriodExpired(prop, n) == n >= prop.activated_at + prop.parameters.voting_period

(* Faulty variant: the confirmation at hand is not counted. *)
ConstitutionalityWithoutThisOne(prop) ==
    prop.nr_of_council_confirmations >= prop.parameters.constitutionality

IsConstitutionalityReached(prop) ==
    prop.nr_of_council_confirmations + 1 >= prop.parameters.constitutionality

(* define_proposal_decision; None while the vote goes on. *)
Decision(prop, voters, n) ==
    LET par == prop.parameters
        r == prop.voting_results
    IN  CASE IsApproved(par, r, voters) ->
               IF IsConstitutionalityReached(prop) THEN "PendingExecution"
               ELSE "PendingConstitutionality"
          [] ~ IsApproved(par, r, voters) /\ IsSlashed(par, r, voters) -> "Slashed"
          [] OTHER ->
               IF IsRejectionImminent(par, r, voters) THEN "Rejected"
               ELSE IF IsVotingPeriodExpired(prop, n) THEN "Expired"
               ELSE IF VotesNumber(r) = voters THEN "Rejected"
               ELSE None

IsReadyForExecution(prop, n) ==
    /\ prop.status.tag = "PendingExecution"
    /\ n >= prop.status.since + prop.parameters.grace_period
    /\ prop.exact_execution_block # None => prop.exact_execution_block <= n

(* calculate_slash_balance *)
SlashBalance(decision, prop) ==
    CASE decision \in {"Rejected", "Expired"} -> RejectionFee
      [] decision = "Canceled" -> CancellationFee
      [] decision = "Slashed" ->
           IF prop.parameters.required_stake = None THEN 0
           ELSE prop.parameters.required_stake
      [] OTHER -> 0

-----------------------------------------------------------------------------
(* Finalization.                                                           *)

AccountsOf(props) == {prop.staking_account_id : prop \in props} \ {None}

(* Faulty variant: the fee is taken in full, whatever is staked and there. *)
UnstakeAfterUnlock(accounts, fee) ==
    /\ locks' = RemoveLocks(locks, "proposals", accounts)
    /\ freeBalance' = [a \in Accounts |->
          IF a \in accounts THEN freeBalance[a] - fee ELSE freeBalance[a]]

(* slash_and_unstake of the given staking accounts. *)
SlashAndUnstake(accounts, fee) ==
    /\ locks' = RemoveLocks(locks, "proposals", accounts)
    /\ freeBalance' = [a \in Accounts |->
          IF a \in accounts
          THEN BalanceAfterSlash(freeBalance[a], Slashable(locks, "proposals", a, fee))
          ELSE freeBalance[a]]

(* remove_proposal_data of the proposals S, called n times in all; the     *)
(* counter does not go below zero.                                         *)
RemoveProposalData(S, n) ==
    /\ proposals' = [p \in Ids |-> IF p \in S THEN None ELSE proposals[p]]
    /\ callCode' = [p \in Ids |-> IF p \in S THEN None ELSE callCode[p]]
    /\ voteExists' = [p \in Ids |-> IF p \in S THEN [m \in Members |-> None]
                                    ELSE voteExists[p]]
    /\ activeProposalCount' = IF activeProposalCount > n THEN activeProposalCount - n
                              ELSE 0
    /\ UNCHANGED proposalCount

(* execute_proposal, after the stakes of accounts have been released: the  *)
(* call may veto a proposal, which is then finalized first.  A call that   *)
(* cannot be decoded any more does nothing.                                *)
Vetoed(p) == {q \in Existing : callCode[p] = q}

ExecuteProposal(p, accounts) ==
    /\ SlashAndUnstake(accounts \cup AccountsOf({proposals[q] : q \in Vetoed(p)}), 0)
    /\ RemoveProposalData({p} \cup Vetoed(p), 1 + Cardinality(Vetoed(p)))

(* finalize_proposal: an approved proposal is confirmed once more and kept, *)
(* or executed at once; any other is removed.  The stake is released unless *)
(* further councils have to confirm.                                        *)
Confirmed(prop, decision) ==
    [prop EXCEPT !.nr_of_council_confirmations = @ + 1,
                 !.status = IF decision = "PendingExecution" THEN PendingExecution(now)
                            ELSE PendingConstitutionality]

FinalizeProposal(p, prop, decision) ==
    \/ /\ decision \notin {"PendingExecution", "PendingConstitutionality"}
       /\ SlashAndUnstake(AccountsOf({prop}), SlashBalance(decision, prop))
       /\ RemoveProposalData({p}, 1)
    \/ /\ decision = "PendingConstitutionality"
       /\ proposals' = [proposals EXCEPT ![p] = Confirmed(prop, decision)]
       /\ UNCHANGED <<stakeVars, callCode, proposalCount, activeProposalCount,
                      voteExists>>
    \/ /\ decision = "PendingExecution"
       /\ ~ IsReadyForExecution(Confirmed(prop, decision), now)
       /\ SlashAndUnstake(AccountsOf({prop}), 0)
       /\ proposals' = [proposals EXCEPT ![p] = Confirmed(prop, decision)]
       /\ UNCHANGED <<callCode, proposalCount, activeProposalCount, voteExists>>
    \/ /\ decision = "PendingExecution"
       /\ IsReadyForExecution(Confirmed(prop, decision), now)
       /\ ExecuteProposal(p, AccountsOf({prop}))

-----------------------------------------------------------------------------
(* A new block, up to the engine's on_initialize.                          *)

Processing == todo # Nothing

NewBlock ==
    /\ ~ Processing
    /\ now < MaxBlock
    /\ now' = now + 1

QuietBlock ==
    /\ NewBlock
    /\ todo' = proposals
    /\ UNCHANGED <<council, stakeVars, storageVars>>

(* reactivate_pending_constitutionality_proposals, after the removal of    *)
(* the rejected ones.                                                      *)
Reactivate(rejected, reactivated) ==
    /\ proposals' = [p \in Ids |->
          CASE p \in rejected -> None
            [] p \in reactivated ->
                 [proposals[p] EXCEPT !.activated_at = now + 1, !.status = Active,
                                      !.voting_results = NoVotes]
            [] OTHER -> proposals[p]]
    /\ voteExists' = [p \in Ids |-> IF p \in rejected \cup reactivated
                                    THEN [m \in Members |-> None] ELSE voteExists[p]]

(* Faulty variant: the proposals under vote outlive the council. *)
NewCouncilKeepsActive(c) ==
    /\ NewBlock
    /\ council' = c
    /\ Reactivate({}, WithStatus("PendingConstitutionality"))
    /\ todo' = proposals'
    /\ UNCHANGED <<stakeVars, callCode, activeProposalCount, proposalCount>>

(* new_council_elected, called by the council in the referendum's          *)
(* on_initialize, before the engine's: reject_active_proposals, then the   *)
(* reactivation.                                                           *)
NewCouncilElected(c) ==
    /\ NewBlock
    /\ council' = c
    /\ LET rejected == WithStatus("Active")
       IN  /\ SlashAndUnstake(AccountsOf({proposals[p] : p \in rejected}), RejectionFee)
           /\ Reactivate(rejected, WithStatus("PendingConstitutionality"))
           /\ callCode' = [p \in Ids |-> IF p \in rejected THEN None ELSE callCode[p]]
           /\ activeProposalCount' =
                IF activeProposalCount > Cardinality(rejected)
                THEN activeProposalCount - Cardinality(rejected) ELSE 0
    /\ todo' = proposals'
    /\ UNCHANGED proposalCount

(* Faulty variant: the counter is decremented once for all. *)
UpgradeCountsOnce ==
    /\ "upgrade" \in Interventions
    /\ NewBlock
    /\ SlashAndUnstake(AccountsOf({proposals[p] : p \in Existing}), 0)
    /\ RemoveProposalData(Existing, 1)
    /\ UNCHANGED <<council, todo>>

(* The first block of a new runtime: cancel_active_and_pending_proposals   *)
(* leaves on_initialize nothing to do.                                     *)
RuntimeUpgrade ==
    /\ "upgrade" \in Interventions
    /\ NewBlock
    /\ SlashAndUnstake(AccountsOf({proposals[p] : p \in Existing}), 0)
    /\ RemoveProposalData(Existing, Cardinality(Existing))
    /\ UNCHANGED <<council, todo>>

-----------------------------------------------------------------------------
(* process_proposals, one proposal of the snapshot.                        *)

ProcessActive(p, prop) ==
    /\ prop.status.tag = "Active"
    /\ LET decision == Decision(prop, Cardinality(council), now)
       IN  \/ /\ decision = None
              /\ UNCHANGED <<stakeVars, storageVars>>
           \/ /\ decision # None
              /\ FinalizeProposal(p, prop, decision)

ProcessPendingExecution(p, prop) ==
    /\ prop.status.tag = "PendingExecution"
    /\ \/ /\ IsReadyForExecution(prop, now)
          /\ ExecuteProposal(p, {})
       \/ /\ ~ IsReadyForExecution(prop, now)
          /\ UNCHANGED <<stakeVars, storageVars>>

ProcessPendingConstitutionality(prop) ==
    /\ prop.status.tag = "PendingConstitutionality"
    /\ UNCHANGED <<stakeVars, storageVars>>

ProcessProposal(p) ==
    /\ todo[p] # None
    /\ \/ ProcessActive(p, todo[p])
       \/ ProcessPendingExecution(p, todo[p])
       \/ ProcessPendingConstitutionality(todo[p])
    /\ todo' = [todo EXCEPT ![p] = None]
    /\ UNCHANGED <<now, council>>

-----------------------------------------------------------------------------
(* Extrinsics.                                                             *)

(* ensure_create_proposal_parameters_are_valid, and the check the codex    *)
(* makes of the proposal a veto names.                                     *)
CanCreateProposal(m, par, a, block, call) ==
    /\ call # 0 => call \in Existing
    /\ activeProposalCount < MaxActiveProposalLimit
    /\ a = None <=> par.required_stake = None
    /\ a # None =>
          /\ Owner[a] = m
          /\ IsAccountFreeOfConflictingStakes(locks, "proposals", a)
          /\ IsEnoughBalanceForStake(freeBalance, a, par.required_stake)
    /\ block # None => block # 0 /\ block >= now + par.grace_period + par.voting_period

CreateProposal(m, par, a, block, call) ==
    /\ proposalCount < MaxProposals
    /\ CanCreateProposal(m, par, a, block, call)
    /\ LET p == proposalCount + 1
       IN  /\ proposals' = [proposals EXCEPT ![p] =
                 [parameters |-> par, proposer_id |-> m, activated_at |-> now,
                  status |-> Active, voting_results |-> NoVotes,
                  exact_execution_block |-> block,
                  nr_of_council_confirmations |-> 0, staking_account_id |-> a]]
           /\ callCode' = [callCode EXCEPT ![p] = call]
           /\ proposalCount' = p
    /\ locks' = IF a = None THEN locks
                ELSE SetLock(locks, "proposals", a, par.required_stake)
    /\ activeProposalCount' = activeProposalCount + 1
    /\ UNCHANGED <<freeBalance, voteExists>>

Vote(m, p, kind) ==
    /\ m \in council
    /\ p \in WithStatus("Active")
    /\ voteExists[p][m] = None
    /\ proposals' = [proposals EXCEPT ![p].voting_results[kind] = @ + 1]
    /\ voteExists' = [voteExists EXCEPT ![p][m] = kind]
    /\ UNCHANGED <<stakeVars, callCode, proposalCount, activeProposalCount>>

(* By its proposer, while nobody has voted. *)
CancelProposal(p) ==
    /\ p \in WithStatus("Active")
    /\ VotesNumber(proposals[p].voting_results) = 0
    /\ SlashAndUnstake(AccountsOf({proposals[p]}), SlashBalance("Canceled", proposals[p]))
    /\ RemoveProposalData({p}, 1)

(* Faulty variant: the veto forgets the stake. *)
VetoKeepsStake(p) ==
    /\ "veto" \in Interventions
    /\ p \in Existing
    /\ RemoveProposalData({p}, 1)
    /\ UNCHANGED stakeVars

VetoProposal(p) ==
    /\ "veto" \in Interventions
    /\ p \in Existing
    /\ SlashAndUnstake(AccountsOf({proposals[p]}), SlashBalance("Vetoed", proposals[p]))
    /\ RemoveProposalData({p}, 1)

Extrinsic ==
    /\ ~ Processing
    /\ \/ \E m \in Members, par \in ProposalParameters, a \in Accounts \cup {None},
             block \in ExecutionBlocks, call \in Calls :
                CreateProposal(m, par, a, block, call)
       \/ \E m \in Members, p \in Ids, kind \in VoteKind : Vote(m, p, kind)
       \/ \E p \in Ids : CancelProposal(p)
       \/ \E p \in Ids : VetoProposal(p)
    /\ UNCHANGED <<now, council, todo>>

(* The last block of the bound: time stops, nothing is stuck. *)
Horizon == now = MaxBlock /\ ~ Processing /\ UNCHANGED vars

Next ==
    \/ QuietBlock
    \/ \E c \in CouncilChoices : NewCouncilElected(c)
    \/ RuntimeUpgrade
    \/ \E p \in Ids : ProcessProposal(p)
    \/ Extrinsic
    \/ Horizon

Spec == Init /\ [][Next]_vars

-----------------------------------------------------------------------------
(* Properties.                                                             *)

(* Every storage item of the engine, and its snapshot, is well typed, and   *)
(* the counter of proposals stays within its limit.                         *)
TypeOK ==
    /\ now \in Nat
    /\ council \in SUBSET Members
    /\ locks \in LockTables
    /\ freeBalance \in [Accounts -> Nat]
    /\ proposals \in [Ids -> Proposal \cup {None}]
    /\ callCode \in [Ids -> Calls \cup {None}]
    /\ proposalCount \in 0 .. MaxProposals
    /\ activeProposalCount \in 0 .. MaxActiveProposalLimit
    /\ voteExists \in [Ids -> [Members -> VoteKind \cup {None}]]
    /\ todo \in [Ids -> Proposal \cup {None}]

(* ActiveProposalCount is the number of proposals in storage, across all   *)
(* the ways a proposal is removed: the limit on new proposals relies on it. *)
ActiveCountExact == activeProposalCount = Cardinality(Existing)

(* The tally of a proposal under vote counts the votes on record, and only *)
(* the sitting council's: through confirmations by one council, rejection  *)
(* with it and reactivation for the next, a replaced council leaves no     *)
(* vote behind, so that all have voted when the number of votes equals the *)
(* number of councilors.                                                   *)
TallyMatchesVotes ==
    \A p \in WithStatus("Active") :
        /\ \A m \in Members : voteExists[p][m] # None => m \in council
        /\ \A k \in VoteKind :
              proposals[p].voting_results[k] =
                  Cardinality({m \in Members : voteExists[p][m] = k})

(* A proposal that is under vote, or waits for another council, is backed  *)
(* by its stake, and by nobody else's.                                     *)
OpenProposalsStaked ==
    LET open == WithStatus("Active") \cup WithStatus("PendingConstitutionality")
        account(p) == proposals[p].staking_account_id
    IN  /\ \A p \in open : account(p) # None =>
              locks["proposals"][account(p)] = proposals[p].parameters.required_stake
        /\ \A p, q \in open : account(p) # None /\ account(p) = account(q) => p = q

(* No account stays locked for a proposal that no longer needs a stake,    *)
(* whichever way the proposal went.                                        *)
NoOrphanStake ==
    \A a \in Accounts : locks["proposals"][a] # 0 =>
        \E p \in WithStatus("Active") \cup WithStatus("PendingConstitutionality") :
            /\ proposals[p].staking_account_id = a
            /\ proposals[p].parameters.required_stake = locks["proposals"][a]

(* Once on_initialize is done, no proposal is under vote past its voting   *)
(* period, and none that is due waits for execution: nothing escapes the   *)
(* snapshot, whatever is executed and vetoed while it is worked through.   *)
DecidedInTime ==
    ~ Processing /\ now > 0 =>
        /\ \A p \in WithStatus("Active") :
              now < proposals[p].activated_at + proposals[p].parameters.voting_period
        /\ \A p \in WithStatus("PendingExecution") :
              \/ now < proposals[p].status.since + proposals[p].parameters.grace_period
              \/ /\ proposals[p].exact_execution_block # None
                 /\ now < proposals[p].exact_execution_block

(* A proposal is executed only after the number of councils its parameters *)
(* ask for have confirmed it, and waits no longer than that.               *)
ConfirmationsCounted ==
    \A p \in Existing :
        LET n == proposals[p].nr_of_council_confirmations
            c == proposals[p].parameters.constitutionality
        IN  CASE proposals[p].status.tag = "Active" -> n < c
              [] proposals[p].status.tag = "PendingConstitutionality" -> 0 < n /\ n < c
              [] OTHER -> n = c

(* A proposal rejected before everybody has voted could not have been      *)
(* approved or slashed by any votes of the councilors who had not.         *)
EarlyRejectionFinal ==
    \A p \in WithStatus("Active") :
        LET par == proposals[p].parameters
            r == proposals[p].voting_results
            voters == Cardinality(council)
            later == {x \in [VoteKind -> 0 .. voters] :
                        /\ VotesNumber(x) <= voters
                        /\ \A k \in VoteKind : x[k] >= r[k]}
        IN  Decision(proposals[p], voters, proposals[p].activated_at) = "Rejected" =>
                \A x \in later : ~ IsApproved(par, x, voters) /\ ~ IsSlashed(par, x, voters)

(* An account loses tokens only when a proposal it backs is removed from   *)
(* the vote, and never more than the stake locked for it.                  *)
LossesAreStakes ==
    [][\A a \in Accounts : freeBalance'[a] # freeBalance[a] =>
          /\ \E p \in WithStatus("Active") :
                proposals[p].staking_account_id = a /\ proposals'[p] = None
          /\ freeBalance'[a] < freeBalance[a]
          /\ freeBalance[a] - freeBalance'[a] <= locks["proposals"][a]]_vars

(* The doc of MaxActiveProposalLimit: "max simultaneous active proposals   *)
(* number".                                                                *)
LimitRespected == Cardinality(WithStatus("Active")) <= MaxActiveProposalLimit
=============================================================================
