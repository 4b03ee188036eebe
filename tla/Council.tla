------------------------------ MODULE Council -------------------------------
(***************************************************************************)
(* The council and its elections (runtime-modules/council), composed with  *)
(* the referendum that elects it.                                          *)
(*                                                                         *)
(* In every block the council's on_initialize runs first, then the         *)
(* referendum's, then the extrinsics.  The two pallets call each other:    *)
(* the end of the announcing stage starts the referendum, and the end of   *)
(* the referendum's revealing stage elects the council.                    *)
(***************************************************************************)
EXTENDS CouncilBudget, FiniteSets, FiniteSetsExt

CONSTANTS
    CouncilSize,
    MinNumberOfExtraCandidates,
    AnnouncingPeriodDuration,
    IdlePeriodDuration,
    MinCandidateStake,
    Owner,             \* the member a confirmed staking account belongs to
    CandidateStakes,   \* stakes offered by candidates
    VoteStakes,        \* stakes offered by voters
    Voters,            \* accounts that vote
    Notes              \* contents of candidacy notes

ASSUME CouncilAssumption ==
    /\ {"candidacy", "councilor"} \subseteq LockIds
    /\ NonRivalrousLocks \cap {"candidacy", "councilor"} = {}
    /\ CouncilSize \in Nat \ {0}
    /\ MinNumberOfExtraCandidates \in Nat
    /\ AnnouncingPeriodDuration \in Nat \ {0}
    /\ IdlePeriodDuration \in Nat \ {0}
    /\ MinCandidateStake \in Nat \ {0}
    /\ Owner \in [Accounts -> Members \cup {None}]
    /\ CandidateStakes \subseteq Nat
    /\ VoteStakes \subseteq Nat
    /\ Voters \subseteq Accounts

VARIABLES
    stage,                 \* council Stage
    candidates,            \* Candidates: a member's candidacy, or None
    announcementPeriodNr,  \* AnnouncementPeriodNr, the id of the cycle
    hook                   \* the on_initialize still to run in this block

councilVars == <<stage, candidates, announcementPeriodNr>>
refVars == <<refStage, votes>>
vars == <<refStage, votes, locks, now, councilMembers, budgetVars,
          stage, candidates, announcementPeriodNr, hook>>

Candidate == [staking_account_id : Accounts, cycle_id : Nat, stake : Nat,
              vote_power : Nat, note_hash : Notes \cup {None}]

ASSUME NoneIsNoCandidate == None \notin Candidate /\ None \notin Notes

Announcing(count, end) ==
    [tag |-> "Announcing", candidates_count |-> count, ends_at |-> end]
Election(count) == [tag |-> "Election", candidates_count |-> count]
Idle(end) == [tag |-> "Idle", ends_at |-> end]

CouncilStages ==
    [tag : {"Announcing"}, candidates_count : Nat, ends_at : Nat]
      \cup [tag : {"Election"}, candidates_count : Nat]
      \cup [tag : {"Idle"}, ends_at : Nat]

Init ==
    /\ ReferendumInit
    /\ BudgetInit
    /\ stage = Idle(1)
    /\ candidates = [m \in Members |-> None]
    /\ announcementPeriodNr = 0
    /\ hook = "none"

-----------------------------------------------------------------------------
(* on_initialize of the council, in block n.                               *)

(* Mutations::start_announcing_period *)
StartAnnouncingPeriod(n) ==
    /\ stage' = Announcing(0, n + AnnouncingPeriodDuration)
    /\ announcementPeriodNr' = announcementPeriodNr + 1

EndIdlePeriod(n) ==
    /\ stage.tag = "Idle" /\ stage.ends_at = n
    /\ StartAnnouncingPeriod(n)
    /\ UNCHANGED refStage

EnoughCandidates ==
    stage.candidates_count >= CouncilSize + MinNumberOfExtraCandidates

(* Faulty variant: a new round without a new end block. *)
RestartAnnouncingKeepsEnd(n) ==
    /\ stage.tag = "Announcing" /\ stage.ends_at = n
    /\ ~ EnoughCandidates
    /\ stage' = [stage EXCEPT !.candidates_count = 0]
    /\ announcementPeriodNr' = announcementPeriodNr + 1
    /\ UNCHANGED refStage

(* end_announcement_period: another round, or the election *)
RestartAnnouncing(n) ==
    /\ stage.tag = "Announcing" /\ stage.ends_at = n
    /\ ~ EnoughCandidates
    /\ StartAnnouncingPeriod(n)
    /\ UNCHANGED refStage

(* Faulty variant: the referendum is started for the next cycle. *)
FinalizeForNextCycle(n) ==
    /\ stage.tag = "Announcing" /\ stage.ends_at = n
    /\ EnoughCandidates
    /\ refStage' = ForceStart(CouncilSize - 1, announcementPeriodNr + 1, n)
    /\ stage' = Election(stage.candidates_count)
    /\ UNCHANGED announcementPeriodNr

FinalizeAnnouncingPeriod(n) ==
    /\ stage.tag = "Announcing" /\ stage.ends_at = n
    /\ EnoughCandidates
    /\ refStage' = ForceStart(CouncilSize - 1, announcementPeriodNr, n)
    /\ stage' = Election(stage.candidates_count)
    /\ UNCHANGED announcementPeriodNr

NoCouncilProgress(n) ==
    /\ stage.tag \in {"Idle", "Announcing"} => stage.ends_at # n
    /\ UNCHANGED <<stage, announcementPeriodNr, refStage>>

TryProgressStage(n) ==
    \/ EndIdlePeriod(n)
    \/ RestartAnnouncing(n)
    \/ FinalizeAnnouncingPeriod(n)
    \/ NoCouncilProgress(n)

(* A new block: the council's on_initialize. *)
CouncilOnInitialize ==
    /\ hook = "none"
    /\ now < MaxBlock
    /\ now' = now + 1
    /\ hook' = "referendum"
    /\ TryProgressStage(now + 1)
    /\ TryProcessBudget(now + 1)
    /\ UNCHANGED <<votes, locks, candidates>>

-----------------------------------------------------------------------------
(* on_initialize of the referendum, and the election it concludes.         *)

Winners == refStage.intermediate_winners

(* filter_map over the winners: those whose candidacy is not found are     *)
(* passed over.                                                            *)
ElectedOptions ==
    LET found(w) == candidates[w.option_id] # None
    IN  IF \A i \in 1 .. Len(Winners) : found(Winners[i]) THEN Winners
        ELSE SelectSeq(Winners, found)

ElectedIds == {ElectedOptions[i].option_id : i \in 1 .. Len(ElectedOptions)}

ElectedMember(m) ==
    [staking_account_id |-> candidates[m].staking_account_id,
     membership_id |-> m, stake |-> candidates[m].stake,
     last_payment_block |-> now, unpaid_reward |-> 0]

ElectedMembers ==
    [i \in 1 .. Len(ElectedOptions) |-> ElectedMember(ElectedOptions[i].option_id)]

(* Faulty variant: the old council is not unlocked. *)
LocksKeepOldCouncil ==
    LET winnersStake == {candidates[m].staking_account_id : m \in ElectedIds}
        freed == RemoveLocks(locks, "candidacy", winnersStake)
        staked(a) == CHOOSE m \in ElectedIds : candidates[m].staking_account_id = a
    IN  [freed EXCEPT !["councilor"] =
            [a \in Accounts |-> IF a \in winnersStake
                                THEN candidates[staked(a)].stake ELSE @[a]]]

(* clear_candidate of the winners, unlock of the old council, lock of the  *)
(* new one.                                                                *)
LocksAfterElection ==
    LET winnersStake == {candidates[m].staking_account_id : m \in ElectedIds}
        oldCouncil == {councilMembers[i].staking_account_id :
                          i \in 1 .. Len(councilMembers)}
        freed == RemoveLocks(RemoveLocks(locks, "candidacy", winnersStake),
                             "councilor", oldCouncil)
        staked(a) == CHOOSE m \in ElectedIds : candidates[m].staking_account_id = a
    IN  [freed EXCEPT !["councilor"] =
            [a \in Accounts |-> IF a \in winnersStake /\ candidates[staked(a)].stake # 0
                                THEN candidates[staked(a)].stake ELSE @[a]]]

(* Faulty variant: any winner is enough. *)
ElectPartialCouncil ==
    /\ Len(Winners) > 0
    /\ candidates' = [m \in Members |-> IF m \in ElectedIds THEN None
                                        ELSE candidates[m]]
    /\ stage' = Idle(now + IdlePeriodDuration)
    /\ \E rem \in Remainders(budget) : PayElectedMemberRewards(budget, now, rem)
    /\ councilMembers' = ElectedMembers
    /\ locks' = LocksAfterElection
    /\ UNCHANGED <<announcementPeriodNr, nextBudgetRefill, budgetIncrement,
                   councilorReward>>

(* end_election_period with a full list of winners: elect_new_council pays *)
(* the old council a last time before it is replaced.                      *)
ElectNewCouncil ==
    /\ Len(Winners) = CouncilSize
    /\ candidates' = [m \in Members |-> IF m \in ElectedIds THEN None
                                        ELSE candidates[m]]
    /\ stage' = Idle(now + IdlePeriodDuration)
    /\ \E rem \in Remainders(budget) : PayElectedMemberRewards(budget, now, rem)
    /\ councilMembers' = ElectedMembers
    /\ locks' = LocksAfterElection
    /\ UNCHANGED <<announcementPeriodNr, nextBudgetRefill, budgetIncrement,
                   councilorReward>>

NewCouncilNotElected ==
    /\ Len(Winners) # CouncilSize
    /\ StartAnnouncingPeriod(now)
    /\ UNCHANGED <<candidates, councilMembers, locks, budgetVars>>

NoReferendumProgress ==
    /\ ~ StageEnds
    /\ UNCHANGED <<refStage, councilVars, councilMembers, locks, budgetVars>>

ReferendumOnInitialize ==
    /\ hook = "referendum"
    /\ hook' = "none"
    /\ \/ EndVotingPeriod /\ UNCHANGED <<councilVars, councilMembers, locks, budgetVars>>
       \/ ConcludeReferendum /\ ElectNewCouncil
       \/ ConcludeReferendum /\ NewCouncilNotElected
       \/ NoReferendumProgress
    /\ UNCHANGED <<votes, now>>

-----------------------------------------------------------------------------
(* Extrinsics of candidates.                                               *)

IsCurrentCandidate(m) ==
    candidates[m] # None /\ candidates[m].cycle_id = announcementPeriodNr

CanAnnounceCandidacy(m, a, stake) ==
    /\ Owner[a] = m
    /\ IsAccountFreeOfConflictingStakes(locks, "candidacy", a)
    /\ stage.tag = "Announcing"
    /\ ~ IsCurrentCandidate(m)
    /\ stake >= MinCandidateStake
    /\ IsEnoughBalanceForStake(FreeBalance, a, stake)

(* Faulty variant: the stake of an older candidacy is forgotten. *)
AnnounceKeepingOldStake(m, a, stake) ==
    /\ CanAnnounceCandidacy(m, a, stake)
    /\ locks' = SetLock(locks, "candidacy", a, stake)
    /\ candidates' = [candidates EXCEPT ![m] =
                         [staking_account_id |-> a, stake |-> stake,
                          cycle_id |-> announcementPeriodNr,
                          vote_power |-> 0, note_hash |-> None]]
    /\ stage' = [stage EXCEPT !.candidates_count = @ + 1]
    /\ UNCHANGED <<refVars, councilMembers, budgetVars, announcementPeriodNr>>

(* The stake of an older candidacy is released first. *)
AnnounceCandidacy(m, a, stake) ==
    /\ CanAnnounceCandidacy(m, a, stake)
    /\ LET released == IF candidates[m] = None THEN locks
                       ELSE RemoveLock(locks, "candidacy",
                                       candidates[m].staking_account_id)
       IN  locks' = SetLock(released, "candidacy", a, stake)
    /\ candidates' = [candidates EXCEPT ![m] =
                         [staking_account_id |-> a, stake |-> stake,
                          cycle_id |-> announcementPeriodNr,
                          vote_power |-> 0, note_hash |-> None]]
    /\ stage' = [stage EXCEPT !.candidates_count = @ + 1]
    /\ UNCHANGED <<refVars, councilMembers, budgetVars, announcementPeriodNr>>

(* Mutations::release_candidacy_stake *)
RemoveCandidacy(m) ==
    /\ locks' = RemoveLock(locks, "candidacy", candidates[m].staking_account_id)
    /\ candidates' = [candidates EXCEPT ![m] = None]

ReleaseCandidacyStake(m) ==
    /\ candidates[m] # None
    /\ IsCurrentCandidate(m) => stage.tag = "Idle"
    /\ RemoveCandidacy(m)
    /\ UNCHANGED <<refVars, councilMembers, budgetVars, stage, announcementPeriodNr>>

(* Faulty variant: the withdrawn candidate is still counted. *)
WithdrawStillCounted(m) ==
    /\ stage.tag = "Announcing"
    /\ IsCurrentCandidate(m)
    /\ RemoveCandidacy(m)
    /\ UNCHANGED <<refVars, councilMembers, budgetVars, stage, announcementPeriodNr>>

WithdrawCandidacy(m) ==
    /\ stage.tag = "Announcing"
    /\ IsCurrentCandidate(m)
    /\ RemoveCandidacy(m)
    /\ stage' = [stage EXCEPT !.candidates_count = IF @ = 0 THEN 0 ELSE @ - 1]
    /\ UNCHANGED <<refVars, councilMembers, budgetVars, announcementPeriodNr>>

SetCandidacyNote(m, note) ==
    /\ IsCurrentCandidate(m)
    /\ stage.tag # "Idle"
    /\ candidates' = [candidates EXCEPT ![m].note_hash = note]
    /\ UNCHANGED <<refVars, locks, councilMembers, budgetVars, stage,
                   announcementPeriodNr>>

-----------------------------------------------------------------------------
(* Extrinsics of voters: the referendum's, with the council's callbacks.   *)

Vote(a, commitment, stake) ==
    /\ ReferendumVote(a, commitment, stake)
    /\ UNCHANGED <<councilVars, councilMembers, budgetVars>>

(* get_option_power, increase_option_power *)
RevealVote(a, option) ==
    /\ ReferendumRevealVote(a, option, IsCurrentCandidate(option),
                            candidates[option].vote_power)
    /\ candidates' = [candidates EXCEPT ![option].vote_power = @ + votes[a].stake]
    /\ UNCHANGED <<councilMembers, budgetVars, stage, announcementPeriodNr>>

(* Faulty variant: the end of the election frees every vote. *)
CanUnlockWhenIdle(vote) ==
    vote.cycle_id # announcementPeriodNr \/ stage.tag = "Idle"

(* Faulty variant: a vote that elected nobody is free at once. *)
CanUnlockUnlessElected(vote) ==
    \/ vote.cycle_id # announcementPeriodNr
    \/ \A i \in 1 .. Len(councilMembers) :
          vote.vote_for # councilMembers[i].membership_id

(* can_unlock_vote_stake *)
CanUnlockVoteStake(vote) ==
    \/ vote.cycle_id # announcementPeriodNr
    \/ /\ stage.tag = "Idle"
       /\ \A i \in 1 .. Len(councilMembers) :
             vote.vote_for # councilMembers[i].membership_id

ReleaseVoteStake(a) ==
    /\ votes[a] # None
    /\ ReferendumReleaseVoteStake(a, CanUnlockVoteStake(votes[a]))
    /\ UNCHANGED <<councilVars, councilMembers, budgetVars>>

-----------------------------------------------------------------------------
(* The specification.                                                      *)

Extrinsic ==
    /\ hook = "none"
    /\ \/ \E m \in Members, a \in Accounts, s \in CandidateStakes :
             AnnounceCandidacy(m, a, s)
       \/ \E m \in Members : ReleaseCandidacyStake(m)
       \/ \E m \in Members : WithdrawCandidacy(m)
       \/ \E m \in Members, note \in Notes : SetCandidacyNote(m, note)
       \/ \E a \in Voters, c \in Members \cup {None}, s \in VoteStakes : Vote(a, c, s)
       \/ \E a \in Voters, m \in Members : RevealVote(a, m)
       \/ \E a \in Voters : ReleaseVoteStake(a)
       \/ BudgetExtrinsic /\ UNCHANGED <<refVars, locks, councilMembers, councilVars>>
    /\ UNCHANGED <<now, hook>>

(* The last block of the bound: time stops, nothing is stuck. *)
Horizon ==
    /\ now = MaxBlock /\ hook = "none"
    /\ UNCHANGED vars

Next == CouncilOnInitialize \/ ReferendumOnInitialize \/ Extrinsic \/ Horizon

Spec == Init /\ [][Next]_vars

(* Blocks keep being produced: the only fairness; users owe the chain      *)
(* nothing.                                                                *)
FairSpec == Spec /\ WF_vars(CouncilOnInitialize) /\ WF_vars(ReferendumOnInitialize)
-----------------------------------------------------------------------------
(* Properties.                                                             *)

(* Every variable of the two pallets and of the hook order is well typed. *)
TypeOK ==
    /\ ReferendumTypeOK
    /\ BudgetTypeOK
    /\ stage \in CouncilStages
    /\ candidates \in [Members -> Candidate \cup {None}]
    /\ announcementPeriodNr \in Nat
    /\ hook \in {"none", "referendum"}

(* The council is in its Election stage exactly while the referendum runs, *)
(* and both mean the same cycle: the two pallets keep separate Stage       *)
(* values and update them through calls to each other.                     *)
StagesAgree ==
    /\ stage.tag = "Election" <=> refStage.tag # "Inactive"
    /\ refStage.tag # "Inactive" =>
          refStage.current_cycle_id = announcementPeriodNr

(* try_progress_stage and try_process_budget test now == ends_at: a stage  *)
(* whose end is not ahead would never end, and a council whose next        *)
(* payment is not ahead would never be paid again.                         *)
DeadlinesAhead ==
    /\ stage.tag \in {"Idle", "Announcing"} => stage.ends_at > now
    /\ refStage.tag # "Inactive" =>
          \/ refStage.ends_at > now
          \/ refStage.ends_at = now /\ hook = "referendum"
    /\ councilMembers # <<>> => nextRewardPayments > now

(* candidates_count, kept in the stage by announce and withdraw and then   *)
(* compared with the minimum, counts the candidacies of this cycle.        *)
CandidatesCounted ==
    stage.tag \in {"Announcing", "Election"} =>
        stage.candidates_count = Cardinality({m \in Members : IsCurrentCandidate(m)})

(* A candidacy record and the candidacy lock of its staking account exist  *)
(* together, for the same amount, on an account of that member.            *)
CandidacyStakesLocked ==
    /\ \A m \in Members : candidates[m] # None =>
          /\ Owner[candidates[m].staking_account_id] = m
          /\ candidates[m].stake >= MinCandidateStake
          /\ locks["candidacy"][candidates[m].staking_account_id] = candidates[m].stake
    /\ \A a \in Accounts : locks["candidacy"][a] # 0 =>
          \E m \in Members : candidates[m] # None /\ candidates[m].staking_account_id = a

(* The stake of every councilor is locked as long as they serve, and no    *)
(* account keeps a councilor lock after its council has been replaced.     *)
CouncilorStakesLocked ==
    /\ \A i \in 1 .. Len(councilMembers) :
          /\ councilMembers[i].stake >= MinCandidateStake
          /\ locks["councilor"][councilMembers[i].staking_account_id]
                = councilMembers[i].stake
    /\ \A a \in Accounts : locks["councilor"][a] # 0 =>
          \E i \in 1 .. Len(councilMembers) : councilMembers[i].staking_account_id = a

(* A vote record and the voting lock of its account exist together, for    *)
(* the same amount, across cycles and replaced votes.                      *)
VoteStakesLocked ==
    \A a \in Accounts :
        locks["voting"][a] = IF votes[a] = None THEN 0 ELSE votes[a].stake

(* In each of the three pallets' records and locks: what is locked is what *)
(* some record still justifies, through repeated candidacies, replaced     *)
(* votes and the conversion of a candidate's stake into a councilor's.     *)
StakesMatchRecords ==
    CandidacyStakesLocked /\ CouncilorStakesLocked /\ VoteStakesLocked

(* No account backs two stakes that are not meant to be shared, through    *)
(* the conversion of candidacy stakes into councilor stakes included.      *)
StakesExclusive == RivalrousLocksExclusive(locks)

(* Once elected, a council is complete and its members are distinct: the   *)
(* filter_map over the winners drops nobody and counts nobody twice.       *)
CouncilComplete ==
    councilMembers # <<>> =>
        /\ Len(councilMembers) = CouncilSize
        /\ \A i, j \in 1 .. CouncilSize :
              councilMembers[i].membership_id = councilMembers[j].membership_id => i = j

(* While votes are revealed, the list of intermediate winners is exactly   *)
(* the top of the ranking of the current candidates: sorted, without       *)
(* repetition, with each candidate's own power, and nobody outside it has  *)
(* more power than its last entry or is left out while it has room.        *)
WinnersAreTheTop ==
    refStage.tag = "Revealing" =>
        /\ Len(Winners) <= refStage.winning_target_count
        /\ \A i \in 1 .. Len(Winners) :
              /\ IsCurrentCandidate(Winners[i].option_id)
              /\ Winners[i].vote_power = candidates[Winners[i].option_id].vote_power
        /\ \A i, j \in 1 .. Len(Winners) : i < j =>
              /\ Winners[i].option_id # Winners[j].option_id
              /\ Winners[i].vote_power >= Winners[j].vote_power
        /\ \A m \in Members :
              \/ ~ IsCurrentCandidate(m)
              \/ \E i \in 1 .. Len(Winners) : Winners[i].option_id = m
              \/ candidates[m].vote_power = 0
              \/ /\ Len(Winners) = refStage.winning_target_count
                 /\ candidates[m].vote_power <= Winners[Len(Winners)].vote_power

(* During the election a candidate's power is the sum of the stakes that   *)
(* were revealed for them in this cycle and are still locked.              *)
PowerIsRevealedStake ==
    stage.tag = "Election" =>
        \A m \in Members : IsCurrentCandidate(m) =>
            candidates[m].vote_power =
                MapThenSumSet(LAMBDA a : locks["voting"][a],
                    {a \in Accounts : /\ votes[a] # None
                                      /\ votes[a].cycle_id = announcementPeriodNr
                                      /\ votes[a].vote_for = m})

(* During an election neither a candidate nor a voter of this cycle can    *)
(* back out: the stake stays, and a revealed vote is never changed.        *)
ElectionBinding ==
    [][stage.tag = "Election" /\ announcementPeriodNr' = announcementPeriodNr =>
          /\ \A a \in Accounts :
                votes[a] # None /\ votes[a].cycle_id = announcementPeriodNr =>
                    /\ votes'[a] # None
                    /\ votes'[a].stake = votes[a].stake
                    /\ votes'[a].vote_for \in {votes[a].vote_for, votes[a].commitment}
          /\ \A m \in Members : IsCurrentCandidate(m) =>
                \/ candidates'[m] # None /\ candidates'[m].stake = candidates[m].stake
                \/ \E i \in 1 .. Len(councilMembers') :
                      /\ councilMembers'[i].membership_id = m
                      /\ councilMembers'[i].stake = candidates[m].stake]_vars

(* The voters who elected the sitting council keep their stake locked      *)
(* until the next announcing period begins.                                *)
WinningVotesStay ==
    [][\A a \in Accounts :
          (/\ votes[a] # None /\ votes[a].cycle_id = announcementPeriodNr
           /\ \E i \in 1 .. Len(councilMembers) :
                 councilMembers[i].membership_id = votes[a].vote_for
           /\ announcementPeriodNr' = announcementPeriodNr)
             => votes'[a] = votes[a] /\ locks'["voting"][a] = locks["voting"][a]]_vars

(* Tokens move between the budget and the accounts and are created only by *)
(* the refill of this block or by root setting the budget: rewards paid    *)
(* out of order, twice, or to a replaced council would show here.          *)
FundsConserved ==
    [][\/ budget' + totalIssuance' = budget + totalIssuance
       \/ /\ now' = now + 1 /\ now' = nextBudgetRefill
          /\ budget' + totalIssuance' = budget + totalIssuance + budgetIncrement
       \/ /\ now' = now /\ hook' = hook
          /\ budget' \in BudgetChoices /\ totalIssuance' = totalIssuance]_vars

(* When the members of a sitting council are paid in a block, a reward     *)
(* stays owed only if the budget is exhausted, and what is paid plus what  *)
(* stays owed is what was owed.                                            *)
RewardsPaidInFull ==
    [][now' = now + 1 /\ now' = nextRewardPayments =>
          LET all == 1 .. Len(councilMembers)
              owed(cm) == cm.unpaid_reward
                            + (now' - cm.last_payment_block) * councilorReward
              due == [i \in all |-> owed(councilMembers[i])]
              left == [i \in all |-> owed(councilMembers'[i])]
          IN  /\ budget' = 0 \/ \A i \in all : left[i] = 0
              /\ MapThenSumSet(LAMBDA i : due[i], all) =
                   (totalIssuance' - totalIssuance)
                     + MapThenSumSet(LAMBDA i : left[i], all)]_vars

(* The block in which the stage ends at the latest. *)
StageEndWithin ==
    CASE stage.tag = "Election" ->
           IF refStage.tag = "Voting" THEN refStage.ends_at + RevealStageDuration
           ELSE IF refStage.tag = "Revealing" THEN refStage.ends_at ELSE now + 1
      [] OTHER -> stage.ends_at

(* Under block production alone, every stage of a cycle ends and is        *)
(* followed by one that ends later: an election never hangs on users who   *)
(* do not vote, reveal, or announce.                                       *)
EveryStageEnds ==
    \A n \in 1 .. MaxBlock : StageEndWithin = n ~> StageEndWithin > n
=============================================================================
