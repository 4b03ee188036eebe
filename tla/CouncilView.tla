----------------------------- MODULE CouncilView -----------------------------
(***************************************************************************)
(* The query node's picture of the council                                 *)
(* (query-node/mappings/src/council.ts), composed with the chain.          *)
(*                                                                         *)
(* Each event the chain emits is given to its mapping handler, in the      *)
(* order of emission; the handlers read and write the database and never   *)
(* the chain, so each runs in the step that emits its event.  A handler    *)
(* that misses a record it looks up throws, and the processor stops there. *)
(*                                                                         *)
(* Of each table the model keeps the records a handler or a query for the  *)
(* present can still return: the last candidacy, cast vote and term of     *)
(* office of everybody, the current election round and the last stage      *)
(* update.  Records of events, rationales and notes are left out.          *)
(***************************************************************************)
EXTENDS Council

CONSTANT MaxShownCandidates   \* bound on the candidacies of a round

ASSUME ViewAssumption == MaxShownCandidates \in Nat

VARIABLE db

viewVars == <<vars, db>>

(* The records of the schema, as far as the handlers keep them. *)
ShownCandidate ==
    [electionRound : Nat, status : {"ACTIVE", "WITHDRAWN", "ELECTED", "FAILED"},
     stakingAccountId : Accounts, stake : Nat, stakeLocked : BOOLEAN, votePower : Nat]

ShownVote ==
    [electionRound : Nat, stake : Nat, stakeLocked : BOOLEAN,
     voteFor : Members \cup {None}]

ShownCouncilMember ==
    [stakingAccountId : Accounts, stake : Nat, lastPaymentBlock : Nat,
     unpaidReward : Nat, electedInCouncil : Nat]

ASSUME NoneIsNoRecord ==
    None \notin ShownCandidate \cup ShownVote \cup ShownCouncilMember

(* initCouncil of bootstrap.ts: a council without members, idle until      *)
(* block 1, and no election round.                                         *)
InitialDb ==
    [halted          |-> FALSE,
     electionRound   |-> [cycleId |-> 0, isFinished |-> TRUE],
     stageUpdate     |-> [stage |-> Idle(1), changedAt |-> 0],
     referendumStage |-> Inactive,
     candidate       |-> [m \in Members |-> None],
     castVote        |-> [a \in Accounts |-> None],
     councilMember   |-> [m \in Members |-> None],
     electedAtBlock  |-> 0,
     isCouncilMember |-> {},
     accumulatedReward |-> 0]

-----------------------------------------------------------------------------
(* Reading and writing the database.                                       *)

(* A handler: nothing once the processor has stopped, which it does when a *)
(* record the handler needs is missing.                                    *)
Handled(d, found, result) ==
    IF d.halted THEN d
    ELSE IF found THEN result
    ELSE [d EXCEPT !.halted = TRUE]

HasElectionRound(d) == d.electionRound.cycleId > 0

(* getCandidate: the last candidacy of a member, of a given round or any. *)
HasCandidate(d, m) == d.candidate[m] # None
HasCandidateInRound(d, m) ==
    HasCandidate(d, m) /\ d.candidate[m].electionRound = d.electionRound.cycleId

(* getAccountCastVote: the last vote of an account, likewise. *)
HasCastVote(d, a) == d.castVote[a] # None
HasCastVoteInRound(d, a) ==
    HasCastVote(d, a) /\ d.castVote[a].electionRound = d.electionRound.cycleId

(* Faulty variant: an update keeps the end of the stage before. *)
UpdateCouncilStageKeepsEnd(d, newStage, block) ==
    IF newStage.tag = d.stageUpdate.stage.tag THEN d
    ELSE [d EXCEPT !.stageUpdate = [stage |-> newStage, changedAt |-> block]]

(* The current update is the one with the highest block: of two in one     *)
(* block the first may be taken for it.                                    *)
updateCouncilStage(d, newStage, block) ==
    IF block > d.stageUpdate.changedAt
    THEN [d EXCEPT !.stageUpdate = [stage |-> newStage, changedAt |-> block]]
    ELSE d

concludeElectionRound(d) == [d EXCEPT !.electionRound.isFinished = TRUE]

(* Faulty variant: the stage of the failed election stays. *)
StartRoundKeepingStage(d, cycleId, endsAt, block) ==
    [d EXCEPT !.electionRound = [cycleId |-> cycleId, isFinished |-> FALSE],
              !.referendumStage = Inactive]

(* The referendum's stages belong to a round: the new round has none. *)
startNextElectionRound(d, cycleId, endsAt, block) ==
    updateCouncilStage(
        [d EXCEPT !.electionRound = [cycleId |-> cycleId, isFinished |-> FALSE],
                  !.referendumStage = Inactive],
        Announcing(0, endsAt), block)

ActiveCandidates(d) ==
    {m \in Members : HasCandidateInRound(d, m) /\ d.candidate[m].status = "ACTIVE"}

WithStatus(d, ms, status) ==
    [d EXCEPT !.candidate =
        [m \in Members |-> IF m \in ms THEN [@[m] EXCEPT !.status = status] ELSE @[m]]]

abortCandidacies(d) == WithStatus(d, ActiveCandidates(d), "FAILED")

-----------------------------------------------------------------------------
(* Events of the council.                                                  *)

AnnouncingPeriodStarted(d, endsAt, block) ==
    Handled(d, TRUE, startNextElectionRound(d, d.electionRound.cycleId + 1, endsAt, block))

(* Faulty variant: the candidacies of the round are not ended. *)
RestartKeepingCandidacies(d, endsAt, block) ==
    Handled(d, HasElectionRound(d),
        startNextElectionRound(concludeElectionRound(d),
                               d.electionRound.cycleId + 1, endsAt, block))

(* NotEnoughCandidates and NewCouncilNotElected. *)
ElectionRestarted(d, endsAt, block) ==
    Handled(d, HasElectionRound(d),
        startNextElectionRound(concludeElectionRound(abortCandidacies(d)),
                               d.electionRound.cycleId + 1, endsAt, block))

VotingPeriodStarted(d, numOfCandidates, block) ==
    Handled(d, TRUE, updateCouncilStage(d, Election(numOfCandidates), block))

NewCandidate(d, m, account, balance) ==
    Handled(d, d.stageUpdate.stage.tag = "Announcing" /\ HasElectionRound(d),
        [d EXCEPT !.stageUpdate.stage.candidates_count = @ + 1,
                  !.candidate[m] =
                     [electionRound |-> d.electionRound.cycleId, status |-> "ACTIVE",
                      stakingAccountId |-> account, stake |-> balance,
                      stakeLocked |-> TRUE, votePower |-> 0]])

(* isCouncilMember is unset for all who have it, then set for the elected. *)
CouncilMarks(d, elected) == elected

convertCandidatesToCouncilMembers(d, ms, block) ==
    [m \in Members |->
        IF m \in ms
        THEN [stakingAccountId |-> d.candidate[m].stakingAccountId,
              stake |-> d.candidate[m].stake, lastPaymentBlock |-> block,
              unpaidReward |-> 0, electedInCouncil |-> block]
        ELSE d.councilMember[m]]

(* Whom the chain names and the round knows as an active candidate becomes *)
(* a council member, the others have failed.                               *)
NewCouncilElected(d, memberIds, idleEnd, block) ==
    LET elected == ActiveCandidates(d) \cap memberIds
        settled == WithStatus(WithStatus(d, elected, "ELECTED"),
                              ActiveCandidates(d) \ elected, "FAILED")
    IN  Handled(d, HasElectionRound(d),
            updateCouncilStage(
                [concludeElectionRound(settled) EXCEPT
                    !.councilMember = convertCandidatesToCouncilMembers(d, elected, block),
                    !.electedAtBlock = block,
                    !.isCouncilMember = CouncilMarks(d, elected)],
                Idle(idleEnd), block))

CandidacyStakeRelease(d, m) ==
    Handled(d, HasCandidate(d, m), [d EXCEPT !.candidate[m].stakeLocked = FALSE])

(* The stage's candidatesCount and the candidacy's stakeLocked stay. *)
CandidacyWithdraw(d, m) ==
    Handled(d, HasCandidate(d, m), [d EXCEPT !.candidate[m].status = "WITHDRAWN"])

(* The note's metadata is merged; nothing else changes. *)
CandidacyNoteSet(d, m) ==
    Handled(d, HasElectionRound(d) /\ HasCandidateInRound(d, m), d)

(* What each councilor is paid, and still owed, when b tokens pay the      *)
(* rewards of block n: the content of the chain's RewardPayment events.    *)
Payments(b, n) ==
    LET rem == CHOOSE rem \in Remainders(b) : PaysInOrder(b, n, rem)
    IN  [i \in 1 .. Len(councilMembers) |->
            [memberId |-> councilMembers[i].membership_id,
             paidBalance |-> rem[i - 1] - rem[i],
             missingBalance |-> CurrentReward(councilMembers[i], n) - (rem[i - 1] - rem[i])]]

(* The RewardPayment events of a block, each for another member.  The      *)
(* model keeps the sum of accumulatedReward over all terms of office.      *)
RewardPayment(d, payments, block) ==
    LET of(m) == {i \in 1 .. Len(payments) : payments[i].memberId = m}
        paid(m) == payments[CHOOSE i \in of(m) : TRUE]
        paidBalance == [i \in 1 .. Len(payments) |-> payments[i].paidBalance]
    IN  Handled(d, \A m \in Members : of(m) # {} => d.councilMember[m] # None,
            [d EXCEPT
                !.accumulatedReward =
                   @ + MapThenSumSet(LAMBDA i : paidBalance[i], 1 .. Len(payments)),
                !.councilMember =
                   [m \in Members |->
                       IF of(m) = {} THEN @[m]
                       ELSE [@[m] EXCEPT !.unpaidReward = paid(m).missingBalance,
                                         !.lastPaymentBlock = block]]])

-----------------------------------------------------------------------------
(* Events of the referendum.                                               *)

(* recordReferendumVotingStart *)
ReferendumStartedForcefully(d, winningTargetCount, endsAt) ==
    Handled(d, HasElectionRound(d),
        [d EXCEPT !.referendumStage =
            Voting(winningTargetCount, d.electionRound.cycleId, endsAt)])

(* The revealing stage takes its target from the voting stage's record. *)
RevealingStageStarted(d, endsAt) ==
    Handled(d, HasElectionRound(d) /\ d.referendumStage.tag = "Voting",
        [d EXCEPT !.referendumStage =
            [tag |-> "Revealing",
             winning_target_count |-> d.referendumStage.winning_target_count,
             current_cycle_id |-> d.electionRound.cycleId, ends_at |-> endsAt]])

VoteCast(d, a, stake) ==
    Handled(d, HasElectionRound(d),
        [d EXCEPT !.castVote[a] =
            [electionRound |-> d.electionRound.cycleId, stake |-> stake,
             stakeLocked |-> TRUE, voteFor |-> None]])

(* calculateVotePower: the power of a vote is its stake. *)
VoteRevealed(d, a, m) ==
    Handled(d, HasCandidateInRound(d, m) /\ HasCastVoteInRound(d, a),
        [d EXCEPT !.castVote[a].voteFor = m,
                  !.candidate[m].votePower = @ + d.castVote[a].stake])

StakeReleased(d, a) ==
    Handled(d, HasCastVote(d, a), [d EXCEPT !.castVote[a].stakeLocked = FALSE])

-----------------------------------------------------------------------------
(* The chain's steps with the events they emit.                            *)

(* The council's hook emits the event of the stage first, then, after the  *)
(* refill, those of the payments.                                          *)
StageEvents(d, n) ==
    IF stage' = stage THEN d
    ELSE IF stage'.tag = "Election"
    THEN VotingPeriodStarted(
             ReferendumStartedForcefully(d, refStage'.winning_target_count, refStage'.ends_at),
             stage'.candidates_count, n)
    ELSE IF stage.tag = "Idle"
    THEN AnnouncingPeriodStarted(d, stage'.ends_at, n)
    ELSE ElectionRestarted(d, stage'.ends_at, n)

CouncilHookShown ==
    /\ CouncilOnInitialize
    /\ LET n == now'
           shown == StageEvents(db, n)
       IN  db' = IF n = nextRewardPayments
                 THEN RewardPayment(shown, Payments(BudgetAfterRefill(n), n), n)
                 ELSE shown

(* Faulty variant: the new council is recorded before the old one is paid. *)
ElectionShownFirst ==
    RewardPayment(NewCouncilElected(db, ElectedIds, now + IdlePeriodDuration, now),
                  Payments(budget, now), now)

(* elect_new_council pays the old council before NewCouncilElected. *)
ElectionEvents ==
    NewCouncilElected(RewardPayment(db, Payments(budget, now), now),
                      ElectedIds, now + IdlePeriodDuration, now)

ReferendumHookShown ==
    /\ ReferendumOnInitialize
    /\ db' = IF ~ StageEnds THEN db
             ELSE IF refStage.tag = "Voting"
             THEN RevealingStageStarted(db, refStage'.ends_at)
             ELSE IF stage'.tag = "Idle" THEN ElectionEvents
             ELSE ElectionRestarted(db, stage'.ends_at, now)

(* The extrinsics.  Of those of the budget the database keeps only records *)
(* of their events, BudgetBalanceSet to RequestFunded.                     *)
ExtrinsicShown ==
    /\ hook = "none"
    /\ \/ \E m \in Members, a \in Accounts, s \in CandidateStakes :
             /\ db.stageUpdate.stage.tag = "Announcing" =>
                   db.stageUpdate.stage.candidates_count < MaxShownCandidates
             /\ AnnounceCandidacy(m, a, s)
             /\ db' = NewCandidate(db, m, a, s)
       \/ \E m \in Members :
             ReleaseCandidacyStake(m) /\ db' = CandidacyStakeRelease(db, m)
       \/ \E m \in Members : WithdrawCandidacy(m) /\ db' = CandidacyWithdraw(db, m)
       \/ \E m \in Members, note \in Notes :
             SetCandidacyNote(m, note) /\ db' = CandidacyNoteSet(db, m)
       \/ \E a \in Voters, c \in Members \cup {None}, s \in VoteStakes :
             Vote(a, c, s) /\ db' = VoteCast(db, a, s)
       \/ \E a \in Voters, m \in Members : RevealVote(a, m) /\ db' = VoteRevealed(db, a, m)
       \/ \E a \in Voters : ReleaseVoteStake(a) /\ db' = StakeReleased(db, a)
       \/ /\ BudgetExtrinsic
          /\ UNCHANGED <<refVars, locks, councilMembers, councilVars, db>>
    /\ UNCHANGED <<now, hook>>

ViewInit == Init /\ db = InitialDb

ViewNext ==
    \/ CouncilHookShown \/ ReferendumHookShown \/ ExtrinsicShown
    \/ Horizon /\ UNCHANGED db

ViewSpec == ViewInit /\ [][ViewNext]_viewVars

-----------------------------------------------------------------------------
(* Properties.                                                             *)

(* No handler ever misses a record: whatever the order of candidacies,     *)
(* withdrawals, votes, releases and failed elections, the query node goes  *)
(* on, and goes on with the right round.                                   *)
ProcessorRuns == ~ db.halted

(* The last stage update, found by its block, and the round with the       *)
(* highest cycle are those the chain is in: the handlers count the cycles  *)
(* by themselves, and order the updates by block.                          *)
StageShown ==
    LET shown == db.stageUpdate.stage IN
    /\ db.electionRound.cycleId = announcementPeriodNr
    /\ shown.tag = stage.tag
    /\ stage.tag \in {"Idle", "Announcing"} => shown.ends_at = stage.ends_at
    /\ db.electionRound.isFinished <=> stage.tag = "Idle"
    /\ refStage.tag # "Inactive" =>
          /\ db.referendumStage.tag = refStage.tag
          /\ db.referendumStage.winning_target_count = refStage.winning_target_count
          /\ db.referendumStage.ends_at = refStage.ends_at

(* The candidacies and votes on the chain are shown as locked, with their  *)
(* stake and round; the active ones are the candidates of the election     *)
(* that is under way, with the power they have, and a released vote is     *)
(* not shown as locked.                                                    *)
ElectionShown ==
    /\ \A m \in Members :
          /\ candidates[m] # None =>
                /\ db.candidate[m].electionRound = candidates[m].cycle_id
                /\ db.candidate[m].stakingAccountId = candidates[m].staking_account_id
                /\ db.candidate[m].stake = candidates[m].stake
                /\ db.candidate[m].stakeLocked
                /\ db.candidate[m].votePower = candidates[m].vote_power
          /\ (HasCandidate(db, m) /\ db.candidate[m].status = "ACTIVE")
                <=> (IsCurrentCandidate(m) /\ stage.tag # "Idle")
    /\ \A a \in Accounts :
          /\ (HasCastVote(db, a) /\ db.castVote[a].stakeLocked) <=> votes[a] # None
          /\ votes[a] # None =>
                /\ db.castVote[a].electionRound = votes[a].cycle_id
                /\ db.castVote[a].stake = votes[a].stake
                /\ db.castVote[a].voteFor = votes[a].vote_for

(* The members marked as councilors are the council, with their stakes,    *)
(* and each is shown to be owed what the chain owes them: the events do    *)
(* not say whether the chain has put a payment off or made it.  The debts  *)
(* agree as long as the reward of a block is not changed: the chain counts *)
(* put-off blocks at the reward of the day on which they are paid, the     *)
(* query node at that of the day on which they were put off.  The last     *)
(* conjunct needs in addition that only rewards change the total issuance. *)
CouncilShown ==
    LET all == 1 .. Len(councilMembers) IN
    /\ db.isCouncilMember = {councilMembers[i].membership_id : i \in all}
    /\ \A i \in all :
          LET shown == db.councilMember[councilMembers[i].membership_id] IN
          /\ shown.electedInCouncil = db.electedAtBlock
          /\ shown.stakingAccountId = councilMembers[i].staking_account_id
          /\ shown.stake = councilMembers[i].stake
          /\ shown.unpaidReward + (now - shown.lastPaymentBlock) * councilorReward
                = CurrentReward(councilMembers[i], now)
    /\ db.accumulatedReward = totalIssuance - InitialIssuance
=============================================================================
