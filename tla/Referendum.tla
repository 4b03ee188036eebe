----------------------------- MODULE Referendum -----------------------------
(***************************************************************************)
(* The sealed-vote referendum (runtime-modules/referendum).                *)
(*                                                                         *)
(* A referendum is Inactive, Voting or Revealing.  Voters lock a stake and *)
(* store a commitment while it is Voting, and open the commitment while it *)
(* is Revealing; the stage then holds the best options seen so far.  The   *)
(* runtime callbacks of the pallet's Config (is the option valid, what     *)
(* power has it, may this stake be unlocked, process the results) are      *)
(* supplied by the Council module as the arguments of the actions.         *)
(*                                                                         *)
(* A commitment is the option it commits to, or None for a hash that       *)
(* nobody can open: the hash covers account, option, salt and cycle, and   *)
(* only a match with the stored commitment is ever tested.                 *)
(***************************************************************************)
EXTENDS StakingHandler, Sequences

CONSTANTS
    Members,               \* the options a vote can be for
    None,                  \* an absent record
    VoteStageDuration,
    RevealStageDuration,
    MinimumStake,
    MaxWinnerTargetCount

ASSUME ReferendumAssumption ==
    /\ "voting" \in LockIds
    /\ VoteStageDuration \in Nat \ {0}
    /\ RevealStageDuration \in Nat \ {0}
    /\ MinimumStake \in Nat \ {0}
    /\ MaxWinnerTargetCount \in Nat \ {0}
    /\ None \notin Members

VARIABLES
    refStage,   \* referendum Stage
    votes,      \* Votes: the cast vote of each account, or None
    locks,      \* locks of pallet_balances
    now         \* block number

OptionResult == [option_id : Members, vote_power : Nat]

CastVote == [commitment : Members \cup {None}, cycle_id : Nat, stake : Nat,
             vote_for : Members \cup {None}]

ASSUME NoneIsNoVote == None \notin CastVote

Inactive == [tag |-> "Inactive"]

Voting(target, cycle, end) ==
    [tag |-> "Voting", winning_target_count |-> target,
     current_cycle_id |-> cycle, ends_at |-> end]

Revealing(target, cycle, end, winners) ==
    [tag |-> "Revealing", winning_target_count |-> target,
     current_cycle_id |-> cycle, ends_at |-> end,
     intermediate_winners |-> winners]

VotingStages ==
    [tag : {"Voting"}, winning_target_count : Nat, current_cycle_id : Nat,
     ends_at : Nat]

RevealingStages ==
    [tag : {"Revealing"}, winning_target_count : Nat, current_cycle_id : Nat,
     ends_at : Nat, intermediate_winners : Seq(OptionResult)]

ReferendumTypeOK ==
    /\ refStage \in {Inactive} \cup VotingStages \cup RevealingStages
    /\ votes \in [Accounts -> CastVote \cup {None}]
    /\ locks \in LockTables
    /\ now \in Nat

ReferendumInit ==
    /\ refStage = Inactive
    /\ votes = [a \in Accounts |-> None]
    /\ locks = NoLocks
    /\ now = 0

-----------------------------------------------------------------------------
(* The ranking of the options revealed so far.                             *)

(* Faulty variant: a full list makes room for whoever is revealed last. *)
PlaceRecordUnchecked(result, winners, target) ==
    LET n == Len(winners)
        own == {i \in 1 .. n : winners[i].option_id = result.option_id}
    IN  IF own # {} THEN CHOOSE i \in own : \A j \in own : i <= j
        ELSE IF n = target THEN n ELSE n + 1

(* The index an option has, or gets, in the list before it is moved up: its *)
(* own, the last one of a full list, or a new one; 0 when the list is full  *)
(* and the option does not beat its last entry.                             *)
PlaceRecord(result, winners, target) ==
    LET n == Len(winners)
        own == {i \in 1 .. n : winners[i].option_id = result.option_id}
    IN  IF own # {} THEN CHOOSE i \in own : \A j \in own : i <= j
        ELSE IF n = target
             THEN IF result.vote_power <= winners[n].vote_power THEN 0 ELSE n
             ELSE n + 1

(* The swaps stop below the first entry from idx downwards whose power is  *)
(* not smaller: a tie keeps the earlier option ahead.                      *)
RisesTo(result, winners, idx) ==
    CHOOSE p \in 1 .. idx :
        /\ \A j \in p .. (idx - 1) : winners[j].vote_power < result.vote_power
        /\ p > 1 => winners[p - 1].vote_power >= result.vote_power

TryWinnerInsert(result, winners, target) ==
    IF winners = <<>> THEN <<result>>
    ELSE LET idx == PlaceRecord(result, winners, target)
             top == RisesTo(result, winners, idx)
             len == IF idx > Len(winners) THEN idx ELSE Len(winners)
         IN  IF idx = 0 THEN winners
             ELSE [i \in 1 .. len |->
                      IF i < top \/ i > idx THEN winners[i]
                      ELSE IF i = top THEN result ELSE winners[i - 1]]

-----------------------------------------------------------------------------
(* Operations.                                                             *)

(* ReferendumManager::force_start: the stage it stores in block n. *)
ForceStart(extra, cycle, n) ==
    LET target == IF extra + 1 > MaxWinnerTargetCount
                  THEN MaxWinnerTargetCount ELSE extra + 1
    IN  Voting(target, cycle, n + VoteStageDuration)

CanVote(a, stake) ==
    /\ refStage.tag = "Voting"
    /\ votes[a] # None => votes[a].cycle_id # refStage.current_cycle_id
    /\ stake >= MinimumStake
    /\ IsAccountFreeOfConflictingStakes(locks, "voting", a)
    /\ IsEnoughBalanceForStake(FreeBalance, a, stake)

(* A vote of an earlier cycle is overwritten and its lock replaced. *)
ReferendumVote(a, commitment, stake) ==
    /\ CanVote(a, stake)
    /\ locks' = SetLock(locks, "voting", a, stake)
    /\ votes' = [votes EXCEPT ![a] =
                    [commitment |-> commitment, stake |-> stake,
                     cycle_id |-> refStage.current_cycle_id, vote_for |-> None]]
    /\ UNCHANGED <<refStage, now>>

(* Faulty variant: a vote can be revealed again. *)
CanRevealRepeatedly(a, option, isValidOption) ==
    /\ refStage.tag = "Revealing"
    /\ votes[a] # None
    /\ isValidOption
    /\ votes[a].cycle_id = refStage.current_cycle_id
    /\ votes[a].commitment = option

CanRevealVote(a, option, isValidOption) ==
    /\ refStage.tag = "Revealing"
    /\ votes[a] # None
    /\ isValidOption
    /\ votes[a].cycle_id = refStage.current_cycle_id
    /\ votes[a].vote_for = None
    /\ votes[a].commitment = option

(* calculate_vote_power of the runtime is the stake itself. *)
ReferendumRevealVote(a, option, isValidOption, optionPower) ==
    /\ CanRevealVote(a, option, isValidOption)
    /\ refStage' = [refStage EXCEPT !.intermediate_winners =
                       TryWinnerInsert(
                          [option_id |-> option,
                           vote_power |-> optionPower + votes[a].stake],
                          @, refStage.winning_target_count)]
    /\ votes' = [votes EXCEPT ![a].vote_for = option]
    /\ UNCHANGED <<locks, now>>

ReferendumReleaseVoteStake(a, canUnlock) ==
    /\ votes[a] # None
    /\ canUnlock
    /\ locks' = RemoveLock(locks, "voting", a)
    /\ votes' = [votes EXCEPT ![a] = None]
    /\ UNCHANGED <<refStage, now>>

(* try_progress_stage, its three outcomes.  The results of a concluded     *)
(* referendum are refStage.intermediate_winners, handed to the council.    *)
StageEnds == refStage.tag # "Inactive" /\ refStage.ends_at = now

EndVotingPeriod ==
    /\ StageEnds /\ refStage.tag = "Voting"
    /\ refStage' = Revealing(refStage.winning_target_count,
                             refStage.current_cycle_id,
                             now + RevealStageDuration, <<>>)

ConcludeReferendum ==
    /\ StageEnds /\ refStage.tag = "Revealing"
    /\ refStage' = Inactive
=============================================================================
