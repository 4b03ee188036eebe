--------------------------- MODULE Council_proofs ---------------------------
(***************************************************************************)
(* Theorems about the council election, for every council size, duration,  *)
(* set of members and accounts.                                            *)
(***************************************************************************)
EXTENDS Council, Sums_proofs, SequenceTheorems

-----------------------------------------------------------------------------
(* Lock tables.                                                            *)

(* set_lock and remove_lock yield lock tables. *)
LEMMA LockTableType ==
    ASSUME NEW lk \in LockTables, NEW id \in LockIds, NEW a \in Accounts,
           NEW amount \in Nat
    PROVE  /\ SetLock(lk, id, a, amount) \in LockTables
           /\ RemoveLock(lk, id, a) \in LockTables
  BY DEF LockTables, SetLock, RemoveLock

(* Unlocking a set of accounts yields a lock table. *)
LEMMA RemoveLocksType ==
    ASSUME NEW lk \in LockTables, NEW id \in LockIds, NEW S
    PROVE  RemoveLocks(lk, id, S) \in LockTables
  BY DEF LockTables, RemoveLocks

(* What the operations leave in every cell of the table. *)
LEMMA LockTableValue ==
    ASSUME NEW lk \in LockTables, NEW id \in LockIds, NEW a \in Accounts,
           NEW amount \in Nat \ {0}, NEW S, NEW j \in LockIds, NEW b \in Accounts
    PROVE  /\ SetLock(lk, id, a, amount)[j][b] =
                 IF j = id /\ b = a THEN amount ELSE lk[j][b]
           /\ RemoveLock(lk, id, a)[j][b] =
                 IF j = id /\ b = a THEN 0 ELSE lk[j][b]
           /\ RemoveLocks(lk, id, S)[j][b] =
                 IF j = id /\ b \in S THEN 0 ELSE lk[j][b]
  BY DEF LockTables, SetLock, RemoveLock, RemoveLocks

-----------------------------------------------------------------------------
(* The ranking.                                                            *)

(* RisesTo is the place where the swaps stop, and there is one. *)
LEMMA RisesToPlace ==
    ASSUME NEW winners \in Seq(OptionResult), NEW result \in OptionResult,
           NEW idx \in Nat \ {0}, idx <= Len(winners) + 1,
           NEW p, p = RisesTo(result, winners, idx)
    PROVE  /\ p \in 1 .. idx
           /\ \A j \in p .. (idx - 1) : winners[j].vote_power < result.vote_power
           /\ p > 1 => winners[p - 1].vote_power >= result.vote_power
<1> DEFINE P == {q \in 1 .. idx :
                    \A j \in q .. (idx - 1) : winners[j].vote_power < result.vote_power}
<1>1. idx \in P
  OBVIOUS
<1>a. P \subseteq Nat
  OBVIOUS
<1>2. PICK q \in P : \A y \in P : q <= y
  <2> HIDE DEF P
  <2> QED BY <1>1, <1>a, LeastNatural
<1>3. q > 1 => winners[q - 1].vote_power >= result.vote_power
  <2> SUFFICES ASSUME q > 1, ~ (winners[q - 1].vote_power >= result.vote_power)
               PROVE  FALSE
    OBVIOUS
  <2>1. q - 1 \in 1 .. Len(winners)
    BY <1>2
  <2>2. winners[q - 1] \in OptionResult
    BY <2>1
  <2>3. winners[q - 1].vote_power < result.vote_power
    BY <2>2 DEF OptionResult
  <2>4. \A j \in (q - 1) .. (idx - 1) : j = q - 1 \/ j \in q .. (idx - 1)
    BY <1>2
  <2>5. q - 1 \in P
    BY <1>2, <2>1, <2>3, <2>4
  <2>6. q <= q - 1
    <3> HIDE DEF P
    <3> QED BY <1>2, <2>5
  <2> QED BY <2>1, <2>6
<1> QED
  BY <1>2, <1>3 DEF RisesTo

(* The index of an option in the list of winners. *)
LEMMA PlaceRecordIndex ==
    ASSUME NEW winners \in Seq(OptionResult), winners # <<>>,
           NEW result \in OptionResult, NEW target \in Nat,
           NEW idx, idx = PlaceRecord(result, winners, target)
    PROVE  /\ idx \in 0 .. Len(winners) + 1
           /\ idx \in 1 .. Len(winners) /\ winners[idx].option_id # result.option_id
                => idx = Len(winners) /\ Len(winners) = target
                   /\ result.vote_power > winners[idx].vote_power
           /\ idx = Len(winners) + 1 => Len(winners) # target
           /\ idx = 0 => /\ Len(winners) = target
                         /\ result.vote_power <= winners[target].vote_power
           /\ (\E i \in 1 .. Len(winners) : winners[i].option_id = result.option_id)
                => idx \in 1 .. Len(winners) /\ winners[idx].option_id = result.option_id
<1> DEFINE own == {i \in 1 .. Len(winners) : winners[i].option_id = result.option_id}
<1>0. Len(winners) \in Nat /\ Len(winners) >= 1
  OBVIOUS
<1>1. CASE own # {}
  <2>1. \E i \in own : \A j \in own : i <= j
    <3>1. own \subseteq Nat
      BY <1>0
    <3> HIDE DEF own
    <3> QED BY <1>1, <3>1, LeastNatural
  <2>2. idx \in own
    BY <1>1, <2>1 DEF PlaceRecord
  <2> HIDE DEF own
  <2>3. idx \in 1 .. Len(winners) /\ winners[idx].option_id = result.option_id
    BY <2>2 DEF own
  <2> QED BY <1>0, <2>3
<1>2. CASE own = {}
  <2>1. winners[Len(winners)] \in OptionResult
    BY <1>0
  <2> QED BY <1>0, <1>2, <2>1 DEF PlaceRecord, OptionResult
<1> QED BY <1>1, <1>2

Distinct(winners) ==
    \A i, j \in 1 .. Len(winners) :
        winners[i].option_id = winners[j].option_id => i = j

Sorted(winners) ==
    \A i, j \in 1 .. Len(winners) :
        i < j => winners[i].vote_power >= winners[j].vote_power

(* What the insertion of a result leaves: every entry is the result, once, *)
(* or an old entry of another option; only the last entry of a full list   *)
(* can fall out.                                                           *)
Inserted(new, result, winners, target) ==
    /\ new \in Seq(OptionResult)
    /\ Len(new) <= target
    /\ Distinct(new)
    /\ \A i \in 1 .. Len(new) :
          \/ new[i] = result
          \/ /\ new[i].option_id # result.option_id
             /\ \E k \in 1 .. Len(winners) : new[i] = winners[k]
    /\ \/ \E i \in 1 .. Len(new) : new[i] = result
       \/ /\ Len(new) = target
          /\ result.vote_power <= new[target].vote_power
          /\ \A k \in 1 .. Len(winners) :
                winners[k].option_id # result.option_id
    /\ \A k \in 1 .. Len(winners) :
          \/ winners[k].option_id = result.option_id
          \/ \E i \in 1 .. Len(new) : new[i] = winners[k]
          \/ /\ k = target /\ Len(new) = target
             /\ result.vote_power > winners[k].vote_power

(* Inserting a result into a list of distinct options gives such a list.   *)
LEMMA WinnerInsert ==
    ASSUME NEW winners \in Seq(OptionResult), NEW result \in OptionResult,
           NEW target \in Nat \ {0}, Len(winners) <= target, Distinct(winners)
    PROVE  Inserted(TryWinnerInsert(result, winners, target), result, winners, target)
<1> DEFINE new == TryWinnerInsert(result, winners, target)
<1> SUFFICES Inserted(new, result, winners, target)
  OBVIOUS
<1> HIDE DEF new
<1> USE DEF Inserted
<1>0. Len(winners) \in Nat /\ winners \in [1 .. Len(winners) -> OptionResult]
  OBVIOUS
<1>1. CASE winners = <<>>
  BY <1>1 DEF TryWinnerInsert, Distinct, new
<1>2. CASE winners # <<>>
  <2> DEFINE idx == PlaceRecord(result, winners, target)
             top == RisesTo(result, winners, idx)
             len == IF idx > Len(winners) THEN idx ELSE Len(winners)
  <2> HIDE DEF idx, top
  <2>1. /\ idx \in 0 .. Len(winners) + 1
        /\ idx \in 1 .. Len(winners) /\ winners[idx].option_id # result.option_id
             => idx = Len(winners) /\ Len(winners) = target
                /\ result.vote_power > winners[idx].vote_power
        /\ idx = Len(winners) + 1 => Len(winners) # target
        /\ idx = 0 => /\ Len(winners) = target
                      /\ result.vote_power <= winners[target].vote_power
        /\ (\E i \in 1 .. Len(winners) : winners[i].option_id = result.option_id)
             => idx \in 1 .. Len(winners) /\ winners[idx].option_id = result.option_id
    BY <1>2, PlaceRecordIndex DEF idx
  <2>2. CASE idx = 0
    <3>1. new = winners
      BY <1>2, <2>2 DEF TryWinnerInsert, idx, new
    <3> QED BY <1>0, <2>1, <2>2, <3>1
  <2>3. CASE idx # 0
    <3>1. top \in 1 .. idx
      BY <2>1, <2>3, RisesToPlace DEF top
    <3>2. new = [i \in 1 .. len |->
                    IF i < top \/ i > idx THEN winners[i]
                    ELSE IF i = top THEN result ELSE winners[i - 1]]
      BY <1>2, <2>3 DEF TryWinnerInsert, idx, top, new
    <3>a. /\ Len(winners) \in Nat /\ idx \in 1 .. Len(winners) + 1
          /\ idx = Len(winners) + 1 => Len(winners) # target
          /\ top \in Nat /\ 1 <= top /\ top <= idx
      <4>1. idx \in 0 .. Len(winners) + 1
        BY <2>1
      <4>2. idx = Len(winners) + 1 => Len(winners) # target
        BY <2>1
      <4>3. idx \in 1 .. Len(winners) + 1
        BY <1>0, <4>1, <2>3
      <4>4. top \in Nat /\ 1 <= top /\ top <= idx
        BY <1>0, <4>3, <3>1
      <4> QED BY <1>0, <4>2, <4>3, <4>4
    <3>3. len \in Nat /\ idx <= len /\ Len(winners) <= len /\ len <= target
      <4>1. CASE idx = Len(winners) + 1
        BY <3>a, <4>1
      <4>2. CASE idx <= Len(winners)
        BY <3>a, <4>2
      <4> QED BY <3>a, <4>1, <4>2
    <3> DEFINE old(i) == IF i < top \/ i > idx THEN i ELSE i - 1
    <3>4. \A i \in 1 .. len : i # top =>
             /\ old(i) \in 1 .. Len(winners) /\ old(i) # idx
             /\ new[i] = winners[old(i)]
      BY <1>0, <2>1, <2>3, <3>1, <3>2, <3>3
    <3>5. \A i, j \in 1 .. len : i # top /\ j # top /\ old(i) = old(j) => i = j
      BY <3>1, <3>3, <2>1
    <3>6. new[top] = result /\ top \in 1 .. len
      BY <3>1, <3>2, <3>3, <2>1
    <3>7. \A k \in 1 .. Len(winners) :
             k # idx => \E i \in 1 .. len : i # top /\ old(i) = k
      <4> SUFFICES ASSUME NEW k \in 1 .. Len(winners), k # idx
                   PROVE  \E i \in 1 .. len : i # top /\ old(i) = k
        OBVIOUS
      <4>1. CASE k < top \/ k > idx
        <5>1. k \in 1 .. len /\ k # top /\ old(k) = k
          BY <3>a, <4>1, <3>3
        <5> QED BY <5>1
      <4>2. CASE ~ (k < top \/ k > idx)
        <5>1. k + 1 \in 1 .. len /\ k + 1 # top /\ old(k + 1) = k
          BY <3>a, <4>2, <3>3
        <5> QED BY <5>1
      <4> QED BY <4>1, <4>2
    <3> HIDE DEF old, len
    <3>8. Len(new) = len /\ DOMAIN new = 1 .. len
      BY <3>2, <3>3
    <3>9. \A k \in 1 .. Len(winners) : k # idx =>
             winners[k].option_id # result.option_id
      BY <2>1 DEF Distinct
    <3>10. \A i \in 1 .. len : new[i] \in OptionResult
      <4> TAKE i \in 1 .. len
      <4> QED BY <1>0, <3>4, <3>6
    <3>11. new \in Seq(OptionResult)
      <4>1. new \in [1 .. len -> OptionResult]
        BY <3>2, <3>10
      <4> QED BY <4>1, <3>3
    <3>12. Distinct(new)
      <4> SUFFICES ASSUME NEW i \in 1 .. len, NEW j \in 1 .. len,
                          new[i].option_id = new[j].option_id
                   PROVE  i = j
        BY <3>8 DEF Distinct
      <4>1. CASE i = top \/ j = top
        BY <4>1, <3>4, <3>6, <3>9
      <4>2. CASE i # top /\ j # top
        <5>1. old(i) = old(j)
          BY <4>2, <3>4 DEF Distinct
        <5> QED BY <4>2, <5>1, <3>5
      <4> QED BY <4>1, <4>2
    <3>13. \A k \in 1 .. Len(winners) :
             \/ winners[k].option_id = result.option_id
             \/ \E i \in 1 .. Len(new) : new[i] = winners[k]
             \/ /\ k = target /\ Len(new) = target
                /\ result.vote_power > winners[k].vote_power
      <4> TAKE k \in 1 .. Len(winners)
      <4>1. CASE k # idx
        <5>1. PICK i \in 1 .. len : i # top /\ old(i) = k
          BY <4>1, <3>7
        <5> QED BY <5>1, <3>4, <3>8
      <4>2. CASE k = idx
        BY <4>2, <2>1, <3>3, <3>8
      <4> QED BY <4>1, <4>2
    <3>14. \A i \in 1 .. Len(new) :
             \/ new[i] = result
             \/ /\ new[i].option_id # result.option_id
                /\ \E k \in 1 .. Len(winners) : new[i] = winners[k]
      <4> TAKE i \in 1 .. Len(new)
      <4> QED BY <3>4, <3>6, <3>8, <3>9
    <3> QED BY <3>3, <3>6, <3>8, <3>11, <3>12, <3>13, <3>14
  <2> QED BY <2>2, <2>3
<1> QED BY <1>1, <1>2

-----------------------------------------------------------------------------
(* The inductive invariant of the stage machine.  The winners must be      *)
(* candidates of the running cycle for the election to find a record for   *)
(* each of them.                                                           *)

WinnersCurrent ==
    /\ refStage.tag # "Inactive" => refStage.winning_target_count >= 1
    /\ refStage.tag = "Revealing" =>
          /\ Len(Winners) <= refStage.winning_target_count
          /\ Distinct(Winners)
          /\ \A i \in 1 .. Len(Winners) : IsCurrentCandidate(Winners[i].option_id)

IndInv == TypeOK /\ StagesAgree /\ DeadlinesAhead /\ WinnersCurrent

(* The genesis state satisfies the invariant. *)
LEMMA InitIndInv == Init => IndInv
  BY StakingAssumption, ReferendumAssumption, BudgetAssumption, CouncilAssumption
  DEF Init, ReferendumInit, BudgetInit, IndInv, TypeOK, ReferendumTypeOK, BudgetTypeOK,
      Inactive, VotingStages, RevealingStages, NoLocks, LockTables, CouncilStages, Idle,
      StagesAgree, DeadlinesAhead, WinnersCurrent

(* Payments keep the records of the councilors and the funds well typed.   *)
LEMMA RewardsType ==
    ASSUME BudgetTypeOK, NEW b \in Nat, NEW n \in Nat, NEW rem \in Remainders(b),
           PaysInOrder(b, n, rem)
    PROVE  /\ PaidCouncil(n, rem) \in Seq(CouncilMember)
           /\ Len(PaidCouncil(n, rem)) = Len(councilMembers)
           /\ rem[Len(councilMembers)] \in 0 .. b
<1> DEFINE L == Len(councilMembers)
<1>1. L \in Nat /\ councilMembers \in [1 .. L -> CouncilMember]
  BY DEF BudgetTypeOK
<1>2. rem \in [0 .. L -> 0 .. b]
  BY DEF Remainders
<1>3. \A i \in 1 .. L :
         AfterPayment(councilMembers[i], n, rem[i - 1], rem[i]) \in CouncilMember
  <2> SUFFICES ASSUME NEW i \in 1 .. L
               PROVE  AfterPayment(councilMembers[i], n, rem[i - 1], rem[i]) \in CouncilMember
    OBVIOUS
  <2> DEFINE cm == councilMembers[i]
             due == CurrentReward(cm, n)
  <2>1. cm \in CouncilMember
    BY <1>1
  <2>2. due \in Nat
    <3>1. \A x, y, z \in Nat : z + x * y \in Nat
      OBVIOUS
    <3>2. /\ cm.unpaid_reward \in Nat /\ councilorReward \in Nat
          /\ (IF n > cm.last_payment_block THEN n - cm.last_payment_block ELSE 0) \in Nat
      BY <2>1 DEF CouncilMember, BudgetTypeOK
    <3> QED BY <3>1, <3>2 DEF CurrentReward
  <2>3. rem[i] \in Nat /\ rem[i - 1] \in Nat
    BY <1>1, <1>2
  <2>4. rem[i] = rem[i - 1] - PayableReward(rem[i - 1], due)
    BY DEF PaysInOrder
  <2> HIDE DEF due
  <2>5. rem[i - 1] - rem[i] <= due
    <3>1. \A x, y \in Nat : x - (x - PayableReward(x, y)) <= y
      BY DEF PayableReward
    <3> QED BY <2>2, <2>3, <2>4, <3>1
  <2>6. due - (rem[i - 1] - rem[i]) \in Nat
    BY <2>2, <2>3, <2>5
  <2> HIDE DEF cm
  <2>7. AfterPayment(cm, n, rem[i - 1], rem[i]) \in CouncilMember
    BY <2>1, <2>6 DEF AfterPayment, CouncilMember, due
  <2> QED BY <2>7 DEF cm
<1>4. PaidCouncil(n, rem) \in [1 .. L -> CouncilMember]
  BY <1>3 DEF PaidCouncil
<1> QED BY <1>1, <1>2, <1>4 DEF PaidCouncil

(* A new block: the council's stage progress and budget processing.        *)
LEMMA CouncilHookStep == IndInv /\ CouncilOnInitialize => IndInv'
<1> SUFFICES ASSUME IndInv, CouncilOnInitialize PROVE IndInv'
  OBVIOUS
<1> DEFINE n == now + 1
<1>1. n \in Nat /\ now \in Nat /\ now' = n /\ hook = "none" /\ hook' = "referendum"
  BY DEF IndInv, TypeOK, ReferendumTypeOK, CouncilOnInitialize
<1>2. votes' = votes /\ locks' = locks /\ candidates' = candidates
  BY DEF CouncilOnInitialize
<1>3. BudgetTypeOK' /\ (councilMembers' # <<>> => nextRewardPayments' > now')
  <2> DEFINE b == BudgetAfterRefill(n)
  <2>0. BudgetTypeOK /\ (councilMembers # <<>> => nextRewardPayments > now)
    BY DEF IndInv, TypeOK, DeadlinesAhead
  <2>1. TryProcessBudget(n)
    BY DEF CouncilOnInitialize
  <2>2. b \in Nat
    BY <2>0 DEF BudgetAfterRefill, BudgetTypeOK
  <2> HIDE DEF b, n
  <2>3. /\ budgetIncrement' \in Nat /\ councilorReward' \in Nat
        /\ nextBudgetRefill' \in Nat
    BY <1>1, <2>0, <2>1, BudgetAssumption DEF TryProcessBudget, BudgetTypeOK
  <2>4. CASE n # nextRewardPayments
    <3>1. budget' = b /\ UNCHANGED <<nextRewardPayments, totalIssuance, councilMembers>>
      BY <2>1, <2>4 DEF TryProcessBudget, b
    <3>2. councilMembers' # <<>> => nextRewardPayments' > n
      BY <1>1, <2>0, <2>4, <3>1 DEF n, BudgetTypeOK
    <3> QED BY <1>1, <2>0, <2>2, <2>3, <3>1, <3>2 DEF BudgetTypeOK
  <2>5. CASE n = nextRewardPayments
    <3>1. PICK rem \in Remainders(b) :
             /\ PayElectedMemberRewards(b, n, rem)
             /\ councilMembers' = PaidCouncil(n, rem)
      BY <2>1, <2>5 DEF TryProcessBudget, b
    <3>2. PaysInOrder(b, n, rem)
      BY <3>1 DEF PayElectedMemberRewards
    <3>3. /\ councilMembers' \in Seq(CouncilMember)
          /\ rem[Len(councilMembers)] \in 0 .. b
      BY <1>1, <2>0, <2>2, <3>1, <3>2, RewardsType
    <3>4. /\ budget' \in Nat /\ totalIssuance' \in Nat
          /\ nextRewardPayments' \in Nat /\ nextRewardPayments' > n
      BY <1>1, <2>0, <2>2, <3>1, <3>3, BudgetAssumption
      DEF PayElectedMemberRewards, BudgetTypeOK
    <3> QED BY <1>1, <2>3, <3>3, <3>4 DEF BudgetTypeOK
  <2> QED BY <2>4, <2>5
<1>4. CASE EndIdlePeriod(n) \/ RestartAnnouncing(n)
  <2>1. /\ stage' = Announcing(0, n + AnnouncingPeriodDuration)
        /\ announcementPeriodNr' = announcementPeriodNr + 1
        /\ refStage' = refStage /\ stage.tag \in {"Idle", "Announcing"}
    BY <1>4 DEF EndIdlePeriod, RestartAnnouncing, StartAnnouncingPeriod
  <2>2. refStage.tag = "Inactive"
    BY <2>1 DEF IndInv, StagesAgree
  <2>3. stage' \in CouncilStages /\ announcementPeriodNr' \in Nat
    BY <1>1, <2>1, CouncilAssumption DEF Announcing, CouncilStages, IndInv, TypeOK
  <2>4. stage'.tag = "Announcing" /\ stage'.ends_at > n
    BY <1>1, <2>1, CouncilAssumption DEF Announcing
  <2>5. TypeOK'
    BY <1>1, <1>2, <1>3, <2>1, <2>3 DEF IndInv, TypeOK, ReferendumTypeOK
  <2> QED BY <1>1, <1>3, <2>1, <2>2, <2>4, <2>5
          DEF IndInv, StagesAgree, DeadlinesAhead, WinnersCurrent
<1>5. CASE FinalizeAnnouncingPeriod(n)
  <2> DEFINE target == IF CouncilSize - 1 + 1 > MaxWinnerTargetCount
                       THEN MaxWinnerTargetCount ELSE CouncilSize - 1 + 1
  <2>1. /\ stage' = Election(stage.candidates_count)
        /\ refStage' = Voting(target, announcementPeriodNr, n + VoteStageDuration)
        /\ announcementPeriodNr' = announcementPeriodNr
        /\ stage.tag = "Announcing"
    BY <1>5 DEF FinalizeAnnouncingPeriod, ForceStart
  <2>2. target \in Nat /\ target >= 1
    BY CouncilAssumption, ReferendumAssumption
  <2> HIDE DEF target
  <2>3. stage' \in CouncilStages /\ stage'.tag = "Election"
    BY <2>1 DEF Election, CouncilStages, IndInv, TypeOK
  <2>4. /\ refStage' \in VotingStages /\ refStage'.tag = "Voting"
        /\ refStage'.current_cycle_id = announcementPeriodNr
        /\ refStage'.ends_at > n /\ refStage'.winning_target_count >= 1
    BY <1>1, <2>1, <2>2, ReferendumAssumption DEF Voting, VotingStages, IndInv, TypeOK
  <2>5. TypeOK'
    BY <1>1, <1>2, <1>3, <2>1, <2>3, <2>4 DEF IndInv, TypeOK, ReferendumTypeOK
  <2> QED BY <1>1, <1>3, <2>1, <2>3, <2>4, <2>5
          DEF IndInv, StagesAgree, DeadlinesAhead, WinnersCurrent
<1>6. CASE NoCouncilProgress(n)
  <2>1. /\ stage' = stage /\ announcementPeriodNr' = announcementPeriodNr
        /\ refStage' = refStage
        /\ stage.tag \in {"Idle", "Announcing"} => stage.ends_at # n
    BY <1>6 DEF NoCouncilProgress
  <2>2. TypeOK'
    BY <1>1, <1>2, <1>3, <2>1 DEF IndInv, TypeOK, ReferendumTypeOK
  <2>3. stage'.tag \in {"Idle", "Announcing"} => stage'.ends_at > now'
    BY <1>1, <2>1 DEF IndInv, DeadlinesAhead, TypeOK, CouncilStages
  <2>4. refStage'.tag # "Inactive" => refStage'.ends_at >= now'
    BY <1>1, <2>1 DEF IndInv, DeadlinesAhead, TypeOK, ReferendumTypeOK,
                      Inactive, VotingStages, RevealingStages
  <2>5. DeadlinesAhead'
    BY <1>1, <1>3, <2>1, <2>2, <2>3, <2>4
    DEF DeadlinesAhead, TypeOK, ReferendumTypeOK, Inactive, VotingStages, RevealingStages
  <2>6. StagesAgree' /\ WinnersCurrent'
    BY <1>2, <2>1 DEF IndInv, StagesAgree, WinnersCurrent, IsCurrentCandidate, Winners, Distinct
  <2> QED BY <2>2, <2>5, <2>6 DEF IndInv
<1> QED BY <1>4, <1>5, <1>6 DEF CouncilOnInitialize, TryProgressStage

(* The winners all have a candidacy, so the election converts each of them *)
(* into one councilor.                                                     *)
LEMMA ElectedAll ==
    ASSUME IndInv, refStage.tag = "Revealing"
    PROVE  /\ Winners \in Seq(OptionResult)
           /\ ElectedOptions = Winners
           /\ \A i \in 1 .. Len(Winners) :
                 /\ Winners[i].option_id \in Members
                 /\ candidates[Winners[i].option_id] \in Candidate
           /\ ElectedMembers \in Seq(CouncilMember)
           /\ Len(ElectedMembers) = Len(Winners)
<1>1. Winners \in Seq(OptionResult)
  BY DEF IndInv, TypeOK, ReferendumTypeOK, Inactive, VotingStages, RevealingStages, Winners
<1>2. \A i \in 1 .. Len(Winners) :
         /\ Winners[i].option_id \in Members
         /\ candidates[Winners[i].option_id] # None
         /\ candidates[Winners[i].option_id] \in Candidate
  <2> TAKE i \in 1 .. Len(Winners)
  <2>1. Winners[i] \in OptionResult
    BY <1>1
  <2> QED BY <2>1 DEF OptionResult, IndInv, WinnersCurrent, IsCurrentCandidate, TypeOK
<1>3. ElectedOptions = Winners
  BY <1>2 DEF ElectedOptions
<1>4. now \in Nat
  BY DEF IndInv, TypeOK, ReferendumTypeOK
<1>5. \A i \in 1 .. Len(Winners) :
         ElectedMember(Winners[i].option_id) \in CouncilMember
  BY <1>2, <1>4 DEF ElectedMember, CouncilMember, Candidate
<1>6. ElectedMembers \in [1 .. Len(Winners) -> CouncilMember]
  BY <1>3, <1>5 DEF ElectedMembers
<1> QED BY <1>1, <1>2, <1>3, <1>6

(* The locks after an election form a lock table. *)
LEMMA ElectionLocksType ==
    ASSUME IndInv, refStage.tag = "Revealing"
    PROVE  LocksAfterElection \in LockTables
<1> DEFINE winnersStake == {candidates[m].staking_account_id : m \in ElectedIds}
           oldCouncil == {councilMembers[i].staking_account_id :
                             i \in 1 .. Len(councilMembers)}
           freed == RemoveLocks(RemoveLocks(locks, "candidacy", winnersStake),
                                "councilor", oldCouncil)
           staked(a) == CHOOSE m \in ElectedIds : candidates[m].staking_account_id = a
           value(a) == IF a \in winnersStake /\ candidates[staked(a)].stake # 0
                       THEN candidates[staked(a)].stake ELSE freed["councilor"][a]
<1>1. freed \in LockTables
  <2> HIDE DEF winnersStake, oldCouncil
  <2>1. locks \in LockTables
    BY DEF IndInv, TypeOK, ReferendumTypeOK
  <2>2. RemoveLocks(locks, "candidacy", winnersStake) \in LockTables
    BY <2>1, RemoveLocksType, CouncilAssumption
  <2> QED BY <2>2, RemoveLocksType, CouncilAssumption
<1>2. \A m \in ElectedIds : candidates[m] \in Candidate
  BY ElectedAll DEF ElectedIds
<1>3. \A a \in winnersStake : staked(a) \in ElectedIds
  OBVIOUS
<1>4. \A a \in Accounts : value(a) \in Nat
  <2> HIDE DEF freed, staked, winnersStake
  <2>1. \A a \in Accounts : freed["councilor"][a] \in Nat
    BY <1>1, CouncilAssumption DEF LockTables
  <2> QED BY <1>2, <1>3, <2>1 DEF Candidate
<1>5. LocksAfterElection = [freed EXCEPT !["councilor"] = [a \in Accounts |-> value(a)]]
  BY <1>1, CouncilAssumption DEF LocksAfterElection, LockTables
<1> HIDE DEF freed, value
<1> QED BY <1>1, <1>4, <1>5, CouncilAssumption DEF LockTables

(* The referendum's progress, and the election it may conclude.            *)
LEMMA ReferendumHookStep == IndInv /\ ReferendumOnInitialize => IndInv'
<1> SUFFICES ASSUME IndInv, ReferendumOnInitialize PROVE IndInv'
  OBVIOUS
<1>1. /\ now' = now /\ votes' = votes /\ hook = "referendum" /\ hook' = "none"
      /\ now \in Nat
  BY DEF ReferendumOnInitialize, IndInv, TypeOK, ReferendumTypeOK
<1>2. CASE EndVotingPeriod /\ UNCHANGED <<councilVars, councilMembers, locks, budgetVars>>
  <2>1. /\ refStage.tag = "Voting" /\ refStage \in VotingStages
        /\ refStage' = Revealing(refStage.winning_target_count,
                                 refStage.current_cycle_id,
                                 now + RevealStageDuration, <<>>)
    BY <1>2 DEF EndVotingPeriod, IndInv, TypeOK, ReferendumTypeOK, Inactive, RevealingStages
  <2>2. /\ refStage' \in RevealingStages /\ refStage'.tag = "Revealing"
        /\ refStage'.ends_at > now /\ Winners' = <<>>
        /\ refStage'.current_cycle_id = refStage.current_cycle_id
        /\ refStage'.winning_target_count = refStage.winning_target_count
    BY <1>1, <2>1, ReferendumAssumption
    DEF Revealing, RevealingStages, VotingStages, Winners
  <2>3. UNCHANGED <<stage, candidates, announcementPeriodNr, councilMembers, locks,
                    budget, nextRewardPayments, nextBudgetRefill, budgetIncrement,
                    councilorReward, totalIssuance>>
    BY <1>2 DEF councilVars, budgetVars
  <2>4. TypeOK'
    BY <1>1, <2>2, <2>3 DEF IndInv, TypeOK, ReferendumTypeOK, BudgetTypeOK
  <2>5. StagesAgree' /\ DeadlinesAhead'
    BY <1>1, <2>1, <2>2, <2>3 DEF IndInv, StagesAgree, DeadlinesAhead
  <2>6. WinnersCurrent'
    BY <2>1, <2>2 DEF IndInv, WinnersCurrent, Distinct, VotingStages
  <2> QED BY <2>4, <2>5, <2>6 DEF IndInv
<1>3. CASE ConcludeReferendum /\ ElectNewCouncil
  <2>1. refStage.tag = "Revealing" /\ refStage' = Inactive
    BY <1>3 DEF ConcludeReferendum
  <2>2. /\ councilMembers' \in Seq(CouncilMember) /\ locks' \in LockTables
    BY <1>3, <2>1, ElectedAll, ElectionLocksType DEF ElectNewCouncil
  <2>3. PICK rem \in Remainders(budget) : PayElectedMemberRewards(budget, now, rem)
    BY <1>3 DEF ElectNewCouncil
  <2>4. /\ BudgetTypeOK /\ budget \in Nat
    BY DEF IndInv, TypeOK, BudgetTypeOK
  <2>5. rem[Len(councilMembers)] \in 0 .. budget
    BY <1>1, <2>3, <2>4, RewardsType DEF PayElectedMemberRewards
  <2>6. /\ budget' \in Nat /\ totalIssuance' \in Nat
        /\ nextRewardPayments' \in Nat /\ nextRewardPayments' > now
    BY <1>1, <2>3, <2>4, <2>5, BudgetAssumption DEF PayElectedMemberRewards, BudgetTypeOK
  <2>7. /\ stage' = Idle(now + IdlePeriodDuration)
        /\ announcementPeriodNr' = announcementPeriodNr
        /\ UNCHANGED <<nextBudgetRefill, budgetIncrement, councilorReward>>
        /\ candidates' = [m \in Members |-> IF m \in ElectedIds THEN None ELSE candidates[m]]
    BY <1>3 DEF ElectNewCouncil
  <2>8. stage' \in CouncilStages /\ stage'.tag = "Idle" /\ stage'.ends_at > now
    BY <1>1, <2>7, CouncilAssumption DEF Idle, CouncilStages
  <2>9. candidates' \in [Members -> Candidate \cup {None}]
    BY <2>7 DEF IndInv, TypeOK
  <2>10. TypeOK'
    BY <1>1, <2>1, <2>2, <2>4, <2>6, <2>7, <2>8, <2>9
    DEF IndInv, TypeOK, ReferendumTypeOK, BudgetTypeOK
  <2>11. refStage'.tag = "Inactive"
    BY <2>1 DEF Inactive
  <2> QED BY <1>1, <2>6, <2>8, <2>10, <2>11
          DEF IndInv, StagesAgree, DeadlinesAhead, WinnersCurrent
<1>4. CASE ConcludeReferendum /\ NewCouncilNotElected
  <2>1. /\ refStage'.tag = "Inactive" /\ refStage' = Inactive
        /\ stage' = Announcing(0, now + AnnouncingPeriodDuration)
        /\ announcementPeriodNr' = announcementPeriodNr + 1
    BY <1>4 DEF ConcludeReferendum, NewCouncilNotElected, StartAnnouncingPeriod, Inactive
  <2>2. UNCHANGED <<candidates, councilMembers, locks,
                    budget, nextRewardPayments, nextBudgetRefill, budgetIncrement,
                    councilorReward, totalIssuance>>
    BY <1>4 DEF NewCouncilNotElected, budgetVars
  <2>3. stage' \in CouncilStages /\ stage'.tag = "Announcing" /\ stage'.ends_at > now
    BY <1>1, <2>1, CouncilAssumption DEF Announcing, CouncilStages
  <2>4. TypeOK'
    BY <1>1, <2>1, <2>2, <2>3 DEF IndInv, TypeOK, ReferendumTypeOK, BudgetTypeOK
  <2> QED BY <1>1, <2>1, <2>2, <2>3, <2>4
          DEF IndInv, StagesAgree, DeadlinesAhead, WinnersCurrent
<1>5. CASE NoReferendumProgress
  <2>1. UNCHANGED <<refStage, stage, candidates, announcementPeriodNr, councilMembers,
                    locks, budget, nextRewardPayments, nextBudgetRefill,
                    budgetIncrement, councilorReward, totalIssuance>>
    BY <1>5 DEF NoReferendumProgress, councilVars, budgetVars
  <2>2. TypeOK'
    BY <1>1, <2>1 DEF IndInv, TypeOK, ReferendumTypeOK, BudgetTypeOK
  <2>3. StagesAgree' /\ WinnersCurrent'
    BY <2>1 DEF IndInv, StagesAgree, WinnersCurrent, IsCurrentCandidate, Winners, Distinct
  <2>4. DeadlinesAhead'
    BY <1>1, <1>5, <2>1 DEF IndInv, DeadlinesAhead, NoReferendumProgress, StageEnds
  <2> QED BY <2>2, <2>3, <2>4 DEF IndInv
<1> QED BY <1>2, <1>3, <1>4, <1>5 DEF ReferendumOnInitialize

(* The extrinsics: candidates, voters and the treasury.                    *)
LEMMA ExtrinsicStep == IndInv /\ Extrinsic => IndInv'
<1> SUFFICES ASSUME IndInv, Extrinsic PROVE IndInv'
  OBVIOUS
<1>1. now' = now /\ hook' = hook /\ hook = "none"
  BY DEF Extrinsic
<1>2. ASSUME NEW m \in Members, NEW a \in Accounts, NEW s \in CandidateStakes,
             AnnounceCandidacy(m, a, s)
      PROVE  IndInv'
  <2> DEFINE rec == [staking_account_id |-> a, stake |-> s,
                     cycle_id |-> announcementPeriodNr,
                     vote_power |-> 0, note_hash |-> None]
             released == IF candidates[m] = None THEN locks
                         ELSE RemoveLock(locks, "candidacy",
                                         candidates[m].staking_account_id)
  <2>1. /\ stage.tag = "Announcing" /\ stage' = [stage EXCEPT !.candidates_count = @ + 1]
        /\ candidates' = [candidates EXCEPT ![m] = rec]
        /\ locks' = SetLock(released, "candidacy", a, s)
        /\ UNCHANGED <<refStage, votes, councilMembers, budget, nextRewardPayments,
                       nextBudgetRefill, budgetIncrement, councilorReward,
                       totalIssuance, announcementPeriodNr>>
    BY <1>2 DEF AnnounceCandidacy, CanAnnounceCandidacy, refVars, budgetVars
  <2>2. refStage.tag = "Inactive"
    BY <2>1 DEF IndInv, StagesAgree
  <2>3. s \in Nat /\ rec \in Candidate
    BY CouncilAssumption DEF Candidate, IndInv, TypeOK
  <2>4. /\ stage' \in CouncilStages /\ stage'.tag = "Announcing"
        /\ stage'.ends_at = stage.ends_at
    BY <2>1 DEF IndInv, TypeOK, CouncilStages
  <2> HIDE DEF rec
  <2>5. candidates' \in [Members -> Candidate \cup {None}]
    BY <2>1, <2>3 DEF IndInv, TypeOK
  <2>6. locks' \in LockTables
    <3>1. locks \in LockTables /\ candidates \in [Members -> Candidate \cup {None}]
      BY DEF IndInv, TypeOK, ReferendumTypeOK
    <3>2. candidates[m] # None => candidates[m].staking_account_id \in Accounts
      BY <3>1 DEF Candidate
    <3>3. released \in LockTables
      BY <2>3, <3>1, <3>2, LockTableType, CouncilAssumption
    <3> HIDE DEF released
    <3> QED BY <2>1, <2>3, <3>3, LockTableType, CouncilAssumption
  <2>7. TypeOK'
    BY <1>1, <2>1, <2>4, <2>5, <2>6 DEF IndInv, TypeOK, ReferendumTypeOK, BudgetTypeOK
  <2> QED BY <1>1, <2>1, <2>2, <2>4, <2>7
          DEF IndInv, StagesAgree, DeadlinesAhead, WinnersCurrent
<1>3. ASSUME NEW m \in Members, candidates[m] # None, RemoveCandidacy(m),
             stage.tag = "Election" => ~ IsCurrentCandidate(m),
             stage' = stage \/ /\ stage.tag = "Announcing"
                               /\ stage' = [stage EXCEPT !.candidates_count =
                                               IF @ = 0 THEN 0 ELSE @ - 1],
             UNCHANGED <<refVars, councilMembers, budgetVars, announcementPeriodNr>>
      PROVE  IndInv'
  <2>1. /\ candidates' = [candidates EXCEPT ![m] = None]
        /\ locks' = RemoveLock(locks, "candidacy", candidates[m].staking_account_id)
        /\ UNCHANGED <<refStage, votes, councilMembers, budget, nextRewardPayments,
                       nextBudgetRefill, budgetIncrement, councilorReward,
                       totalIssuance, announcementPeriodNr>>
    BY <1>3 DEF RemoveCandidacy, refVars, budgetVars
  <2>2. /\ stage' \in CouncilStages /\ stage'.tag = stage.tag
        /\ stage.tag \in {"Idle", "Announcing"} => stage'.ends_at = stage.ends_at
    BY <1>3 DEF IndInv, TypeOK, CouncilStages
  <2>3. candidates' \in [Members -> Candidate \cup {None}]
    BY <2>1 DEF IndInv, TypeOK
  <2>4. candidates[m].staking_account_id \in Accounts
    BY <1>3 DEF IndInv, TypeOK, Candidate
  <2>5. locks' \in LockTables
    BY <2>1, <2>4, LockTableType, CouncilAssumption DEF IndInv, TypeOK, ReferendumTypeOK
  <2>6. TypeOK'
    BY <1>1, <2>1, <2>2, <2>3, <2>5 DEF IndInv, TypeOK, ReferendumTypeOK, BudgetTypeOK
  <2>7. StagesAgree' /\ DeadlinesAhead'
    BY <1>1, <2>1, <2>2 DEF IndInv, StagesAgree, DeadlinesAhead
  <2>8. WinnersCurrent'
    <3>1. CASE refStage.tag = "Revealing"
      <4>1. ~ IsCurrentCandidate(m)
        BY <1>3, <3>1 DEF IndInv, StagesAgree
      <4>2. Winners' = Winners
        BY <2>1 DEF Winners
      <4>3. \A i \in 1 .. Len(Winners) : IsCurrentCandidate(Winners[i].option_id)'
        <5> TAKE i \in 1 .. Len(Winners)
        <5>1. IsCurrentCandidate(Winners[i].option_id) /\ Winners[i].option_id \in Members
          BY <3>1, ElectedAll DEF IndInv, WinnersCurrent
        <5> QED BY <2>1, <4>1, <4>2, <5>1 DEF IsCurrentCandidate, IndInv, TypeOK
      <4> QED BY <2>1, <3>1, <4>2, <4>3 DEF IndInv, WinnersCurrent, Distinct
    <3>2. CASE refStage.tag # "Revealing"
      BY <2>1, <3>2 DEF IndInv, WinnersCurrent
    <3> QED BY <3>1, <3>2
  <2> QED BY <2>6, <2>7, <2>8 DEF IndInv
<1>4. ASSUME NEW m \in Members, ReleaseCandidacyStake(m) PROVE IndInv'
  BY <1>3, <1>4 DEF ReleaseCandidacyStake
<1>5. ASSUME NEW m \in Members, WithdrawCandidacy(m) PROVE IndInv'
  BY <1>3, <1>5 DEF WithdrawCandidacy, IsCurrentCandidate
<1>6. ASSUME NEW m \in Members, NEW note \in Notes, SetCandidacyNote(m, note)
      PROVE  IndInv'
  <2>1. /\ candidates[m] # None
        /\ candidates' = [candidates EXCEPT ![m].note_hash = note]
        /\ UNCHANGED <<refStage, votes, locks, stage, councilMembers, budget,
                       nextRewardPayments, nextBudgetRefill, budgetIncrement,
                       councilorReward, totalIssuance, announcementPeriodNr>>
    BY <1>6 DEF SetCandidacyNote, IsCurrentCandidate, refVars, budgetVars
  <2>2. candidates[m] \in Candidate
    BY <2>1 DEF IndInv, TypeOK
  <2>3. /\ candidates'[m] \in Candidate /\ candidates'[m].cycle_id = candidates[m].cycle_id
        /\ \A k \in Members : k # m => candidates'[k] = candidates[k]
        /\ candidates' \in [Members -> Candidate \cup {None}]
    BY <2>1, <2>2 DEF IndInv, TypeOK, Candidate
  <2>4. \A k \in Members : IsCurrentCandidate(k) => IsCurrentCandidate(k)'
    BY <2>1, <2>3, NoneIsNoCandidate DEF IsCurrentCandidate
  <2>5. TypeOK'
    BY <1>1, <2>1, <2>3 DEF IndInv, TypeOK, ReferendumTypeOK, BudgetTypeOK
  <2>6. StagesAgree' /\ DeadlinesAhead'
    BY <1>1, <2>1 DEF IndInv, StagesAgree, DeadlinesAhead
  <2>7. WinnersCurrent'
    <3>1. CASE refStage.tag = "Revealing"
      <4>1. Winners' = Winners
        BY <2>1 DEF Winners
      <4>2. \A i \in 1 .. Len(Winners) : IsCurrentCandidate(Winners[i].option_id)'
        <5> TAKE i \in 1 .. Len(Winners)
        <5>1. IsCurrentCandidate(Winners[i].option_id) /\ Winners[i].option_id \in Members
          BY <3>1, ElectedAll DEF IndInv, WinnersCurrent
        <5> QED BY <2>4, <4>1, <5>1 DEF IsCurrentCandidate
      <4> QED BY <2>1, <3>1, <4>1, <4>2 DEF IndInv, WinnersCurrent, Distinct
    <3>2. CASE refStage.tag # "Revealing"
      BY <2>1, <3>2 DEF IndInv, WinnersCurrent
    <3> QED BY <3>1, <3>2
  <2> QED BY <2>5, <2>6, <2>7 DEF IndInv
<1>7. ASSUME NEW a \in Voters, votes' \in [Accounts -> CastVote \cup {None}],
             locks' \in LockTables, UNCHANGED refStage,
             UNCHANGED <<councilVars, councilMembers, budgetVars>>
      PROVE  IndInv'
  <2>1. UNCHANGED <<refStage, stage, candidates, announcementPeriodNr, councilMembers,
                    budget, nextRewardPayments, nextBudgetRefill, budgetIncrement,
                    councilorReward, totalIssuance>>
    BY <1>7 DEF councilVars, budgetVars
  <2>2. TypeOK'
    BY <1>1, <1>7, <2>1 DEF IndInv, TypeOK, ReferendumTypeOK, BudgetTypeOK
  <2>3. StagesAgree' /\ DeadlinesAhead'
    BY <1>1, <2>1 DEF IndInv, StagesAgree, DeadlinesAhead
  <2>4. WinnersCurrent'
    BY <2>1 DEF IndInv, WinnersCurrent, IsCurrentCandidate, Winners, Distinct
  <2> QED BY <2>2, <2>3, <2>4 DEF IndInv
<1>8. ASSUME NEW a \in Voters, NEW c \in Members \cup {None}, NEW s \in VoteStakes,
             Vote(a, c, s)
      PROVE  IndInv'
  <2>1. a \in Accounts /\ s \in Nat
    BY CouncilAssumption
  <2>2. locks' \in LockTables
    BY <1>8, <2>1, LockTableType, ReferendumAssumption
    DEF Vote, ReferendumVote, IndInv, TypeOK, ReferendumTypeOK
  <2>3. refStage.current_cycle_id \in Nat
    BY <1>8 DEF Vote, ReferendumVote, CanVote, IndInv, TypeOK, ReferendumTypeOK,
                Inactive, VotingStages, RevealingStages
  <2>4. votes' \in [Accounts -> CastVote \cup {None}]
    BY <1>8, <2>1, <2>3 DEF Vote, ReferendumVote, IndInv, TypeOK, ReferendumTypeOK, CastVote
  <2> QED BY <1>7, <1>8, <2>2, <2>4 DEF Vote, ReferendumVote
<1>9. ASSUME NEW a \in Voters, ReleaseVoteStake(a) PROVE IndInv'
  <2>1. a \in Accounts
    BY CouncilAssumption
  <2>2. locks' \in LockTables /\ votes' \in [Accounts -> CastVote \cup {None}]
    BY <1>9, <2>1, LockTableType, ReferendumAssumption
    DEF ReleaseVoteStake, ReferendumReleaseVoteStake, IndInv, TypeOK, ReferendumTypeOK
  <2> QED BY <1>7, <1>9, <2>2 DEF ReleaseVoteStake, ReferendumReleaseVoteStake
<1>10. ASSUME NEW a \in Voters, NEW m \in Members, RevealVote(a, m) PROVE IndInv'
  <2> DEFINE result == [option_id |-> m,
                        vote_power |-> candidates[m].vote_power + votes[a].stake]
             new == TryWinnerInsert(result, Winners, refStage.winning_target_count)
  <2>1. /\ a \in Accounts /\ refStage.tag = "Revealing" /\ votes[a] # None
        /\ IsCurrentCandidate(m) /\ candidates[m] \in Candidate /\ votes[a] \in CastVote
    BY <1>10, CouncilAssumption
    DEF RevealVote, ReferendumRevealVote, CanRevealVote, IsCurrentCandidate,
        IndInv, TypeOK, ReferendumTypeOK
  <2>2. /\ refStage' = [refStage EXCEPT !.intermediate_winners = new]
        /\ candidates' = [candidates EXCEPT ![m].vote_power = @ + votes[a].stake]
        /\ votes' = [votes EXCEPT ![a].vote_for = m]
        /\ UNCHANGED <<locks, stage, councilMembers, budget,
                       nextRewardPayments, nextBudgetRefill, budgetIncrement,
                       councilorReward, totalIssuance, announcementPeriodNr>>
    BY <1>10 DEF RevealVote, ReferendumRevealVote, Winners, budgetVars
  <2>3. refStage \in RevealingStages
    BY <2>1 DEF IndInv, TypeOK, ReferendumTypeOK, Inactive, VotingStages
  <2>4. result \in OptionResult /\ votes[a].stake \in Nat
    BY <2>1 DEF OptionResult, Candidate, CastVote
  <2> HIDE DEF result
  <2>5. /\ Winners \in Seq(OptionResult) /\ Distinct(Winners)
        /\ refStage.winning_target_count \in Nat \ {0}
        /\ Len(Winners) <= refStage.winning_target_count
        /\ \A i \in 1 .. Len(Winners) : /\ IsCurrentCandidate(Winners[i].option_id)
                                        /\ Winners[i].option_id \in Members
    BY <2>1, <2>3, ElectedAll DEF IndInv, WinnersCurrent, RevealingStages
  <2>6. /\ new \in Seq(OptionResult) /\ Distinct(new)
        /\ Len(new) <= refStage.winning_target_count
        /\ \A i \in 1 .. Len(new) :
              \/ new[i] = result
              \/ \E k \in 1 .. Len(Winners) : new[i] = Winners[k]
    <3>1. Inserted(new, result, Winners, refStage.winning_target_count)
      BY <2>4, <2>5, WinnerInsert
    <3> HIDE DEF new
    <3> QED BY <3>1 DEF Inserted
  <2> HIDE DEF new
  <2>7. /\ refStage' \in RevealingStages /\ Winners' = new
        /\ refStage'.tag = "Revealing" /\ refStage'.ends_at = refStage.ends_at
        /\ refStage'.current_cycle_id = refStage.current_cycle_id
        /\ refStage'.winning_target_count = refStage.winning_target_count
    BY <2>2, <2>3, <2>6 DEF RevealingStages, Winners
  <2>8. /\ candidates'[m] \in Candidate /\ candidates'[m].cycle_id = candidates[m].cycle_id
        /\ \A k \in Members : k # m => candidates'[k] = candidates[k]
        /\ candidates' \in [Members -> Candidate \cup {None}]
    <3>1. candidates \in [Members -> Candidate \cup {None}]
      BY DEF IndInv, TypeOK
    <3> DEFINE upd == [candidates[m] EXCEPT !.vote_power = @ + votes[a].stake]
    <3>2. upd \in Candidate /\ upd.cycle_id = candidates[m].cycle_id
      BY <2>1, <2>4 DEF Candidate
    <3>3. candidates' = [candidates EXCEPT ![m] = upd]
      BY <2>2, <3>1
    <3> HIDE DEF upd
    <3> QED BY <3>1, <3>2, <3>3
  <2>9. votes' \in [Accounts -> CastVote \cup {None}]
    BY <2>1, <2>2 DEF IndInv, TypeOK, ReferendumTypeOK, CastVote
  <2>10. TypeOK'
    BY <1>1, <2>2, <2>7, <2>8, <2>9 DEF IndInv, TypeOK, ReferendumTypeOK, BudgetTypeOK
  <2>11. StagesAgree' /\ DeadlinesAhead'
    BY <1>1, <2>1, <2>2, <2>7 DEF IndInv, StagesAgree, DeadlinesAhead
  <2>12. \A k \in Members : IsCurrentCandidate(k) => IsCurrentCandidate(k)'
    BY <2>2, <2>8, NoneIsNoCandidate DEF IsCurrentCandidate
  <2>13. \A i \in 1 .. Len(new) : \A k \in Members :
             k = new[i].option_id => IsCurrentCandidate(k)'
    BY <2>1, <2>5, <2>6, <2>12 DEF result
  <2>14. WinnersCurrent'
    <3>1. \A i \in 1 .. Len(new) : new[i].option_id \in Members
      <4> TAKE i \in 1 .. Len(new)
      <4>1. new[i] \in OptionResult
        BY <2>6, ElementOfSeq
      <4> QED BY <4>1 DEF OptionResult
    <3> DEFINE W == Winners'
    <3>2. W = new
      BY <2>7
    <3>3. \A i \in 1 .. Len(W) : /\ candidates'[W[i].option_id] # None
                                  /\ candidates'[W[i].option_id].cycle_id
                                        = announcementPeriodNr'
      BY <2>13, <3>1, <3>2 DEF IsCurrentCandidate
    <3>4. Len(W) <= refStage'.winning_target_count /\ Distinct(W)
      BY <2>6, <2>7, <3>2
    <3>5. refStage'.winning_target_count >= 1
      BY <2>1, <2>7 DEF IndInv, WinnersCurrent
    <3> QED BY <3>3, <3>4, <3>5 DEF WinnersCurrent, Distinct, IsCurrentCandidate
  <2> QED BY <2>10, <2>11, <2>14 DEF IndInv
<1>11. ASSUME BudgetExtrinsic, UNCHANGED <<refVars, locks, councilMembers, councilVars>>
       PROVE  IndInv'
  <2>1. UNCHANGED <<refStage, votes, locks, councilMembers, stage, candidates,
                    announcementPeriodNr>>
    BY <1>11 DEF refVars, councilVars
  <2>2. BudgetTypeOK' /\ nextRewardPayments' = nextRewardPayments
    BY <1>11, <2>1, BudgetAssumption
    DEF BudgetExtrinsic, SetBudget, PlanBudgetRefill, SetBudgetIncrement,
        SetCouncilorReward, FundingRequest, FundCouncilBudget, TryWithdraw,
        IndInv, TypeOK, BudgetTypeOK
  <2>3. TypeOK'
    BY <1>1, <2>1, <2>2 DEF IndInv, TypeOK, ReferendumTypeOK
  <2>4. StagesAgree' /\ DeadlinesAhead'
    BY <1>1, <2>1, <2>2 DEF IndInv, StagesAgree, DeadlinesAhead
  <2>5. WinnersCurrent'
    BY <2>1 DEF IndInv, WinnersCurrent, IsCurrentCandidate, Winners, Distinct
  <2> QED BY <2>3, <2>4, <2>5 DEF IndInv
<1> QED
  BY <1>2, <1>4, <1>5, <1>6, <1>8, <1>9, <1>10, <1>11 DEF Extrinsic

(* Every hook, every extrinsic and stuttering preserve the invariant. *)
LEMMA NextIndInv == IndInv /\ [Next]_vars => IndInv'
<1> SUFFICES ASSUME IndInv, [Next]_vars PROVE IndInv'
  OBVIOUS
<1>1. CASE UNCHANGED vars
  BY <1>1 DEF vars, budgetVars, IndInv, TypeOK, ReferendumTypeOK, BudgetTypeOK,
              StagesAgree, DeadlinesAhead, WinnersCurrent, Winners, Distinct,
              IsCurrentCandidate
<1>2. CASE Next
  BY <1>1, <1>2, CouncilHookStep, ReferendumHookStep, ExtrinsicStep DEF Next, Horizon
<1> QED BY <1>1, <1>2

(* The election cycle's inductive invariant: types, agreeing stages,       *)
(* deadlines ahead, and winners that are candidates of this cycle.         *)
THEOREM StageMachine == Spec => []IndInv
<1>1. Init => IndInv
  BY InitIndInv
<1>2. IndInv /\ [Next]_vars => IndInv'
  BY NextIndInv
<1> QED BY <1>1, <1>2, PTL DEF Spec

(* The state of the referendum, the council and its treasury stays within  *)
(* its types: no record is ever incomplete, no balance or count negative.  *)
THEOREM TypeCorrect == Spec => []TypeOK
<1>1. IndInv => TypeOK
  BY DEF IndInv
<1> QED BY <1>1, StageMachine, PTL

(* The council's Stage and the referendum's Stage, changed by hooks that   *)
(* call each other, never disagree on whether and which election runs.     *)
THEOREM StagesNeverDisagree == Spec => []StagesAgree
<1>1. IndInv => StagesAgree
  BY DEF IndInv
<1> QED BY <1>1, StageMachine, PTL

(* No stage outlives its end block, for all durations of at least one      *)
(* block: the equality tests of try_progress_stage are never missed.       *)
THEOREM DeadlinesNeverMissed == Spec => []DeadlinesAhead
<1>1. IndInv => DeadlinesAhead
  BY DEF IndInv
<1> QED BY <1>1, StageMachine, PTL
=============================================================================
