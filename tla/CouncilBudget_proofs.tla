------------------------ MODULE CouncilBudget_proofs ------------------------
(***************************************************************************)
(* Theorems about the council's treasury: tokens are conserved, and        *)
(* councilors are paid in full or until the budget is exhausted.           *)
(***************************************************************************)
EXTENDS Council_proofs

(* What the rewards take from the budget is minted for the councilors. *)
LEMMA RewardsMoveFunds ==
    ASSUME BudgetTypeOK, NEW b \in Nat, NEW n \in Nat, NEW rem \in Remainders(b),
           PayElectedMemberRewards(b, n, rem)
    PROVE  budget' + totalIssuance' = b + totalIssuance
<1>1. rem[Len(councilMembers)] \in 0 .. b
  BY RewardsType DEF PayElectedMemberRewards
<1> QED BY <1>1 DEF PayElectedMemberRewards, BudgetTypeOK

(* Tokens are created only by the refill that falls due in this block and  *)
(* by root; paying rewards, funding and withdrawing only move them.        *)
THEOREM FundsAreConserved == Spec => FundsConserved
<1> DEFINE Conserved ==
       \/ budget' + totalIssuance' = budget + totalIssuance
       \/ /\ now' = now + 1 /\ now' = nextBudgetRefill
          /\ budget' + totalIssuance' = budget + totalIssuance + budgetIncrement
       \/ /\ now' = now /\ hook' = hook
          /\ budget' \in BudgetChoices /\ totalIssuance' = totalIssuance
<1>1. IndInv /\ [Next]_vars => Conserved
  <2> SUFFICES ASSUME IndInv, [Next]_vars PROVE Conserved
    OBVIOUS
  <2>0. BudgetTypeOK /\ now \in Nat /\ budget \in Nat /\ totalIssuance \in Nat
        /\ budgetIncrement \in Nat
    BY DEF IndInv, TypeOK, ReferendumTypeOK, BudgetTypeOK
  <2>1. ASSUME UNCHANGED budgetVars PROVE Conserved
    BY <2>1 DEF budgetVars
  <2>2. CASE UNCHANGED vars \/ Horizon
    BY <2>1, <2>2 DEF vars, Horizon
  <2>3. CASE CouncilOnInitialize
    <3> DEFINE n == now + 1
               b == BudgetAfterRefill(n)
    <3>1. n \in Nat /\ b \in Nat /\ TryProcessBudget(n) /\ now' = n
      BY <2>0, <2>3 DEF CouncilOnInitialize, BudgetAfterRefill
    <3>2. budget' + totalIssuance' = b + totalIssuance
      <4> HIDE DEF n
      <4>1. CASE n = nextRewardPayments
        BY <2>0, <3>1, <4>1, RewardsMoveFunds DEF TryProcessBudget
      <4>2. CASE n # nextRewardPayments
        BY <3>1, <4>2 DEF TryProcessBudget
      <4> QED BY <4>1, <4>2
    <3> QED BY <2>0, <3>1, <3>2 DEF BudgetAfterRefill
  <2>4. CASE ReferendumOnInitialize
    <3>1. CASE ConcludeReferendum /\ ElectNewCouncil
      BY <2>0, <3>1, RewardsMoveFunds DEF ElectNewCouncil
    <3>2. CASE ~ (ConcludeReferendum /\ ElectNewCouncil)
      BY <2>1, <2>4, <3>2 DEF ReferendumOnInitialize, NewCouncilNotElected,
                              NoReferendumProgress
    <3> QED BY <3>1, <3>2
  <2>5. CASE Extrinsic
    <3>1. ASSUME BudgetExtrinsic, UNCHANGED <<now, hook>> PROVE Conserved
      BY <2>0, <3>1, BudgetAssumption
      DEF BudgetExtrinsic, SetBudget, PlanBudgetRefill, SetBudgetIncrement,
          SetCouncilorReward, FundingRequest, FundCouncilBudget, TryWithdraw
    <3> HIDE DEF Conserved
    <3> QED BY <2>1, <2>5, <3>1
            DEF Extrinsic, AnnounceCandidacy, ReleaseCandidacyStake, WithdrawCandidacy,
                SetCandidacyNote, Vote, RevealVote, ReleaseVoteStake
  <2> QED BY <2>2, <2>3, <2>4, <2>5 DEF Next
<1>2. IndInv /\ [Next]_vars => [Conserved]_vars
  BY <1>1
<1> QED BY <1>2, StageMachine, PTL DEF Spec, FundsConserved

-----------------------------------------------------------------------------
(* Payments.                                                               *)

(* What a councilor is owed in block n, when n is not before their last    *)
(* payment; and that no payment lies in the future.                        *)
Owed(cm, n) == cm.unpaid_reward + (n - cm.last_payment_block) * councilorReward

PaymentsPast ==
    \A i \in 1 .. Len(councilMembers) : councilMembers[i].last_payment_block <= now

(* One payment, from a balance of x that leaves y: what is paid and what   *)
(* stays owed is what was owed, and something stays owed only when nothing *)
(* is left.                                                                *)
Balanced(cm, new, n, x, y) ==
    /\ new.last_payment_block <= n
    /\ Owed(cm, n) \in Nat /\ Owed(new, n) \in Nat
    /\ Owed(cm, n) = (x - y) + Owed(new, n)
    /\ y = 0 \/ Owed(new, n) = 0
    /\ x = 0 => y = 0

(* What a balance can pay of a reward, and the record of what it cannot.   *)
LEMMA PaymentBalance ==
    ASSUME NEW n \in Nat, NEW cm \in CouncilMember, cm.last_payment_block <= n,
           councilorReward \in Nat, NEW x \in Nat, NEW y \in Nat,
           y = x - PayableReward(x, CurrentReward(cm, n)),
           NEW new, new = AfterPayment(cm, n, x, y)
    PROVE  Balanced(cm, new, n, x, y)
<1> USE DEF Balanced
<1> DEFINE d == CurrentReward(cm, n)
<1>1. /\ cm.unpaid_reward \in Nat /\ cm.last_payment_block \in Nat
  BY DEF CouncilMember
<1>2. d = Owed(cm, n)
  <2>1. (IF n > cm.last_payment_block THEN n - cm.last_payment_block ELSE 0)
           = n - cm.last_payment_block
    BY <1>1
  <2> QED BY <2>1 DEF CurrentReward, Owed
<1>3. d \in Nat
  <2>1. \A u, v, w \in Nat : w + u * v \in Nat
    OBVIOUS
  <2>2. n - cm.last_payment_block \in Nat
    BY <1>1
  <2> QED BY <1>1, <1>2, <2>1, <2>2 DEF Owed
<1> HIDE DEF d
<1>4. /\ x = 0 => y = 0
      /\ y = 0 \/ x - y = d
      /\ x - y <= d
  BY <1>3 DEF PayableReward, d
<1>5. CASE x = 0 \/ d = 0
  <2>1. new = cm
    BY <1>5 DEF AfterPayment, d
  <2>2. x = y /\ (y = 0 \/ d = 0)
    BY <1>3, <1>4, <1>5
  <2> QED BY <1>1, <1>2, <1>3, <1>4, <2>1, <2>2
<1>6. CASE x # 0 /\ d # 0
  <2>1. d - (x - y) \in Nat
    BY <1>3, <1>4
  <2>2. /\ new \in CouncilMember /\ new.last_payment_block = n
        /\ new.unpaid_reward = d - (x - y)
    BY <1>6, <2>1 DEF AfterPayment, d, CouncilMember
  <2>3. Owed(new, n) = d - (x - y)
    <3>1. new.unpaid_reward + 0 * councilorReward = new.unpaid_reward
      BY <2>1, <2>2
    <3>2. n - new.last_payment_block = 0
      BY <2>2
    <3> QED BY <2>2, <3>1, <3>2 DEF Owed
  <2>4. d = (x - y) + (d - (x - y)) /\ (y = 0 \/ d - (x - y) = 0)
    BY <1>3, <1>4
  <2>5. new.last_payment_block <= n
    BY <2>2
  <2>6. Owed(cm, n) \in Nat /\ Owed(new, n) \in Nat
    BY <1>2, <1>3, <2>1, <2>3
  <2>7. Owed(cm, n) = (x - y) + Owed(new, n) /\ (y = 0 \/ Owed(new, n) = 0)
    BY <1>2, <2>3, <2>4
  <2> QED BY <1>4, <2>5, <2>6, <2>7
<1> QED BY <1>5, <1>6

(* The payments of a council, one by one. *)
LEMMA CouncilPayments ==
    ASSUME BudgetTypeOK, NEW b \in Nat, NEW n \in Nat, NEW rem \in Remainders(b),
           PaysInOrder(b, n, rem), councilMembers' = PaidCouncil(n, rem),
           \A i \in 1 .. Len(councilMembers) : councilMembers[i].last_payment_block <= n
    PROVE  /\ Len(councilMembers') = Len(councilMembers)
           /\ rem[0] = b /\ \A i \in 0 .. Len(councilMembers) : rem[i] \in Nat
           /\ \A i \in 1 .. Len(councilMembers) :
                 Balanced(councilMembers[i], councilMembers'[i], n, rem[i - 1], rem[i])
<1> DEFINE L == Len(councilMembers)
<1>1. L \in Nat /\ councilMembers \in [1 .. L -> CouncilMember] /\ councilorReward \in Nat
  BY DEF BudgetTypeOK
<1>2. rem \in [0 .. L -> 0 .. b] /\ rem[0] = b
  BY DEF Remainders, PaysInOrder
<1>3. /\ Len(councilMembers') = L
      /\ \A i \in 1 .. L :
            councilMembers'[i] = AfterPayment(councilMembers[i], n, rem[i - 1], rem[i])
  BY <1>1 DEF PaidCouncil, BudgetTypeOK
<1>4. \A i \in 1 .. L : rem[i - 1] \in Nat /\ rem[i] \in Nat /\ councilMembers[i] \in CouncilMember
  BY <1>1, <1>2
<1>5. \A i \in 1 .. L : rem[i] = rem[i - 1]
            - PayableReward(rem[i - 1], CurrentReward(councilMembers[i], n))
  BY DEF PaysInOrder
<1>6. \A i \in 0 .. L : rem[i] \in Nat
  BY <1>1, <1>2
<1> SUFFICES ASSUME NEW i \in 1 .. L
             PROVE  Balanced(councilMembers[i], councilMembers'[i], n, rem[i - 1], rem[i])
  BY <1>2, <1>3, <1>6
<1> DEFINE cm == councilMembers[i]
           new == councilMembers'[i]
<1>7. /\ cm \in CouncilMember /\ cm.last_payment_block <= n
      /\ rem[i - 1] \in Nat /\ rem[i] \in Nat
      /\ rem[i] = rem[i - 1] - PayableReward(rem[i - 1], CurrentReward(cm, n))
      /\ new = AfterPayment(cm, n, rem[i - 1], rem[i])
  BY <1>3, <1>4, <1>5
<1> HIDE DEF cm, new
<1>8. Balanced(cm, new, n, rem[i - 1], rem[i])
  BY <1>1, <1>7, PaymentBalance
<1> QED BY <1>8 DEF cm, new

(* An exhausted budget stays exhausted to the end of the list. *)
LEMMA ExhaustedStays ==
    ASSUME NEW L \in Nat, NEW r, \A i \in 1 .. L : r[i - 1] = 0 => r[i] = 0,
           NEW i \in 0 .. L, r[i] = 0
    PROVE  r[L] = 0
<1> DEFINE N == {k \in i .. L : r[k] # 0}
<1> SUFFICES ASSUME N # {} PROVE FALSE
  OBVIOUS
<1>1. PICK k \in N : \A j \in N : k <= j
  <2>1. N \subseteq Nat
    OBVIOUS
  <2> HIDE DEF N
  <2> QED BY <2>1, LeastNatural
<1>2. k \in i .. L /\ k # i /\ r[k] # 0
  BY <1>1
<1>3. k - 1 \in i .. L /\ k \in 1 .. L /\ ~ (k <= k - 1)
  BY <1>2
<1>4. r[k - 1] = 0
  BY <1>1, <1>3
<1> QED BY <1>2, <1>3, <1>4

(* The payment blocks are blocks. *)
LEMMA CouncilPastBlocks ==
    ASSUME BudgetTypeOK
    PROVE  \A i \in 1 .. Len(councilMembers) : councilMembers[i].last_payment_block \in Nat
<1>1. \A i \in 1 .. Len(councilMembers) : councilMembers[i] \in CouncilMember
  BY DEF BudgetTypeOK
<1> QED BY <1>1 DEF CouncilMember

(* No councilor is ever recorded as paid in a later block. *)
LEMMA NextPaymentsPast == IndInv /\ PaymentsPast /\ [Next]_vars => PaymentsPast'
<1> SUFFICES ASSUME IndInv, PaymentsPast, [Next]_vars PROVE PaymentsPast'
  OBVIOUS
<1>0. BudgetTypeOK /\ now \in Nat /\ budget \in Nat /\ budgetIncrement \in Nat
  BY DEF IndInv, TypeOK, ReferendumTypeOK, BudgetTypeOK
<1>1. ASSUME UNCHANGED <<councilMembers, now>> PROVE PaymentsPast'
  BY <1>1 DEF PaymentsPast
<1>2. CASE UNCHANGED vars \/ Horizon
  BY <1>1, <1>2 DEF vars, Horizon
<1>3. CASE CouncilOnInitialize
  <2> DEFINE n == now + 1
             b == BudgetAfterRefill(n)
  <2>1. n \in Nat /\ b \in Nat /\ TryProcessBudget(n) /\ now' = n
    BY <1>0, <1>3 DEF CouncilOnInitialize, BudgetAfterRefill
  <2>2. \A i \in 1 .. Len(councilMembers) : councilMembers[i].last_payment_block <= n
    BY <1>0, CouncilPastBlocks DEF PaymentsPast
  <2> HIDE DEF n, b
  <2>3. CASE councilMembers' = councilMembers
    BY <2>1, <2>2, <2>3 DEF PaymentsPast
  <2>4. CASE \E rem \in Remainders(b) : PaysInOrder(b, n, rem)
                                        /\ councilMembers' = PaidCouncil(n, rem)
    BY <1>0, <2>1, <2>2, <2>4, CouncilPayments DEF PaymentsPast, Balanced
  <2> QED BY <2>1, <2>3, <2>4 DEF TryProcessBudget, PayElectedMemberRewards, b
<1>4. CASE ReferendumOnInitialize
  <2>1. CASE ConcludeReferendum /\ ElectNewCouncil
    <3>1. refStage.tag = "Revealing" /\ councilMembers' = ElectedMembers /\ now' = now
      BY <1>4, <2>1 DEF ReferendumOnInitialize, ConcludeReferendum, ElectNewCouncil
    <3>2. Len(ElectedMembers) = Len(ElectedOptions) /\ Len(ElectedOptions) \in Nat
      BY <3>1, ElectedAll
    <3>3. \A i \in 1 .. Len(ElectedMembers) : ElectedMembers[i].last_payment_block = now
      BY <3>2 DEF ElectedMembers, ElectedMember
    <3> QED BY <1>0, <3>1, <3>3 DEF PaymentsPast
  <2>2. CASE ~ (ConcludeReferendum /\ ElectNewCouncil)
    BY <1>1, <1>4, <2>2 DEF ReferendumOnInitialize, NewCouncilNotElected, NoReferendumProgress
  <2> QED BY <2>1, <2>2
<1>5. CASE Extrinsic
  BY <1>1, <1>5 DEF Extrinsic, AnnounceCandidacy, ReleaseCandidacyStake, WithdrawCandidacy,
     SetCandidacyNote, Vote, RevealVote, ReleaseVoteStake
<1> QED BY <1>2, <1>3, <1>4, <1>5 DEF Next

(* Whatever the size of the council and the budget: when councilors are    *)
(* paid, a reward stays owed only when the budget is exhausted, and what   *)
(* is paid and what stays owed add up to what was owed.                    *)
THEOREM RewardsArePaid == Spec => RewardsPaidInFull
<1> DEFINE all == 1 .. Len(councilMembers)
           owed(cm) == cm.unpaid_reward
                         + (now' - cm.last_payment_block) * councilorReward
           due == [i \in all |-> owed(councilMembers[i])]
           left == [i \in all |-> owed(councilMembers'[i])]
           Full == now' = now + 1 /\ now' = nextRewardPayments =>
              /\ budget' = 0 \/ \A i \in all : left[i] = 0
              /\ MapThenSumSet(LAMBDA i : due[i], all) =
                   (totalIssuance' - totalIssuance)
                     + MapThenSumSet(LAMBDA i : left[i], all)
<1>1. IndInv /\ PaymentsPast /\ [Next]_vars => Full
  <2> SUFFICES ASSUME IndInv, PaymentsPast, [Next]_vars,
                      now' = now + 1, now' = nextRewardPayments
               PROVE  /\ budget' = 0 \/ \A i \in all : left[i] = 0
                      /\ SumOver(due, all) = (totalIssuance' - totalIssuance)
                                                + SumOver(left, all)
    BY DEF SumOver
  <2>0. /\ BudgetTypeOK /\ now \in Nat /\ budget \in Nat /\ budgetIncrement \in Nat
        /\ totalIssuance \in Nat /\ Len(councilMembers) \in Nat
    BY DEF IndInv, TypeOK, ReferendumTypeOK, BudgetTypeOK
  <2> DEFINE n == now + 1
             b == BudgetAfterRefill(n)
             L == Len(councilMembers)
  <2>1. now' # now
    BY <2>0
  <2>2. CouncilOnInitialize
    BY <2>1 DEF Next, Extrinsic, ReferendumOnInitialize, Horizon, vars
  <2>3. n \in Nat /\ b \in Nat /\ TryProcessBudget(n) /\ n = nextRewardPayments
    BY <2>0, <2>2 DEF CouncilOnInitialize, BudgetAfterRefill
  <2>4. \A i \in 1 .. L : councilMembers[i].last_payment_block <= n
    BY <2>0, CouncilPastBlocks DEF PaymentsPast
  <2>5. /\ \A i \in 1 .. L : due[i] = Owed(councilMembers[i], n)
        /\ \A i \in 1 .. L : left[i] = Owed(councilMembers'[i], n)
    BY DEF Owed
  <2> HIDE DEF n, b, L, due, left
  <2>6. PICK rem \in Remainders(b) : /\ PayElectedMemberRewards(b, n, rem)
                                     /\ councilMembers' = PaidCouncil(n, rem)
    BY <2>3 DEF TryProcessBudget, b
  <2>7. /\ rem[0] = b /\ \A i \in 0 .. L : rem[i] \in Nat
        /\ \A i \in 1 .. L :
              Balanced(councilMembers[i], councilMembers'[i], n, rem[i - 1], rem[i])
    BY <2>0, <2>3, <2>4, <2>6, CouncilPayments DEF PayElectedMemberRewards, L
  <2>8. budget' = rem[L] /\ totalIssuance' = totalIssuance + (b - rem[L])
    BY <2>6 DEF PayElectedMemberRewards, L
  <2>9. budget' = 0 \/ \A i \in 1 .. L : left[i] = 0
    <3> SUFFICES ASSUME NEW i \in 1 .. L, left[i] # 0 PROVE budget' = 0
      OBVIOUS
    <3>1. rem[i] = 0 /\ i \in 0 .. L /\ L \in Nat
      BY <2>0, <2>5, <2>7 DEF L, Balanced
    <3>2. \A j \in 1 .. L : rem[j - 1] = 0 => rem[j] = 0
      BY <2>7 DEF Balanced
    <3>3. rem[L] = 0
      BY <3>1, <3>2, ExhaustedStays
    <3> QED BY <2>8, <3>3
  <2>10. SumOver(due, 1 .. L) = (rem[0] - rem[L]) + SumOver(left, 1 .. L)
    <3>1. L \in Nat /\ StepsDown(due, left, rem, L)
      BY <2>0, <2>5, <2>7 DEF L, Balanced, StepsDown
    <3> QED BY <3>1, SumTelescopes
  <2>11. totalIssuance' - totalIssuance = rem[0] - rem[L]
    <3>1. rem[L] \in Nat
      BY <2>0, <2>7 DEF L
    <3> QED BY <2>0, <2>3, <2>7, <2>8, <3>1
  <2> QED BY <2>9, <2>10, <2>11 DEF L
<1>2. IndInv /\ PaymentsPast /\ [Next]_vars => [Full]_vars
  BY <1>1
<1>3. Init => PaymentsPast
  BY DEF Init, BudgetInit, PaymentsPast
<1>4. Spec => []PaymentsPast
  BY <1>3, NextPaymentsPast, StageMachine, PTL DEF Spec
<1> QED BY <1>2, <1>4, StageMachine, PTL DEF Spec, RewardsPaidInFull
=============================================================================
