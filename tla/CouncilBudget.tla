---------------------------- MODULE CouncilBudget ----------------------------
(***************************************************************************)
(* The council's treasury (runtime-modules/council, budget and rewards).   *)
(*                                                                         *)
(* The budget is refilled periodically and pays the councilors' rewards,   *)
(* in the order of the CouncilMembers vector, until it is exhausted; what  *)
(* a councilor could not be paid is kept as their unpaid reward.  Tokens   *)
(* paid out are minted, tokens given to the council are burned: the        *)
(* accounts of the receivers and givers are abstracted to the total        *)
(* issuance of pallet_balances.                                            *)
(***************************************************************************)
EXTENDS Referendum

CONSTANTS
    ElectedMemberRewardPeriod,
    BudgetRefillPeriod,
    RewardChoices,       \* inputs of set_councilor_reward
    IncrementChoices,    \* inputs of set_budget_increment
    BudgetChoices,       \* inputs of set_budget
    RefillChoices,       \* inputs of plan_budget_refill
    Amounts,             \* totals of the requests and funds moved
    InitialIssuance,     \* tokens held by the accounts at genesis
    InitialIncrement,    \* genesis budget_increment
    InitialReward,       \* genesis councilor_reward
    MaxBlock,            \* bound on the block number
    MaxFunds             \* bound on the tokens root creates by set_budget

ASSUME BudgetAssumption ==
    /\ ElectedMemberRewardPeriod \in Nat \ {0}
    /\ BudgetRefillPeriod \in Nat \ {0}
    /\ RewardChoices \subseteq Nat
    /\ IncrementChoices \subseteq Nat
    /\ BudgetChoices \subseteq Nat
    /\ RefillChoices \subseteq Nat
    /\ Amounts \subseteq Nat
    /\ InitialIssuance \in Nat
    /\ InitialIncrement \in Nat
    /\ InitialReward \in Nat
    /\ MaxBlock \in Nat
    /\ MaxFunds \in Nat

VARIABLES
    councilMembers,      \* CouncilMembers
    budget,              \* Budget
    nextRewardPayments,  \* NextRewardPayments
    nextBudgetRefill,    \* NextBudgetRefill
    budgetIncrement,     \* BudgetIncrement
    councilorReward,     \* CouncilorReward, per block
    totalIssuance        \* TotalIssuance of pallet_balances

budgetVars == <<budget, nextRewardPayments, nextBudgetRefill, budgetIncrement,
                councilorReward, totalIssuance>>

CouncilMember == [staking_account_id : Accounts, membership_id : Members,
                  stake : Nat, last_payment_block : Nat, unpaid_reward : Nat]

BudgetTypeOK ==
    /\ councilMembers \in Seq(CouncilMember)
    /\ budget \in Nat
    /\ nextRewardPayments \in Nat
    /\ nextBudgetRefill \in Nat
    /\ budgetIncrement \in Nat
    /\ councilorReward \in Nat
    /\ totalIssuance \in Nat

(* Genesis of the chain specification: no council, no payment planned (a   *)
(* payment at block 0 never falls due), first refill in block 1.           *)
BudgetInit ==
    /\ councilMembers = <<>>
    /\ budget = 0
    /\ nextRewardPayments = 0
    /\ nextBudgetRefill = 1
    /\ budgetIncrement = InitialIncrement
    /\ councilorReward = InitialReward
    /\ totalIssuance = InitialIssuance

-----------------------------------------------------------------------------
(* Reward payments.                                                        *)

(* Calculations::get_current_reward in block n. *)
CurrentReward(cm, n) ==
    cm.unpaid_reward
      + (IF n > cm.last_payment_block THEN n - cm.last_payment_block ELSE 0)
          * councilorReward

(* Calculations::payable_reward: what a balance can pay of a reward. *)
PayableReward(balance, reward) == IF reward <= balance THEN reward ELSE balance

(* The fold of pay_elected_member_rewards: rem[i] is what is left of the   *)
(* balance b after the first i councilors.                                 *)
PaysInOrder(b, n, rem) ==
    /\ rem[0] = b
    /\ \A i \in 1 .. Len(councilMembers) :
          rem[i] = rem[i - 1]
                     - PayableReward(rem[i - 1], CurrentReward(councilMembers[i], n))

Remainders(b) == [0 .. Len(councilMembers) -> 0 .. b]

(* Faulty variants: the missing part is computed the wrong way around, or  *)
(* not kept.                                                               *)
AfterPaymentSwapped(cm, n, before, after) ==
    IF before = 0 \/ CurrentReward(cm, n) = 0 THEN cm
    ELSE [cm EXCEPT !.last_payment_block = n,
                    !.unpaid_reward = (before - after) - CurrentReward(cm, n)]

AfterPaymentForgets(cm, n, before, after) ==
    IF before = 0 \/ CurrentReward(cm, n) = 0 THEN cm
    ELSE [cm EXCEPT !.last_payment_block = n, !.unpaid_reward = 0]

(* A councilor who is owed nothing, or whom an empty budget pays nothing,  *)
(* is left untouched.                                                      *)
AfterPayment(cm, n, before, after) ==
    IF before = 0 \/ CurrentReward(cm, n) = 0 THEN cm
    ELSE [cm EXCEPT !.last_payment_block = n,
                    !.unpaid_reward = CurrentReward(cm, n) - (before - after)]

PaidCouncil(n, rem) ==
    [i \in 1 .. Len(councilMembers) |->
        AfterPayment(councilMembers[i], n, rem[i - 1], rem[i])]

(* Faulty variant: the payments are minted and the budget is not charged. *)
PayRewardsUncharged(b, n, rem) ==
    /\ PaysInOrder(b, n, rem)
    /\ budget' = b
    /\ totalIssuance' = totalIssuance + (b - rem[Len(councilMembers)])
    /\ nextRewardPayments' = n + ElectedMemberRewardPeriod

(* pay_elected_member_rewards, without the store of CouncilMembers, which  *)
(* an election overwrites at once.                                         *)
PayElectedMemberRewards(b, n, rem) ==
    /\ PaysInOrder(b, n, rem)
    /\ budget' = rem[Len(councilMembers)]
    /\ totalIssuance' = totalIssuance + (b - rem[Len(councilMembers)])
    /\ nextRewardPayments' = n + ElectedMemberRewardPeriod

(* try_process_budget in block n: the refill comes before the payments. *)
BudgetAfterRefill(n) ==
    IF n = nextBudgetRefill THEN budget + budgetIncrement ELSE budget

TryProcessBudget(n) ==
    /\ nextBudgetRefill' = IF n = nextBudgetRefill THEN n + BudgetRefillPeriod
                           ELSE nextBudgetRefill
    /\ \/ /\ n = nextRewardPayments
          /\ \E rem \in Remainders(BudgetAfterRefill(n)) :
                /\ PayElectedMemberRewards(BudgetAfterRefill(n), n, rem)
                /\ councilMembers' = PaidCouncil(n, rem)
       \/ /\ n # nextRewardPayments
          /\ budget' = BudgetAfterRefill(n)
          /\ UNCHANGED <<nextRewardPayments, totalIssuance, councilMembers>>
    /\ UNCHANGED <<budgetIncrement, councilorReward>>

-----------------------------------------------------------------------------
(* Extrinsics, all but fund_council_budget for root.                       *)

SetBudget(b) ==
    /\ budget' = b
    /\ UNCHANGED <<nextRewardPayments, nextBudgetRefill, budgetIncrement,
                   councilorReward, totalIssuance>>

PlanBudgetRefill(n) ==
    /\ nextBudgetRefill' = n
    /\ UNCHANGED <<budget, nextRewardPayments, budgetIncrement,
                   councilorReward, totalIssuance>>

SetBudgetIncrement(i) ==
    /\ budgetIncrement' = i
    /\ UNCHANGED <<budget, nextRewardPayments, nextBudgetRefill,
                   councilorReward, totalIssuance>>

SetCouncilorReward(r) ==
    /\ councilorReward' = r
    /\ UNCHANGED <<budget, nextRewardPayments, nextBudgetRefill,
                   budgetIncrement, totalIssuance>>

(* A list of positive amounts for distinct accounts, by its total. *)
FundingRequest(total) ==
    /\ total <= budget
    /\ total > 0
    /\ budget' = budget - total
    /\ totalIssuance' = totalIssuance + total
    /\ UNCHANGED <<nextRewardPayments, nextBudgetRefill, budgetIncrement,
                   councilorReward>>

(* Faulty variant: the gift is not burned. *)
FundCouncilBudgetUnburned(amount) ==
    /\ amount > 0
    /\ totalIssuance >= amount
    /\ budget' = budget + amount
    /\ UNCHANGED <<nextRewardPayments, nextBudgetRefill, budgetIncrement,
                   councilorReward, totalIssuance>>

(* The usable balance of the giver is part of the total issuance. *)
FundCouncilBudget(amount) ==
    /\ amount > 0
    /\ totalIssuance >= amount
    /\ totalIssuance' = totalIssuance - amount
    /\ budget' = budget + amount
    /\ UNCHANGED <<nextRewardPayments, nextBudgetRefill, budgetIncrement,
                   councilorReward>>

(* CouncilBudgetManager::try_withdraw, called by the other pallets. *)
TryWithdraw(amount) ==
    /\ budget >= amount
    /\ totalIssuance' = totalIssuance + amount
    /\ budget' = budget - amount
    /\ UNCHANGED <<nextRewardPayments, nextBudgetRefill, budgetIncrement,
                   councilorReward>>

BudgetExtrinsic ==
    \/ \E b \in BudgetChoices : b + totalIssuance <= MaxFunds /\ SetBudget(b)
    \/ \E n \in RefillChoices : PlanBudgetRefill(n)
    \/ \E i \in IncrementChoices : SetBudgetIncrement(i)
    \/ \E r \in RewardChoices : SetCouncilorReward(r)
    \/ \E t \in Amounts : FundingRequest(t)
    \/ \E x \in Amounts : FundCouncilBudget(x)
    \/ \E x \in Amounts : TryWithdraw(x)
=============================================================================
