\* Under block production alone: every stage ends, and a two-seat council is paid from a budget that all move.
SPECIFICATION FairSpec
CONSTANTS
    None = None
    m1 = m1  m2 = m2  m3 = m3
    s1 = s1  s2 = s2  s3 = s3
    v1 = v1  v2 = v2  v3 = v3  v4 = v4
    LockIds <- CouncilLocks
    NonRivalrousLocks <- NonRivalrous
    Members <- TwoMembers
    Accounts = {s1, s2}
    Owner <- SeatOwners
    FreeBalance <- SeatBalances
    Voters = {s1, s2}
    CandidateStakes = {1}
    VoteStakes = {1}
    Notes = {}
    VoteStageDuration = 1
    RevealStageDuration = 1
    MinimumStake = 1
    MaxWinnerTargetCount = 2
    CouncilSize = 2
    MinNumberOfExtraCandidates = 0
    AnnouncingPeriodDuration = 1
    IdlePeriodDuration = 1
    MinCandidateStake = 1
    ElectedMemberRewardPeriod = 1
    BudgetRefillPeriod = 3
    RewardChoices = {2}
    IncrementChoices = {0}
    BudgetChoices = {0}
    RefillChoices = {6}
    Amounts = {1}
    InitialIssuance = 0
    InitialIncrement = 1
    InitialReward = 1
    MaxBlock = 6
    MaxFunds = 8
INVARIANTS
    TypeOK
PROPERTIES
    RewardsPaidInFull
    FundsConserved
    EveryStageEnds
