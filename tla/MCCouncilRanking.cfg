\* One election with ties, overtaking and a full winners list.
SPECIFICATION Spec
CONSTANTS
    None = None
    m1 = m1  m2 = m2  m3 = m3
    s1 = s1  s2 = s2  s3 = s3
    v1 = v1  v2 = v2  v3 = v3  v4 = v4
    LockIds <- CouncilLocks
    NonRivalrousLocks <- NonRivalrous
    Members <- ThreeMembers
    Accounts = {s1, s2, s3, v1, v2, v3, v4}
    Owner <- ThreeOwners
    FreeBalance <- ThreeBalances
    Voters = {v1, v2, v3, v4}
    CandidateStakes = {1}
    VoteStakes = {1, 2}
    Notes = {"note"}
    VoteStageDuration = 1
    RevealStageDuration = 1
    MinimumStake = 1
    MaxWinnerTargetCount = 2
    CouncilSize = 2
    MinNumberOfExtraCandidates = 1
    AnnouncingPeriodDuration = 1
    IdlePeriodDuration = 1
    MinCandidateStake = 1
    ElectedMemberRewardPeriod = 2
    BudgetRefillPeriod = 2
    RewardChoices = {}
    IncrementChoices = {}
    BudgetChoices = {}
    RefillChoices = {}
    Amounts = {}
    InitialIssuance = 0
    InitialIncrement = 0
    InitialReward = 0
    MaxBlock = 4
    MaxFunds = 8
SYMMETRY VoterSymmetry
INVARIANTS
    WinnersAreTheTop
    PowerIsRevealedStake
    CouncilComplete
