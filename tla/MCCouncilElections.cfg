\* Two consecutive elections with re-announced candidacies and reused votes, as the query node shows them.
SPECIFICATION ViewSpec
CONSTANTS
    None = None
    m1 = m1  m2 = m2
    s1 = s1  s2 = s2  s3 = s3
    v1 = v1
    LockIds <- CouncilLocks
    NonRivalrousLocks <- NonRivalrous
    Members <- TwoMembers
    Accounts = {s1, s2, s3, v1}
    Owner <- TwoOwners
    FreeBalance <- TwoBalances
    Voters = {v1, s2}
    CandidateStakes = {0, 1}
    VoteStakes = {0, 1, 2}
    Notes = {"note"}
    VoteStageDuration = 1
    RevealStageDuration = 1
    MinimumStake = 1
    MaxWinnerTargetCount = 1
    CouncilSize = 1
    MinNumberOfExtraCandidates = 1
    AnnouncingPeriodDuration = 1
    IdlePeriodDuration = 1
    MinCandidateStake = 1
    ElectedMemberRewardPeriod = 1
    BudgetRefillPeriod = 6
    RewardChoices = {1}
    IncrementChoices = {1}
    BudgetChoices = {}
    RefillChoices = {}
    Amounts = {}
    InitialIssuance = 0
    InitialIncrement = 1
    InitialReward = 1
    MaxBlock = 8
    MaxFunds = 8
    MaxShownCandidates = 3
INVARIANTS
    StagesAgree
    DeadlinesAhead
    CandidatesCounted
    StakesMatchRecords
    StakesExclusive
    ProcessorRuns
    StageShown
    ElectionShown
    CouncilShown
PROPERTIES
    ElectionBinding
    WinningVotesStay
