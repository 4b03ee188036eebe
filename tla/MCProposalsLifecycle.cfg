\* Confirmation by successive councils, decisions, grace periods, executions, vetoes and runtime upgrades.
SPECIFICATION Spec
CONSTANTS
    None = None
    m1 = m1  m2 = m2  m3 = m3
    s1 = s1
    Members <- Trio
    Accounts = {s1}
    Owner <- OneOwner
    FreeBalance <- OneBalance
    LockIds <- ProposalLocks
    NonRivalrousLocks = {}
    CouncilChoices <- Councils
    ProposalParameters <- LifecycleParams
    ExecutionBlocks = {None, 4}
    Calls = {0}
    Interventions = {"veto", "upgrade"}
    RejectionFee = 2
    CancellationFee = 1
    MaxActiveProposalLimit = 2
    MaxProposals = 2
    MaxBlock = 4
INVARIANTS
    ActiveCountExact
    TallyMatchesVotes
    TypeOK
    NoOrphanStake
    DecidedInTime
    ConfirmationsCounted
    EarlyRejectionFinal
PROPERTIES
    LossesAreStakes
