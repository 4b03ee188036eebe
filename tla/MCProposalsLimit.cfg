\* Does the limit of proposals hold when a proposal vetoes another?
SPECIFICATION Spec
CONSTANTS
    None = None
    m1 = m1  m2 = m2  m3 = m3
    s1 = s1
    Members = {m1, m2}
    Accounts = {s1}
    Owner <- OneOwner
    FreeBalance <- OneBalance
    LockIds <- ProposalLocks
    NonRivalrousLocks = {}
    CouncilChoices = {{m1}}
    ProposalParameters <- VetoParams
    ExecutionBlocks = {None}
    Calls = {0, 1}
    Interventions = {}
    RejectionFee = 1
    CancellationFee = 2
    MaxActiveProposalLimit = 3
    MaxProposals = 6
    MaxBlock = 1
INVARIANTS
    LimitRespected
