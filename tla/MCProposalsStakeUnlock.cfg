\* Is the stake of an open proposal safe from the end of another one?
SPECIFICATION Spec
CONSTANTS
    None = None
    m1 = m1  m2 = m2  m3 = m3
    s1 = s1
    Members = {m1, m2}
    Accounts = {s1}
    Owner <- OneOwner
    FreeBalance <- OneBalance
    LockIds <- ProposalLocks
    NonRivalrousLocks = {}
    CouncilChoices <- Singles
    ProposalParameters <- GraceParams
    ExecutionBlocks = {None}
    Calls = {0}
    Interventions = {"veto"}
    RejectionFee = 1
    CancellationFee = 2
    MaxActiveProposalLimit = 2
    MaxProposals = 3
    MaxBlock = 4
INVARIANTS
    OpenProposalsStaked
