SPECIFICATION TLSpec
CONSTANTS
    claude = claude
    agy = agy
    r1 = r1
    r2 = r2
    None = None
    NoThread = NoThread
    Instances <- MCInstances
    Antigravity <- MCAntigravity
    Requests <- MCRequests
    Times <- MCTimes
INVARIANT TLTypeOK
INVARIANT StatusIsHonest
INVARIANT AntigravityIsHonest
PROPERTY ArchiveFreezes
