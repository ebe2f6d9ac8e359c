SPECIFICATION Spec
CONSTANTS
    claude = claude
    left = left
    right = right
    ask = ask
    msg = msg
    None = None
    NoThread = NoThread
    Instances <- MCInstances
    Antigravity = {}
    Requests = {ask}
    Questions = {ask}
    Times <- MCTimes
    Items = {msg}
    Panes <- MCTwoPanes
    Picks <- MCNoPicks
    BufferSize = 2
    ChunkSize = 2
    MaxWords = 2
    MaxSent = 1
    MaxTroubles = 0
INVARIANT ToldOnce
CHECK_DEADLOCK FALSE
