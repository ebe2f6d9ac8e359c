SPECIFICATION FairSpec
CONSTANTS
    claude = claude
    left = left
    right = right
    ask = ask
    msg = msg
    None = None
    NoThread = NoThread
    Instances <- MCInstances
    Antigravity = {}
    Requests = {ask}
    Questions <- MCQuestions
    Times <- MCTimes
    Items = {msg}
    Panes <- MCOnePane
    Picks <- MCPicks
    BufferSize = 2
    ChunkSize = 2
    MaxWords = 2
    MaxSent = 2
    MaxTroubles = 1
INVARIANT TypeOK
INVARIANT ViewIsPrefix
INVARIANT WaitingShowsCard
INVARIANT AgreesWithServer
INVARIANT IdleIsExcused
PROPERTY CommandsInOrder
PROPERTY CatchesUp
CHECK_DEADLOCK FALSE
