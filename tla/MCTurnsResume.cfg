SPECIFICATION Spec
CONSTANTS
    claude = claude
    codex = codex
    None = None
    NoThread = NoThread
    Instances <- MCInstances
    Antigravity <- MCAntigravity
    Requests <- MCRequests
    Times <- MCTimes
    ChannelSize = 1
    MaxCommands = 2
INVARIANT ResumesOwn
