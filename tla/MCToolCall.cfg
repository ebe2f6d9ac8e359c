SPECIFICATION Spec
CONSTANTS
    claude = claude
    read = read
    write = write
    None = None
    NoThread = NoThread
    Instances <- MCInstances
    Antigravity <- MCAntigravity
    Requests <- MCRequests
    Times <- MCTimes
    Mutating <- MCMutating
    Modes <- MCModes
    Answers <- MCAnswers
    MaxCommands = 2
INVARIANT TypeOK
INVARIANT CardsMatchCalls
INVARIANT RunsAreLicensed
PROPERTY InterruptFrees
