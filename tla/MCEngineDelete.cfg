SPECIFICATION Spec
CONSTANTS
    claude = claude
    agy = agy
    r = r
    t1 = t1
    t2 = t2
    create = create
    ask = ask
    click = click
    click2 = click2
    wrong = wrong
    None = None
    NoThread = NoThread
    Instances <- MCInstances
    Antigravity <- MCAntigravity
    Requests <- MCRequests
    Times <- MCTimes
    Threads <- MCThreads
    Commands <- MCCommands
    CommandOf <- MCCommandOf
    QueueSize = 1
INVARIANT StateIsTheLog
