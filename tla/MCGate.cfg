SPECIFICATION Spec
CONSTANTS
    read = read
    card = card
    t1 = t1
    t2 = t2
    NoDecision = NoDecision
    Threads <- MCThreads
    Requests <- MCRequests
    Owner <- MCOwner
    Waited <- MCWaited
    Mutating = {}
    Answers <- MCAnswers
    Modes <- MCModes
INVARIANT TypeOK
INVARIANT ParkedIsReachable
INVARIANT ReleaseObeysMatrix
INVARIANT GrantStands
INVARIANT CancelNeverContradicts
PROPERTY KeepsPromise
CHECK_DEADLOCK FALSE
