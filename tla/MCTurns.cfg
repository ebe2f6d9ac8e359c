SPECIFICATION Spec
CONSTANTS
    claude = claude
    codex = codex
    None = None
    NoThread = NoThread
    Instances <- MCInstances
    Antigravity <- MCAntigravity
    Requests <- MCRequests
    Times <- MCTimes
    ChannelSize = 1
    MaxCommands = 3
INVARIANT TypeOK
INVARIANT TurnsEnd
INVARIANT OneSession
INVARIANT ArchivedHasNoProcess
PROPERTY ArchiveCutsOff
