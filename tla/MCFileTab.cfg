SPECIFICATION FairSpec
CONSTANTS
    Mine = {first, second}
    Theirs = {theirs}
    Original = original
    MaxActs = 4
    MaxTroubles = 1
    None = None
    NoText = NoText
    NoBuffer = NoBuffer
INVARIANT TypeOK
INVARIANT DraftIsSafe
INVARIANT NoStaleRead
PROPERTY EditsReachDisk
CHECK_DEADLOCK FALSE
