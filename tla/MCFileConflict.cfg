SPECIFICATION Spec
CONSTANTS
    Mine = {first, second}
    Theirs = {theirs}
    Original = original
    MaxActs = 3
    MaxTroubles = 0
    None = None
    NoText = NoText
    NoBuffer = NoBuffer
INVARIANT ConflictIsExternal
CHECK_DEADLOCK FALSE
