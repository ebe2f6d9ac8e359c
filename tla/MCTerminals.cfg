SPECIFICATION Spec
CONSTANTS
    RingSize = 1
    MaxShells = 2
    MaxConns = 2
    MaxOutput = 2
CHECK_DEADLOCK FALSE
INVARIANT TypeOK
INVARIANT StreamIsExact
INVARIANT LiveIsRegistered
PROPERTY WaitsEnd
