CONSTANTS
    BufferSize = 8
    BackSize = 4
    FillLimit = 2
    MaxFill = 2
    SeekLimit <- MCSeekLimit
    Prefill <- MCPrefill
    Length = 9
    Target = {}
    NoSector = NoSector
SPECIFICATION Spec
CHECK_DEADLOCK FALSE
INVARIANTS EofWithoutLock
