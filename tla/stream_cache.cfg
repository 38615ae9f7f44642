CONSTANTS
    BufferSize = 6
    BackSize = 3
    FillLimit = 2
    MaxFill = 2
    SeekLimit <- MCSeekLimit
    Prefill <- MCPrefill
    Length = 8
    Target <- MCTarget
    NoSector = NoSector
SPECIFICATION FairSpec
CHECK_DEADLOCK FALSE
INVARIANTS TypeOK WindowIntact CopiesRightData EofIsTrue
PROPERTIES ImplementsFile CallsReturn
