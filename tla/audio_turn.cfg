CONSTANTS
    Size = 8
    MinFill = 2
    Half = 4
    CallLen = 1
    Chunk <- MCChunk
    Thread = {t1, t2}
    NoOne = NoOne
SPECIFICATION FairSpec
CHECK_DEADLOCK FALSE

PROPERTIES TurnComes
