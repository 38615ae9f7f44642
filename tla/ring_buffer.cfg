CONSTANTS
    Byte = {a, b}
    Size = 3
    MaxChunk = 4
    Chunk <- MCChunk
    ReadLen <- MCReadLen
SPECIFICATION Spec
INVARIANTS PointersAgree
PROPERTIES ImplementsFifo
