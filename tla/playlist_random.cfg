CONSTANTS
    Entry = {e1, e2, e3}
    NULL = NULL
    PLAYLIST_MAX_LENGTH = 3
    MaxPlayed = 3
    Scenario = {}
SPECIFICATION Spec
SYMMETRY EntrySymmetry
INVARIANTS RandomPlaysAll
