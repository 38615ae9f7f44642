CONSTANTS
    Entry = {e1, e2, e3}
    NULL = NULL
    PLAYLIST_MAX_LENGTH = 3
    MaxPlayed = 3
    Scenario = {"insert", "insert_last"}
SPECIFICATION Spec
SYMMETRY EntrySymmetry
INVARIANTS NothingLost
