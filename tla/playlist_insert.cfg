CONSTANTS
    Entry = {e1, e2, e3}
    NULL = NULL
    PLAYLIST_MAX_LENGTH = 2
    MaxPlayed = 3
    Scenario = {"insert", "getcwd_fails"}
SPECIFICATION Spec
SYMMETRY EntrySymmetry
INVARIANTS NothingDangling
