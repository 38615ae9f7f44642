CONSTANTS
    Entry = {e1, e2, e3}
    NULL = NULL
    PLAYLIST_MAX_LENGTH = 3
    MaxPlayed = 3
    Scenario = {"enqueue", "remove_in_use"}
SPECIFICATION Spec
SYMMETRY EntrySymmetry
INVARIANTS NothingDangling
