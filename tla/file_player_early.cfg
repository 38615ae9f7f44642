CONSTANTS
    Thread = {t1, t2}
    Track = {a, b}
    Playable = {a, b}
    None = None
    Keys = {}
SPECIFICATION Spec
INVARIANTS PlayedOut
CHECK_DEADLOCK FALSE
