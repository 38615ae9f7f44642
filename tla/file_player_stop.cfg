CONSTANTS
    Thread = {t1, t2}
    Track = {a, b}
    Playable = {a}
    None = None
    Keys = {"stop"}
SPECIFICATION Spec
INVARIANTS StopStops
