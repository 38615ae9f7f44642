CONSTANTS
    Thread = {t1, t2}
    Track = {a, b}
    Playable = {a}
    None = None
    Keys = {"play", "stop"}
SPECIFICATION FairSpec
INVARIANTS PlayingHasDecoder WaitHasReason StopHolds PlaybackGoesOn
PROPERTIES CalledOff
