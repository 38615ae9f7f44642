CONSTANTS
    Length = 1
    Minutes <- MCMinutes
    MaxQuits = 2
SPECIFICATION FairSpec
CHECK_DEADLOCK FALSE
PROPERTIES EndOfListFires
