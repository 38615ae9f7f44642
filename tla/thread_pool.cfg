CONSTANTS
    Worker = {w1, w2, w3}
    MaxJobs = 5
SPECIFICATION FairSpec
CHECK_DEADLOCK FALSE
INVARIANTS Alone
PROPERTIES ImplementsParallelFor CallsReturn FreeReturns
