CONSTANTS
    Subs = 4
    Usecs = 3
    Counters = 2
    Flags = 2
    Frame = 2
    Jitter = 1
    CoShift = 4
    MaxSkew = 2
    MaxTime = 17
    MaxSent = 3
    MaxForgets = 1
    StepsBack = TRUE
SPECIFICATION Spec
INVARIANTS AsAccurateAsFlagged NeverBack InOrderAccepted
CHECK_DEADLOCK FALSE
