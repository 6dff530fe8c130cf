CONSTANTS
    Calls = {c1, c2}
    Timeouts = {0, 3}
    DefaultTTL = 1
    MaxTTL = 2
    WakeTTL = 2
    Retention = 1
    PerSecond = 2
    MaxSkew = 1
    MaxTime = 2
SPECIFICATION LeaseSpec
SYMMETRY MCSymmetry
PROPERTIES
    AnswersAreTrue
    LeaseNotCut
    LeaseGranted
CHECK_DEADLOCK FALSE
