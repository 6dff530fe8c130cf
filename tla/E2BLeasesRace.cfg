CONSTANTS
    Calls = {c1, c2}
    Timeouts = {0, 3}
    DefaultTTL = 1
    MaxTTL = 2
    WakeTTL = 2
    Retention = 1
    PerSecond = 2
    MaxSkew = 0
    MaxTime = 2
SPECIFICATION LeaseSpec
PROPERTY NeverShortens
CHECK_DEADLOCK FALSE
