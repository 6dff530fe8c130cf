CONSTANTS
    NumNodes = 2
    NumPools = 2
    Keys = {k1}
    NoPoolKey = NoPoolKey
    Replicas <- MCReplicas
    MaxWarm = 2
    MaxChanges = 2
SPECIFICATION WarmSpec
INVARIANTS
    AppliedIsExact
    StatusIsShared
PROPERTIES
    KeptWhileWanted
