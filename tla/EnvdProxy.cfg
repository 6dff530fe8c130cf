SPECIFICATION Spec
CONSTANTS
    Sandboxes = {s1}
    Spellings = {raw, public}
    Nodes = {n1, n2}
    NoNode = NoNode
    NoId = NoId
    Requests = {r1, r2}
    TTL = 1
    MaxEntries = 1
    Burst = 1
SYMMETRY Symmetry
CHECK_DEADLOCK FALSE
INVARIANTS
    CacheBounded
    AdmittedByToken
    LiveIsReached
PROPERTIES
    WokenOnlyByItsToken
    StaleWithinTTL
