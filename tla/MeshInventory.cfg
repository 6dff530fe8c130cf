CONSTANTS
    Addrs = {a1, a2, a3}
    Seeds = {a1, a2}
    NoKey = NoKey
    MaxStale = 1
SPECIFICATION Spec
CHECK_DEADLOCK FALSE
SYMMETRY MCSymmetry
INVARIANTS
    ListingFollowsAnswers
    NamedIsFound
    MembersFollowMesh
