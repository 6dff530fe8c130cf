CONSTANTS
    Builds = {b1, b2, b3}
    Nodes <- MCNodes
    NoNode = NoNode
    NoBuild = NoBuild
    Parallel = 2
    MaxSkew = 1
    n1 = n1
    n2 = n2
    Ahead <- MCAhead
    MaxClock = 3
SPECIFICATION Spec
SYMMETRY MCSymmetry
INVARIANTS
    RunningIsRecorded
    FinishedHoldsNothing
    NewestSurvives
    ReadyReplacesOlder
