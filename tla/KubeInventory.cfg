CONSTANTS
    Nodes = {n1, n2, n3}
    StaleAfter = 2
    Skew = 2
    MaxTime = 8
SPECIFICATION KubeSpec
INVARIANTS
    FleetNeverEmpties
    FreshIsListed
    TrailingIsStale
