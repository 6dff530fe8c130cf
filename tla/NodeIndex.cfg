CONSTANTS
    Keys = {k1, k2, k3, k4, k5}
    Nodes = {n1, n2}
    NoNode = NoNode
    MaxEntries = 2
SPECIFICATION Spec
INVARIANTS
    Bounded
    Retained
PROPERTIES
    ImplementsLossyIndex
