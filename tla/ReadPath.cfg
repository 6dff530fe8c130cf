CONSTANTS
    Ids = {i1, i2}
    Names = {x}
    Nodes = {n1, n2}
    Ops = {o1}
    NoNode = NoNode
    NoId = NoId
    NoKey = NoKey
SPECIFICATION Spec
SYMMETRY MCSymmetry
CHECK_DEADLOCK FALSE
INVARIANTS
    ReadAfterWrite
    RoutedToOwner
    DeletedIsGone
