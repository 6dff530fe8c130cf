CONSTANTS
    i1 = i1
    i2 = i2
    x = x
    y = y
    Ids = {i1, i2}
    Names = {x, y}
    Nodes = {n1, n2}
    NoNode = NoNode
    Versions = {running, renewed, paused}
    Selected = {running, renewed}
    Scenarios <- MCScenarios
    NoName = NoName
    NoItem = NoItem
    NoId = NoId
    StartedAt <- MCStartedAt
    IdRank <- MCIdRank
    MaxLimit = 2
SPECIFICATION ListSpec
CHECK_DEADLOCK FALSE
INVARIANTS
    ViewIsKnown
    DeletedOnlyIfNotHeld
    WalkIsExact
PROPERTIES
    GoneIsReported
