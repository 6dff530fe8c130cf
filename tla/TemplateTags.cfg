CONSTANTS
    Nodes = {n1, n2}
    Reqs = {r1, r2}
    Ids = {s1}
    Tags = {a, b}
    MaxBuilds = 2
SPECIFICATION Spec
SYMMETRY MCSymmetry
CHECK_DEADLOCK FALSE
INVARIANTS
    TagsKept
    DeletedTemplateIsGone
    SnapshotAnswersAreTrue
