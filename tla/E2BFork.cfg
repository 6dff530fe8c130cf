CONSTANTS
    Calls = {c1}
    Nodes = {n1, n2, n3}
    NoNode = NoNode
    MaxTargets = 2
    Kids = {k1, k2}
SPECIFICATION ForkSpec
INVARIANTS
    AtMostOneDelivery
    WarmCandidatesExhausted
    FailedCreateHoldsNothing
    CreatedIsInitialised
    ForkIsExact
PROPERTIES
    CreateAnswered
