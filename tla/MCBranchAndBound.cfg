SPECIFICATION FairSpec
CONSTANTS
    w1 = w1
    w2 = w2
    l1 = l1
    l2 = l2
    NoNode = NoNode
    Node <- Tree
    Obj <- Objective
    Bound <- UpperBound
    Locality = {l1, l2}
    Worker = {w1, w2}
    home <- OneEach
    spawnDepth = 1
    Tags <- AllTags
    initialBound = 0
    expectedObjective = 3
CHECK_DEADLOCK FALSE
INVARIANTS
    BoundsBacked
    OptimumFound
    DecisionFound
    StopOnlyIfFound
PROPERTY
    SearchReturns
