SPECIFICATION FairSpec
CONSTANTS
    s = s
    w = w
    l1 = l1
    l2 = l2
    NoNode = NoNode
    Node <- Tree
    Obj <- Objective
    Bound <- UpperBound
    Locality = {l1, l2}
    Worker = {s, w}
    sequential = s
    home <- Home
    spawnDepth = 2
    maxDepth = 3
    Tags <- AllTags
    initialBound = 1
    expectedObjective = 3
CHECK_DEADLOCK FALSE
INVARIANTS
    TaskExpandedOnce
    BestOfTasks
PROPERTY
    SearchReturns
