SPECIFICATION Spec
CONSTANTS
    w1 = w1
    w2 = w2
    w3 = w3
    l1 = l1
    l2 = l2
    l3 = l3
    NoNode = NoNode
    None = None
    Node <- Tree
    Obj <- Objective
    Bound <- UpperBound
    Locality = {l1, l2}
    Worker = {w1, w2}
    home <- TwoLocalities
    threadCount = 2
    tasksRequired = 1
    first = w1
    initial <- StartTwo
    Given <- AsWrittenOrNot
    StealAll <- EitherChunk
    maxDepth = 5
    Tags <- AllTags
    initialBound = 1
    expectedObjective = 4
CHECK_DEADLOCK FALSE
PROPERTIES
    CountsEachNodeOnce
INVARIANTS
    WorkConserved
    BestOfProcessed
