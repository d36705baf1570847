SPECIFICATION Spec
CONSTANTS
    w1 = w1
    w2 = w2
    w3 = w3
    l1 = l1
    l2 = l2
    l3 = l3
    NoNode = NoNode
    None = None
    Node <- SmallTree
    Obj <- NoValue
    Bound <- Hopeful
    Locality = {l1, l2, l3}
    Worker = {w1, w2, w3}
    home <- ThreeLocalities
    threadCount = 1
    tasksRequired = 2
    first = w1
    initial <- StartThree
    Given <- AllStart
    StealAll <- WholeChunk
    maxDepth = 5
    Tags <- PlainCounting
    initialBound = 2
    expectedObjective = 4
CHECK_DEADLOCK FALSE
INVARIANT NotForgotten
