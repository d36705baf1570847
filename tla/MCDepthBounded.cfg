SPECIFICATION FairSpec
CONSTANTS
    NoTask = NoTask
    InitDepth = 2
    w1 = w1
    w2 = w2
    w3 = w3
    l1 = l1
    l2 = l2
    Node <- LimitedTree
    Locality = {l1, l2}
    Worker = {w1, w2, w3}
    home <- TwoAndOne
    MainLoc = l1
    spawnDepth = 2
    DepthLimited = TRUE
    maxDepth = 3
CHECK_DEADLOCK FALSE
INVARIANTS
    TaskInOnePlace
    ReadyMeansCounted
    StopMeansQuiet
PROPERTIES
    CountsEachNodeOnce
    SearchReturns
