SPECIFICATION FairSpec
CONSTANTS
    w1 = w1
    w2 = w2
    l1 = l1
    NoNode = NoNode
    Node <- Tree
    Obj <- Objective
    Bound <- UpperBound
    Locality = {l1}
    Worker = {w1, w2}
    home <- Together
    backtrackBudget = 1
    maxDepth = 4
    Tags <- AllTags
    initialBound = 2
    expectedObjective = 4
CHECK_DEADLOCK FALSE
INVARIANTS
    WorkConserved
    BestOfProcessed
    StackFits
PROPERTIES
    CountsEachNodeOnce
    SearchReturns
