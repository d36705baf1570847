SPECIFICATION Spec
CONSTANTS
    NoTask = NoTask
    Task = {t1, t2, t3, t4}
    InitDepth = 2
    MaxTaskDepth = 3
INVARIANTS
    CountMatches
    NoTaskTwice
    NothingLost
PROPERTIES
    TakesInOrder
    KeepsPromise
