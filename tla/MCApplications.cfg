SPECIFICATION Spec
CONSTANTS
    Apps <- AppsDef
    Problems <- ProblemsDef
    Children <- childrenDef
    GetObj <- getObjDef
    BoundFn <- boundFnDef
    Objcmp <- ObjcmpDef
    Counts <- CountsDef
CHECK_DEADLOCK FALSE
INVARIANTS
    BoundSound
    OptimumReturned
    SolutionDecided
    CountRight
