SPECIFICATION FairSpec
CONSTANTS
    Sched = {s1, s2, s3}
    Seeded = {s1}
    PolicySet = TRUE
    HolderCreated = TRUE
CHECK_DEADLOCK FALSE
INVARIANTS
    CountIsLive
    SlotsUniqueWhileRunning
    SlotExists
    NoTaskAfterStop
    NoLostWakeup
PROPERTY
    AllEnd
