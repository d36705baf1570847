SPECIFICATION FairSpec
CONSTANTS
    locality_count = 2
    Here = 0
    Worker = {w1}
    Auto = Auto
    MaxTasks = 1
    Rates = {2}
    NaNs = {NaN}
    InitRate = 2
    Delays = {1}
PROPERTY
    RichVictimFound
