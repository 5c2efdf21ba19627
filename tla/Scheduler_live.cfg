SPECIFICATION FairSpec
CONSTANTS
    Sources = {s1, s2}
    Dispatchers = {d1}
    Workers = {w1}
    None = None
    MaxCycles = 1
    MaxTick = 1
    MaxDup = 1
    MaxFaults = 2
INVARIANTS
    RecoveryVisibility
PROPERTIES
    EveryCycleCloses
