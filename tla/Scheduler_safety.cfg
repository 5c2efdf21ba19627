SPECIFICATION Spec
CONSTANTS
    Sources = {s1}
    Dispatchers = {d1, d2}
    Workers = {w1, w2}
    None = None
    MaxCycles = 2
    MaxTick = 2
    MaxDup = 2
    MaxFaults = 2
SYMMETRY Symmetry
INVARIANTS
    ClosedIsSettled
    ExclusiveExecution
    ResultAccepted
PROPERTIES
    HistoryIsFinal
    LedgerPromise
