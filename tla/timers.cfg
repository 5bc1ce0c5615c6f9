\* Calls with direct, mutual and interleaved recursion.
CONSTANTS
    f = f
    g = g
    h = h
    Functions = {f, g}
    MaxCalls = 4
    MaxTime = 4
SPECIFICATION Spec
SYMMETRY Symmetry
INVARIANTS
    SelfTimeIsExact
    WorstTimesArePossible
    SelfTimesAddUp
    TotalTimesAddUp
    NothingIsLost
    TimersInv
