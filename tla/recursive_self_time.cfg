\* A recursive function: its self time is counted twice.
CONSTANTS
    f = f
    g = g
    h = h
    Functions = {f, g}
    MaxCalls = 3
    MaxTime = 3
SPECIFICATION Spec
INVARIANT
    NoTimeIsInvented
