\* Two calls in one statement: the second is not seen.
CONSTANTS
    P = P
    Q = Q
    f = f
    g = g
    n = n
    Publics = {P}
    Normals = {f, g}
    Natives = {n}
    Callees = {f, g}
    NoAddress = NoAddress
    Stp = 6
    FrameSizes = {1, 2}
    MaxDepth = 4
    OneCallPerStatement = FALSE
    Root = Root
    CallGraphEnabled = TRUE
    CountCalls = TRUE
    MaxCalls = 2
SPECIFICATION Spec
INVARIANT
    RunningIsCounted
CHECK_DEADLOCK FALSE
