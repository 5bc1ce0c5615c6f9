\* Statements that make one call: the profile is the ideal one.
CONSTANTS
    P = P
    Q = Q
    f = f
    g = g
    n = n
    Publics = {P}
    Normals = {f, g}
    Natives = {n}
    Callees = {f, g}
    NoAddress = NoAddress
    Stp = 6
    FrameSizes = {1, 2}
    MaxDepth = 4
    OneCallPerStatement = TRUE
    Root = Root
    CallGraphEnabled = TRUE
    CountCalls = TRUE
    MaxCalls = 3
SPECIFICATION Spec
SYMMETRY Scripts
INVARIANTS
    StackMatchesMachine
PROPERTIES
    IdealSpec
CHECK_DEADLOCK FALSE
