\* Statements that make any number of calls.
CONSTANTS
    P = P
    Q = Q
    f = f
    g = g
    n = n
    Publics = {P}
    Normals = {f, g}
    Natives = {n}
    Callees = {f, g}
    NoAddress = NoAddress
    Stp = 6
    FrameSizes = {1, 2}
    MaxDepth = 4
    OneCallPerStatement = FALSE
    Root = Root
    CallGraphEnabled = TRUE
    CountCalls = TRUE
    MaxCalls = 2
SPECIFICATION Spec
SYMMETRY Scripts
INVARIANTS
    HooksKeepTheirEntries
    IdleEmpty
    GraphFollowsStack
    StackInv
PROPERTIES
    ReturnPopsOwnEntry
CHECK_DEADLOCK FALSE
