\* Publics run only from the server: Start and Stop complete.
CONSTANTS
    P = P
    f = f
    n = n
    Publics = {P}
    Normals = {f}
    Natives = {n, ProfilerStart, ProfilerStop}
    ProfilerStart = ProfilerStart
    ProfilerStop = ProfilerStop
    Reentrant = {}
    Callees = {f}
    NoAddress = NoAddress
    Stp = 5
    FrameSizes = {1}
    MaxDepth = 4
    OneCallPerStatement = FALSE
    Root = Root
    CallGraphEnabled = FALSE
    CountCalls = FALSE
    MaxCalls = 0
SPECIFICATION FairSpec
INVARIANTS
    IdleEmpty
PROPERTIES
    StopCompletes
    StartCompletes
