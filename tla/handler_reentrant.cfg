\* Natives run publics of the script, while it starts and stops the profiler.
CONSTANTS
    P = P
    f = f
    n = n
    Publics = {P}
    Normals = {f}
    Natives = {n, ProfilerStart, ProfilerStop}
    ProfilerStart = ProfilerStart
    ProfilerStop = ProfilerStop
    Reentrant = {n}
    Callees = {f}
    NoAddress = NoAddress
    Stp = 7
    FrameSizes = {1}
    MaxDepth = 5
    OneCallPerStatement = FALSE
    Root = Root
    CallGraphEnabled = FALSE
    CountCalls = FALSE
    MaxCalls = 0
SPECIFICATION Spec
INVARIANTS
    TypeOK
    UnusedIsEmpty
PROPERTIES
    ReturnPopsOwnEntry
