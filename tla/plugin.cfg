\* Two threads open files while scripts are loaded, unloaded and changed.
CONSTANTS
    main = main
    worker = worker
    a1 = a1
    a2 = a2
    h1 = h1
    h2 = h2
    other = other
    missing = missing
    nothing = nothing
    Threads = {main, worker}
    Main = main
    Paths = {1, 2}
    MaxOpens = 2
    Amx = {a1, a2}
    Headers = {h1, h2}
    NotAScript = other
    NoFile = missing
    Nothing = nothing
    Listed = {1}
    MaxWrites = 1
SPECIFICATION Spec
INVARIANTS
    FlagIsRestored
    NoticedPathIsRight
PROPERTIES
    SearchIsExact
SYMMETRY Symmetry
CHECK_DEADLOCK FALSE
