\* Two threads open one file each.
CONSTANTS
    main = main
    worker = worker
    Threads = {main, worker}
    Main = main
    Paths = {1}
    MaxOpens = 1
SPECIFICATION HookSpec
PROPERTIES
    OpensReturn
CHECK_DEADLOCK FALSE
