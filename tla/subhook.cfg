\* Two plugins, eight functions, 256 bytes of memory.
CONSTANTS
    Hooks = {1, 2}
    Word = 256
    PageSize = 64
    Srcs <- MCSrcs
    Dst <- MCDst
    Area <- MCArea
    Outside <- MCOutside
    Insns <- MCInsns
    Programs <- MCPrograms
    MaxCalls = 2
    Null = Null
SPECIFICATION Spec
INVARIANTS
    TypeOK
    CallsRunTheOriginal
    HooksAreVisited
    CodeIsRestored
    BlocksAreHooks
    CrashesExplained
CHECK_DEADLOCK FALSE
