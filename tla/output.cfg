\* 21 configurations; four scripts, of which
\* two are loaded; four moments of a run.
CONSTANTS
    Sentinel = 0
    ServerName = 0
    NaN = NaN
    ConfigFiles <- MCConfigFiles
    Disk <- MCDisk
    Loaded <- MCLoaded
    Measured <- MCMeasured
    Clicks <- MCClicks
    None = None
SPECIFICATION Spec
INVARIANTS
    TypeOK
    OldNamesWork
    ReportsAreSound
    ArrowTellsOrder
PROPERTIES
    ProfilesStay
    UnloadWritesAll
    ClicksSortStably
CHECK_DEADLOCK FALSE
