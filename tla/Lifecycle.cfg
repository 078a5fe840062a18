CONSTANTS
    NoKey = NoKey
    Events = {e1, e2}
    TbaEvents = {e1}
    InitialEvents = {e1, e2}
    Active = {e2}
    MaxVersion = 0
    MaxLists = 0
    MaxFaults = 0
    MaxRestarts = 1
    MaxEtagRaces = 0
    CanShutdown = TRUE
SPECIFICATION LSpec
INVARIANTS
    StoreOpenForUpdates
PROPERTIES
    RunReturns
    ShutdownDrains
\* The process may stay off.
CHECK_DEADLOCK FALSE
