CONSTANTS
    NoKey = NoKey
    Events = {e1}
    TbaEvents = {e1}
    InitialEvents = {e1}
    Active = {e1}
    MaxVersion = 1
    MaxLists = 0
    MaxFaults = 1
    MaxRestarts = 1
    MaxEtagRaces = 1
    CanShutdown = TRUE
SPECIFICATION Spec
INVARIANTS
    TypeOK
    VersionsOrdered
    NoUpdateLost
    MarkAfterUpsert
    MarksKeepUp
PROPERTIES
    ImplementsMirror
CONSTRAINT FirstShutdown
\* Nothing is left to do after a shutdown without a restart.
CHECK_DEADLOCK FALSE
