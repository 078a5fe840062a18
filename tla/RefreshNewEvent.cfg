CONSTANTS
    NoKey = NoKey
    Events = {e1}
    TbaEvents = {e1}
    InitialEvents = {}
    Active = {e1}
    MaxVersion = 1
    MaxLists = 0
    MaxFaults = 0
    MaxRestarts = 0
    MaxEtagRaces = 0
    CanShutdown = FALSE
SPECIFICATION Spec
PROPERTIES
    NewEventKeptUpToDate
