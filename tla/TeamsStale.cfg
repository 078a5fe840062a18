CONSTANTS
    PageLimit = 2
    TbaPages = 1
    MaxVersion = 2
    MaxFaults = 0
    MaxRestarts = 0
    CanShutdown = FALSE
SPECIFICATION Spec
PROPERTIES
    TeamsKeptUpToDate
