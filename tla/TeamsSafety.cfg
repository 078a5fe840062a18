CONSTANTS
    PageLimit = 2
    TbaPages = 3
    MaxVersion = 2
    MaxFaults = 1
    MaxRestarts = 1
    CanShutdown = TRUE
SPECIFICATION Spec
INVARIANTS
    TypeOK
    NeverShorter
PROPERTIES
    ImplementsMirror
    FirstListStored
\* A process that has been told to stop ends.
CHECK_DEADLOCK FALSE
