CONSTANTS
    None = None
    Missing = Missing
    Storer = Storer
    e1 = e1
    e2 = e2
    k1 = k1
    r1 = r1
    r2 = r2
    Clients = {c1, c2}
    Events = {e1, e2}
    TbaEvents = {e1}
    Keys = {k1}
    Realms = {r1, r2}
    InitialRealm <- RealmOfCustom
    Requests <- AdminRequests
SPECIFICATION Spec
PROPERTIES
    AdminsEditOwnEvents
\* Every client makes one request, and TBA may change no more.
CHECK_DEADLOCK FALSE
