CONSTANTS
    None = None
    ann = ann
    Ann = Ann
    bob = bob
    r1 = r1
    r2 = r2
    r3 = r3
    Clients = {c1, c2}
    Names = {ann, Ann, bob}
    Lower <- LowerOf
    Realms = {r1, r2, r3}
    InitialUsers <- SomeUsers
    InitialRealms = {r1, r2}
    EventRealms = {}
    Grants <- SomeGrants
    MaxUsers = 3
    MaxTime = 2
    MaxRequests = 4
SPECIFICATION Spec
SYMMETRY Symmetry
INVARIANTS
    TypeOK
PROPERTIES
    RefreshNeedsPassword
    NamesDistinct
    RightsGranted
    OwnRealmOnly
    SupersSafe
\* All requests may have been made.
CHECK_DEADLOCK FALSE
