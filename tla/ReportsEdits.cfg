CONSTANTS
    None = None
    u1 = u1
    u2 = u2
    u3 = u3
    t1 = t1
    t2 = t2
    r1 = r1
    r2 = r2
    Clients = {c1, c2, c3}
    Users = {u1, u2, u3}
    Realms = {r1, r2}
    Teams = {t1, t2}
    UserRealm <- RealmOf
    EventRealm = None
    InitialReports <- TwoReports
    InitialLineup = {t1, t2}
    Requests <- AllRequests
SPECIFICATION Spec
INVARIANTS
    TypeOK
    CreatedMeansNew
    FoundHolds
    ReporterInRealm
PROPERTIES
    ImplementsTable
    MoveStored
    AnsweredOrStuck
\* Every client makes one request.
CHECK_DEADLOCK FALSE
