----------------------------- MODULE MCReports ------------------------------
(***************************************************************************)
(* Reports for TLC: two realms, a handful of users and requests.           *)
(***************************************************************************)
EXTENDS Reports

CONSTANTS u1, u2, u3, t1, t2, r1, r2

\* u1 and u2 are of one realm, u3 of another.
RealmOf == [u \in Users |-> IF u = u3 THEN r2 ELSE r1]

Post(u, t) == [op |-> "post", user |-> u, team |-> t, reporter |-> None, realm |-> None]
Put(u, role, i, t, reporter, realm, replace) ==
    [op |-> "put", user |-> u, role |-> role, id |-> i, team |-> t,
     reporter |-> reporter, realm |-> realm, replace |-> replace]
Delete(u, role, i) == [op |-> "delete", user |-> u, role |-> role, id |-> i]
Match(lu) == [op |-> "match", user |-> u3, role |-> "super", lineup |-> lu]
Unregister(u, role, v) == [op |-> "unregister", user |-> u, role |-> role, target |-> v]

OneReport == {[id |-> 1, team |-> t1, reporter |-> u1, realm |-> r1]}
TwoReports == OneReport \cup {[id |-> 2, team |-> t2, reporter |-> u1, realm |-> r1]}

\* Reports are posted, moved, replaced and deleted, while the match is edited
\* and users leave.
AllRequests ==
    {Post(u1, t1), Post(u2, t1), [Post(u1, t1) EXCEPT !.reporter = u2],
     Match({t1}), Match({t2}), [Match({t1}) EXCEPT !.role = "admin"],
     Put(u1, "user", 1, t2, u1, r1, TRUE), Put(u1, "user", 2, t1, u1, r1, FALSE),
     Put(u2, "admin", 2, t1, u1, r1, TRUE), Put(u3, "super", 1, t1, u3, None, TRUE),
     Put(u3, "super", 2, t1, None, r2, FALSE),
     Put(u3, "super", 1, t2, u1, r2, FALSE), Put(u2, "user", 1, t2, u2, r1, TRUE),
     Delete(u1, "user", 1), Delete(u2, "admin", 2), Delete(u2, "user", 1),
     Unregister(u3, "super", u1), Unregister(u2, "user", u1)}

\* A report is sent again as it is, the way a client corrects its data.
UpdateRequests == {Put(u1, "user", 1, t1, u1, r1, FALSE), Put(u1, "user", 1, t1, u1, r1, TRUE)}
=============================================================================
