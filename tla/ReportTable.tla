---------------------------- MODULE ReportTable -----------------------------
(***************************************************************************)
(* What the API promises of the reports of one match: a request that       *)
(* changes anything does so in one step, on what there is at that moment,  *)
(* as if nothing else were under way.  How it gets there, statement by     *)
(* statement and from lock to lock, is the business of Reports, which      *)
(* implements this specification.                                          *)
(*                                                                         *)
(* Not promised is that every request is answered, nor that a PUT which    *)
(* replaces reports replaces those that conflict with it and no other:     *)
(* it may remove one that has ceased to, or the very one it updates.       *)
(***************************************************************************)
EXTENDS Integers, FiniteSets

CONSTANTS Requests, Users, UserRealm, EventRealm, InitialReports, InitialLineup, None

VARIABLES
    reports,   \* the reports of the match
    users,     \* who is registered
    lineup,    \* who plays
    nextId     \* the next report's number

vars == <<reports, users, lineup, nextId>>

Init ==
    /\ reports = InitialReports
    /\ users = Users
    /\ lineup = InitialLineup
    /\ nextId = Cardinality(InitialReports) + 1

\* One report of a team by a reporter; those without a reporter are no rivals.
Rivals(r, s) == r.reporter # None /\ r.reporter = s.reporter /\ r.team = s.team

-----------------------------------------------------------------------------
\* A registered user reports on a team that plays where the user's realm may look:
\* a new report, or the user's report of that team once more.
Post(q) ==
    /\ q.op = "post" /\ q.user \in users /\ q.team \in lineup
    /\ EventRealm \in {None, UserRealm[q.user]}
    /\ q.reporter \in {None, q.user} /\ q.realm \in {None, UserRealm[q.user]}
    /\ LET report(i) == [id |-> i, team |-> q.team,
                         reporter |-> q.user, realm |-> UserRealm[q.user]]
       IN \/ /\ \A r \in reports : ~Rivals(r, report(nextId))
             /\ reports' = reports \cup {report(nextId)}
             /\ nextId' = nextId + 1
          \/ /\ \E r \in reports : /\ Rivals(r, report(r.id))
                                   /\ reports' = (reports \ {r}) \cup {report(r.id)}
             /\ UNCHANGED nextId
    /\ UNCHANGED <<users, lineup>>

\* Users edit their own reports, admins those of their realm, which they leave in it.
MayPut(q, r) ==
    /\ q.role = "user" => q.reporter = q.user /\ r.reporter = q.user
    /\ q.role # "super" => /\ q.realm = UserRealm[q.user] /\ r.realm = UserRealm[q.user]
                           /\ q.reporter # None => UserRealm[q.reporter] = UserRealm[q.user]
    /\ q.reporter # None /\ q.realm # None => UserRealm[q.reporter] = q.realm

\* A report is edited, in favour of a registered user if of anybody.
Put(q) ==
    /\ q.op = "put" /\ q.reporter \in users \cup {None}
    /\ \E r \in reports : /\ r.id = q.id /\ MayPut(q, r)
          /\ LET report == [id |-> q.id, team |-> q.team, reporter |-> q.reporter, realm |-> q.realm]
                 others == reports \ {r}
             IN \/ \E gone \in {{}} \cup {{s} : s \in others} :
                      /\ gone # {} => q.replace
                      /\ \A s \in others \ gone : ~Rivals(s, report)
                      /\ reports' = (others \ gone) \cup {report}
                \/ q.replace /\ Rivals(r, report) /\ reports' = others
    /\ UNCHANGED <<users, lineup, nextId>>

\* A report is deleted, by its reporter, an admin of its realm or a super admin.
Delete(q) ==
    /\ q.op = "delete"
    /\ \E r \in reports :
          /\ r.id = q.id
          /\ \/ r.reporter = q.user
             \/ q.role = "super"
             \/ q.role = "admin" /\ r.realm = UserRealm[q.user]
          /\ reports' = reports \ {r}
    /\ UNCHANGED <<users, lineup, nextId>>

\* The match is edited, by a realm that has the event or, if none has, a super admin.
Reschedule(q) ==
    /\ q.op = "match"
    /\ IF EventRealm = None THEN q.role = "super" ELSE EventRealm = UserRealm[q.user]
    /\ lineup' = q.lineup
    /\ UNCHANGED <<reports, users, nextId>>

\* A user leaves, of the own will or an admin's, and the reports stay without one.
Leave(q) ==
    /\ q.op = "unregister" /\ q.target \in users
    /\ q.role = "user" => q.user = q.target
    /\ q.role # "super" => UserRealm[q.user] = UserRealm[q.target]
    /\ users' = users \ {q.target}
    /\ reports' = {IF r.reporter = q.target THEN [r EXCEPT !.reporter = None] ELSE r : r \in reports}
    /\ UNCHANGED <<lineup, nextId>>

Next == \E q \in Requests : Post(q) \/ Put(q) \/ Delete(q) \/ Reschedule(q) \/ Leave(q)

Spec == Init /\ [][Next]_vars
=============================================================================
