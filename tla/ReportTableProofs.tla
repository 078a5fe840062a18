-------------------------- MODULE ReportTableProofs --------------------------
(***************************************************************************)
(* Reports implements ReportTable: every request takes effect in the one   *)
(* statement that ends its writing, and what the statements before it have *)
(* found and checked is then still so.                                     *)
(***************************************************************************)
EXTENDS ReportsProofs

-----------------------------------------------------------------------------
(* What more the statements may count on.                                  *)

\* What the handlers have checked before the statement that is next, and what the
\* statements before it have found.
GrantedOf(c) ==
    /\ at[c] \in {"alliance", "exists", "insert", "reporter", "match", "end"} =>
          req[c].reporter \in {None, req[c].user} /\ req[c].realm \in {None, UserRealm[req[c].user]}
    /\ at[c] = "match" => req[c].user \in users
    /\ at[c] = "lineup" => MayEditMatch(req[c])
    /\ at[c] \in {"user", "orphan"} /\ req[c].role = "user" => req[c].user = req[c].target
    /\ at[c] = "orphan" =>
          /\ req[c].target \in users
          /\ req[c].role # "super" => UserRealm[req[c].user] = UserRealm[req[c].target]
    /\ Decided(c) /\ hit[c] # None => req[c].replace

Granted == \A c \in Clients : GrantedOf(c)

\* A user is deleted by one request at a time.
LeavesAlone == \A c, d \in Clients :
    at[c] = "orphan" /\ at[d] = "orphan" /\ req[c].target = req[d].target => c = d

\* The foreign key of the reports: whoever reports is registered.
ReportersRegistered == \A r \in reports : r.reporter \in Maybe(users)

TableInv == IInv /\ Granted /\ LeavesAlone /\ ReportersRegistered

LEMMA TableInvInit == Init => TableInv
<1> SUFFICES ASSUME Init PROVE TableInv
  OBVIOUS
<1>1. \A c \in Clients : at[c] = "start"
  BY DEF Init
<1>2. Granted /\ LeavesAlone
  BY <1>1 DEF Granted, GrantedOf, LeavesAlone, Decided
<1>3. ReportersRegistered
  BY ReportsAssumption DEF Init, ReportersRegistered, Report, Maybe
<1> QED
  BY <1>2, <1>3, InitInv DEF TableInv

\* What was granted stays granted to all but c, and what c goes on with is granted.
LEMMA GrantedStep ==
    ASSUME IInv, Granted, LeavesAlone, NEW c \in Clients, Start(c) \/ Serve(c)
    PROVE  Granted'
<1>i. TypeInv /\ UsersExclusive /\ EditLocks
  BY DEF IInv, Locks
<1>t. /\ at \in [Clients -> Statements] /\ hit \in [Clients -> Maybe(Nat)]
      /\ Enters(c) /\ Only(c) /\ Known
  BY <1>i, TypeParts, TypeStep, StepEnters DEF ClientsOK
<1>g. \A s : Goto(c, s) => at'[c] = s
  BY <1>t DEF Goto
<1>r. \A a : Respond(c, a) => at'[c] = "done"
  BY <1>t DEF Respond
<1>c. GrantedOf(c)
  BY DEF Granted
<1>1. GrantedOf(c)'
  <2>1. CASE Start(c)
    <3>1. PICK q \in Requests :
            /\ req' = [req EXCEPT ![c] = q]
            /\ CASE q.op = "post" ->
                        IF q.reporter \in {None, q.user} /\ q.realm \in {None, UserRealm[q.user]}
                        THEN Goto(c, "alliance") /\ UNCHANGED held
                        ELSE Respond(c, "bad request")
                 [] q.op \in {"put", "delete"} -> Goto(c, "lock") /\ UNCHANGED held
                 [] q.op = "match" -> Goto(c, "table") /\ UNCHANGED held
                 [] q.op = "unregister" ->
                        IF q.role = "user" /\ q.user # q.target
                        THEN Respond(c, "forbidden")
                        ELSE Goto(c, "user") /\ UNCHANGED held
      BY <2>1 DEF Start
    <3>2. req'[c] = q /\ q.op \in {"post", "put", "delete", "match", "unregister"}
      BY <1>i, <3>1, RequestType, TypeParts DEF ClientsOK
    <3>3. CASE q.op = "post"
      <4>1. \/ at'[c] = "done"
            \/ at'[c] = "alliance" /\ q.reporter \in {None, q.user} /\ q.realm \in {None, UserRealm[q.user]}
        BY <1>g, <1>r, <3>1, <3>3
      <4> QED
        BY <3>2, <4>1 DEF GrantedOf, Decided
    <3>4. CASE q.op \in {"put", "delete", "match"}
      <4>1. at'[c] \in {"lock", "table"}
        BY <1>g, <3>1, <3>4
      <4> QED
        BY <4>1 DEF GrantedOf, Decided
    <3>5. CASE q.op = "unregister"
      <4>1. \/ at'[c] = "done"
            \/ at'[c] = "user" /\ (q.role = "user" => q.user = q.target)
        BY <1>g, <1>r, <3>1, <3>5
      <4> QED
        BY <3>2, <4>1 DEF GrantedOf, Decided
    <3> QED
      BY <3>2, <3>3, <3>4, <3>5
  <2>2. CASE LockReport(c) \/ LockUser(c)
    <3>1. at'[c] \in {"target", "delete", "check", "done"}
      BY <1>g, <1>r, <2>2 DEF LockReport, LockUser
    <3> QED
      BY <3>1 DEF GrantedOf, Decided
  <2>3. CASE CheckReport(c)
    <3>1. at[c] = "check" /\ hit[c] = None
      BY <1>i, <2>3 DEF CheckReport, EditLocks, Decided
    <3>2. CASE at'[c] = "write"
      <4>1. hit' = hit
        BY <1>g, <1>r, <2>3, <3>2 DEF CheckReport
      <4> QED
        BY <3>1, <3>2, <4>1 DEF GrantedOf
    <3>3. CASE at'[c] = "evict"
      <4>1. req' = req /\ req[c].replace
        BY <1>g, <1>r, <2>3, <3>3 DEF CheckReport
      <4> QED
        BY <3>3, <4>1 DEF GrantedOf
    <3>4. CASE at'[c] = "done"
      BY <3>4 DEF GrantedOf, Decided
    <3>5. at'[c] \in {"write", "evict", "done"}
      BY <1>g, <1>r, <2>3 DEF CheckReport
    <3> QED
      BY <3>2, <3>3, <3>4, <3>5
  <2>4. CASE EvictConflict(c)
    <3>1. at[c] = "evict" /\ at'[c] = "write" /\ req' = req /\ hit' = hit
      BY <1>g, <2>4 DEF EvictConflict, memory
    <3> QED
      BY <1>c, <3>1 DEF GrantedOf, Decided
  <2>5. CASE LockAlliance(c) \/ ReportExists(c) \/ InsertReport(c) \/ CheckMatch(c)
    <3>1. /\ at[c] \in {"alliance", "exists", "insert", "match"} /\ req' = req
          /\ at'[c] \in {"exists", "insert", "reporter", "end", "done"}
      BY <1>g, <1>r, <2>5 DEF LockAlliance, ReportExists, InsertReport, CheckMatch
    <3> QED
      BY <1>c, <3>1 DEF GrantedOf, Decided
  <2>6. CASE CheckReporter(c)
    <3>1. /\ at[c] = "reporter" /\ req' = req /\ users' = users
          /\ (at'[c] = "match" /\ req[c].user \in users) \/ at'[c] = "done"
      BY <1>g, <1>r, <2>6 DEF CheckReporter, db
    <3> QED
      BY <1>c, <3>1 DEF GrantedOf, Decided
  <2>7. CASE LockMatches(c)
    <3>1. /\ req' = req
          /\ (at'[c] = "lineup" /\ MayEditMatch(req[c])) \/ at'[c] = "done"
      BY <1>g, <1>r, <2>7 DEF LockMatches
    <3> QED
      BY <3>1 DEF GrantedOf, Decided, MayEditMatch
  <2>8. CASE DeleteUser(c)
    <3>1. at[c] = "user" /\ req' = req /\ users' = users
      BY <2>8 DEF DeleteUser, db
    <3>2. \/ at'[c] = "done"
          \/ /\ at'[c] = "orphan" /\ req[c].target \in users
             /\ req[c].role # "super" => UserRealm[req[c].user] = UserRealm[req[c].target]
      BY <1>g, <1>r, <2>8 DEF DeleteUser
    <3> QED
      BY <1>c, <3>1, <3>2 DEF GrantedOf, Decided
  <2>9. CASE OrphanReports(c)
    <3>1. /\ at[c] = "orphan" /\ req' = req
          /\ at'[c] = "done" \/ (at' = at /\ users' = users)
      BY <1>r, <2>9 DEF OrphanReports, db
    <3> QED
      BY <1>c, <3>1 DEF GrantedOf, Decided
  <2>10. CASE WriteReport(c) \/ DeleteReport(c) \/ EndPost(c) \/ PutAlliance(c) \/ Abort(c)
    <3>1. at'[c] = "done"
      BY <1>r, <2>10 DEF WriteReport, DeleteReport, EndPost, PutAlliance, Abort
    <3> QED
      BY <3>1 DEF GrantedOf, Decided
  <2> QED
    BY <2>1, <2>2, <2>3, <2>4, <2>5, <2>6, <2>7, <2>8, <2>9, <2>10 DEF Serve
<1>2. ASSUME NEW d \in Clients \ {c} PROVE GrantedOf(d)'
  <2>1. GrantedOf(d) /\ at'[d] = at[d] /\ req'[d] = req[d] /\ hit'[d] = hit[d]
    BY <1>t DEF Granted, Only
  <2>2. /\ at[d] = "match" => req[d].user \in users'
        /\ at[d] = "orphan" => req[d].target \in users'
    <3>1. CASE users' = users
      BY <2>1, <3>1 DEF GrantedOf
    <3>2. CASE at[c] = "orphan" /\ users' = users \ {req[c].target}
      BY <1>i, <2>1, <3>2 DEF GrantedOf, UsersExclusive, LeavesAlone
    <3> QED
      BY <3>1, <3>2, Writers, OrphanEffect
  <2> QED
    BY <2>1, <2>2 DEF GrantedOf, Decided, MayEditMatch
<1> QED
  BY <1>1, <1>2 DEF Granted

LEMMA LeavesAloneStep ==
    ASSUME TypeInv, LeavesAlone, NEW c \in Clients, Start(c) \/ Serve(c) PROVE LeavesAlone'
<1>t. Enters(c) /\ Only(c)
  BY TypeStep, StepEnters
<1>1. ASSUME at'[c] = "orphan", NEW d \in Clients \ {c}, at[d] = "orphan"
      PROVE  req'[c].target # req[d].target
  <2>1. CASE DeleteUser(c)
    <3>1. at[c] = "user" /\ Free(c) /\ req' = req
      BY <2>1 DEF DeleteUser
    <3>2. d \notin HoldingUser(req[c].target)
      BY <3>1, FreeMeans
    <3> QED
      BY <1>1, <3>1, <3>2 DEF HoldingUser, UpdatingUser
  <2>2. CASE OrphanReports(c)
    BY <1>1, <2>2 DEF OrphanReports, LeavesAlone
  <2> QED
    BY <1>1, <1>t, <2>1, <2>2 DEF Enters
<1>2. \A d \in Clients \ {c} : at'[d] = at[d] /\ req'[d] = req[d]
  BY <1>t DEF Only
<1> QED
  BY <1>1, <1>2 DEF LeavesAlone

\* The writes keep the foreign key: an edit holds its new reporter, an insert has
\* checked the user, and a departure takes the reports along.
LEMMA RegisteredStep ==
    ASSUME IInv, Granted, ReportersRegistered, NEW c \in Clients, Start(c) \/ Serve(c)
    PROVE  ReportersRegistered'
<1>i. EditsWhatWasChecked /\ GrantedOf(c)
  BY DEF IInv, Granted
<1>0. CASE reports' = reports /\ users' = users
  BY <1>0 DEF ReportersRegistered
<1>1. CASE WriteReport(c)
  <2>1. at[c] = "write" /\ users' = users /\ \A r \in reports' : r \in reports \/ r = Row(req[c].id, req[c])
    BY <1>1, WriteEffect DEF WriteReport
  <2>2. req[c].reporter \in Maybe(users)
    BY <1>i, <2>1 DEF EditsWhatWasChecked
  <2> QED
    BY <2>1, <2>2 DEF ReportersRegistered, Row
<1>2. CASE DeleteReport(c)
  BY <1>2 DEF DeleteReport, ReportersRegistered
<1>3. CASE InsertReport(c)
  <2>1. users' = users /\ \/ reports' = reports
                          \/ \E r \in WithKey(Posted(req[c])) :
                                reports' = (reports \ {r}) \cup {Row(r.id, Posted(req[c]))}
    BY <1>3 DEF InsertReport
  <2> QED
    BY <2>1 DEF ReportersRegistered, WithKey, SameKey, Row
<1>4. CASE CheckMatch(c)
  BY <1>4, <1>i DEF CheckMatch, GrantedOf, ReportersRegistered, Row, Posted, Maybe
<1>5. CASE OrphanReports(c)
  <2>1. CASE users' = users \ {req[c].target}
             /\ \A r \in reports' : \/ r \in reports /\ r.reporter # req[c].target
                                    \/ \E s \in ReportsOf(req[c].target) : r = Orphaned(s)
    BY <2>1 DEF ReportersRegistered, Orphaned, Maybe
  <2> QED
    BY <1>0, <1>5, <2>1, OrphanEffect
<1> QED
  BY <1>0, <1>1, <1>2, <1>3, <1>4, <1>5, Writers

LEMMA TableInvStep == TableInv /\ [Next]_vars => TableInv'
<1>1. ASSUME TableInv, NEW c \in Clients, Start(c) \/ Serve(c) PROVE TableInv'
  <2>1. IInv'
    BY <1>1, StepInv DEF TableInv, Next
  <2>2. Granted' /\ LeavesAlone' /\ ReportersRegistered'
    BY <1>1, GrantedStep, LeavesAloneStep, RegisteredStep DEF TableInv, IInv
  <2> QED
    BY <2>1, <2>2 DEF TableInv
<1>2. ASSUME TableInv, UNCHANGED vars PROVE TableInv'
  <2>1. IInv'
    BY <1>2, StepInv DEF TableInv
  <2>2. UNCHANGED <<reports, users, req, at, hit>>
    BY <1>2 DEF vars, db, memory
  <2> QED
    BY <1>2, <2>1, <2>2 DEF TableInv, Granted, GrantedOf, Decided, MayEditMatch, LeavesAlone, ReportersRegistered
<1> QED
  BY <1>1, <1>2 DEF Next

-----------------------------------------------------------------------------
(* Each statement, seen from the table.                                    *)

\* The row of a request is the report that it asks for.
LEMMA RivalsAreSameKey ==
    /\ \A r, s : Table!Rivals(r, s) <=> SameKey(r, s)
    /\ \A i, q : Row(i, q) = [id |-> i, team |-> q.team, reporter |-> q.reporter, realm |-> q.realm]
BY DEF Table!Rivals, SameKey, Row

\* An edit that has been found valid may be made.
LEMMA ValidMayPut ==
    ASSUME NEW q, NEW r, Verdict(q, r) = "valid" PROVE Table!MayPut(q, r)
BY DEF Verdict, Table!MayPut

\* UPDATE, after the DELETE of what was in the way, is the edit.
LEMMA WriteIsPut ==
    ASSUME TableInv, NEW c \in Clients, WriteReport(c), reports' # reports
    PROVE  Table!Put(req[c])
<1> DEFINE q == req[c]
           r == old[c]
           report == [id |-> q.id, team |-> q.team, reporter |-> q.reporter, realm |-> q.realm]
           others == reports \ {r}
<1>i. /\ TypeInv /\ EditsWhatWasChecked /\ Validated /\ GrantedOf(c)
  BY DEF TableInv, IInv, Granted
<1>1. at[c] = "write" /\ UNCHANGED <<users, lineup, nextId>>
  BY DEF WriteReport
<1>2. /\ {s \in WithKey(q) : s.id \notin {q.id, hit[c]}} = {} \/ hit[c] = q.id
      /\ reports' = Updated(c)
  BY WriteEffect
<1>3. q.op = "put" /\ q.id \in Nat /\ r.id = q.id /\ r \in reports /\ q.reporter \in Maybe(users)
  BY <1>i, <1>1, TypeParts, RequestType DEF Known, KnownOf, Editing, EditsWhatWasChecked
<1>4. Table!MayPut(q, r) /\ (hit[c] = q.id => SameKey(r, q)) /\ (hit[c] # None => q.replace)
  BY <1>i, <1>1, ValidMayPut DEF Validated, Decided, GrantedOf
<1>5. /\ \A s \in reports : s.id \in Nat /\ (s.id = q.id => s = r)
      /\ \A s, s1 \in reports : s.id = s1.id => s = s1
      /\ None \notin Nat
  BY <1>i, <1>3, TypeParts, ReportsAssumption DEF TablesOK, Report
<1>6. report = Row(q.id, q)
  BY RivalsAreSameKey
<1>7. \/ \E gone \in {{}} \cup {{s} : s \in others} :
            /\ gone # {} => q.replace
            /\ \A s \in others \ gone : ~Table!Rivals(s, report)
            /\ reports' = (others \ gone) \cup {report}
      \/ q.replace /\ Table!Rivals(r, report) /\ reports' = others
  <2>1. CASE hit[c] = q.id
    <3>1. reports' = others
      BY <1>2, <1>3, <1>5, <2>1 DEF Updated
    <3>2. SameKey(r, report)
      BY <1>4, <2>1 DEF SameKey
    <3>3. q.replace
      BY <1>3, <1>4, <1>5, <2>1
    <3> QED
      BY <3>1, <3>2, <3>3, RivalsAreSameKey
  <2>2. CASE hit[c] # q.id
    <3> DEFINE gone == {s \in others : s.id = hit[c]}
    <3>1. gone \in {{}} \cup {{s} : s \in others}
      <4>1. ASSUME NEW s \in gone PROVE gone = {s}
        BY <1>5
      <4>2. CASE gone = {}
        BY <4>2
      <4>3. CASE gone # {}
        <5>1. PICK s \in gone : TRUE
          BY <4>3
        <5>2. s \in others /\ gone = {s}
          BY <4>1
        <5> QED
          BY <5>2
      <4> QED
        BY <4>2, <4>3
    <3>2. gone # {} => q.replace
      BY <1>4, <1>5
    <3>3. \A s \in reports : s \in others \ gone <=> s.id \notin {q.id, hit[c]}
      BY <1>3, <1>5
    <3>4. \A s \in others \ gone : ~Table!Rivals(s, report)
      <4>1. \A s \in reports : s.id \notin {q.id, hit[c]} => ~SameKey(s, q)
        BY <1>2, <2>2 DEF WithKey
      <4>2. \A s : SameKey(s, report) => SameKey(s, q)
        BY DEF SameKey
      <4> QED
        BY <3>3, <4>1, <4>2, RivalsAreSameKey
    <3>5. reports' = (others \ gone) \cup {report}
      BY <1>2, <1>6, <2>2, <3>3 DEF Updated
    <3> HIDE DEF gone
    <3> QED
      BY <3>1, <3>2, <3>4, <3>5
  <2> QED
    BY <2>1, <2>2
<1> HIDE DEF report, others
<1>8. q.reporter \in users \cup {None}
  BY <1>3 DEF Maybe
<1> QED
  BY <1>1, <1>3, <1>4, <1>7, <1>8 DEF Table!Put, report, others

\* DELETE is the deletion.
LEMMA DeleteIsDelete ==
    ASSUME TableInv, NEW c \in Clients, DeleteReport(c), reports' # reports
    PROVE  Table!Delete(req[c])
<1> DEFINE q == req[c]
           r == old[c]
<1>i. TypeInv /\ EditsWhatWasChecked
  BY DEF TableInv, IInv
<1>1. /\ at[c] = "delete" /\ UNCHANGED <<users, lineup, nextId>> /\ MayDelete(q, r)
      /\ reports' = {s \in reports : s.id # q.id}
  BY DEF DeleteReport
<1>2. q.op = "delete" /\ r.id = q.id /\ r \in reports
  BY <1>i, <1>1, TypeParts DEF Known, KnownOf, Editing, EditsWhatWasChecked
<1>3. \A s \in reports : s.id = q.id => s = r
  BY <1>i, <1>2, TypeParts DEF TablesOK
<1>4. reports' = reports \ {r}
  BY <1>1, <1>2, <1>3
<1> QED
  BY <1>1, <1>2, <1>4 DEF Table!Delete, MayDelete

\* A post finds its team and its realm still where it has looked for them.
LEMMA PostGuard ==
    ASSUME TableInv, NEW c \in Clients, at[c] \in {"insert", "match"}
    PROVE  /\ req[c].op = "post" /\ req[c].team \in lineup
           /\ EventRealm \in {None, UserRealm[req[c].user]}
           /\ req[c].reporter \in {None, req[c].user} /\ req[c].realm \in {None, UserRealm[req[c].user]}
           /\ req[c].user \in Users
<1>1. Present(req[c])
  BY DEF TableInv, IInv, PresentWhenReported, Posting
<1>2. req[c] \in Requests /\ req[c].op = "post"
  BY DEF TableInv, IInv, TypeInv, Known, KnownOf
<1> QED
  BY <1>1, <1>2, RequestType DEF Present, TableInv, Granted, GrantedOf

\* ON CONFLICT DO UPDATE is the post of a report that there is: its reporter, who has
\* it, is registered.
LEMMA InsertIsPost ==
    ASSUME TableInv, NEW c \in Clients, InsertReport(c), reports' # reports
    PROVE  Table!Post(req[c])
<1> DEFINE q == req[c]
           report(i) == [id |-> i, team |-> q.team, reporter |-> q.user, realm |-> UserRealm[q.user]]
<1>1. at[c] = "insert" /\ UNCHANGED <<users, lineup, nextId>>
  BY DEF InsertReport
<1>2. PICK r \in WithKey(Posted(q)) : reports' = (reports \ {r}) \cup {Row(r.id, Posted(q))}
  BY DEF InsertReport
<1>3. \A i : report(i) = Row(i, Posted(q))
  BY DEF Row, Posted
<1>4. r \in reports /\ SameKey(r, Posted(q))
  BY DEF WithKey
<1>5. SameKey(r, report(r.id)) /\ r.reporter = q.user /\ q.user # None
  BY <1>4 DEF SameKey, Posted
<1>6. q.user \in users
  BY <1>4, <1>5 DEF TableInv, ReportersRegistered, Maybe
<1>7. \E s \in reports : Table!Rivals(s, report(s.id)) /\ reports' = (reports \ {s}) \cup {report(s.id)}
  BY <1>2, <1>3, <1>4, <1>5, RivalsAreSameKey
<1> HIDE DEF report
<1> QED
  BY <1>1, <1>6, <1>7, PostGuard DEF Table!Post, report

\* The last foreign key of an INSERT, and its commit, is the post of a new report.
LEMMA CommitIsPost ==
    ASSUME TableInv, NEW c \in Clients, CheckMatch(c)
    PROVE  Table!Post(req[c])
<1> DEFINE q == req[c]
           report(i) == [id |-> i, team |-> q.team, reporter |-> q.user, realm |-> UserRealm[q.user]]
<1>1. /\ at[c] = "match" /\ UNCHANGED <<users, lineup>> /\ nextId' = nextId + 1
      /\ reports' = reports \cup {Row(nextId, Posted(q))}
  BY DEF CheckMatch
<1>2. report(nextId) = Row(nextId, Posted(q))
  BY DEF Row, Posted
<1>3. WithKey(Posted(q)) = {}
  BY <1>1 DEF TableInv, IInv, KeysUnique, Claiming
<1>4. \A r \in reports : ~Table!Rivals(r, report(nextId))
  <2>1. \A r : SameKey(r, report(nextId)) => SameKey(r, Posted(q))
    BY DEF SameKey, Posted
  <2> QED
    BY <1>3, <2>1, RivalsAreSameKey DEF WithKey
<1>5. q.user \in users
  BY <1>1 DEF TableInv, Granted, GrantedOf
<1>6. reports' = reports \cup {report(nextId)}
  BY <1>1, <1>2
<1> HIDE DEF report
<1> QED
  BY <1>1, <1>4, <1>5, <1>6, PostGuard DEF Table!Post, report

\* The write of the alliances is the edit of the match.
LEMMA AllianceIsReschedule ==
    ASSUME TableInv, NEW c \in Clients, PutAlliance(c) PROVE Table!Reschedule(req[c])
<1>1. /\ at[c] = "lineup" /\ lineup' = req[c].lineup
      /\ UNCHANGED <<reports, users, nextId>>
  BY DEF PutAlliance
<1>2. req[c].op = "match" /\ MayEditMatch(req[c])
  BY <1>1 DEF TableInv, IInv, TypeInv, Known, KnownOf, Granted, GrantedOf
<1> QED
  BY <1>1, <1>2 DEF Table!Reschedule, MayEditMatch

\* The deletion of a user takes effect with the last of the user's reports.
LEMMA OrphanIsLeave ==
    ASSUME TableInv, NEW c \in Clients, OrphanReports(c)
    PROVE  Table!Leave(req[c]) \/ UNCHANGED db
<1> DEFINE q == req[c]
           mine == ReportsOf(q.target)
<1>1. CASE UNCHANGED db
  BY <1>1
<1>2. CASE /\ reports' = (reports \ mine) \cup {Orphaned(r) : r \in mine}
           /\ users' = users \ {q.target}
           /\ UNCHANGED <<lineup, nextId>>
  <2>1. at[c] = "orphan"
    BY DEF OrphanReports
  <2>2. /\ q.op = "unregister" /\ q.target \in users
        /\ q.role = "user" => q.user = q.target
        /\ q.role # "super" => UserRealm[q.user] = UserRealm[q.target]
    BY <2>1 DEF TableInv, IInv, TypeInv, Known, KnownOf, Granted, GrantedOf
  <2>3. reports \subseteq Report
    BY TypeParts DEF TableInv, IInv, TablesOK
  <2>4. \A r \in reports : [r EXCEPT !.reporter = None] = Orphaned(r)
    BY <2>3 DEF Report, Orphaned
  <2>5. reports' = {IF r.reporter = q.target THEN Orphaned(r) ELSE r : r \in reports}
    BY <1>2 DEF ReportsOf
  <2>6. reports' = {IF r.reporter = q.target THEN [r EXCEPT !.reporter = None] ELSE r : r \in reports}
    BY <2>4, <2>5
  <2> QED
    BY <1>2, <2>2, <2>6 DEF Table!Leave
<1> QED
  BY <1>1, <1>2 DEF OrphanReports

\* Every other statement leaves the table alone.
LEMMA OthersStutter ==
    ASSUME NEW c \in Clients, Start(c) \/ Serve(c),
           ~CheckMatch(c), ~PutAlliance(c), ~OrphanReports(c),
           reports' # reports => ~WriteReport(c) /\ ~DeleteReport(c) /\ ~InsertReport(c)
    PROVE  UNCHANGED db
BY Writers DEF db, OrphanReports

LEMMA StepIsTableStep == TableInv /\ [Next]_vars => [Table!Next]_(Table!vars)
<1>1. ASSUME TableInv, NEW c \in Clients, Start(c) \/ Serve(c)
      PROVE  Table!Next \/ UNCHANGED db
  <2>1. (WriteReport(c) \/ DeleteReport(c) \/ InsertReport(c) \/ CheckMatch(c) \/ PutAlliance(c)
           \/ OrphanReports(c)) => at[c] # "start" /\ req[c] \in Requests
    BY <1>1 DEF TableInv, IInv, TypeInv, Known, KnownOf, WriteReport, DeleteReport, InsertReport,
                CheckMatch, PutAlliance, OrphanReports
  <2>2. CASE WriteReport(c) /\ reports' # reports
    BY <1>1, <2>1, <2>2, WriteIsPut DEF Table!Next
  <2>3. CASE DeleteReport(c) /\ reports' # reports
    BY <1>1, <2>1, <2>3, DeleteIsDelete DEF Table!Next
  <2>4. CASE InsertReport(c) /\ reports' # reports
    BY <1>1, <2>1, <2>4, InsertIsPost DEF Table!Next
  <2>5. CASE CheckMatch(c)
    BY <1>1, <2>1, <2>5, CommitIsPost DEF Table!Next
  <2>6. CASE PutAlliance(c)
    BY <1>1, <2>1, <2>6, AllianceIsReschedule DEF Table!Next
  <2>7. CASE OrphanReports(c)
    BY <1>1, <2>1, <2>7, OrphanIsLeave DEF Table!Next
  <2> QED
    BY <1>1, <2>2, <2>3, <2>4, <2>5, <2>6, <2>7, OthersStutter
<1>2. ASSUME UNCHANGED vars PROVE UNCHANGED db
  BY <1>2 DEF vars
<1>3. UNCHANGED db => UNCHANGED Table!vars
  BY DEF db, Table!vars
<1> QED
  BY <1>1, <1>2, <1>3 DEF Next

-----------------------------------------------------------------------------
\* For any number of scouts, edits and departures at the same time, what they do to
\* the reports, the users and the match is what they would do one after the other:
\* each takes effect in one step, with what it has checked still so (reports.go:92-158,
\* 180-402, users.go:447-508, matches.go:110-146).
THEOREM TableImplemented == Spec => ImplementsTable
<1>1. Init => Table!Init
  BY Zenon DEF Init, Table!Init, Cardinality, Table!Cardinality
<1>2. TableInv /\ [Next]_vars => [Table!Next]_(Table!vars)
  BY StepIsTableStep
<1> QED
  BY <1>1, <1>2, TableInvInit, TableInvStep, PTL DEF Spec, ImplementsTable, Table!Spec

\* A report's reporter is registered, although the row of an insert is checked against
\* the users only after it has been written (store/reports.go:92-132, users.go:447-508).
THEOREM ReportersRegisteredCorrect == Spec => []ReportersRegistered
<1>1. TableInv => ReportersRegistered
  BY DEF TableInv
<1> QED
  BY <1>1, TableInvInit, TableInvStep, PTL DEF Spec
=============================================================================
