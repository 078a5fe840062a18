------------------------------ MODULE Reports -------------------------------
(***************************************************************************)
(* The scouting reports of one match: the handlers that post, update and   *)
(* delete a report (src/internal/server/reports.go), those that change     *)
(* what reports depend on, the alliance (matches.go) and the reporter      *)
(* (users.go), and the transactions of src/internal/store they run.        *)
(*                                                                         *)
(* A client is one request in a goroutine of the HTTP server.  A step is   *)
(* one statement of its transaction; the last statement of a transaction   *)
(* that waits for nothing more is one step with its commit.  Statements    *)
(* read what is committed (READ COMMITTED, PostgreSQL's default, which     *)
(* store.go:99 asks for).  Who waits for whom is defined by Blockers.      *)
(*                                                                         *)
(* Of a match there is one alliance here, and of a report what identifies  *)
(* it and whom it belongs to; its data and its comment are left out.       *)
(***************************************************************************)
EXTENDS Integers, FiniteSets

CONSTANTS
    Clients,         \* requests that may be made at the same time
    Requests,        \* what they may ask for
    Users, Realms, Teams,
    UserRealm,       \* UserRealm[u]: the realm of user u, which never changes
    EventRealm,      \* the realm of the match's event, or None
    InitialReports,  \* reports in the database at first, numbered from 1
    InitialLineup,   \* teams of the alliance at first
    None             \* SQL's NULL

Maybe(S) == S \cup {None}
Roles == {"user", "admin", "super"}    \* by the access token

PostRequest == [op : {"post"}, user : Users, team : Teams,
                reporter : Maybe(Users), realm : Maybe(Realms)]
PutRequest == [op : {"put"}, user : Users, role : Roles, id : Nat, team : Teams,
               reporter : Maybe(Users), realm : Maybe(Realms), replace : BOOLEAN]
DeleteRequest == [op : {"delete"}, user : Users, role : Roles, id : Nat]
MatchRequest == [op : {"match"}, user : Users, role : Roles, lineup : SUBSET Teams]
UserRequest == [op : {"unregister"}, user : Users, role : Roles, target : Users]

Request == PostRequest \cup PutRequest \cup DeleteRequest \cup MatchRequest \cup UserRequest
Report == [id : Nat, team : Teams, reporter : Maybe(Users), realm : Maybe(Realms)]

\* The key of the table's unique constraint; a NULL is unlike any other.
SameKey(r, s) == r.reporter # None /\ r.reporter = s.reporter /\ r.team = s.team

ASSUME ReportsAssumption ==
    /\ None \notin Users \cup Realms \cup Teams \cup Report \cup Request \cup Nat
    /\ UserRealm \in [Users -> Realms]
    /\ EventRealm \in Maybe(Realms)
    /\ Requests \subseteq Request
    /\ InitialReports \subseteq Report /\ IsFiniteSet(InitialReports)
    /\ \A r \in InitialReports : r.id \in 1..Cardinality(InitialReports)
    /\ \A r, s \in InitialReports : r.id = s.id \/ SameKey(r, s) => r = s
    /\ \A r \in InitialReports :
          r.reporter # None /\ r.realm # None => r.realm = UserRealm[r.reporter]
    /\ InitialLineup \subseteq Teams

VARIABLES
    \* What is committed in the database.
    reports, users, lineup, nextId,
    \* The requests.
    req,        \* req[c]: what client c asks for, None before it does
    at,         \* at[c]: the statement to run next
    answer,     \* answer[c]: the response
    held,       \* held[c]: ids of the report rows it has locked
    old,        \* old[c]: the report LockReport has returned
    hit,        \* hit[c]: id of the conflicting report UpdateReportTx has found
    existed,    \* existed[c]: UpsertReport has found a report
    made        \* made[c]: it has inserted one (no variable of the program)

db == <<reports, users, lineup, nextId>>
memory == <<old, hit, existed, made>>
vars == <<db, req, at, answer, held, memory>>

Statements == {"start", "lock", "target", "check", "evict", "write", "delete",
               "alliance", "exists", "insert", "reporter", "match", "end",
               "table", "lineup", "user", "orphan", "done"}
Answers == {"none", "created", "ok", "no content", "bad request", "conflict",
            "forbidden", "not found", "error"}

Init ==
    /\ reports = InitialReports
    /\ users = Users
    /\ lineup = InitialLineup
    /\ nextId = Cardinality(InitialReports) + 1
    /\ req = [c \in Clients |-> None]
    /\ at = [c \in Clients |-> "start"]
    /\ answer = [c \in Clients |-> "none"]
    /\ held = [c \in Clients |-> {}]
    /\ old = [c \in Clients |-> None]
    /\ hit = [c \in Clients |-> None]
    /\ existed = [c \in Clients |-> FALSE]
    /\ made = [c \in Clients |-> FALSE]

-----------------------------------------------------------------------------
(* What the statements find.                                               *)

WithKey(k) == {r \in reports : SameKey(r, k)}
WithId(i) == {r \in reports : r.id = i}
ReportsOf(u) == {r \in reports : r.reporter = u}

\* The reporter and realm of a posted report: the ones of the access token.
Posted(q) == [team |-> q.team, reporter |-> q.user, realm |-> UserRealm[q.user]]
Row(i, q) == [id |-> i, team |-> q.team, reporter |-> q.reporter, realm |-> q.realm]

\* LockAlliance: the team plays and the event is visible.
Present(q) == q.team \in lineup /\ EventRealm \in {None, UserRealm[q.user]}

-----------------------------------------------------------------------------
(* Locks.  Each is held to the end of the transaction that took it; that   *)
(* of a post is two: the outer one holds the alliance and does nothing     *)
(* else while the inner one, of UpsertReport, writes the report.           *)

Posting == {c \in Clients : at[c] \in {"exists", "insert", "reporter", "match", "end"}}
Claiming == {c \in Clients : at[c] \in {"reporter", "match"}}

\* Mutant: the query for the alliance does not lock it.
NobodyHoldsAlliance == {}

HoldingAlliance == Posting
HoldingTable == {c \in Clients : at[c] = "lineup"}
HoldingRow(i) == {c \in Clients : i \in held[c]}
\* Their uncommitted row has key k.
HoldingKey(k) == {c \in Claiming : SameKey(Posted(req[c]), k)}
\* They have deleted or nulled row i without having committed.
Removing(i) == {c \in HoldingRow(i) : (at[c] = "write" /\ hit[c] = i) \/ at[c] = "orphan"}
\* FOR UPDATE by LockUser or by the deletion, FOR KEY SHARE by the foreign key.
UpdatingUser(u) ==
    {c \in Clients : \/ at[c] \in {"check", "evict", "write"} /\ req[c].reporter = u
                     \/ at[c] = "orphan" /\ req[c].target = u}
HoldingUser(u) == UpdatingUser(u) \cup {c \in Clients : at[c] = "match" /\ req[c].user = u}

\* The clients that the next statement of c has to wait for.
Blockers(c) ==
    LET q == req[c]
        s == at[c]
    IN CASE s = "lock" -> HoldingRow(q.id)
         [] s = "target" -> HoldingUser(q.reporter)
         [] s = "evict" -> HoldingRow(hit[c]) \ {c}
         [] s = "write" -> (HoldingKey(q) \cup UNION {Removing(r.id) : r \in WithKey(q)}) \ {c}
         [] s = "alliance" -> IF Present(q) THEN HoldingAlliance ELSE {}
         [] s = "insert" -> HoldingKey(Posted(q)) \cup UNION {HoldingRow(r.id) : r \in WithKey(Posted(q))}
         [] s = "reporter" -> UpdatingUser(q.user)
         [] s = "match" -> HoldingTable
         [] s = "table" -> HoldingTable
         [] s = "lineup" -> HoldingAlliance
         [] s = "user" -> HoldingUser(q.target)
         [] s = "orphan" -> UNION {HoldingRow(r.id) : r \in ReportsOf(q.target)} \ {c}
         [] OTHER -> {}

Free(c) == Blockers(c) = {}

\* The waits that PostgreSQL's deadlock check follows.  One for the alliance ends
\* at an outer transaction, which waits for nothing that the database knows of.
Visible(c) == IF at[c] \in {"alliance", "lineup"} THEN {} ELSE Blockers(c)

\* c waits, directly or not, for itself.
Deadlocked(c) == \A S \in SUBSET Clients :
    Visible(c) \subseteq S /\ (\A d \in S : Visible(d) \subseteq S) => c \in S

-----------------------------------------------------------------------------
(* Control.                                                                *)

\* The next statement of client c.
Goto(c, s) == at' = [at EXCEPT ![c] = s] /\ UNCHANGED answer

\* Mutant: the transaction is not ended.
RespondOnly(c, a) ==
    /\ at' = [at EXCEPT ![c] = "done"]
    /\ answer' = [answer EXCEPT ![c] = a]
    /\ UNCHANGED held

\* The response is sent, after a commit or a rollback.
Respond(c, a) ==
    /\ at' = [at EXCEPT ![c] = "done"]
    /\ answer' = [answer EXCEPT ![c] = a]
    /\ held' = [held EXCEPT ![c] = {}]

\* A request arrives; what can be refused without the database is.
Start(c) ==
    /\ at[c] = "start"
    /\ \E q \in Requests :
          /\ req' = [req EXCEPT ![c] = q]
          /\ CASE q.op = "post" ->
                    IF q.reporter \in {None, q.user} /\ q.realm \in {None, UserRealm[q.user]}
                    THEN Goto(c, "alliance") /\ UNCHANGED held
                    ELSE Respond(c, "bad request")
               [] q.op \in {"put", "delete"} -> Goto(c, "lock") /\ UNCHANGED held
               [] q.op = "match" -> Goto(c, "table") /\ UNCHANGED held
               [] q.op = "unregister" ->
                    IF q.role = "user" /\ q.user # q.target
                    THEN Respond(c, "forbidden")
                    ELSE Goto(c, "user") /\ UNCHANGED held
    /\ UNCHANGED <<db, memory>>

\* The deadlock check rolls back one transaction of a circle, and with it the
\* request.
Abort(c) ==
    /\ Deadlocked(c)
    /\ Respond(c, "error")
    /\ UNCHANGED <<db, req, memory>>

-----------------------------------------------------------------------------
(* PUT and DELETE of a report: editReport locks the report and, if the new *)
(* one has a reporter, that user; then validates; then edits.              *)

\* Mutant: the report is read without FOR UPDATE.
GetReport(c) ==
    /\ at[c] = "lock"
    /\ LET q == req[c] IN
       \/ WithId(q.id) = {} /\ Respond(c, "not found") /\ UNCHANGED old
       \/ \E r \in WithId(q.id) :
             /\ old' = [old EXCEPT ![c] = r]
             /\ Goto(c, IF q.op = "delete" THEN "delete"
                        ELSE IF q.reporter = None THEN "check" ELSE "target")
             /\ UNCHANGED held
    /\ UNCHANGED <<db, req, hit, existed, made>>

LockReport(c) ==
    /\ at[c] = "lock" /\ Free(c)
    /\ LET q == req[c] IN
       \/ /\ WithId(q.id) = {}
          /\ Respond(c, "not found")
          /\ UNCHANGED old
       \/ \E r \in WithId(q.id) :
             /\ old' = [old EXCEPT ![c] = r]
             /\ held' = [held EXCEPT ![c] = {q.id}]
             /\ Goto(c, IF q.op = "delete" THEN "delete"
                        ELSE IF q.reporter = None THEN "check" ELSE "target")
    /\ UNCHANGED <<db, req, hit, existed, made>>

LockUser(c) ==
    /\ at[c] = "target" /\ Free(c)
    /\ IF req[c].reporter \in users
       THEN Goto(c, "check") /\ UNCHANGED held
       ELSE Respond(c, "not found")
    /\ UNCHANGED <<db, req, memory>>

\* Mutant: the reporter's realm is not compared with the report's.
VerdictOfRoles(q, r) ==
    IF q.role = "user" /\ (q.reporter # q.user \/ r.reporter # q.user) THEN "forbidden"
    ELSE IF q.role # "super" /\ (q.realm # UserRealm[q.user] \/ r.realm # UserRealm[q.user])
         THEN "forbidden"
    ELSE "valid"

\* The validation of putReportHandler, of request q on report r.
Verdict(q, r) ==
    IF q.role = "user" /\ (q.reporter # q.user \/ r.reporter # q.user) THEN "forbidden"
    ELSE IF q.reporter # None /\ q.realm # None /\ UserRealm[q.reporter] # q.realm
         THEN "bad request"
    ELSE IF q.role # "super" /\ q.reporter # None /\ UserRealm[q.reporter] # UserRealm[q.user]
         THEN "forbidden"
    ELSE IF q.role # "super" /\ (q.realm # UserRealm[q.user] \/ r.realm # UserRealm[q.user])
         THEN "forbidden"
    ELSE "valid"

\* Validation, then the query of UpdateReportTx for a conflicting report.
CheckReport(c) ==
    /\ at[c] = "check"
    /\ LET q == req[c]
           verdict == Verdict(q, old[c])
       IN \/ verdict # "valid" /\ Respond(c, verdict) /\ UNCHANGED hit
          \/ /\ verdict = "valid" /\ WithKey(q) = {}
             /\ Goto(c, "write") /\ UNCHANGED <<held, hit>>
          \/ \E r \in WithKey(q) :
                /\ verdict = "valid"
                /\ hit' = [hit EXCEPT ![c] = r.id]
                /\ IF q.replace THEN Goto(c, "evict") /\ UNCHANGED held
                                ELSE Respond(c, "conflict")
    /\ UNCHANGED <<db, req, old, existed, made>>

\* DELETE of the conflicting report, by its id, once nobody else has it locked.
EvictConflict(c) ==
    /\ at[c] = "evict" /\ Free(c)
    /\ held' = [held EXCEPT ![c] = @ \cup {r.id : r \in WithId(hit[c])}]
    /\ Goto(c, "write")
    /\ UNCHANGED <<db, req, memory>>

\* Mutant: the conflicting report is looked for again after the UPDATE.
UpdatedFirst(c) ==
    {r \in reports \cup {Row(req[c].id, req[c])} : ~SameKey(r, req[c]) /\ r # old[c]}

\* The reports after the UPDATE: no row is changed if the row is gone.
Updated(c) ==
    LET q == req[c]
        kept == {r \in reports : r.id \notin {q.id, hit[c]}}
    IN IF hit[c] = q.id THEN kept ELSE kept \cup {Row(q.id, q)}

\* UPDATE and commit, refused if there is another report with the same key.
WriteReport(c) ==
    /\ at[c] = "write" /\ Free(c)
    /\ LET q == req[c]
           rivals == {r \in WithKey(q) : r.id \notin {q.id, hit[c]}}
       IN \/ rivals # {} /\ hit[c] # q.id /\ Respond(c, "bad request") /\ UNCHANGED reports
          \/ /\ rivals = {} \/ hit[c] = q.id
             /\ reports' = Updated(c)
             /\ Respond(c, "no content")
    /\ UNCHANGED <<users, lineup, nextId, req, memory>>

\* The validation of deleteReportHandler, then DeleteReportTx and commit.
MayDelete(q, r) ==
    \/ q.role = "super"
    \/ q.role = "admin" /\ r.realm = UserRealm[q.user]
    \/ r.reporter = q.user

DeleteReport(c) ==
    /\ at[c] = "delete"
    /\ LET q == req[c] IN
       IF MayDelete(q, old[c])
       THEN Respond(c, "no content") /\ reports' = {r \in reports : r.id # q.id}
       ELSE Respond(c, "forbidden") /\ UNCHANGED reports
    /\ UNCHANGED <<users, lineup, nextId, req, memory>>

-----------------------------------------------------------------------------
(* POST of a report.                                                       *)

\* The outer transaction begins.
LockAlliance(c) ==
    /\ at[c] = "alliance" /\ Free(c)
    /\ IF Present(req[c]) THEN Goto(c, "exists") /\ UNCHANGED held
                          ELSE Respond(c, "bad request")
    /\ UNCHANGED <<db, req, memory>>

\* Mutant: the query forgets the reporter.
ReportExistsOfAny(c) ==
    /\ at[c] = "exists"
    /\ existed' = [existed EXCEPT ![c] = \E r \in reports : r.team = req[c].team]
    /\ Goto(c, "insert")
    /\ UNCHANGED <<db, req, held, old, hit, made>>

\* UpsertReport begins the inner transaction.
ReportExists(c) ==
    /\ at[c] = "exists"
    /\ existed' = [existed EXCEPT ![c] = WithKey(Posted(req[c])) # {}]
    /\ Goto(c, "insert")
    /\ UNCHANGED <<db, req, held, old, hit, made>>

\* INSERT, or on conflict UPDATE and commit: only the realm can be new.
InsertReport(c) ==
    /\ at[c] = "insert" /\ Free(c)
    /\ LET q == Posted(req[c]) IN
       \/ /\ WithKey(q) = {}
          /\ made' = [made EXCEPT ![c] = TRUE]
          /\ Goto(c, "reporter")
          /\ UNCHANGED reports
       \/ \E r \in WithKey(q) :
             /\ reports' = (reports \ {r}) \cup {Row(r.id, q)}
             /\ Goto(c, "end")
             /\ UNCHANGED made
    /\ UNCHANGED <<users, lineup, nextId, req, held, old, hit, existed>>

\* The foreign key of the reporter.
CheckReporter(c) ==
    /\ at[c] = "reporter" /\ Free(c)
    /\ IF req[c].user \in users THEN Goto(c, "match") /\ UNCHANGED held
                                ELSE Respond(c, "error")
    /\ UNCHANGED <<db, req, memory>>

\* Mutant: ids are used again.
CheckMatchSameId(c) ==
    /\ at[c] = "match" /\ Free(c)
    /\ reports' = reports \cup {Row(nextId, Posted(req[c]))}
    /\ Goto(c, "end")
    /\ UNCHANGED <<users, lineup, nextId, req, held, memory>>

\* The foreign key of the match; the inner transaction commits.
CheckMatch(c) ==
    /\ at[c] = "match" /\ Free(c)
    /\ reports' = reports \cup {Row(nextId, Posted(req[c]))}
    /\ nextId' = nextId + 1
    /\ Goto(c, "end")
    /\ UNCHANGED <<users, lineup, req, held, memory>>

\* The outer transaction commits.
EndPost(c) ==
    /\ at[c] = "end"
    /\ Respond(c, IF existed[c] THEN "ok" ELSE "created")
    /\ UNCHANGED <<db, req, memory>>

-----------------------------------------------------------------------------
(* PUT of the match: editMatch locks the whole table of matches.           *)

MayEditMatch(q) == IF EventRealm = None THEN q.role = "super"
                                        ELSE EventRealm = UserRealm[q.user]

LockMatches(c) ==
    /\ at[c] = "table" /\ Free(c)
    /\ IF MayEditMatch(req[c]) THEN Goto(c, "lineup") /\ UNCHANGED held
                               ELSE Respond(c, "forbidden")
    /\ UNCHANGED <<db, req, memory>>

\* AlliancesUpsertTx, the last to wait of UpsertMatchTx, and the commit.
PutAlliance(c) ==
    /\ at[c] = "lineup" /\ Free(c)
    /\ lineup' = req[c].lineup
    /\ Respond(c, "no content")
    /\ UNCHANGED <<reports, users, nextId, req, memory>>

-----------------------------------------------------------------------------
(* DELETE of a user: ON DELETE SET NULL updates the user's reports.        *)

DeleteUser(c) ==
    /\ at[c] = "user" /\ Free(c)
    /\ LET q == req[c] IN
       IF q.target \in users /\ (q.role = "super" \/ UserRealm[q.target] = UserRealm[q.user])
       THEN Goto(c, "orphan") /\ UNCHANGED held
       ELSE Respond(c, IF q.role = "super" THEN "not found" ELSE "error")
    /\ UNCHANGED <<db, req, memory>>

Orphaned(r) == [id |-> r.id, team |-> r.team, reporter |-> None, realm |-> r.realm]

\* Row after row is updated as it can be locked; after the last, the commit.
OrphanReports(c) ==
    /\ at[c] = "orphan"
    /\ LET mine == ReportsOf(req[c].target)
           todo == {r \in mine : r.id \notin held[c]}
       IN \/ /\ \E r \in todo :
                   /\ HoldingRow(r.id) = {}
                   /\ held' = [held EXCEPT ![c] = @ \cup {r.id}]
             /\ UNCHANGED <<db, at, answer>>
          \/ /\ todo = {}
             /\ reports' = (reports \ mine) \cup {Orphaned(r) : r \in mine}
             /\ users' = users \ {req[c].target}
             /\ Respond(c, "no content")
             /\ UNCHANGED <<lineup, nextId>>
    /\ UNCHANGED <<req, memory>>

-----------------------------------------------------------------------------
\* Client c is served: one statement, or the end of a deadlock.
Serve(c) ==
    \/ LockReport(c) \/ LockUser(c) \/ CheckReport(c) \/ EvictConflict(c) \/ WriteReport(c)
    \/ DeleteReport(c)
    \/ LockAlliance(c) \/ ReportExists(c) \/ InsertReport(c) \/ CheckReporter(c)
    \/ CheckMatch(c) \/ EndPost(c)
    \/ LockMatches(c) \/ PutAlliance(c)
    \/ DeleteUser(c) \/ OrphanReports(c)
    \/ Abort(c)

Next == \E c \in Clients : Start(c) \/ Serve(c)

\* A goroutine that can run runs; a lock that stays free is taken; a deadlock
\* is noticed.  Nobody has to make a request.
Fairness == \A c \in Clients : WF_vars(Serve(c))

Spec == Init /\ [][Next]_vars /\ Fairness

-----------------------------------------------------------------------------
(* Properties.                                                             *)

TypeOK ==
    /\ reports \in SUBSET Report /\ \A r, s \in reports : r.id = s.id => r = s
    /\ users \subseteq Users /\ lineup \subseteq Teams /\ nextId \in Nat
    /\ req \in [Clients -> Maybe(Requests)]
    /\ at \in [Clients -> Statements] /\ answer \in [Clients -> Answers]
    /\ held \in [Clients -> SUBSET Nat]
    /\ old \in [Clients -> Maybe(Report)] /\ hit \in [Clients -> Maybe(Nat)]
    /\ existed \in [Clients -> BOOLEAN] /\ made \in [Clients -> BOOLEAN]

\* Nobody updates or deletes a report.
Undisturbed == \A c \in Clients : req[c] # None => req[c].op \notin {"put", "delete"}

\* "created" is answered for a report that was not there, "ok" for one that was:
\* the two statements of UpsertReport see the same, whatever else is posted and
\* whoever leaves (reports.go:92-95).
CreatedMeansNew == Undisturbed => \A c \in Clients : at[c] = "end" => made[c] = ~existed[c]

\* What a handler has found under its locks holds until it commits: the team that is
\* reported on plays, although the alliance is locked by one transaction and the report
\* inserted by another (reports.go:133-158, "make sure team is present"); the report
\* that is edited is as it was validated and its new reporter still there, whoever
\* else posts, edits or deletes (reports.go:363-402).
FoundHolds ==
    /\ \A c \in Posting : Present(req[c])
    /\ \A c \in Clients :
          /\ at[c] \in {"target", "check", "evict", "write", "delete"} => old[c] \in reports
          /\ at[c] \in {"check", "evict", "write"} => req[c].reporter \in Maybe(users)

\* A report and its reporter are of one realm, also after a super admin has
\* moved it or the reporter has posted it again (reports.go:122-129, 227-243).
ReporterInRealm == \A r \in reports :
    r.reporter # None /\ r.realm # None => r.realm = UserRealm[r.reporter]

\* Every request takes effect in one step, on what there is at that moment: between
\* its first statement and its commit nothing is changed that it has relied on.
Table == INSTANCE ReportTable
ImplementsTable == Table!Spec

\* A report is updated.
Puts(c) == at[c] = "write" /\ at'[c] = "done" /\ answer'[c] = "no content"

\* An update that gives a report another key is done when it is answered so,
\* and the report keeps its id (store/reports.go:160-210).
MoveStored == [][\A c \in Clients :
    Puts(c) /\ ~SameKey(old[c], req[c]) => Row(req[c].id, req[c]) \in reports']_vars

\* A post holds the alliance and waits, in its other transaction, for the table
\* of matches; who has locked that waits for the alliance.  The database sees
\* one of the two waits only.
Circle == \E c, d \in Clients : at[c] = "match" /\ at[d] = "lineup"

\* Every request is answered: what waits for a lock gets it or is told of a
\* deadlock, and the one circle that PostgreSQL cannot see is that of a post and
\* an edit of its match (reports.go:133-158, matches.go:124-146: no handler sets
\* a timeout).
AnsweredOrStuck == \A c \in Clients : at[c] # "start" ~> (at[c] = "done" \/ Circle)

-----------------------------------------------------------------------------
(* A claim that the code does not live up to.                              *)

\* "204: Successfully update existing report" (openapi.yaml, PUT /reports/{id}):
\* the report is there afterwards, as the request has it.
UpdateStored == [][\A c \in Clients :
    Puts(c) => Row(req[c].id, req[c]) \in reports']_vars
=============================================================================
