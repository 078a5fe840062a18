---------------------------- MODULE ReportsProofs ----------------------------
(***************************************************************************)
(* Theorems about Reports, for any number of clients, users and reports:   *)
(* what the row locks, the lock on the alliance and the unique constraint  *)
(* guarantee to the handlers that rely on them.                            *)
(***************************************************************************)
EXTENDS Reports, TLAPS, FiniteSetTheorems, WellFoundedInduction

-----------------------------------------------------------------------------
(* The inductive invariant.                                                *)

\* An edit that is under way, once it has its report.
Editing(c) == at[c] \in {"target", "check", "evict", "write", "delete"}
Decided(c) == at[c] \in {"evict", "write"}

\* A request that is under way is one of those that may be made, and its statement
\* one of its operation.
KnownOf(c) ==
    /\ at[c] = "start" => req[c] = None
    /\ at[c] # "start" => req[c] \in Requests
    /\ at[c] = "lock" => req[c].op \in {"put", "delete"}
    /\ at[c] \in {"target", "check", "evict", "write"} => req[c].op = "put"
    /\ at[c] = "delete" => req[c].op = "delete"
    /\ at[c] \in {"alliance", "exists", "insert", "reporter", "match", "end"} => req[c].op = "post"
    /\ at[c] \in {"table", "lineup"} => req[c].op = "match"
    /\ at[c] \in {"user", "orphan"} => req[c].op = "unregister"
    /\ Editing(c) => old[c] \in Report /\ old[c].id = req[c].id /\ old[c].id < nextId
    /\ at[c] = "evict" => hit[c] \in Nat
    /\ hit[c] # None => hit[c] < nextId

Known == \A c \in Clients : KnownOf(c)

\* Numbers are given out once.
IdsSpent == \A r \in reports : r.id < nextId

TypeInv == TypeOK /\ Known /\ IdsSpent

\* No two clients have locked the same row.
RowsExclusive == \A c, d \in Clients : c # d => held[c] \cap held[d] = {}

\* An edit has locked what it edits and, before it writes, what it replaces, if
\* that is still there; it replaces nothing that its query has not found.
EditLocks == \A c \in Clients :
    /\ Editing(c) => req[c].id \in held[c]
    /\ hit[c] # None => Decided(c) \/ at[c] = "done"
    /\ at[c] = "write" /\ hit[c] # None => hit[c] \in held[c] \/ WithId(hit[c]) = {}

\* Nobody deletes a user whom an edit or an insert has found.
UsersExclusive == \A c, d \in Clients : at[d] = "orphan" =>
    /\ at[c] = "check" \/ Decided(c) => req[c].reporter # req[d].target
    /\ at[c] = "match" => req[c].user # req[d].target

\* One post at a time has the alliance.
OnePost == \A c, d \in Posting : c = d

Locks == RowsExclusive /\ EditLocks /\ UsersExclusive /\ OnePost

\* The two parts of FoundHolds: what a post, and what an edit, has found.
PresentWhenReported == \A c \in Posting : Present(req[c])

EditsWhatWasChecked == \A c \in Clients :
    /\ at[c] \in {"target", "check", "evict", "write", "delete"} => old[c] \in reports
    /\ at[c] \in {"check", "evict", "write"} => req[c].reporter \in Maybe(users)

\* What an edit writes has been validated; a report conflicts with itself only
\* if it keeps its key.
Validated == \A c \in Clients : Decided(c) =>
    /\ Verdict(req[c], old[c]) = "valid"
    /\ hit[c] = req[c].id => SameKey(old[c], req[c])

\* No two reports have the same key, not even with one that is not yet committed.
KeysUnique ==
    /\ \A r, s \in reports : SameKey(r, s) => r = s
    /\ \A c \in Claiming : WithKey(Posted(req[c])) = {}

\* What a post has found, while nobody updates or deletes reports: only the
\* departure of the reporter, which ends the post, can make a report vanish.
FoundRight == Undisturbed => \A c \in Clients :
    /\ at[c] \in {"start", "alliance", "exists", "insert"} => ~made[c]
    /\ at[c] = "insert" =>
          \/ existed[c] = (WithKey(Posted(req[c])) # {})
          \/ existed[c] /\ req[c].user \notin users
    /\ at[c] = "reporter" => made[c] /\ (existed[c] => req[c].user \notin users)
    /\ at[c] = "match" => made[c] /\ ~existed[c]

IInv ==
    /\ TypeInv /\ Locks /\ EditsWhatWasChecked /\ Validated
    /\ PresentWhenReported /\ KeysUnique /\ ReporterInRealm
    /\ FoundRight /\ CreatedMeansNew

-----------------------------------------------------------------------------
(* Types.                                                                  *)

\* What there is in a request.
LEMMA RequestType == \A q \in Requests :
    /\ q.op \in {"post", "put", "delete", "match", "unregister"}
    /\ q.user \in Users
    /\ q.op = "post" => q.team \in Teams /\ Posted(q).realm \in Realms
    /\ q.op = "put" => /\ q.id \in Nat /\ q.team \in Teams
                       /\ q.reporter \in Maybe(Users) /\ q.realm \in Maybe(Realms)
    /\ q.op = "delete" => q.id \in Nat
    /\ q.op = "match" => q.lineup \subseteq Teams
    /\ q.op = "unregister" => q.target \in Users
BY ReportsAssumption DEF Request, PostRequest, PutRequest, DeleteRequest, MatchRequest, UserRequest, Posted

\* The types hold at first.
LEMMA TypeInit == Init => TypeInv
<1> SUFFICES ASSUME Init PROVE TypeInv
  OBVIOUS
<1>1. Cardinality(InitialReports) \in Nat
  BY ReportsAssumption, FS_CardinalityType
<1>2. \A r \in InitialReports : r.id \in Nat /\ r.id < nextId
  BY <1>1, ReportsAssumption DEF Init
<1>3. Known /\ IdsSpent
  BY <1>2 DEF Init, Known, KnownOf, IdsSpent, Editing
<1>4. \A r, s \in reports : r.id = s.id => r = s
  BY ReportsAssumption DEF Init
<1>5. nextId \in Nat /\ reports \subseteq Report /\ lineup \subseteq Teams
  BY <1>1, ReportsAssumption DEF Init
<1>6. /\ req \in [Clients -> Maybe(Requests)] /\ old \in [Clients -> Maybe(Report)]
      /\ hit \in [Clients -> Maybe(Nat)] /\ held \in [Clients -> SUBSET Nat]
      /\ existed \in [Clients -> BOOLEAN] /\ made \in [Clients -> BOOLEAN]
  BY DEF Init, Maybe
<1> QED
  BY <1>3, <1>4, <1>5, <1>6 DEF Init, TypeInv, TypeOK, Statements, Answers

\* A step of client c changes nothing of another's.
Only(c) == \A d \in Clients \ {c} :
    /\ at'[d] = at[d] /\ req'[d] = req[d] /\ held'[d] = held[d] /\ old'[d] = old[d]
    /\ hit'[d] = hit[d] /\ existed'[d] = existed[d] /\ made'[d] = made[d]

\* Client c goes on to statement s.
Moves(c, s) ==
    /\ at' = [at EXCEPT ![c] = s]
    /\ answer' \in [Clients -> Answers]

\* Client c ends its request.
Ends(c) == Moves(c, "done") /\ held' = [held EXCEPT ![c] = {}]

\* The types of the tables, and of the clients.
TablesOK ==
    /\ reports \subseteq Report /\ \A r, s \in reports : r.id = s.id => r = s
    /\ users \subseteq Users /\ lineup \subseteq Teams /\ nextId \in Nat

ClientsOK ==
    /\ req \in [Clients -> Maybe(Requests)]
    /\ at \in [Clients -> Statements] /\ answer \in [Clients -> Answers]
    /\ held \in [Clients -> SUBSET Nat]
    /\ old \in [Clients -> Maybe(Report)] /\ hit \in [Clients -> Maybe(Nat)]
    /\ existed \in [Clients -> BOOLEAN] /\ made \in [Clients -> BOOLEAN]

\* The type invariant, part by part.
LEMMA TypeParts == TypeInv <=> TablesOK /\ ClientsOK /\ IdsSpent /\ Known
BY DEF TypeInv, TypeOK, TablesOK, ClientsOK

\* The responses are among the Answers.
LEMMA AnswersType == {"created", "ok", "no content", "bad request", "conflict", "forbidden",
                      "not found", "error"} \subseteq Answers
BY DEF Answers

\* Going on and answering are moves.
LEMMA MovesType ==
    ASSUME TypeInv, NEW c \in Clients
    PROVE  /\ \A s : Goto(c, s) => Moves(c, s)
           /\ \A a \in Answers : Respond(c, a) => Ends(c)
BY DEF Goto, Respond, Moves, Ends, TypeInv, TypeOK

\* A step of client c keeps the types if it keeps those of the tables and c knows what
\* its next statement needs.
LEMMA KeepsTypes ==
    ASSUME TypeInv, NEW c \in Clients, Only(c), ClientsOK', TablesOK', IdsSpent',
           nextId' >= nextId, KnownOf(c)'
    PROVE  TypeInv'
<1>1. ASSUME NEW d \in Clients, d # c PROVE KnownOf(d)'
  <2>1. KnownOf(d) /\ nextId \in Nat /\ nextId' \in Nat /\ hit[d] \in Maybe(Nat)
    BY TypeParts DEF Known, TablesOK, ClientsOK
  <2>2. old[d] \in Report => old[d].id \in Nat
    BY DEF Report
  <2> QED
    BY <1>1, <2>1, <2>2 DEF Only, KnownOf, Editing, Maybe
<1> QED
  BY <1>1, TypeParts DEF TypeInv, TypeOK, TablesOK, ClientsOK, Known

\* What holds of the clients after a step that ends c's request.
LEMMA EndType ==
    ASSUME TypeInv, NEW c \in Clients, Ends(c), UNCHANGED <<req, old, existed, made>>,
           hit' = hit \/ \E i \in Nat : hit' = [hit EXCEPT ![c] = i] /\ i < nextId,
           nextId' >= nextId, nextId' \in Nat, at[c] # "start"
    PROVE  ClientsOK' /\ Only(c) /\ KnownOf(c)'
<1>1. ClientsOK'
  BY TypeParts DEF ClientsOK, Ends, Moves, Statements, Maybe
<1>2. Only(c)
  BY TypeParts DEF ClientsOK, Ends, Moves, Only
<1>3. hit'[c] # None => hit'[c] < nextId'
  BY TypeParts DEF Known, KnownOf, ClientsOK, TablesOK, Maybe
<1> QED
  BY <1>1, <1>2, <1>3, TypeParts DEF ClientsOK, Known, KnownOf, Ends, Moves, Editing

\* What holds of the clients after c has gone on with its request.
LEMMA GoType ==
    ASSUME TypeInv, NEW c \in Clients, NEW s \in Statements, Moves(c, s), UNCHANGED req,
           held' = held \/ \E h \in SUBSET Nat : held' = [held EXCEPT ![c] = h],
           old' = old \/ \E r \in Report : old' = [old EXCEPT ![c] = r],
           hit' = hit \/ \E i \in Nat : hit' = [hit EXCEPT ![c] = i],
           existed' = existed \/ \E e \in BOOLEAN : existed' = [existed EXCEPT ![c] = e],
           made' = made \/ made' = [made EXCEPT ![c] = TRUE]
    PROVE  ClientsOK' /\ Only(c) /\ at'[c] = s
<1>1. /\ at \in [Clients -> Statements] /\ held \in [Clients -> SUBSET Nat]
      /\ old \in [Clients -> Maybe(Report)] /\ hit \in [Clients -> Maybe(Nat)]
      /\ existed \in [Clients -> BOOLEAN] /\ made \in [Clients -> BOOLEAN]
  BY TypeParts DEF ClientsOK
<1>2. at' \in [Clients -> Statements] /\ at'[c] = s /\ \A d \in Clients \ {c} : at'[d] = at[d]
  BY <1>1 DEF Moves
<1>3. held' \in [Clients -> SUBSET Nat] /\ \A d \in Clients \ {c} : held'[d] = held[d]
  BY <1>1
<1>4. old' \in [Clients -> Maybe(Report)] /\ \A d \in Clients \ {c} : old'[d] = old[d]
  BY <1>1 DEF Maybe
<1>5. hit' \in [Clients -> Maybe(Nat)] /\ \A d \in Clients \ {c} : hit'[d] = hit[d]
  BY <1>1 DEF Maybe
<1>6. existed' \in [Clients -> BOOLEAN] /\ \A d \in Clients \ {c} : existed'[d] = existed[d]
  BY <1>1, Zenon
<1>7. made' \in [Clients -> BOOLEAN] /\ \A d \in Clients \ {c} : made'[d] = made[d]
  BY <1>1, Zenon
<1>8. req \in [Clients -> Maybe(Requests)] /\ answer' \in [Clients -> Answers]
  BY TypeParts DEF ClientsOK, Moves
<1> QED
  BY <1>2, <1>3, <1>4, <1>5, <1>6, <1>7, <1>8 DEF ClientsOK, Only

\* Steps that write no table.
LEMMA SameTables ==
    ASSUME TypeInv, UNCHANGED db PROVE TablesOK' /\ IdsSpent' /\ nextId' = nextId /\ nextId \in Nat
BY TypeParts DEF TablesOK, IdsSpent, db

\* A step that does nothing but end a request.
LEMMA EndKeepsTypes ==
    ASSUME TypeInv, NEW c \in Clients, Ends(c), at[c] # "start", UNCHANGED <<db, req, memory>>
    PROVE  TypeInv' /\ Only(c)
<1>1. nextId' >= nextId /\ nextId' \in Nat
  BY SameTables
<1>2. ClientsOK' /\ Only(c) /\ KnownOf(c)'
  BY <1>1, EndType DEF memory
<1> QED
  BY <1>1, <1>2, SameTables, KeepsTypes

\* A step that only takes locks and goes on to statement s.
LEMMA GoKeepsTypes ==
    ASSUME TypeInv, NEW c \in Clients, NEW s \in Statements, Moves(c, s), UNCHANGED <<db, req, memory>>,
           held' = held \/ \E h \in SUBSET Nat : held' = [held EXCEPT ![c] = h],
           KnownOf(c)'
    PROVE  TypeInv' /\ Only(c)
<1>1. nextId' >= nextId /\ nextId' \in Nat
  BY SameTables
<1>2. ClientsOK' /\ Only(c)
  BY GoType DEF memory
<1> QED
  BY <1>1, <1>2, SameTables, KeepsTypes

\* The first statement of a request.
FirstOf(q) ==
    {s \in {"alliance", "lock", "table", "user"} :
        /\ s = "alliance" => q.op = "post"
        /\ s = "lock" => q.op \in {"put", "delete"}
        /\ s = "table" => q.op = "match"
        /\ s = "user" => q.op = "unregister"}

\* A request that arrives is answered, or goes on to its first statement.
LEMMA StartStep ==
    ASSUME TypeInv, NEW c \in Clients, Start(c)
    PROVE  /\ at[c] = "start" /\ UNCHANGED <<db, memory>>
           /\ \E q \in Requests :
                /\ req' = [req EXCEPT ![c] = q]
                /\ Ends(c) \/ \E s \in FirstOf(q) : Moves(c, s) /\ UNCHANGED held
<1>1. PICK q \in Requests :
        /\ req' = [req EXCEPT ![c] = q]
        /\ CASE q.op = "post" ->
                    IF q.reporter \in {None, q.user} /\ q.realm \in {None, UserRealm[q.user]}
                    THEN Goto(c, "alliance") /\ UNCHANGED held
                    ELSE Respond(c, "bad request")
             [] q.op \in {"put", "delete"} -> Goto(c, "lock") /\ UNCHANGED held
             [] q.op = "match" -> Goto(c, "table") /\ UNCHANGED held
             [] q.op = "unregister" ->
                    IF q.role = "user" /\ q.user # q.target
                    THEN Respond(c, "forbidden")
                    ELSE Goto(c, "user") /\ UNCHANGED held
  BY DEF Start
<1>m. /\ \A s : Goto(c, s) => Moves(c, s)
      /\ \A a \in Answers : Respond(c, a) => Ends(c)
  BY MovesType
<1>a. {"bad request", "forbidden"} \subseteq Answers
  BY AnswersType
<1>2. q.op \in {"post", "put", "delete", "match", "unregister"}
  BY RequestType
<1>3. CASE q.op = "post"
  <2>1. (Goto(c, "alliance") /\ UNCHANGED held) \/ Respond(c, "bad request")
    BY <1>1, <1>3
  <2> QED
    BY <1>1, <1>3, <2>1, <1>m, <1>a DEF FirstOf, Start
<1>4. CASE q.op \in {"put", "delete"}
  <2>1. Goto(c, "lock") /\ UNCHANGED held
    BY <1>1, <1>4
  <2> QED
    BY <1>1, <1>4, <2>1, <1>m DEF FirstOf, Start
<1>5. CASE q.op = "match"
  <2>1. Goto(c, "table") /\ UNCHANGED held
    BY <1>1, <1>5
  <2> QED
    BY <1>1, <1>5, <2>1, <1>m DEF FirstOf, Start
<1>6. CASE q.op = "unregister"
  <2>1. (Goto(c, "user") /\ UNCHANGED held) \/ Respond(c, "forbidden")
    BY <1>1, <1>6
  <2> QED
    BY <1>1, <1>6, <2>1, <1>m, <1>a DEF FirstOf, Start
<1> QED
  BY <1>2, <1>3, <1>4, <1>5, <1>6

\* A request that arrives keeps the types.
LEMMA StartKeepsTypes ==
    ASSUME TypeInv, NEW c \in Clients, Start(c) PROVE TypeInv' /\ Only(c)
<1>1. PICK q \in Requests :
        /\ req' = [req EXCEPT ![c] = q]
        /\ Ends(c) \/ \E s \in FirstOf(q) : Moves(c, s) /\ UNCHANGED held
  BY StartStep
<1>2. UNCHANGED <<db, memory>> /\ at[c] = "start"
  BY StartStep
<1>3. KnownOf(c) /\ at \in [Clients -> Statements] /\ req \in [Clients -> Maybe(Requests)]
      /\ held \in [Clients -> SUBSET Nat]
  BY TypeParts DEF Known, ClientsOK
<1>4. q # None /\ q.op \in {"post", "put", "delete", "match", "unregister"}
  BY ReportsAssumption, RequestType
<1>5. PICK s \in {"done"} \cup FirstOf(q) : Moves(c, s)
  BY <1>1 DEF Ends
<1>6. s \in Statements \ {"start"}
  BY <1>5 DEF FirstOf, Statements
<1>7. held' \in [Clients -> SUBSET Nat] /\ \A d \in Clients \ {c} : held'[d] = held[d]
  BY <1>1, <1>3 DEF Ends
<1>8. /\ at' \in [Clients -> Statements] /\ at'[c] = s /\ \A d \in Clients \ {c} : at'[d] = at[d]
      /\ req' \in [Clients -> Maybe(Requests)] /\ req'[c] = q
      /\ \A d \in Clients \ {c} : req'[d] = req[d]
  BY <1>1, <1>3, <1>5, <1>6 DEF Moves, Maybe
<1>9. ClientsOK' /\ Only(c)
  BY <1>2, <1>5, <1>7, <1>8, TypeParts DEF ClientsOK, Only, memory, Moves
<1>10. KnownOf(c)'
  BY <1>2, <1>3, <1>4, <1>5, <1>8, SameTables DEF KnownOf, Editing, FirstOf, memory
<1> QED
  BY <1>2, <1>9, <1>10, SameTables, KeepsTypes

\* Only a request that has begun can be in a deadlock.
LEMMA DeadlockedBegun ==
    ASSUME NEW c \in Clients, Deadlocked(c) PROVE at[c] # "start" /\ at[c] # "done"
<1> SUFFICES ASSUME at[c] \in {"start", "done"} PROVE FALSE
  OBVIOUS
<1>1. Blockers(c) = {}
  BY Zenon DEF Blockers
<1>2. Visible(c) = {}
  BY <1>1 DEF Visible
<1> QED
  BY <1>2, {} \in SUBSET Clients DEF Deadlocked

\* The statements that neither write a table nor keep what they find.
LEMMA WaitKeepsTypes ==
    ASSUME TypeInv, NEW c \in Clients,
           \/ LockUser(c) \/ EvictConflict(c) \/ LockAlliance(c) \/ CheckReporter(c)
           \/ EndPost(c) \/ LockMatches(c) \/ DeleteUser(c) \/ Abort(c)
    PROVE  TypeInv' /\ Only(c)
<1>k. KnownOf(c) /\ c \in Clients
  BY TypeParts DEF Known
<1>t. at \in [Clients -> Statements] /\ held \in [Clients -> SUBSET Nat] /\ reports \subseteq Report
  BY TypeParts DEF ClientsOK, TablesOK
<1>g. ASSUME UNCHANGED <<db, req, memory>>, NEW s \in {"check", "write", "exists", "match", "lineup", "orphan"},
             Moves(c, s), held' = held \/ \E h \in SUBSET Nat : held' = [held EXCEPT ![c] = h],
             \/ s = "check" /\ at[c] = "target"
             \/ s = "write" /\ at[c] = "evict"
             \/ s = "exists" /\ at[c] = "alliance"
             \/ s = "match" /\ at[c] = "reporter"
             \/ s = "lineup" /\ at[c] = "table"
             \/ s = "orphan" /\ at[c] = "user"
      PROVE  TypeInv' /\ Only(c)
  <2>1. at'[c] = s /\ s \in Statements
    BY <1>g, <1>t DEF Moves, Statements
  <2>2. KnownOf(c)'
    BY <1>g, <1>k, <2>1, SameTables DEF KnownOf, Editing, memory
  <2> QED
    BY <1>g, <2>1, <2>2, GoKeepsTypes
<1>e. ASSUME UNCHANGED <<db, req, memory>>, at[c] # "start", NEW a \in Answers, Respond(c, a)
      PROVE  TypeInv' /\ Only(c)
  BY <1>e, MovesType, EndKeepsTypes
<1>a. {"created", "ok", "bad request", "forbidden", "not found", "error"} \subseteq Answers
  BY AnswersType
<1>m. \A s : Goto(c, s) => Moves(c, s)
  BY MovesType
<1>1. CASE LockUser(c)
  BY <1>1, <1>e, <1>g, <1>a, <1>m DEF LockUser
<1>2. CASE EvictConflict(c)
  <2>1. {r.id : r \in WithId(hit[c])} \subseteq Nat
    BY <1>t DEF WithId, Report
  <2>2. \E h \in SUBSET Nat : held' = [held EXCEPT ![c] = h]
    BY <1>2, <1>t, <2>1 DEF EvictConflict
  <2>3. at[c] = "evict" /\ Moves(c, "write") /\ UNCHANGED <<db, req, memory>>
    BY <1>2, <1>m DEF EvictConflict
  <2> QED
    BY <1>g, <2>2, <2>3
<1>3. CASE LockAlliance(c)
  BY <1>3, <1>e, <1>g, <1>a, <1>m DEF LockAlliance
<1>4. CASE CheckReporter(c)
  BY <1>4, <1>e, <1>g, <1>a, <1>m DEF CheckReporter
<1>5. CASE EndPost(c)
  BY <1>5, <1>e, <1>a DEF EndPost
<1>6. CASE LockMatches(c)
  BY <1>6, <1>e, <1>g, <1>a, <1>m DEF LockMatches
<1>7. CASE DeleteUser(c)
  BY <1>7, <1>e, <1>g, <1>a, <1>m DEF DeleteUser
<1>8. CASE Abort(c)
  BY <1>8, <1>e, <1>a, DeadlockedBegun DEF Abort
<1> QED
  BY <1>1, <1>2, <1>3, <1>4, <1>5, <1>6, <1>7, <1>8

\* The statements that keep what they find.
LEMMA FindKeepsTypes ==
    ASSUME TypeInv, NEW c \in Clients, LockReport(c) \/ CheckReport(c) \/ ReportExists(c)
    PROVE  TypeInv' /\ Only(c)
<1>k. KnownOf(c) /\ (at[c] # "start" => req[c] \in Requests)
  BY TypeParts DEF Known, KnownOf
<1>t. /\ at \in [Clients -> Statements] /\ reports \subseteq Report /\ nextId \in Nat
      /\ old \in [Clients -> Maybe(Report)] /\ hit \in [Clients -> Maybe(Nat)]
      /\ existed \in [Clients -> BOOLEAN] /\ IdsSpent
  BY TypeParts DEF ClientsOK, TablesOK
<1>a. {"bad request", "conflict", "forbidden", "not found"} \subseteq Answers
  BY AnswersType
<1>m. /\ \A s : Goto(c, s) => Moves(c, s)
      /\ \A a \in Answers : Respond(c, a) => Ends(c)
  BY MovesType
<1>1. CASE LockReport(c)
  <2>1. at[c] = "lock" /\ UNCHANGED <<db, req, hit, existed, made>>
    BY <1>1 DEF LockReport
  <2>2. CASE Respond(c, "not found") /\ UNCHANGED old
    BY <1>a, <1>m, <2>1, <2>2, EndKeepsTypes DEF memory
  <2>3. ASSUME NEW r \in WithId(req[c].id), old' = [old EXCEPT ![c] = r],
               held' = [held EXCEPT ![c] = {req[c].id}],
               Goto(c, IF req[c].op = "delete" THEN "delete"
                       ELSE IF req[c].reporter = None THEN "check" ELSE "target")
        PROVE  TypeInv' /\ Only(c)
    <3>1. PICK s \in {"delete", "check", "target"} :
            Moves(c, s) /\ (s = "delete" <=> req[c].op = "delete")
      BY <2>3, <1>m
    <3>2. r \in Report /\ r.id = req[c].id /\ req[c].id \in Nat /\ r.id < nextId
      BY <1>t, <2>3 DEF WithId, Report, IdsSpent
    <3>3. s \in Statements
      BY DEF Statements
    <3>4. ClientsOK' /\ Only(c) /\ at'[c] = s
      <4>1. \E h \in SUBSET Nat : held' = [held EXCEPT ![c] = h]
        BY <2>3, <3>2
      <4> QED
        BY <2>1, <2>3, <3>1, <3>2, <3>3, <4>1, GoType
    <3>5. old'[c] = r
      BY <1>t, <2>3
    <3>6. KnownOf(c)'
      BY <1>k, <2>1, <3>1, <3>2, <3>4, <3>5, SameTables DEF KnownOf, Editing
    <3> QED
      BY <2>1, <3>4, <3>6, SameTables, KeepsTypes
  <2> QED
    BY <1>1, <2>2, <2>3 DEF LockReport
<1>2. CASE CheckReport(c)
  <2>1. at[c] = "check" /\ UNCHANGED <<db, req, old, existed, made>>
    BY <1>2 DEF CheckReport
  <2>2. ASSUME UNCHANGED hit, Verdict(req[c], old[c]) # "valid", Respond(c, Verdict(req[c], old[c]))
        PROVE  TypeInv' /\ Only(c)
    <3>1. Verdict(req[c], old[c]) \in {"forbidden", "bad request"}
      BY <2>2 DEF Verdict
    <3> QED
      BY <1>a, <1>m, <2>1, <2>2, <3>1, EndKeepsTypes DEF memory
  <2>3. CASE Goto(c, "write") /\ UNCHANGED <<held, hit>>
    <3>1. Moves(c, "write") /\ "write" \in Statements
      BY <2>3, <1>m DEF Statements
    <3>2. at'[c] = "write"
      BY <3>1, <1>t DEF Moves
    <3>3. KnownOf(c)'
      BY <1>k, <2>1, <2>3, <3>2, SameTables DEF KnownOf, Editing
    <3> QED
      BY <2>1, <2>3, <3>1, <3>3, GoKeepsTypes DEF memory
  <2>4. ASSUME NEW r \in WithKey(req[c]), hit' = [hit EXCEPT ![c] = r.id],
               (Goto(c, "evict") /\ UNCHANGED held) \/ Respond(c, "conflict")
        PROVE  TypeInv' /\ Only(c)
    <3>1. r.id \in Nat /\ r.id < nextId
      BY <1>t DEF WithKey, Report, IdsSpent
    <3>2. hit'[c] = r.id
      BY <1>t, <2>4
    <3>3. CASE Respond(c, "conflict")
      <4>1. nextId' >= nextId /\ nextId' \in Nat
        BY <2>1, SameTables
      <4>2. ClientsOK' /\ Only(c) /\ KnownOf(c)'
        BY <1>a, <1>m, <2>1, <2>4, <3>1, <3>3, <4>1, EndType
      <4> QED
        BY <2>1, <4>1, <4>2, SameTables, KeepsTypes
    <3>4. CASE Goto(c, "evict") /\ UNCHANGED held
      <4>1. ClientsOK' /\ Only(c) /\ at'[c] = "evict"
        BY <1>m, <2>1, <2>4, <3>1, <3>4, GoType DEF Statements
      <4>2. KnownOf(c)'
        BY <1>k, <2>1, <3>1, <3>2, <4>1, SameTables DEF KnownOf, Editing
      <4> QED
        BY <2>1, <4>1, <4>2, SameTables, KeepsTypes
    <3> QED
      BY <2>4, <3>3, <3>4
  <2> QED
    BY <1>2, <2>2, <2>3, <2>4 DEF CheckReport
<1>3. CASE ReportExists(c)
  <2>1. /\ at[c] = "exists" /\ Moves(c, "insert") /\ UNCHANGED <<db, req, held, old, hit, made>>
        /\ existed' = [existed EXCEPT ![c] = WithKey(Posted(req[c])) # {}]
    BY <1>3, <1>m DEF ReportExists
  <2>2. \E e \in BOOLEAN : existed' = [existed EXCEPT ![c] = e]
    BY <2>1
  <2>3. ClientsOK' /\ Only(c) /\ at'[c] = "insert"
    BY <2>1, <2>2, GoType DEF Statements
  <2>4. KnownOf(c)'
    BY <1>k, <2>1, <2>3, SameTables DEF KnownOf, Editing
  <2> QED
    BY <2>1, <2>3, <2>4, SameTables, KeepsTypes
<1> QED
  BY <1>1, <1>2, <1>3

\* A row made of a request is a report.
LEMMA RowType ==
    ASSUME NEW q \in Requests, NEW i \in Nat
    PROVE  /\ q.op = "put" => Row(i, q) \in Report /\ Row(i, q).id = i
           /\ q.op = "post" => Row(i, Posted(q)) \in Report /\ Row(i, Posted(q)).id = i
BY RequestType DEF Report, Row, Posted, Maybe

\* A step that writes reports, and ends a request or goes on with it.
LEMMA WriteKeepsTypes ==
    ASSUME TypeInv, NEW c \in Clients, UNCHANGED <<req, old, hit, existed>>,
           made' = made \/ made' = [made EXCEPT ![c] = TRUE],
           nextId' \in Nat, nextId' >= nextId, TablesOK', IdsSpent', at[c] # "start",
           \/ Ends(c) /\ UNCHANGED made
           \/ at[c] \in {"insert", "match"} /\ Moves(c, "end") /\ UNCHANGED held
           \/ at[c] = "insert" /\ Moves(c, "reporter") /\ UNCHANGED held
    PROVE  TypeInv' /\ Only(c)
<1>k. KnownOf(c) /\ at \in [Clients -> Statements] /\ nextId \in Nat /\ hit \in [Clients -> Maybe(Nat)]
  BY TypeParts DEF Known, ClientsOK, TablesOK
<1>1. CASE Ends(c) /\ UNCHANGED made
  <2>1. ClientsOK' /\ Only(c) /\ KnownOf(c)'
    BY <1>1, EndType
  <2> QED
    BY <2>1, KeepsTypes
<1>2. ASSUME NEW s \in {"end", "reporter"}, Moves(c, s), UNCHANGED held, at[c] \in {"insert", "match"}
      PROVE  TypeInv' /\ Only(c)
  <2>1. s \in Statements
    BY DEF Statements
  <2>2. ClientsOK' /\ Only(c) /\ at'[c] = s
    BY <1>2, <2>1, GoType
  <2>3. KnownOf(c)'
    BY <1>2, <1>k, <2>2 DEF KnownOf, Editing, Maybe
  <2> QED
    BY <2>2, <2>3, KeepsTypes
<1> QED
  BY <1>1, <1>2

\* The statements that write a table.
LEMMA TablesKeepTypes ==
    ASSUME TypeInv, NEW c \in Clients,
           \/ WriteReport(c) \/ DeleteReport(c) \/ InsertReport(c) \/ CheckMatch(c)
           \/ PutAlliance(c) \/ OrphanReports(c)
    PROVE  TypeInv' /\ Only(c)
<1>k. KnownOf(c) /\ (at[c] # "start" => req[c] \in Requests)
  BY TypeParts DEF Known, KnownOf
<1>t. /\ reports \subseteq Report /\ \A r, s \in reports : r.id = s.id => r = s
      /\ users \subseteq Users /\ lineup \subseteq Teams /\ nextId \in Nat
      /\ \A r \in reports : r.id \in Nat /\ r.id < nextId
  BY TypeParts DEF TablesOK, IdsSpent, Report
<1>a. {"no content", "bad request", "forbidden"} \subseteq Answers
  BY AnswersType
<1>m. /\ \A s : Goto(c, s) => Moves(c, s)
      /\ \A a \in Answers : Respond(c, a) => Ends(c)
  BY MovesType
<1>1. CASE WriteReport(c)
  <2> DEFINE q == req[c]
             kept == {r \in reports : r.id \notin {q.id, hit[c]}}
  <2>1. /\ at[c] = "write" /\ UNCHANGED <<users, lineup, nextId, req, memory>> /\ Ends(c)
        /\ \/ UNCHANGED reports
           \/ reports' = kept
           \/ reports' = kept \cup {Row(q.id, q)}
    BY <1>1, <1>a, <1>m DEF WriteReport, Updated
  <2>2. q.op = "put" /\ q \in Requests /\ q.id < nextId /\ q.id \in Nat
    BY <1>k, <2>1, RequestType DEF KnownOf, Editing
  <2>3. Row(q.id, q) \in Report /\ Row(q.id, q).id = q.id
    BY <2>2, RowType
  <2>4. TablesOK' /\ IdsSpent'
    BY <1>t, <2>1, <2>2, <2>3 DEF TablesOK, IdsSpent
  <2> QED
    BY <1>t, <2>1, <2>4, WriteKeepsTypes DEF memory
<1>2. CASE DeleteReport(c)
  <2>1. /\ at[c] = "delete" /\ UNCHANGED <<users, lineup, nextId, req, memory>> /\ Ends(c)
        /\ reports' \subseteq reports
    BY <1>2, <1>a, <1>m DEF DeleteReport
  <2>2. TablesOK' /\ IdsSpent'
    BY <1>t, <2>1 DEF TablesOK, IdsSpent
  <2> QED
    BY <1>t, <2>1, <2>2, WriteKeepsTypes DEF memory
<1>3. CASE InsertReport(c)
  <2> DEFINE q == Posted(req[c])
  <2>1. at[c] = "insert" /\ UNCHANGED <<users, lineup, nextId, req, held, old, hit, existed>>
    BY <1>3 DEF InsertReport
  <2>2. CASE made' = [made EXCEPT ![c] = TRUE] /\ Goto(c, "reporter") /\ UNCHANGED reports
    <3>1. TablesOK' /\ IdsSpent'
      BY <1>t, <2>1, <2>2 DEF TablesOK, IdsSpent
    <3>2. nextId' \in Nat /\ nextId' >= nextId
      BY <1>t, <2>1
    <3>3. Moves(c, "reporter") /\ at[c] # "start"
      BY <1>m, <2>1, <2>2
    <3> QED
      BY <2>1, <2>2, <3>1, <3>2, <3>3, WriteKeepsTypes
  <2>3. ASSUME NEW r \in WithKey(q), reports' = (reports \ {r}) \cup {Row(r.id, q)},
               Goto(c, "end"), UNCHANGED made
        PROVE  TypeInv' /\ Only(c)
    <3>1. r \in reports
      BY DEF WithKey
    <3>2. req[c] \in Requests /\ req[c].op = "post"
      BY <1>k, <2>1 DEF KnownOf
    <3>3. Row(r.id, q) \in Report /\ Row(r.id, q).id = r.id
      BY <1>t, <3>1, <3>2, RowType
    <3>4. TablesOK' /\ IdsSpent'
      BY <1>t, <2>1, <2>3, <3>1, <3>3 DEF TablesOK, IdsSpent
    <3> QED
      BY <1>t, <1>m, <2>1, <2>3, <3>4, WriteKeepsTypes
  <2> QED
    BY <1>3, <2>2, <2>3 DEF InsertReport
<1>4. CASE CheckMatch(c)
  <2>1. /\ at[c] = "match" /\ reports' = reports \cup {Row(nextId, Posted(req[c]))}
        /\ nextId' = nextId + 1 /\ Moves(c, "end") /\ UNCHANGED <<users, lineup, req, held, memory>>
    BY <1>4, <1>m DEF CheckMatch
  <2>2. req[c] \in Requests /\ req[c].op = "post"
    BY <1>k, <2>1 DEF KnownOf
  <2>3. Row(nextId, Posted(req[c])) \in Report /\ Row(nextId, Posted(req[c])).id = nextId
    BY <1>t, <2>2, RowType
  <2>4. TablesOK' /\ IdsSpent' /\ nextId' \in Nat /\ nextId' >= nextId
    BY <1>t, <2>1, <2>3 DEF TablesOK, IdsSpent
  <2> QED
    BY <2>1, <2>4, WriteKeepsTypes DEF memory
<1>5. CASE PutAlliance(c)
  <2>1. /\ at[c] = "lineup" /\ lineup' = req[c].lineup /\ Ends(c)
        /\ UNCHANGED <<reports, users, nextId, req, memory>>
    BY <1>5, <1>a, <1>m DEF PutAlliance
  <2>2. lineup' \subseteq Teams
    BY <1>k, <2>1, RequestType DEF KnownOf
  <2>3. TablesOK' /\ IdsSpent'
    BY <1>t, <2>1, <2>2 DEF TablesOK, IdsSpent
  <2> QED
    BY <1>t, <2>1, <2>3, WriteKeepsTypes DEF memory
<1>6. CASE OrphanReports(c)
  <2> DEFINE mine == ReportsOf(req[c].target)
  <2>1. at[c] = "orphan" /\ UNCHANGED <<req, memory>>
    BY <1>6 DEF OrphanReports
  <2>2. ASSUME NEW r \in mine, held' = [held EXCEPT ![c] = @ \cup {r.id}], UNCHANGED <<db, at, answer>>
        PROVE  TypeInv' /\ Only(c)
    <3>1. r.id \in Nat
      BY <1>t DEF ReportsOf
    <3>2. at \in [Clients -> Statements] /\ answer \in [Clients -> Answers] /\ held \in [Clients -> SUBSET Nat]
      BY TypeParts DEF ClientsOK
    <3>3. Moves(c, "orphan") /\ "orphan" \in Statements
      BY <2>1, <2>2, <3>2 DEF Moves, Statements
    <3>4. \E h \in SUBSET Nat : held' = [held EXCEPT ![c] = h]
      BY <2>2, <3>1, <3>2
    <3>5. KnownOf(c)'
      BY <1>k, <2>1, <2>2 DEF KnownOf, Editing, db, memory
    <3> QED
      BY <2>1, <2>2, <3>3, <3>4, <3>5, GoKeepsTypes
  <2>3. CASE /\ reports' = (reports \ mine) \cup {Orphaned(r) : r \in mine}
             /\ users' = users \ {req[c].target}
             /\ Respond(c, "no content")
             /\ UNCHANGED <<lineup, nextId>>
    <3>1. mine \subseteq reports
      BY DEF ReportsOf
    <3>2. \A r \in mine : Orphaned(r) \in Report /\ Orphaned(r).id = r.id
      BY <1>t, <3>1 DEF Orphaned, Report, Maybe
    <3>3. TablesOK' /\ IdsSpent'
      <4>1. \A s \in reports' : \E r \in reports : /\ s.id = r.id
                                                   /\ (s = r /\ r \notin mine) \/ (s = Orphaned(r) /\ r \in mine)
        BY <2>3, <3>1, <3>2
      <4>2. reports' \subseteq Report
        BY <1>t, <2>3, <3>1, <3>2
      <4>3. \A r, s \in reports' : r.id = s.id => r = s
        BY <1>t, <4>1
      <4>4. \A r \in reports' : r.id < nextId'
        BY <1>t, <2>3, <4>1
      <4> QED
        BY <1>t, <2>3, <4>2, <4>3, <4>4 DEF TablesOK, IdsSpent
    <3>4. Ends(c) /\ nextId' = nextId /\ UNCHANGED <<req, old, hit, existed, made>> /\ at[c] # "start"
      BY <1>a, <1>m, <2>1, <2>3 DEF memory
    <3> QED
      BY <1>t, <3>3, <3>4, WriteKeepsTypes
  <2> QED
    BY <1>6, <2>2, <2>3 DEF OrphanReports
<1> QED
  BY <1>1, <1>2, <1>3, <1>4, <1>5, <1>6

\* Every step keeps the types, and a client changes nothing of another.
LEMMA TypeStep ==
    ASSUME TypeInv, NEW c \in Clients, Start(c) \/ Serve(c) PROVE TypeInv' /\ Only(c)
BY StartKeepsTypes, WaitKeepsTypes, FindKeepsTypes, TablesKeepTypes DEF Serve

\* A step of nobody.
LEMMA TypeStutter == ASSUME TypeInv, UNCHANGED vars PROVE TypeInv'
<1>1. TablesOK' /\ IdsSpent' /\ ClientsOK'
  BY TypeParts DEF vars, db, memory, TablesOK, IdsSpent, ClientsOK
<1>2. Known'
  BY TypeParts DEF vars, db, memory, Known, KnownOf, Editing
<1> QED
  BY <1>1, <1>2, TypeParts DEF TypeInv, TypeOK, TablesOK, ClientsOK

\* Whatever the requests and in whatever order their statements run, an id is never
\* given to two reports, and each variable of a handler has what its next statement
\* needs: the report that was locked, the id of the one in the way
\* (store/reports.go:160-210).
THEOREM TypeCorrect == Spec => []TypeOK
<1>1. TypeInv /\ [Next]_vars => TypeInv'
  BY TypeStep, TypeStutter DEF Next
<1>2. TypeInv => TypeOK
  BY DEF TypeInv
<1> QED
  BY <1>1, <1>2, TypeInit, PTL DEF Spec

-----------------------------------------------------------------------------
(* Steps and locks.                                                        *)

\* What a client that does not wait may count on.
LEMMA FreeMeans ==
    ASSUME NEW c \in Clients, Free(c)
    PROVE  /\ at[c] = "lock" => HoldingRow(req[c].id) = {}
           /\ at[c] = "target" => HoldingUser(req[c].reporter) = {}
           /\ at[c] = "evict" => HoldingRow(hit[c]) \subseteq {c}
           /\ at[c] = "write" => HoldingKey(req[c]) \subseteq {c}
           /\ at[c] = "alliance" /\ Present(req[c]) => Posting = {}
           /\ at[c] = "insert" => \A r \in WithKey(Posted(req[c])) : HoldingRow(r.id) = {}
           /\ at[c] = "reporter" => UpdatingUser(req[c].user) = {}
           /\ at[c] = "lineup" => Posting = {}
           /\ at[c] = "user" => HoldingUser(req[c].target) = {}
<1> DEFINE q == req[c]
<1>0. Blockers(c) = {}
  BY DEF Free
<1>1. ASSUME at[c] = "lock" PROVE Blockers(c) = HoldingRow(q.id)
  BY <1>1, Zenon DEF Blockers
<1>2. ASSUME at[c] = "target" PROVE Blockers(c) = HoldingUser(q.reporter)
  BY <1>2, Zenon DEF Blockers
<1>3. ASSUME at[c] = "evict" PROVE Blockers(c) = HoldingRow(hit[c]) \ {c}
  BY <1>3, Zenon DEF Blockers
<1>4. ASSUME at[c] = "write"
      PROVE  Blockers(c) = (HoldingKey(q) \cup UNION {Removing(r.id) : r \in WithKey(q)}) \ {c}
  BY <1>4, Zenon DEF Blockers
<1>5. ASSUME at[c] = "alliance", Present(q) PROVE Blockers(c) = Posting
  BY <1>5, Zenon DEF Blockers, HoldingAlliance
<1>6. ASSUME at[c] = "insert"
      PROVE  Blockers(c) = HoldingKey(Posted(q)) \cup UNION {HoldingRow(r.id) : r \in WithKey(Posted(q))}
  BY <1>6, Zenon DEF Blockers
<1>7. ASSUME at[c] = "reporter" PROVE Blockers(c) = UpdatingUser(q.user)
  BY <1>7, Zenon DEF Blockers
<1>8. ASSUME at[c] = "lineup" PROVE Blockers(c) = Posting
  BY <1>8, Zenon DEF Blockers, HoldingAlliance
<1>9. ASSUME at[c] = "user" PROVE Blockers(c) = HoldingUser(q.target)
  BY <1>9, Zenon DEF Blockers
<1> QED
  BY <1>0, <1>1, <1>2, <1>3, <1>4, <1>5, <1>6, <1>7, <1>8, <1>9

\* From which statement a client gets to the next, and by which action.
Enters(c) ==
    /\ at'[c] # "start"
    /\ at'[c] \in {"lock", "alliance", "table", "user"} => Start(c)
    /\ at'[c] \in {"target", "delete"} => LockReport(c)
    /\ at'[c] = "check" => LockReport(c) \/ LockUser(c)
    /\ at'[c] = "evict" => CheckReport(c)
    /\ at'[c] = "write" => CheckReport(c) \/ EvictConflict(c)
    /\ at'[c] = "exists" => LockAlliance(c)
    /\ at'[c] = "insert" => ReportExists(c)
    /\ at'[c] = "reporter" => InsertReport(c)
    /\ at'[c] = "match" => CheckReporter(c)
    /\ at'[c] = "end" => InsertReport(c) \/ CheckMatch(c)
    /\ at'[c] = "orphan" => DeleteUser(c) \/ OrphanReports(c)
    /\ at'[c] = "done" => held'[c] = {}

LEMMA StepEnters ==
    ASSUME TypeInv, NEW c \in Clients, Start(c) \/ Serve(c) PROVE Enters(c)
<1>t. at \in [Clients -> Statements] /\ held \in [Clients -> SUBSET Nat]
  BY TypeParts DEF ClientsOK
<1>g. \A s : Goto(c, s) => at'[c] = s
  BY <1>t DEF Goto
<1>r. \A a : Respond(c, a) => at'[c] = "done" /\ held'[c] = {}
  BY <1>t DEF Respond
<1>0. CASE Start(c)
  <2>1. PICK q \in Requests : Ends(c) \/ \E s \in FirstOf(q) : Moves(c, s)
    BY <1>0, StartStep
  <2>2. at'[c] \in {"lock", "alliance", "table", "user"} \/ (at'[c] = "done" /\ held'[c] = {})
    BY <1>t, <2>1 DEF FirstOf, Moves, Ends
  <2> QED
    BY <1>0, <2>2 DEF Enters
<1>1. CASE LockReport(c)
  <2>1. at'[c] \in {"target", "delete", "check"} \/ (at'[c] = "done" /\ held'[c] = {})
    BY <1>1, <1>g, <1>r DEF LockReport
  <2> QED
    BY <1>1, <2>1 DEF Enters
<1>2. CASE LockUser(c)
  <2>1. at'[c] = "check" \/ (at'[c] = "done" /\ held'[c] = {})
    BY <1>2, <1>g, <1>r DEF LockUser
  <2> QED
    BY <1>2, <2>1 DEF Enters
<1>3. CASE CheckReport(c)
  <2>1. at'[c] \in {"evict", "write"} \/ (at'[c] = "done" /\ held'[c] = {})
    BY <1>3, <1>g, <1>r DEF CheckReport
  <2> QED
    BY <1>3, <2>1 DEF Enters
<1>4. CASE EvictConflict(c)
  <2>1. at'[c] = "write"
    BY <1>4, <1>g DEF EvictConflict
  <2> QED
    BY <1>4, <2>1 DEF Enters
<1>5. CASE WriteReport(c) \/ DeleteReport(c) \/ EndPost(c) \/ PutAlliance(c) \/ Abort(c)
  <2>1. at'[c] = "done" /\ held'[c] = {}
    BY <1>5, <1>r DEF WriteReport, DeleteReport, EndPost, PutAlliance, Abort
  <2> QED
    BY <2>1 DEF Enters
<1>6. CASE LockAlliance(c)
  <2>1. at'[c] = "exists" \/ (at'[c] = "done" /\ held'[c] = {})
    BY <1>6, <1>g, <1>r DEF LockAlliance
  <2> QED
    BY <1>6, <2>1 DEF Enters
<1>7. CASE ReportExists(c)
  <2>1. at'[c] = "insert"
    BY <1>7, <1>g DEF ReportExists
  <2> QED
    BY <1>7, <2>1 DEF Enters
<1>8. CASE InsertReport(c)
  <2>1. at'[c] \in {"reporter", "end"}
    BY <1>8, <1>g DEF InsertReport
  <2> QED
    BY <1>8, <2>1 DEF Enters
<1>9. CASE CheckReporter(c)
  <2>1. at'[c] = "match" \/ (at'[c] = "done" /\ held'[c] = {})
    BY <1>9, <1>g, <1>r DEF CheckReporter
  <2> QED
    BY <1>9, <2>1 DEF Enters
<1>10. CASE CheckMatch(c)
  <2>1. at'[c] = "end"
    BY <1>10, <1>g DEF CheckMatch
  <2> QED
    BY <1>10, <2>1 DEF Enters
<1>11. CASE LockMatches(c)
  <2>1. at'[c] = "lineup" \/ (at'[c] = "done" /\ held'[c] = {})
    BY <1>11, <1>g, <1>r DEF LockMatches
  <2> QED
    BY <2>1 DEF Enters
<1>12. CASE DeleteUser(c)
  <2>1. at'[c] = "orphan" \/ (at'[c] = "done" /\ held'[c] = {})
    BY <1>12, <1>g, <1>r DEF DeleteUser
  <2> QED
    BY <1>12, <2>1 DEF Enters
<1>13. CASE OrphanReports(c)
  <2>1. at'[c] = "orphan" \/ (at'[c] = "done" /\ held'[c] = {})
    BY <1>13, <1>r DEF OrphanReports
  <2> QED
    BY <1>13, <2>1 DEF Enters
<1> QED
  BY <1>0, <1>1, <1>2, <1>3, <1>4, <1>5, <1>6, <1>7, <1>8, <1>9, <1>10, <1>11, <1>12, <1>13 DEF Serve

\* Which action writes which table.
LEMMA Writers ==
    ASSUME NEW c \in Clients, Start(c) \/ Serve(c)
    PROVE  /\ \/ reports' = reports
              \/ WriteReport(c) \/ DeleteReport(c) \/ InsertReport(c) \/ CheckMatch(c) \/ OrphanReports(c)
           /\ users' = users \/ OrphanReports(c)
           /\ lineup' = lineup \/ PutAlliance(c)
           /\ nextId' = nextId \/ CheckMatch(c)
<1>1. CASE \/ Start(c) \/ LockReport(c) \/ LockUser(c) \/ CheckReport(c) \/ EvictConflict(c)
           \/ LockAlliance(c) \/ ReportExists(c) \/ CheckReporter(c) \/ EndPost(c)
           \/ LockMatches(c) \/ DeleteUser(c) \/ Abort(c)
  <2>1. UNCHANGED db
    BY <1>1 DEF Start, LockReport, LockUser, CheckReport, EvictConflict, LockAlliance, ReportExists,
                CheckReporter, EndPost, LockMatches, DeleteUser, Abort
  <2> QED
    BY <2>1 DEF db
<1>2. CASE WriteReport(c)
  BY <1>2 DEF WriteReport
<1>3. CASE DeleteReport(c)
  BY <1>3 DEF DeleteReport
<1>4. CASE InsertReport(c)
  BY <1>4 DEF InsertReport
<1>5. CASE CheckMatch(c)
  BY <1>5 DEF CheckMatch
<1>6. CASE PutAlliance(c)
  BY <1>6 DEF PutAlliance
<1>7. CASE OrphanReports(c)
  <2>1. nextId' = nextId /\ lineup' = lineup
    BY <1>7 DEF OrphanReports, db
  <2> QED
    BY <1>7, <2>1
<1> QED
  BY <1>1, <1>2, <1>3, <1>4, <1>5, <1>6, <1>7 DEF Serve

\* What an update does to the reports: none, or the row it replaces goes and the
\* row it is about is the one of the request.
LEMMA WriteEffect ==
    ASSUME NEW c \in Clients, WriteReport(c)
    PROVE  /\ at[c] = "write" /\ Free(c)
           /\ \/ reports' = reports
              \/ /\ {r \in WithKey(req[c]) : r.id \notin {req[c].id, hit[c]}} = {} \/ hit[c] = req[c].id
                 /\ reports' = Updated(c)
           /\ \A r \in reports' : r \in reports \/ r = Row(req[c].id, req[c])
           /\ \A r \in reports : r.id \notin {req[c].id, hit[c]} => r \in reports'
<1>1. /\ at[c] = "write" /\ Free(c)
      /\ \/ reports' = reports
         \/ /\ {r \in WithKey(req[c]) : r.id \notin {req[c].id, hit[c]}} = {} \/ hit[c] = req[c].id
            /\ reports' = Updated(c)
  BY DEF WriteReport
<1>2. CASE reports' = reports
  BY <1>1, <1>2
<1>3. CASE reports' = Updated(c)
  BY <1>1, <1>3 DEF Updated
<1> QED
  BY <1>1, <1>2, <1>3

\* What the deletion of a user does: nothing yet, or the reports of the user, all
\* of which it has locked, lose their reporter.
LEMMA OrphanEffect ==
    ASSUME NEW c \in Clients, OrphanReports(c)
    PROVE  /\ at[c] = "orphan"
           /\ \/ reports' = reports /\ users' = users
              \/ /\ users' = users \ {req[c].target}
                 /\ \A r \in ReportsOf(req[c].target) : r.id \in held[c]
                 /\ \A r \in reports' : \/ r \in reports /\ r.reporter # req[c].target
                                      \/ \E s \in ReportsOf(req[c].target) : r = Orphaned(s)
                 /\ \A r \in reports : r.reporter # req[c].target => r \in reports'
<1> DEFINE mine == ReportsOf(req[c].target)
           todo == {r \in mine : r.id \notin held[c]}
<1>1. at[c] = "orphan"
  BY DEF OrphanReports
<1>2. CASE UNCHANGED <<db, at, answer>>
  BY <1>1, <1>2 DEF db
<1>3. CASE /\ todo = {} /\ reports' = (reports \ mine) \cup {Orphaned(r) : r \in mine}
           /\ users' = users \ {req[c].target}
  <2>1. \A r \in reports : r \in mine <=> r.reporter = req[c].target
    BY DEF ReportsOf
  <2>2. \A r \in mine : r.id \in held[c]
    BY <1>3
  <2>3. \A r \in reports' : \/ r \in reports /\ r \notin mine
                           \/ \E s \in mine : r = Orphaned(s)
    BY <1>3
  <2>4. \A r \in reports : r \notin mine => r \in reports'
    BY <1>3
  <2> HIDE DEF mine
  <2>5. users' = users \ {req[c].target}
    BY <1>3
  <2> QED
    BY <1>1, <2>1, <2>2, <2>3, <2>4, <2>5 DEF mine
<1> QED
  BY <1>2, <1>3 DEF OrphanReports

\* A request keeps what it asks for.
LEMMA SameRequest ==
    ASSUME TypeInv, NEW c \in Clients, Start(c) \/ Serve(c) PROVE Start(c) \/ req' = req
BY DEF Serve, LockReport, LockUser, CheckReport, EvictConflict, WriteReport, DeleteReport,
       LockAlliance, ReportExists, InsertReport, CheckReporter, CheckMatch, EndPost,
       LockMatches, PutAlliance, DeleteUser, OrphanReports, Abort

\* A row is locked by nobody else.
LEMMA HeldGrows ==
    ASSUME TypeInv, NEW c \in Clients, Start(c) \/ Serve(c)
    PROVE  \A i \in held'[c] : i \in held[c] \/ HoldingRow(i) \subseteq {c}
<1>t. held \in [Clients -> SUBSET Nat]
  BY TypeParts DEF ClientsOK
<1>r. \A a : Respond(c, a) => held'[c] = {}
  BY <1>t DEF Respond
<1>0. CASE Start(c)
  <2>1. UNCHANGED held \/ Ends(c)
    BY <1>0, StartStep
  <2> QED
    BY <1>t, <2>1 DEF Ends
<1>1. CASE LockReport(c)
  <2>1. at[c] = "lock" /\ Free(c)
        /\ (held'[c] = {} \/ held' = [held EXCEPT ![c] = {req[c].id}])
    BY <1>1, <1>r DEF LockReport
  <2> QED
    BY <1>t, <2>1, FreeMeans
<1>2. CASE EvictConflict(c)
  <2>1. at[c] = "evict" /\ Free(c) /\ held' = [held EXCEPT ![c] = @ \cup {r.id : r \in WithId(hit[c])}]
    BY <1>2 DEF EvictConflict
  <2>2. \A i \in held'[c] : i \in held[c] \/ i = hit[c]
    BY <1>t, <2>1 DEF WithId
  <2> QED
    BY <2>1, <2>2, FreeMeans
<1>3. CASE OrphanReports(c)
  <2>1. CASE held'[c] = {}
    BY <2>1
  <2>2. ASSUME NEW r \in reports, HoldingRow(r.id) = {}, held' = [held EXCEPT ![c] = @ \cup {r.id}]
        PROVE  \A i \in held'[c] : i \in held[c] \/ HoldingRow(i) \subseteq {c}
    BY <1>t, <2>2
  <2> QED
    BY <1>3, <1>r, <2>1, <2>2 DEF OrphanReports, ReportsOf
<1>4. CASE \/ LockUser(c) \/ CheckReport(c) \/ LockAlliance(c) \/ CheckReporter(c) \/ LockMatches(c)
           \/ DeleteUser(c) \/ ReportExists(c) \/ InsertReport(c) \/ CheckMatch(c)
  <2>1. held' = held \/ held'[c] = {}
    BY <1>4, <1>r DEF LockUser, CheckReport, LockAlliance, CheckReporter, LockMatches, DeleteUser,
                      ReportExists, InsertReport, CheckMatch
  <2> QED
    BY <2>1
<1>5. CASE WriteReport(c) \/ DeleteReport(c) \/ EndPost(c) \/ PutAlliance(c) \/ Abort(c)
  <2>1. held'[c] = {}
    BY <1>5, <1>r DEF WriteReport, DeleteReport, EndPost, PutAlliance, Abort
  <2> QED
    BY <2>1
<1> QED
  BY <1>0, <1>1, <1>2, <1>3, <1>4, <1>5 DEF Serve

LEMMA RowsStep ==
    ASSUME TypeInv, RowsExclusive, NEW c \in Clients, Start(c) \/ Serve(c) PROVE RowsExclusive'
<1>1. \A d \in Clients \ {c} : held'[d] = held[d]
  BY TypeStep DEF Only
<1>2. ASSUME NEW d \in Clients \ {c}, NEW i \in held'[c] PROVE i \notin held'[d]
  <2>1. i \in held[c] \/ HoldingRow(i) \subseteq {c}
    BY HeldGrows
  <2> QED
    BY <1>1, <2>1 DEF RowsExclusive, HoldingRow
<1> QED
  BY <1>1, <1>2 DEF RowsExclusive

\* An id that is not in the table is not given out again.
LEMMA GoneStays ==
    ASSUME TypeInv, NEW c \in Clients, EditsWhatWasChecked, Start(c) \/ Serve(c),
           NEW i \in Nat, i < nextId, WithId(i) = {}
    PROVE  {r \in reports' : r.id = i} = {}
<1>t. reports \subseteq Report /\ nextId \in Nat
  BY TypeParts DEF TablesOK
<1>1. \A r \in reports' : r.id = nextId \/ \E s \in reports : r.id = s.id
  <2>1. CASE WriteReport(c)
    <3>1. at[c] = "write" /\ KnownOf(c) /\ old[c] \in reports /\ old[c].id = req[c].id
      BY <2>1, TypeParts DEF WriteReport, Known, KnownOf, Editing, EditsWhatWasChecked
    <3> QED
      BY <2>1, <3>1, WriteEffect DEF Row
  <2>2. CASE DeleteReport(c)
    BY <2>2 DEF DeleteReport
  <2>3. CASE InsertReport(c)
    BY <2>3 DEF InsertReport, Row, WithKey
  <2>4. CASE CheckMatch(c)
    BY <2>4 DEF CheckMatch, Row
  <2>5. CASE OrphanReports(c)
    BY <2>5, OrphanEffect DEF Orphaned, ReportsOf
  <2> QED
    BY <2>1, <2>2, <2>3, <2>4, <2>5, Writers
<1> QED
  BY <1>t, <1>1 DEF WithId

\* Which action keeps what it finds.
LEMMA Finders ==
    ASSUME NEW c \in Clients, Start(c) \/ Serve(c)
    PROVE  /\ old' = old \/ LockReport(c)
           /\ hit' = hit \/ CheckReport(c)
           /\ existed' = existed \/ ReportExists(c)
           /\ made' = made \/ InsertReport(c)
<1>1. CASE \/ Start(c) \/ LockUser(c) \/ EvictConflict(c) \/ WriteReport(c) \/ DeleteReport(c)
           \/ LockAlliance(c) \/ CheckReporter(c) \/ CheckMatch(c) \/ EndPost(c) \/ LockMatches(c)
           \/ PutAlliance(c) \/ DeleteUser(c) \/ OrphanReports(c) \/ Abort(c)
  <2>1. UNCHANGED memory
    BY <1>1 DEF Start, LockUser, EvictConflict, WriteReport, DeleteReport, LockAlliance, CheckReporter,
                CheckMatch, EndPost, LockMatches, PutAlliance, DeleteUser, OrphanReports, Abort
  <2> QED
    BY <2>1 DEF memory
<1>2. CASE LockReport(c)
  BY <1>2 DEF LockReport
<1>3. CASE CheckReport(c)
  BY <1>3 DEF CheckReport
<1>4. CASE ReportExists(c)
  BY <1>4 DEF ReportExists
<1>5. CASE InsertReport(c)
  BY <1>5 DEF InsertReport
<1> QED
  BY <1>1, <1>2, <1>3, <1>4, <1>5 DEF Serve

\* Which action an edit takes next; after the response there is none.
LEMMA StepLeaves ==
    ASSUME NEW c \in Clients, Start(c) \/ Serve(c)
    PROVE  /\ at[c] # "done"
           /\ at[c] = "start" => Start(c)
           /\ at[c] = "evict" => EvictConflict(c) \/ Abort(c)
           /\ at[c] = "write" => WriteReport(c) \/ Abort(c)
BY DeadlockedBegun
   DEF Serve, Start, LockReport, LockUser, CheckReport, EvictConflict, WriteReport, DeleteReport,
       LockAlliance, ReportExists, InsertReport, CheckReporter, CheckMatch, EndPost,
       LockMatches, PutAlliance, DeleteUser, OrphanReports, Abort

\* An edit keeps its locks, and is the only one to remove what they are on.
LEMMA EditLocksStep ==
    ASSUME TypeInv, EditLocks, EditsWhatWasChecked, NEW c \in Clients, Start(c) \/ Serve(c)
    PROVE  EditLocks'
<1>t. /\ at \in [Clients -> Statements] /\ held \in [Clients -> SUBSET Nat]
      /\ hit \in [Clients -> Maybe(Nat)] /\ Enters(c) /\ Only(c)
  BY TypeParts, TypeStep, StepEnters DEF ClientsOK
<1>g. \A s : Goto(c, s) => at'[c] = s
  BY <1>t DEF Goto
<1>r. \A a : Respond(c, a) => at'[c] = "done"
  BY <1>t DEF Respond
<1>1. Editing(c)' => req'[c].id \in held'[c]
  <2>1. CASE LockReport(c) /\ Editing(c)'
    <3>1. req' = req /\ held' = [held EXCEPT ![c] = {req[c].id}]
      BY <1>r, <2>1 DEF LockReport, Editing
    <3> QED
      BY <1>t, <3>1
  <2>2. CASE LockUser(c) /\ Editing(c)'
    BY <1>r, <2>2 DEF LockUser, Editing, EditLocks
  <2>3. CASE CheckReport(c) /\ Editing(c)'
    BY <1>r, <2>3 DEF CheckReport, Editing, EditLocks
  <2>4. CASE EvictConflict(c)
    BY <1>t, <2>4 DEF EvictConflict, Editing, EditLocks
  <2> QED
    BY <1>t, <2>1, <2>2, <2>3, <2>4 DEF Enters, Editing
<1>2. hit'[c] # None => Decided(c)' \/ at'[c] = "done"
  <2>1. CASE CheckReport(c)
    BY <1>g, <1>r, <2>1 DEF CheckReport, Decided
  <2>2. CASE EvictConflict(c)
    BY <1>g, <2>2 DEF EvictConflict, Decided
  <2>3. CASE WriteReport(c)
    BY <1>r, <2>3 DEF WriteReport
  <2>4. CASE Abort(c)
    BY <1>r, <2>4 DEF Abort
  <2> QED
    BY <2>1, <2>2, <2>3, <2>4, Finders, StepLeaves DEF EditLocks, Decided
<1>3. at'[c] = "write" /\ hit'[c] # None => hit'[c] \in held'[c] \/ WithId(hit[c])' = {}
  <2>1. CASE CheckReport(c) /\ at'[c] = "write"
    <3>1. hit' = hit /\ at[c] = "check"
      BY <1>g, <1>r, <2>1 DEF CheckReport
    <3> QED
      BY <3>1 DEF EditLocks, Decided
  <2>2. CASE EvictConflict(c)
    <3>1. /\ held' = [held EXCEPT ![c] = @ \cup {r.id : r \in WithId(hit[c])}]
          /\ reports' = reports /\ hit' = hit
      BY <2>2 DEF EvictConflict, db, memory
    <3>2. WithId(hit[c])' = WithId(hit[c])
      BY <3>1 DEF WithId
    <3> QED
      BY <1>t, <3>1, <3>2 DEF WithId
  <2> QED
    BY <1>t, <2>1, <2>2 DEF Enters
<1>4. ASSUME NEW d \in Clients \ {c}, at[d] = "write", hit[d] # None
      PROVE  hit[d] \in held[d] \/ WithId(hit[d])' = {}
  <2>1. hit[d] \in Nat /\ hit[d] < nextId
    BY <1>t, <1>4, TypeParts DEF Known, KnownOf, Maybe
  <2>2. WithId(hit[d])' = {r \in reports' : r.id = hit'[d]}
    BY DEF WithId
  <2>3. hit'[d] = hit[d]
    BY <1>t DEF Only
  <2>4. CASE WithId(hit[d]) = {}
    <3>1. \A i \in Nat : i < nextId /\ WithId(i) = {} => {r \in reports' : r.id = i} = {}
      BY GoneStays DEF WithId
    <3> QED
      BY <2>1, <2>2, <2>3, <2>4, <3>1
  <2> QED
    BY <1>4, <2>4 DEF EditLocks
<1> QED
  BY <1>t, <1>1, <1>2, <1>3, <1>4 DEF EditLocks, Only, Editing, Decided

\* The deletion of a user waits for the edits and inserts that have found the user,
\* and they for it.
LEMMA UsersStep ==
    ASSUME TypeInv, UsersExclusive, NEW c \in Clients, Start(c) \/ Serve(c) PROVE UsersExclusive'
<1>t. at \in [Clients -> Statements] /\ Enters(c) /\ Only(c) /\ KnownOf(c)
  BY TypeParts, TypeStep, StepEnters DEF ClientsOK, Known
<1>g. \A s : Goto(c, s) => at'[c] = s
  BY <1>t DEF Goto
<1>r. \A a : Respond(c, a) => at'[c] = "done"
  BY <1>t DEF Respond
<1>1. ASSUME at'[c] \in {"check", "evict", "write"}, NEW d \in Clients \ {c}, at[d] = "orphan"
      PROVE  req'[c].reporter # req[d].target
  <2>1. CASE LockReport(c) /\ at'[c] = "check"
    <3>1. req' = req /\ req[c].reporter = None
      BY <1>g, <1>r, <2>1 DEF LockReport
    <3>2. req[d] \in Requests /\ req[d].op = "unregister"
      BY <1>1, TypeParts DEF Known, KnownOf
    <3> QED
      BY <3>1, <3>2, RequestType, ReportsAssumption
  <2>2. CASE LockUser(c)
    <3>1. at[c] = "target" /\ Free(c) /\ req' = req
      BY <2>2 DEF LockUser
    <3>2. d \notin UpdatingUser(req[c].reporter)
      BY <3>1, FreeMeans DEF HoldingUser
    <3> QED
      BY <1>1, <3>1, <3>2 DEF UpdatingUser
  <2>3. CASE CheckReport(c) \/ EvictConflict(c)
    BY <1>1, <2>3 DEF CheckReport, EvictConflict, UsersExclusive, Decided
  <2> QED
    BY <1>1, <1>t, <2>1, <2>2, <2>3 DEF Enters
<1>2. ASSUME at'[c] = "match", NEW d \in Clients \ {c}, at[d] = "orphan"
      PROVE  req'[c].user # req[d].target
  <2>1. at[c] = "reporter" /\ Free(c) /\ req' = req
    BY <1>2, <1>t DEF Enters, CheckReporter
  <2>2. d \notin UpdatingUser(req[c].user)
    BY <2>1, FreeMeans
  <2> QED
    BY <1>2, <2>1, <2>2 DEF UpdatingUser
<1>3. ASSUME at'[c] = "orphan", NEW d \in Clients \ {c}
      PROVE  /\ at[d] \in {"check", "evict", "write"} => req[d].reporter # req'[c].target
             /\ at[d] = "match" => req[d].user # req'[c].target
  <2>1. CASE DeleteUser(c)
    <3>1. at[c] = "user" /\ Free(c) /\ req' = req
      BY <2>1 DEF DeleteUser
    <3>2. d \notin HoldingUser(req[c].target)
      BY <3>1, FreeMeans
    <3> QED
      BY <3>1, <3>2 DEF HoldingUser, UpdatingUser
  <2>2. CASE OrphanReports(c)
    BY <2>2 DEF OrphanReports, UsersExclusive, Decided
  <2> QED
    BY <1>3, <1>t, <2>1, <2>2 DEF Enters
<1>4. \A d \in Clients \ {c} : at'[d] = at[d] /\ req'[d] = req[d]
  BY <1>t DEF Only
<1> QED
  BY <1>1, <1>2, <1>3, <1>4 DEF UsersExclusive, Decided

\* Only one post has found its alliance and not yet committed.
LEMMA OnePostStep ==
    ASSUME TypeInv, OnePost, NEW c \in Clients, Start(c) \/ Serve(c) PROVE OnePost'
<1>t. at \in [Clients -> Statements] /\ Enters(c) /\ Only(c)
  BY TypeParts, TypeStep, StepEnters DEF ClientsOK
<1>1. ASSUME at'[c] \in {"exists", "insert", "reporter", "match", "end"}
      PROVE  c \in Posting \/ Posting = {}
  <2>1. CASE LockAlliance(c) /\ at'[c] = "exists"
    <3>1. at[c] = "alliance" /\ Free(c) /\ Present(req[c])
      BY <1>t, <2>1 DEF LockAlliance, Respond
    <3> QED
      BY <3>1, FreeMeans
  <2>2. CASE ReportExists(c) \/ InsertReport(c) \/ CheckReporter(c) \/ CheckMatch(c)
    BY <2>2 DEF ReportExists, InsertReport, CheckReporter, CheckMatch, Posting
  <2> QED
    BY <1>1, <1>t, <2>1, <2>2 DEF Enters
<1>2. \A d \in Clients \ {c} : at'[d] = at[d]
  BY <1>t DEF Only
<1> QED
  BY <1>1, <1>2 DEF OnePost, Posting

\* A row that another client has locked stays as it is.
LEMMA HeldRowsStay ==
    ASSUME TypeInv, RowsExclusive, EditLocks, NEW c \in Clients, Start(c) \/ Serve(c),
           NEW d \in Clients \ {c}, NEW r \in reports, r.id \in held[d]
    PROVE  r \in reports'
<1>t. reports \subseteq Report /\ nextId \in Nat /\ r.id < nextId
  BY TypeParts DEF TablesOK, IdsSpent
<1>h. r.id \notin held[c] /\ r.id \in held[d] /\ d \in HoldingRow(r.id)
  BY DEF RowsExclusive, HoldingRow
<1>1. CASE WriteReport(c)
  <2>1. at[c] = "write" /\ \A s \in reports : s.id \notin {req[c].id, hit[c]} => s \in reports'
    BY <1>1, WriteEffect
  <2>2. req[c].id \in held[c] /\ (hit[c] # None => hit[c] \in held[c] \/ WithId(hit[c]) = {})
    BY <2>1 DEF EditLocks, Editing
  <2>3. r.id # None /\ r \in WithId(r.id)
    BY <1>t, ReportsAssumption DEF Report, WithId
  <2> QED
    BY <1>h, <2>1, <2>2, <2>3
<1>2. CASE DeleteReport(c)
  <2>1. at[c] = "delete" /\ (reports' = reports \/ reports' = {s \in reports : s.id # req[c].id})
    BY <1>2 DEF DeleteReport
  <2>2. req[c].id \in held[c]
    BY <2>1 DEF EditLocks, Editing
  <2> QED
    BY <1>h, <2>1, <2>2
<1>3. CASE InsertReport(c)
  <2>1. at[c] = "insert" /\ Free(c)
        /\ (reports' = reports \/ \E s \in WithKey(Posted(req[c])) : reports \ {s} \subseteq reports')
    BY <1>3 DEF InsertReport
  <2>2. \A s \in WithKey(Posted(req[c])) : HoldingRow(s.id) = {}
    BY <2>1, FreeMeans
  <2> QED
    BY <1>h, <2>1, <2>2
<1>4. CASE CheckMatch(c)
  BY <1>4 DEF CheckMatch
<1>5. CASE OrphanReports(c)
  <2>1. CASE r.reporter = req[c].target
    <3>1. r \in ReportsOf(req[c].target)
      BY <2>1 DEF ReportsOf
    <3> QED
      BY <1>5, <1>h, <3>1, OrphanEffect
  <2>2. CASE r.reporter # req[c].target
    BY <1>5, <2>2, OrphanEffect
  <2> QED
    BY <2>1, <2>2
<1> QED
  BY <1>1, <1>2, <1>3, <1>4, <1>5, Writers

LEMMA EditsStep ==
    ASSUME TypeInv, Locks, EditsWhatWasChecked, NEW c \in Clients, Start(c) \/ Serve(c)
    PROVE  EditsWhatWasChecked'
<1>t. /\ at \in [Clients -> Statements] /\ old \in [Clients -> Maybe(Report)]
      /\ Enters(c) /\ Only(c) /\ Known /\ users \subseteq Users
  BY TypeParts, TypeStep, StepEnters DEF ClientsOK, TablesOK
<1>r. \A a : Respond(c, a) => at'[c] = "done"
  BY <1>t DEF Respond
<1>1. ASSUME Editing(c)'
      PROVE  old'[c] \in reports' /\ (at'[c] # "delete" /\ at'[c] # "target" => req'[c].reporter \in Maybe(users'))
  <2>0. reports' = reports /\ users' = users /\ req' = req
    BY <1>1, <1>t DEF Enters, Editing, LockReport, LockUser, CheckReport, EvictConflict, db
  <2>1. CASE LockReport(c)
    <3>1. PICK r \in WithId(req[c].id) :
            /\ old' = [old EXCEPT ![c] = r]
            /\ Goto(c, IF req[c].op = "delete" THEN "delete"
                       ELSE IF req[c].reporter = None THEN "check" ELSE "target")
      BY <1>1, <1>r, <2>1 DEF LockReport, Editing
    <3>2. old'[c] \in reports
      BY <1>t, <3>1 DEF WithId
    <3>3. at'[c] = "delete" \/ at'[c] = "target" \/ req[c].reporter = None
      BY <1>t, <3>1 DEF Goto
    <3>4. req'[c].reporter = None => req'[c].reporter \in Maybe(users')
      BY DEF Maybe
    <3> QED
      BY <2>0, <3>2, <3>3, <3>4
  <2>2. CASE LockUser(c)
    <3>1. at[c] = "target" /\ old' = old /\ req[c].reporter \in users
      BY <1>1, <1>r, <2>2 DEF LockUser, Editing, memory
    <3> QED
      BY <2>0, <3>1 DEF EditsWhatWasChecked, Maybe
  <2>3. CASE CheckReport(c) \/ EvictConflict(c)
    <3>1. at[c] \in {"check", "evict"} /\ old' = old
      BY <2>3 DEF CheckReport, EvictConflict, memory
    <3> QED
      BY <2>0, <3>1 DEF EditsWhatWasChecked
  <2> QED
    BY <1>1, <1>t, <2>1, <2>2, <2>3 DEF Enters, Editing
<1>2. ASSUME NEW d \in Clients \ {c}, Editing(d) PROVE old[d] \in reports'
  <2>1. old[d] \in reports /\ old[d].id = req[d].id /\ req[d].id \in held[d]
    BY <1>2, <1>t DEF EditsWhatWasChecked, Locks, EditLocks, Known, KnownOf, Editing
  <2> QED
    BY <2>1, HeldRowsStay DEF Locks
<1>3. ASSUME NEW d \in Clients \ {c}, at[d] \in {"check", "evict", "write"}
      PROVE  req[d].reporter \in Maybe(users')
  <2>1. req[d].reporter \in Maybe(users)
    BY <1>3 DEF EditsWhatWasChecked
  <2>2. CASE users' = users
    BY <2>1, <2>2
  <2>3. CASE at[c] = "orphan" /\ users' = users \ {req[c].target}
    <3>1. req[d].reporter # req[c].target
      BY <1>3, <2>3 DEF Locks, UsersExclusive, Decided
    <3> QED
      BY <2>1, <2>3, <3>1 DEF Maybe
  <2> QED
    BY <2>2, <2>3, Writers, OrphanEffect
<1>4. \A d \in Clients \ {c} : at'[d] = at[d] /\ req'[d] = req[d] /\ old'[d] = old[d]
  BY <1>t DEF Only
<1> QED
  BY <1>1, <1>2, <1>3, <1>4 DEF EditsWhatWasChecked, Editing

\* An edit writes what it has validated.
LEMMA ValidatedStep ==
    ASSUME TypeInv, EditLocks, EditsWhatWasChecked, Validated, NEW c \in Clients, Start(c) \/ Serve(c)
    PROVE  Validated'
<1>t. /\ at \in [Clients -> Statements] /\ hit \in [Clients -> Maybe(Nat)]
      /\ Enters(c) /\ Only(c) /\ Known
      /\ \A r, s \in reports : r.id = s.id => r = s
  BY TypeParts, TypeStep, StepEnters DEF ClientsOK, TablesOK
<1>r. \A a : Respond(c, a) => at'[c] = "done"
  BY <1>t DEF Respond
<1>1. ASSUME Decided(c)'
      PROVE  Verdict(req'[c], old'[c]) = "valid" /\ (hit'[c] = req'[c].id => SameKey(old'[c], req'[c]))
  <2>1. CASE CheckReport(c)
    <3>1. /\ at[c] = "check" /\ req' = req /\ old' = old /\ Verdict(req[c], old[c]) = "valid"
          /\ hit' = hit \/ \E r \in WithKey(req[c]) : hit' = [hit EXCEPT ![c] = r.id]
      BY <1>1, <1>r, <2>1 DEF CheckReport, Decided
    <3>2. old[c] \in reports /\ old[c].id = req[c].id /\ hit[c] = None /\ req[c].id # None
      BY <1>t, <3>1, ReportsAssumption, RequestType
         DEF EditsWhatWasChecked, Known, KnownOf, Editing, EditLocks, Decided
    <3>3. CASE hit' = hit
      BY <3>1, <3>2, <3>3
    <3>4. ASSUME NEW r \in WithKey(req[c]), hit' = [hit EXCEPT ![c] = r.id], r.id = req[c].id
          PROVE  SameKey(old[c], req[c])
      BY <1>t, <3>2, <3>4 DEF WithKey
    <3> QED
      BY <1>t, <3>1, <3>3, <3>4
  <2>2. CASE EvictConflict(c)
    BY <2>2 DEF EvictConflict, memory, Validated, Decided
  <2> QED
    BY <1>1, <1>t, <2>1, <2>2 DEF Enters, Decided
<1> QED
  BY <1>t, <1>1 DEF Validated, Decided, Only

\* The alliance that a post has locked stays as it is.
LEMMA PresentStep ==
    ASSUME TypeInv, PresentWhenReported, NEW c \in Clients, Start(c) \/ Serve(c)
    PROVE  PresentWhenReported'
<1>t. at \in [Clients -> Statements] /\ Enters(c) /\ Only(c)
  BY TypeParts, TypeStep, StepEnters DEF ClientsOK
<1>1. CASE PutAlliance(c)
  <2>1. Posting = {}
    BY <1>1, FreeMeans DEF PutAlliance
  <2>2. at'[c] = "done"
    BY <1>t, <1>1 DEF PutAlliance, Respond
  <2>3. Posting' = {}
    BY <1>t, <2>1, <2>2 DEF Posting, Only
  <2> QED
    BY <2>3 DEF PresentWhenReported
<1>2. CASE lineup' = lineup
  <2>1. ASSUME c \in Posting' PROVE Present(req[c]) /\ req' = req
    <3>1. CASE LockAlliance(c) /\ at'[c] = "exists"
      BY <1>t, <3>1 DEF LockAlliance, Respond
    <3>2. CASE ReportExists(c) \/ InsertReport(c) \/ CheckReporter(c) \/ CheckMatch(c)
      BY <3>2 DEF ReportExists, InsertReport, CheckReporter, CheckMatch, Posting, PresentWhenReported
    <3> QED
      BY <2>1, <1>t, <3>1, <3>2 DEF Enters, Posting
  <2>2. ASSUME NEW d \in Posting', d # c PROVE d \in Posting /\ req'[d] = req[d]
    BY <1>t, <2>2 DEF Only, Posting
  <2> QED
    BY <1>2, <2>1, <2>2 DEF PresentWhenReported, Present
<1> QED
  BY <1>1, <1>2, Writers

\* Two clients that post are one.
LEMMA PostsAlone ==
    ASSUME OnePost, NEW c \in Clients, at[c] \in {"exists", "insert", "reporter", "match", "end"},
           NEW d \in Clients \ {c}
    PROVE  at[d] \notin {"exists", "insert", "reporter", "match", "end"}
BY DEF OnePost, Posting

\* The key of a report is kept unique by the writes themselves, and that of a row
\* that is being inserted by the wait of all others for it.
LEMMA KeysStep ==
    ASSUME TypeInv, OnePost, KeysUnique, NEW c \in Clients, Start(c) \/ Serve(c)
    PROVE  KeysUnique'
<1>t. at \in [Clients -> Statements] /\ Enters(c) /\ Only(c) /\ Known
  BY TypeParts, TypeStep, StepEnters DEF ClientsOK, Known
<1>k. \A q, r : WithKey(q) = {} /\ r \in reports => ~SameKey(r, q)
  BY DEF WithKey
<1>0. CASE reports' = reports
  <2>1. \A r, s \in reports' : SameKey(r, s) => r = s
    BY <1>0 DEF KeysUnique
  <2>2. ASSUME c \in Claiming' PROVE \A r \in reports' : ~SameKey(r, Posted(req'[c]))
    <3>1. CASE InsertReport(c) /\ at'[c] = "reporter"
      <4>1. WithKey(Posted(req[c])) = {} /\ req' = req
        BY <1>t, <3>1 DEF InsertReport, Goto
      <4> QED
        BY <1>0, <1>k, <4>1
    <3>2. CASE CheckReporter(c)
      <4>1. WithKey(Posted(req[c])) = {} /\ req' = req
        BY <3>2 DEF CheckReporter, KeysUnique, Claiming
      <4> QED
        BY <1>0, <1>k, <4>1
    <3> QED
      BY <1>t, <2>2, <3>1, <3>2 DEF Enters, Claiming
  <2>3. ASSUME NEW d \in Clients \ {c}, d \in Claiming'
        PROVE  \A r \in reports' : ~SameKey(r, Posted(req'[d]))
    BY <1>0, <1>k, <1>t, <2>3 DEF Claiming, Only, KeysUnique
  <2> QED
    BY <2>1, <2>2, <2>3 DEF KeysUnique, WithKey, Claiming
<1>1. ASSUME NEW x, \A r \in reports' : r \in reports \/ r = x,
             \A r, s \in reports' : SameKey(r, s) => r = s,
             \A d \in Clients \ {c} : d \in Claiming => ~SameKey(x, Posted(req[d])),
             at'[c] \notin {"reporter", "match"}
      PROVE  KeysUnique'
  <2>1. ASSUME NEW d \in Clients \ {c}, d \in Claiming'
        PROVE  \A r \in reports' : ~SameKey(r, Posted(req'[d]))
    <3>1. d \in Claiming /\ req'[d] = req[d]
      BY <1>t, <2>1 DEF Claiming, Only
    <3> QED
      BY <1>1, <1>k, <3>1 DEF KeysUnique
  <2>2. c \notin Claiming'
    BY <1>1 DEF Claiming
  <2> QED
    BY <1>1, <2>1, <2>2 DEF KeysUnique, WithKey, Claiming
<1>2. CASE WriteReport(c) /\ reports' # reports
  <2> DEFINE q == req[c]
  <2>1. /\ at[c] = "write" /\ Free(c) /\ at'[c] = "done"
        /\ {r \in WithKey(q) : r.id \notin {q.id, hit[c]}} = {} \/ hit[c] = q.id
        /\ reports' = Updated(c)
    BY <1>2, <1>t, WriteEffect DEF WriteReport, Respond
  <2>2. \A r \in reports' : \/ r \in reports /\ r.id \notin {q.id, hit[c]}
                            \/ r = Row(q.id, q) /\ hit[c] # q.id
    BY <2>1 DEF Updated
  <2>3. \A r : /\ SameKey(r, Row(q.id, q)) <=> SameKey(r, q)
               /\ SameKey(Row(q.id, q), r) => SameKey(r, q)
    BY DEF SameKey, Row
  <2>4. \A r, s \in reports' : SameKey(r, s) => r = s
    BY <2>1, <2>2, <2>3 DEF KeysUnique, WithKey
  <2>5. ASSUME NEW d \in Clients \ {c}, d \in Claiming PROVE ~SameKey(Row(q.id, q), Posted(req[d]))
    <3>1. d \notin HoldingKey(q)
      BY <2>1, FreeMeans
    <3>2. SameKey(Row(q.id, q), Posted(req[d])) => SameKey(Posted(req[d]), q)
      BY DEF SameKey, Row
    <3> QED
      BY <2>5, <3>1, <3>2 DEF HoldingKey
  <2> QED
    BY <2>1, <2>2, <2>4, <2>5, <1>1
<1>3. CASE DeleteReport(c)
  <2>1. at'[c] = "done" /\ \A r \in reports' : r \in reports
    BY <1>3, <1>t DEF DeleteReport, Respond
  <2>2. \A r, s \in reports' : SameKey(r, s) => r = s
    BY <2>1 DEF KeysUnique
  <2>3. \A d \in Clients : d \in Claiming => ~SameKey(Orphaned(old[c]), Posted(req[d]))
    BY DEF SameKey, Orphaned
  <2> QED
    BY <2>1, <2>2, <2>3, <1>1
<1>4. CASE InsertReport(c) /\ reports' # reports
  <2> DEFINE q == Posted(req[c])
  <2>1. PICK r \in WithKey(q) : reports' = (reports \ {r}) \cup {Row(r.id, q)} /\ Goto(c, "end")
    BY <1>4 DEF InsertReport
  <2>2. at[c] = "insert" /\ at'[c] = "end"
    BY <1>4, <1>t, <2>1 DEF InsertReport, Goto
  <2>3. r \in reports /\ SameKey(r, q)
    BY DEF WithKey
  <2>4. \A s : SameKey(s, Row(r.id, q)) \/ SameKey(Row(r.id, q), s) => SameKey(s, r)
    BY <2>3 DEF SameKey, Row
  <2>5. \A s, s1 \in reports' : SameKey(s, s1) => s = s1
    BY <2>1, <2>3, <2>4 DEF KeysUnique
  <2>6. \A d \in Clients \ {c} : d \notin Claiming
    BY <2>2, PostsAlone DEF Claiming
  <2> QED
    BY <2>1, <2>2, <2>5, <2>6, <1>1
<1>5. CASE CheckMatch(c)
  <2> DEFINE q == Posted(req[c])
  <2>1. at[c] = "match" /\ at'[c] = "end" /\ reports' = reports \cup {Row(nextId, q)}
    BY <1>5, <1>t DEF CheckMatch, Goto
  <2>2. \A s : SameKey(s, Row(nextId, q)) \/ SameKey(Row(nextId, q), s) => SameKey(s, q)
    BY DEF SameKey, Row
  <2>3. WithKey(q) = {}
    BY <2>1 DEF KeysUnique, Claiming
  <2>4. \A s, s1 \in reports' : SameKey(s, s1) => s = s1
    BY <1>k, <2>1, <2>2, <2>3 DEF KeysUnique
  <2>5. \A d \in Clients \ {c} : d \notin Claiming
    BY <2>1, PostsAlone DEF Claiming
  <2> QED
    BY <2>1, <2>4, <2>5, <1>1
<1>6. CASE OrphanReports(c) /\ reports' # reports
  <2>1. \A r \in reports' : r \in reports \/ r.reporter = None
    BY <1>6, OrphanEffect DEF Orphaned
  <2>2. \A r \in reports' : \A s : SameKey(r, s) \/ SameKey(s, r) => r \in reports
    BY <2>1 DEF SameKey
  <2>3. \A r, s \in reports' : SameKey(r, s) => r = s
    BY <2>2 DEF KeysUnique
  <2>4. at'[c] \notin {"reporter", "match"}
    BY <1>6, <1>t DEF OrphanReports, Respond, Enters, InsertReport, CheckReporter
  <2>5. ASSUME NEW d \in Clients \ {c}, d \in Claiming'
        PROVE  \A r \in reports' : ~SameKey(r, Posted(req'[d]))
    BY <1>k, <1>t, <2>2, <2>5 DEF Claiming, Only, KeysUnique
  <2> QED
    BY <2>3, <2>4, <2>5 DEF KeysUnique, WithKey, Claiming
<1> QED
  BY <1>0, <1>2, <1>3, <1>4, <1>5, <1>6, Writers

\* A report and its reporter are of one realm after every write.
LEMMA RealmStep ==
    ASSUME TypeInv, Validated, ReporterInRealm, NEW c \in Clients, Start(c) \/ Serve(c)
    PROVE  ReporterInRealm'
<1>0. CASE reports' = reports
  BY <1>0 DEF ReporterInRealm
<1>1. CASE WriteReport(c)
  <2>1. at[c] = "write" /\ \A r \in reports' : r \in reports \/ r = Row(req[c].id, req[c])
    BY <1>1, WriteEffect
  <2>2. Verdict(req[c], old[c]) = "valid"
    BY <2>1 DEF Validated, Decided
  <2>3. req[c].reporter # None /\ req[c].realm # None => UserRealm[req[c].reporter] = req[c].realm
    BY <2>2 DEF Verdict
  <2> QED
    BY <2>1, <2>3 DEF ReporterInRealm, Row
<1>2. CASE DeleteReport(c)
  BY <1>2 DEF DeleteReport, ReporterInRealm
<1>3. CASE InsertReport(c)
  BY <1>3 DEF InsertReport, ReporterInRealm, Posted, Row
<1>4. CASE CheckMatch(c)
  BY <1>4 DEF CheckMatch, ReporterInRealm, Posted, Row
<1>5. CASE OrphanReports(c)
  BY <1>5, OrphanEffect DEF ReporterInRealm, Orphaned
<1> QED
  BY <1>0, <1>1, <1>2, <1>3, <1>4, <1>5, Writers

\* Whoever has disturbed posts has done so for good.
LEMMA UndisturbedBefore ==
    ASSUME TypeInv, NEW c \in Clients, Start(c) \/ Serve(c), Undisturbed'
    PROVE  /\ Undisturbed
           /\ ~WriteReport(c) /\ ~DeleteReport(c)
<1>t. Known /\ Only(c)
  BY TypeParts, TypeStep
<1>1. ASSUME NEW d \in Clients PROVE req'[d] = req[d] \/ req[d] = None
  <2>1. Start(c) => req[c] = None
    BY <1>t, StartStep DEF Known, KnownOf
  <2> QED
    BY <1>t, <2>1, SameRequest DEF Only
<1>2. Undisturbed
  BY <1>1 DEF Undisturbed
<1>3. ASSUME WriteReport(c) \/ DeleteReport(c) PROVE FALSE
  <2>1. at[c] \in {"write", "delete"}
    BY <1>3 DEF WriteReport, DeleteReport
  <2>2. req[c] \in Requests /\ req[c].op \in {"put", "delete"}
    BY <1>t, <2>1 DEF Known, KnownOf
  <2> QED
    BY <1>2, <2>2, ReportsAssumption DEF Undisturbed
<1> QED
  BY <1>2, <1>3

\* While nobody edits and c, or another, posts alone, only a departure changes what
\* there is with a key: then there is nothing left with it.
LEMMA KeysFound ==
    ASSUME TypeInv, OnePost, NEW c \in Clients, Start(c) \/ Serve(c), Undisturbed',
           NEW d \in Clients \ {c}, at[d] \in {"insert", "reporter", "match"}
    PROVE  LET q == Posted(req[d])
           IN \/ {r \in reports' : SameKey(r, q)} = WithKey(q)
              \/ {r \in reports' : SameKey(r, q)} = {} /\ req[d].user \notin users'
<1> DEFINE q == Posted(req[d])
<1>0. CASE reports' = reports
  BY <1>0 DEF WithKey
<1>1. ~WriteReport(c) /\ ~DeleteReport(c)
  BY UndisturbedBefore
<1>2. ~InsertReport(c) /\ ~CheckMatch(c)
  BY PostsAlone DEF InsertReport, CheckMatch
<1>3. CASE OrphanReports(c) /\ reports' # reports
  <2> DEFINE u == req[c].target
  <2>1. /\ users' = users \ {u}
        /\ \A r \in reports' : (r \in reports /\ r.reporter # u) \/ r.reporter = None
        /\ \A r \in reports : r.reporter # u => r \in reports'
    BY <1>3, OrphanEffect DEF Orphaned
  <2>2. q.reporter = req[d].user
    BY DEF Posted
  <2>3. CASE req[d].user = u
    <3>1. \A r \in reports' : ~SameKey(r, q)
      BY <2>1, <2>2, <2>3 DEF SameKey
    <3> QED
      BY <2>1, <2>3, <3>1
  <2>4. CASE req[d].user # u
    <3>1. \A r : SameKey(r, q) => r.reporter # None /\ r.reporter # u
      BY <2>2, <2>4 DEF SameKey
    <3> QED
      BY <2>1, <3>1 DEF WithKey
  <2> QED
    BY <2>3, <2>4
<1> QED
  BY <1>0, <1>1, <1>2, <1>3, Writers

LEMMA FoundStep ==
    ASSUME TypeInv, OnePost, FoundRight, NEW c \in Clients, Start(c) \/ Serve(c)
    PROVE  FoundRight'
<1> SUFFICES ASSUME Undisturbed', NEW d \in Clients
             PROVE  (/\ at[d] \in {"start", "alliance", "exists", "insert"} => ~made[d]
                     /\ at[d] = "insert" =>
                           \/ existed[d] = (WithKey(Posted(req[d])) # {})
                           \/ existed[d] /\ req[d].user \notin users
                     /\ at[d] = "reporter" => made[d] /\ (existed[d] => req[d].user \notin users)
                     /\ at[d] = "match" => made[d] /\ ~existed[d])'
  BY Zenon DEF FoundRight
<1>t. /\ at \in [Clients -> Statements] /\ existed \in [Clients -> BOOLEAN]
      /\ made \in [Clients -> BOOLEAN] /\ Enters(c) /\ Only(c)
  BY TypeParts, TypeStep, StepEnters DEF ClientsOK
<1>f. /\ at[d] \in {"start", "alliance", "exists", "insert"} => ~made[d]
      /\ at[d] = "insert" =>
            \/ existed[d] = (WithKey(Posted(req[d])) # {})
            \/ existed[d] /\ req[d].user \notin users
      /\ at[d] = "reporter" => made[d] /\ (existed[d] => req[d].user \notin users)
      /\ at[d] = "match" => made[d] /\ ~existed[d]
  BY UndisturbedBefore DEF FoundRight
<1>u. users' \subseteq users
  BY Writers, OrphanEffect
<1>1. CASE d # c
  <2>1. at'[d] = at[d] /\ req'[d] = req[d] /\ existed'[d] = existed[d] /\ made'[d] = made[d]
    BY <1>1, <1>t DEF Only
  <2>2. at[d] = "insert" =>
           \/ existed[d] = ({r \in reports' : SameKey(r, Posted(req[d]))} # {})
           \/ existed[d] /\ req[d].user \notin users'
    BY <1>1, <1>f, <1>u, KeysFound
  <2> QED
    BY <1>f, <1>u, <2>1, <2>2 DEF WithKey
<1>2. CASE d = c
  <2>1. CASE Start(c)
    <3>1. at[c] = "start" /\ made' = made /\ at'[c] \notin {"insert", "reporter", "match"}
      BY <2>1, <1>t, StartStep, StepLeaves DEF memory, Enters, ReportExists, InsertReport, CheckReporter
    <3> QED
      BY <1>2, <1>f, <3>1
  <2>2. CASE LockAlliance(c)
    <3>1. at[c] = "alliance" /\ made' = made /\ at'[c] \in {"exists", "done"}
      BY <2>2, <1>t DEF LockAlliance, memory, Goto, Respond
    <3> QED
      BY <1>2, <1>f, <3>1
  <2>3. CASE ReportExists(c)
    <3>1. /\ at[c] = "exists" /\ made' = made /\ at'[c] = "insert" /\ req' = req /\ reports' = reports
          /\ existed'[c] = (WithKey(Posted(req[c])) # {})
      BY <2>3, <1>t DEF ReportExists, Goto, db
    <3> QED
      BY <1>2, <1>f, <3>1 DEF WithKey
  <2>4. CASE InsertReport(c) /\ at'[c] = "reporter"
    <3>1. /\ at[c] = "insert" /\ made'[c] /\ existed' = existed /\ req' = req /\ users' = users
          /\ WithKey(Posted(req[c])) = {}
      BY <2>4, <1>t DEF InsertReport, Goto
    <3> QED
      BY <1>2, <1>f, <2>4, <3>1
  <2>5. CASE CheckReporter(c) /\ at'[c] = "match"
    <3>1. at[c] = "reporter" /\ made' = made /\ existed' = existed /\ req[c].user \in users
      BY <2>5, <1>t DEF CheckReporter, memory, Respond
    <3> QED
      BY <1>2, <1>f, <2>5, <3>1
  <2> QED
    BY <1>2, <1>t, <2>1, <2>2, <2>3, <2>4, <2>5 DEF Enters
<1> QED
  BY <1>1, <1>2

LEMMA CreatedStep ==
    ASSUME TypeInv, FoundRight, CreatedMeansNew, NEW c \in Clients, Start(c) \/ Serve(c)
    PROVE  CreatedMeansNew'
<1> SUFFICES ASSUME Undisturbed', NEW d \in Clients, at'[d] = "end" PROVE made'[d] = ~existed'[d]
  BY Zenon DEF CreatedMeansNew
<1>t. /\ at \in [Clients -> Statements] /\ existed \in [Clients -> BOOLEAN]
      /\ made \in [Clients -> BOOLEAN] /\ Enters(c) /\ Only(c)
  BY TypeParts, TypeStep, StepEnters DEF ClientsOK
<1>1. CASE d # c
  <2>1. at[d] = "end" /\ existed'[d] = existed[d] /\ made'[d] = made[d]
    BY <1>1, <1>t DEF Only
  <2>2. made[d] = ~existed[d]
    BY <2>1, UndisturbedBefore DEF CreatedMeansNew
  <2> QED
    BY <2>1, <2>2
<1>2. CASE d = c
  <2>1. CASE InsertReport(c)
    <3>1. /\ at[c] = "insert" /\ made' = made /\ existed' = existed
          /\ WithKey(Posted(req[c])) # {}
      BY <1>2, <1>t, <2>1 DEF InsertReport, Goto
    <3>2. ~made[c] /\ (existed[c] = (WithKey(Posted(req[c])) # {}) \/ existed[c])
      BY <3>1, UndisturbedBefore DEF FoundRight
    <3>3. made[c] = FALSE /\ existed[c] = TRUE
      BY <1>t, <3>1, <3>2, Zenon
    <3> QED
      BY <1>2, <3>1, <3>3
  <2>2. CASE CheckMatch(c)
    <3>1. at[c] = "match" /\ made' = made /\ existed' = existed
      BY <2>2 DEF CheckMatch, memory
    <3>2. made[c] = TRUE /\ existed[c] = FALSE
      BY <3>1, UndisturbedBefore DEF FoundRight
    <3> QED
      BY <1>2, <3>1, <3>2
  <2> QED
    BY <1>2, <1>t, <2>1, <2>2 DEF Enters
<1> QED
  BY <1>1, <1>2

-----------------------------------------------------------------------------
(* The inductive invariant holds.                                          *)

LEMMA InitInv == Init => IInv
<1> SUFFICES ASSUME Init PROVE IInv
  OBVIOUS
<1>1. TypeInv
  BY TypeInit
<1>2. \A c \in Clients : at[c] = "start" /\ held[c] = {} /\ hit[c] = None /\ made[c] = FALSE
  BY DEF Init
<1>3. Locks
  BY <1>2 DEF Locks, RowsExclusive, EditLocks, UsersExclusive, OnePost, Posting, Editing, Decided
<1>4. EditsWhatWasChecked /\ Validated /\ PresentWhenReported
  BY <1>2 DEF EditsWhatWasChecked, Validated, Decided, PresentWhenReported, Posting
<1>5. KeysUnique
  BY <1>2, ReportsAssumption DEF KeysUnique, Claiming, Init
<1>6. ReporterInRealm
  BY ReportsAssumption DEF ReporterInRealm, Init
<1>7. FoundRight /\ CreatedMeansNew
  BY <1>2, Zenon DEF FoundRight, CreatedMeansNew
<1> QED
  BY <1>1, <1>3, <1>4, <1>5, <1>6, <1>7 DEF IInv

LEMMA StepInv == IInv /\ [Next]_vars => IInv'
<1>1. ASSUME IInv, NEW c \in Clients, Start(c) \/ Serve(c) PROVE IInv'
  <2>0. /\ TypeInv /\ Locks /\ RowsExclusive /\ EditLocks /\ UsersExclusive /\ OnePost
        /\ EditsWhatWasChecked /\ Validated /\ PresentWhenReported /\ KeysUnique
        /\ ReporterInRealm /\ FoundRight /\ CreatedMeansNew
    BY <1>1 DEF IInv, Locks
  <2>1. TypeInv'
    BY <1>1, <2>0, TypeStep
  <2>2. Locks'
    BY <1>1, <2>0, RowsStep, EditLocksStep, UsersStep, OnePostStep DEF Locks
  <2>3. EditsWhatWasChecked' /\ Validated' /\ PresentWhenReported'
    BY <1>1, <2>0, EditsStep, ValidatedStep, PresentStep
  <2>4. KeysUnique' /\ ReporterInRealm'
    BY <1>1, <2>0, KeysStep, RealmStep
  <2>5. FoundRight' /\ CreatedMeansNew'
    BY <1>1, <2>0, FoundStep, CreatedStep
  <2> QED
    BY <2>1, <2>2, <2>3, <2>4, <2>5 DEF IInv
<1>2. ASSUME IInv, UNCHANGED vars PROVE IInv'
  <2>0. TypeInv'
    BY <1>2, TypeStutter DEF IInv
  <2>1. UNCHANGED <<reports, users, lineup, nextId, req, at, held, old, hit, existed, made>>
    BY <1>2 DEF vars, db, memory
  <2>2. Locks'
    BY <1>2, <2>1 DEF IInv, Locks, RowsExclusive, EditLocks, UsersExclusive, OnePost, Posting,
                      Editing, Decided, WithId
  <2>3. EditsWhatWasChecked' /\ Validated' /\ PresentWhenReported'
    BY <1>2, <2>1 DEF IInv, EditsWhatWasChecked, Validated, Decided, PresentWhenReported, Posting, Present
  <2>4. KeysUnique' /\ ReporterInRealm'
    BY <1>2, <2>1 DEF IInv, KeysUnique, Claiming, WithKey, ReporterInRealm
  <2>5. FoundRight' /\ CreatedMeansNew'
    BY <1>2, <2>1, Zenon DEF IInv, FoundRight, CreatedMeansNew, Undisturbed, WithKey
  <2> QED
    BY <2>0, <2>2, <2>3, <2>4, <2>5 DEF IInv
<1> QED
  BY <1>1, <1>2 DEF Next

LEMMA InvCorrect == Spec => []IInv
BY InitInv, StepInv, PTL DEF Spec

-----------------------------------------------------------------------------
(* The theorems.                                                           *)

\* For any number of scouts, edits and departures, what a handler has found holds until
\* it commits: the lock on the alliance outlives the other transaction, which inserts the
\* report, and what was locked and validated is what is edited (reports.go:133-158, 363-402).
THEOREM FoundHoldsCorrect == Spec => []FoundHolds
<1>1. IInv => FoundHolds
  BY DEF IInv, FoundHolds, PresentWhenReported, EditsWhatWasChecked
<1> QED
  BY <1>1, InvCorrect, PTL

\* The response to a post tells the truth about whether the report is new as long as
\* nobody updates or deletes reports, also when the reporter's account goes between
\* the two statements of UpsertReport: the insert then fails (reports.go:92-95).
THEOREM CreatedMeansNewCorrect == Spec => []CreatedMeansNew
<1>1. IInv => CreatedMeansNew
  BY DEF IInv
<1> QED
  BY <1>1, InvCorrect, PTL

\* Whoever posts, moves or replaces reports, none gets a realm that is not its
\* reporter's (reports.go:122-129, 227-243).
THEOREM ReporterInRealmCorrect == Spec => []ReporterInRealm
<1>1. IInv => ReporterInRealm
  BY DEF IInv
<1> QED
  BY <1>1, InvCorrect, PTL

\* A reporter has at most one report of a team in the match: the unique constraint
\* holds of what is committed, by the waits of each write for the others
\* (store/reports.go:92-132, 160-210).
UniqueKeys == \A r, s \in reports : SameKey(r, s) => r = s

THEOREM UniqueKeysCorrect == Spec => []UniqueKeys
<1>1. IInv => UniqueKeys
  BY DEF IInv, KeysUnique, UniqueKeys
<1> QED
  BY <1>1, InvCorrect, PTL

\* An update that changes the key of a report never loses it, although the statement
\* deletes whatever report is in the way: that one is never the report itself, which
\* is locked and so still has its old key (store/reports.go:160-210).
THEOREM MoveStoredCorrect == Spec => MoveStored
<1> DEFINE Stored == \A c \in Clients :
             Puts(c) /\ ~SameKey(old[c], req[c]) => Row(req[c].id, req[c]) \in reports'
<1>1. ASSUME IInv, [Next]_vars PROVE [Stored]_vars
  <2> SUFFICES ASSUME Next, NEW c \in Clients, Puts(c), ~SameKey(old[c], req[c])
               PROVE  Row(req[c].id, req[c]) \in reports'
    BY <1>1
  <2>t. TypeInv /\ Validated
    BY <1>1 DEF IInv
  <2>1. PICK d \in Clients : Start(d) \/ Serve(d)
    BY DEF Next
  <2>2. at[c] = "write" /\ at'[c] = "done" /\ answer'[c] = "no content"
    BY DEF Puts
  <2>3. d = c
    BY <2>t, <2>1, <2>2, TypeStep DEF Only
  <2>4. WriteReport(c) \/ Abort(c)
    BY <2>1, <2>2, <2>3, StepLeaves
  <2>5. answer \in [Clients -> Answers]
    BY <2>t, TypeParts DEF ClientsOK
  <2>6. reports' = Updated(c)
    BY <2>2, <2>4, <2>5 DEF WriteReport, Abort, Respond
  <2>7. hit[c] # req[c].id
    BY <2>t, <2>2 DEF Validated, Decided
  <2> QED
    BY <2>6, <2>7 DEF Updated
<1> QED
  BY <1>1, InvCorrect, PTL DEF Spec, MoveStored

-----------------------------------------------------------------------------
(* Who waits for whom.                                                     *)

Underway == {c \in Clients : at[c] \notin {"start", "done"}}

\* Rows are locked by edits and departures, which end with their locks.
RowsHeldByWriters == \A c \in Clients :
    held[c] # {} => Editing(c) \/ at[c] = "orphan"

\* Whoever is waited for is under way, and of any requests that wait for each other
\* only, one can go on or the database ends one, unless a post and an edit of the match
\* are among them and wait for each other.
NobodyStuck ==
    /\ \A c \in Underway : Blockers(c) \subseteq Underway
    /\ \A S \in SUBSET Underway :
          S # {} /\ (\A c \in S : Blockers(c) \subseteq S) =>
             \/ \E c \in S : Free(c) \/ Deadlocked(c)
             \/ \E c, d \in S : at[c] = "match" /\ at[d] = "lineup"

LEMMA HeldInit == Init => RowsHeldByWriters
BY DEF Init, RowsHeldByWriters

LEMMA HeldStep ==
    ASSUME TypeInv, RowsHeldByWriters, NEW c \in Clients, Start(c) \/ Serve(c)
    PROVE  RowsHeldByWriters'
<1>t. at \in [Clients -> Statements] /\ held \in [Clients -> SUBSET Nat] /\ Enters(c) /\ Only(c)
  BY TypeParts, TypeStep, StepEnters DEF ClientsOK
<1>r. \A a : Respond(c, a) => held'[c] = {}
  BY <1>t DEF Respond
<1>1. ASSUME ~Editing(c)', at'[c] # "orphan" PROVE held'[c] = {}
  <2>1. CASE Start(c)
    <3>1. at[c] = "start" /\ (held' = held \/ held'[c] = {})
      BY <1>t, <2>1, StartStep DEF Ends
    <3> QED
      BY <3>1 DEF RowsHeldByWriters, Editing
  <2>2. CASE \/ LockAlliance(c) \/ ReportExists(c) \/ InsertReport(c) \/ CheckReporter(c)
             \/ CheckMatch(c) \/ LockMatches(c)
    <3>1. /\ at[c] \in {"alliance", "exists", "insert", "reporter", "match", "table"}
          /\ held' = held \/ held'[c] = {}
      BY <1>r, <2>2 DEF LockAlliance, ReportExists, InsertReport, CheckReporter, CheckMatch, LockMatches
    <3> QED
      BY <3>1 DEF RowsHeldByWriters, Editing
  <2>3. CASE \/ WriteReport(c) \/ DeleteReport(c) \/ EndPost(c) \/ PutAlliance(c) \/ Abort(c)
    BY <1>r, <2>3 DEF WriteReport, DeleteReport, EndPost, PutAlliance, Abort
  <2>4. CASE LockReport(c) \/ LockUser(c) \/ CheckReport(c) \/ EvictConflict(c) \/ DeleteUser(c) \/ OrphanReports(c)
    <3>1. at'[c] = "done"
      BY <1>1, <1>t, <2>4 DEF LockReport, LockUser, CheckReport, EvictConflict, DeleteUser, OrphanReports,
                              Goto, Respond, Editing
    <3> QED
      BY <1>t, <3>1 DEF Enters
  <2> QED
    BY <2>1, <2>2, <2>3, <2>4 DEF Serve
<1>2. ASSUME NEW d \in Clients \ {c} PROVE held'[d] = held[d] /\ at'[d] = at[d]
  BY <1>t DEF Only
<1> QED
  BY <1>1, <1>2 DEF RowsHeldByWriters, Editing

LEMMA HeldCorrect == Spec => []RowsHeldByWriters
<1>1. TypeInv /\ RowsHeldByWriters /\ [Next]_vars => (TypeInv /\ RowsHeldByWriters)'
  <2>1. ASSUME TypeInv, RowsHeldByWriters, UNCHANGED vars PROVE RowsHeldByWriters'
    BY <2>1 DEF vars, RowsHeldByWriters, Editing
  <2> QED
    BY <2>1, HeldStep, TypeStep, TypeStutter DEF Next
<1> QED
  BY <1>1, TypeInit, HeldInit, PTL DEF Spec

\* What a client waits for: a row, or the statement another has come to.
LEMMA WhoBlocks ==
    ASSUME NEW c \in Clients, NEW d \in Blockers(c)
    PROVE  /\ d \in Clients
           /\ \/ held[d] # {}
              \/ at[d] \in {"check", "evict", "write", "orphan", "exists", "insert", "reporter", "match", "end"}
              \/ at[d] = "lineup" /\ at[c] \in {"match", "table"}
<1> DEFINE q == req[c]
           Writing(x) == x \in Clients /\ (held[x] # {} \/
              at[x] \in {"check", "evict", "write", "orphan", "exists", "insert", "reporter", "match", "end"})
<1>r. \A i : \A x \in HoldingRow(i) : Writing(x)
  BY DEF HoldingRow
<1>m. \A i : \A x \in Removing(i) : Writing(x)
  BY DEF Removing, HoldingRow
<1>k. \A k : \A x \in HoldingKey(k) : Writing(x)
  BY DEF HoldingKey, Claiming
<1>u. \A u : \A x \in HoldingUser(u) : Writing(x)
  BY DEF HoldingUser, UpdatingUser
<1>v. \A u : \A x \in UpdatingUser(u) : Writing(x)
  BY DEF UpdatingUser
<1>a. \A x \in HoldingAlliance : Writing(x)
  BY DEF HoldingAlliance, Posting
<1>1. ASSUME at[c] = "lock" PROVE Blockers(c) = HoldingRow(q.id)
  BY <1>1, Zenon DEF Blockers
<1>2. ASSUME at[c] = "target" PROVE Blockers(c) = HoldingUser(q.reporter)
  BY <1>2, Zenon DEF Blockers
<1>3. ASSUME at[c] = "evict" PROVE Blockers(c) = HoldingRow(hit[c]) \ {c}
  BY <1>3, Zenon DEF Blockers
<1>4. ASSUME at[c] = "write"
      PROVE  Blockers(c) = (HoldingKey(q) \cup UNION {Removing(r.id) : r \in WithKey(q)}) \ {c}
  BY <1>4, Zenon DEF Blockers
<1>5. ASSUME at[c] = "alliance" PROVE Blockers(c) = IF Present(q) THEN HoldingAlliance ELSE {}
  BY <1>5, Zenon DEF Blockers
<1>6. ASSUME at[c] = "insert"
      PROVE  Blockers(c) = HoldingKey(Posted(q)) \cup UNION {HoldingRow(r.id) : r \in WithKey(Posted(q))}
  BY <1>6, Zenon DEF Blockers
<1>7. ASSUME at[c] = "reporter" PROVE Blockers(c) = UpdatingUser(q.user)
  BY <1>7, Zenon DEF Blockers
<1>8. ASSUME at[c] \in {"match", "table"} PROVE Blockers(c) = HoldingTable
  <2>1. ASSUME at[c] = "match" PROVE Blockers(c) = HoldingTable
    BY <2>1, Zenon DEF Blockers
  <2>2. ASSUME at[c] = "table" PROVE Blockers(c) = HoldingTable
    BY <2>2, Zenon DEF Blockers
  <2> QED
    BY <1>8, <2>1, <2>2
<1>9. ASSUME at[c] = "lineup" PROVE Blockers(c) = HoldingAlliance
  BY <1>9, Zenon DEF Blockers
<1>10. ASSUME at[c] = "user" PROVE Blockers(c) = HoldingUser(q.target)
  BY <1>10, Zenon DEF Blockers
<1>11. ASSUME at[c] = "orphan"
       PROVE  Blockers(c) = UNION {HoldingRow(r.id) : r \in ReportsOf(q.target)} \ {c}
  BY <1>11, Zenon DEF Blockers
<1>12. ASSUME at[c] \notin {"lock", "target", "evict", "write", "alliance", "insert", "reporter", "match",
                            "table", "lineup", "user", "orphan"}
       PROVE  Blockers(c) = {}
  <2>1. /\ at[c] # "lock" /\ at[c] # "target" /\ at[c] # "evict" /\ at[c] # "write"
        /\ at[c] # "alliance" /\ at[c] # "insert" /\ at[c] # "reporter" /\ at[c] # "match"
        /\ at[c] # "table" /\ at[c] # "lineup" /\ at[c] # "user" /\ at[c] # "orphan"
    BY <1>12
  <2> QED
    BY <2>1, Zenon DEF Blockers
<1>13. CASE at[c] \in {"match", "table"}
  BY <1>8, <1>13 DEF HoldingTable
<1>14. CASE at[c] \notin {"match", "table"}
  <2>1. CASE at[c] \in {"lock", "evict", "orphan"}
    BY <1>1, <1>3, <1>11, <1>r, <2>1
  <2>2. CASE at[c] \in {"target", "user", "reporter"}
    BY <1>2, <1>7, <1>10, <1>u, <1>v, <2>2
  <2>3. CASE at[c] \in {"alliance", "lineup"}
    BY <1>5, <1>9, <1>a, <2>3
  <2>4. CASE at[c] = "write"
    BY <1>4, <1>k, <1>m, <2>4
  <2>5. CASE at[c] = "insert"
    BY <1>6, <1>k, <1>r, <2>5
  <2>6. Writing(d)
    BY <1>12, <1>14, <2>1, <2>2, <2>3, <2>4, <2>5
  <2> QED
    BY <2>6
<1> QED
  BY <1>13, <1>14

\* Requests that wait for each other only.
Closed(S) == \A c \in S : Blockers(c) \subseteq S

\* Of finitely many, some wait for each other in one circle: they have no part that
\* waits for itself only.
LEMMA SmallestClosed ==
    ASSUME IsFiniteSet(Clients), NEW S \in SUBSET Clients, S # {}, Closed(S)
    PROVE  \E T \in SUBSET S : /\ T # {} /\ Closed(T)
                               /\ \A U \in SUBSET T : U # {} /\ Closed(U) => U = T
<1> DEFINE family == {T \in SUBSET S : T # {} /\ Closed(T)}
<1>1. IsWellFoundedOn(StrictSubsetOrdering(Clients), SUBSET Clients)
  BY FS_StrictSubsetOrderingWellFounded, FS_FiniteSubsetsOfFinite
<1>2. family \subseteq SUBSET Clients /\ S \in family
  OBVIOUS
<1>3. PICK T \in family : \A U \in family : <<U, T>> \notin StrictSubsetOrdering(Clients)
  <2> HIDE DEF family
  <2> QED
    BY <1>1, <1>2, WFMin
<1>4. ASSUME NEW U \in SUBSET T, U # {}, Closed(U) PROVE U = T
  <2>1. U \in family
    BY <1>4
  <2>2. <<U, T>> \in (SUBSET Clients) \X (SUBSET Clients)
    BY <1>2, <2>1
  <2> QED
    BY <1>3, <2>1, <2>2 DEF StrictSubsetOrdering
<1> QED
  BY <1>4

\* A circle of requests that all wait is one that the database sees, or has a post and
\* an edit of its match in it.
LEMMA CircleEnds ==
    ASSUME RowsHeldByWriters, NEW T \in SUBSET Clients, T # {}, Closed(T),
           \A U \in SUBSET T : U # {} /\ Closed(U) => U = T,
           \A c \in T : ~Free(c)
    PROVE  \/ \E c \in T : Deadlocked(c)
           \/ \E c, d \in T : at[c] = "match" /\ at[d] = "lineup"
<1> SUFFICES ASSUME ~(\E c, d \in T : at[c] = "match" /\ at[d] = "lineup")
             PROVE  \E c \in T : Deadlocked(c)
  OBVIOUS
<1>1. ASSUME NEW c \in T PROVE \E d \in T : c \in Blockers(d)
  <2> SUFFICES ASSUME \A d \in T : c \notin Blockers(d) PROVE FALSE
    OBVIOUS
  <2>1. Closed(T \ {c})
    BY DEF Closed
  <2>2. Blockers(c) # {} /\ Blockers(c) \subseteq T \ {c}
    BY DEF Closed, Free
  <2> QED
    BY <2>1, <2>2
<1>2. ASSUME NEW c \in T PROVE at[c] \notin {"alliance", "table"}
  <2>1. PICK d \in T : c \in Blockers(d)
    BY <1>1
  <2>2. held[c] # {} => at[c] \notin {"alliance", "table"}
    BY DEF RowsHeldByWriters, Editing
  <2> QED
    BY <2>1, <2>2, WhoBlocks
<1>3. ASSUME NEW c \in T PROVE at[c] # "lineup"
  <2>1. PICK d \in T : c \in Blockers(d)
    BY <1>1
  <2>2. held[c] # {} => at[c] # "lineup"
    BY DEF RowsHeldByWriters, Editing
  <2>3. at[c] = "lineup" => at[d] \in {"match", "table"}
    BY <2>1, <2>2, WhoBlocks
  <2> QED
    BY <1>2, <2>3
<1>4. \A c \in T : Visible(c) = Blockers(c)
  BY <1>2, <1>3 DEF Visible
<1>5. PICK c \in T : TRUE
  OBVIOUS
<1>6. ASSUME NEW S \in SUBSET Clients, Visible(c) \subseteq S, \A d \in S : Visible(d) \subseteq S
      PROVE  c \in S
  <2>1. Blockers(c) \subseteq T \cap S /\ Blockers(c) # {}
    BY <1>4, <1>5, <1>6 DEF Closed, Free
  <2>2. Closed(T \cap S)
    BY <1>4, <1>6 DEF Closed
  <2>3. T \cap S = T
    BY <2>1, <2>2
  <2> QED
    BY <1>5, <2>3
<1>7. Deadlocked(c)
  BY <1>6 DEF Deadlocked
<1> QED
  BY <1>5, <1>7

\* For any number of requests at once: no set of them waits for its own members only,
\* unless the database sees it and ends one, or a post of a report and an edit of its
\* match are in it, of which the database sees one wait only.  The rows are locked by
\* those only who give them back (reports.go:133-158, 363-402, matches.go:124-146,
\* users.go:461-508).
THEOREM NobodyStuckCorrect == ASSUME IsFiniteSet(Clients) PROVE Spec => []NobodyStuck
<1>1. ASSUME RowsHeldByWriters PROVE NobodyStuck
  <2>1. ASSUME NEW c \in Underway, NEW d \in Blockers(c) PROVE d \in Underway
    <3>1. c \in Clients
      BY DEF Underway
    <3>2. d \in Clients /\ (held[d] # {} => Editing(d) \/ at[d] = "orphan")
      BY <1>1, <3>1, WhoBlocks DEF RowsHeldByWriters
    <3> QED
      BY <3>1, <3>2, WhoBlocks DEF Underway, Editing
  <2>2. ASSUME NEW S \in SUBSET Underway, S # {}, \A c \in S : Blockers(c) \subseteq S
        PROVE  \/ \E c \in S : Free(c) \/ Deadlocked(c)
               \/ \E c, d \in S : at[c] = "match" /\ at[d] = "lineup"
    <3>1. S \in SUBSET Clients /\ Closed(S)
      BY <2>2 DEF Underway, Closed
    <3>2. PICK T \in SUBSET S : /\ T # {} /\ Closed(T)
                                /\ \A U \in SUBSET T : U # {} /\ Closed(U) => U = T
      BY <2>2, <3>1, SmallestClosed
    <3>3. CASE \E c \in T : Free(c)
      BY <3>3
    <3>4. CASE \A c \in T : ~Free(c)
      <4>1. T \in SUBSET Clients
        BY <3>1
      <4>2. \/ \E c \in T : Deadlocked(c)
            \/ \E c, d \in T : at[c] = "match" /\ at[d] = "lineup"
        BY <1>1, <3>2, <3>4, <4>1, CircleEnds
      <4> QED
        BY <4>2
    <3> QED
      BY <3>3, <3>4
  <2> QED
    BY <2>1, <2>2 DEF NobodyStuck
<1> QED
  BY <1>1, HeldCorrect, PTL
=============================================================================
