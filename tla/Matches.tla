------------------------------- MODULE Matches -------------------------------
(***************************************************************************)
(* The rows of the events and the matches tables, and everybody who writes *)
(* them: PUT of an event, PUT and DELETE of a match                        *)
(* (src/internal/server/events.go, matches.go), the refresher's            *)
(* EventsUpsert, UpdateTBAMatches and MarkMatchesDeleted                   *)
(* (src/internal/refresh/refresh.go, src/internal/store), and POST of a    *)
(* report as far as its locks go (Reports has the rest of it).             *)
(*                                                                         *)
(* A handler that edits locks a whole table, EXCLUSIVE, looks up the realm *)
(* and writes; the refresher's statements take the weaker lock of any      *)
(* writer, ROW EXCLUSIVE, and the foreign key of a report takes ROW SHARE. *)
(* PostgreSQL serves the requests for a table in their order: ahead[a] are *)
(* the conflicting ones before that of a, until their transactions end.    *)
(*                                                                         *)
(* Of a match there is who has written its row last and whether it is      *)
(* marked tba_deleted.  A key is that of a match within its event, qm1 for *)
(* instance, and many events have the same.                                *)
(***************************************************************************)
EXTENDS FiniteSets

CONSTANTS
    Clients,        \* requests that may be made at the same time
    Requests,       \* what they may ask for
    Storer,         \* the goroutine storeMatches
    Events, Keys, Realms,
    TbaEvents,      \* the events that TBA may list
    InitialRealm,   \* InitialRealm[e]: the realm of event e at first
    Missing,        \* the event is not stored
    None            \* SQL's NULL: the event belongs to no realm

Actors == Clients \cup {Storer}
Maybe(S) == S \cup {None}
Matches == Events \X Keys

EventRequest == [op : {"put event"}, realm : Realms, role : {"user", "admin", "super"},
                 event : Events]
MatchRequest == [op : {"put match", "delete match", "post report"}, realm : Realms,
                 role : {"user", "admin", "super"}, match : Matches]
Request == EventRequest \cup MatchRequest

ASSUME MatchesAssumption ==
    /\ Storer \notin Clients
    /\ TbaEvents \subseteq Events
    /\ None \notin Realms /\ Missing \notin Maybe(Realms)
    /\ InitialRealm \in [Events -> Maybe(Realms) \cup {Missing}]
    /\ Requests \subseteq Request

\* The statements of a request, "done" after the last, and the responses.
Statements == {"start", "edit event", "put event", "edit match", "put match", "delete match",
               "alliance", "report", "done"}
Answers == {"none", "created", "no content", "bad request", "forbidden", "not found", "error",
            "nobody there"}

VARIABLES
    page,      \* page[e]: the keys of the matches that TBA has for event e
    fresh,     \* fresh[e]: the etag store has not seen that page yet
    realm,     \* realm[e]: the realm of the stored event e, or Missing
    row,       \* row[m]: the row of match m
    listed,    \* listed[e]: the keys last upserted for e (no variable of the program)
    storer,    \* goroutine storeMatches: where it is and what it holds
    ahead,     \* ahead[a]: for whose table locks actor a has to wait
    req, at, answer,    \* of client c: its request, its statement, the response
    existed    \* existed[c]: editMatch or editEvent has found a row

tba == <<page, fresh>>
db == <<realm, row, listed>>
vars == <<tba, db, storer, ahead, req, at, answer, existed>>

NoRow == [by |-> "nobody", deleted |-> FALSE]
Rows == [by : {"tba", "user"}, deleted : BOOLEAN] \cup {NoRow}
Stored(m) == row[m] # NoRow
StoredKeys(k) == {e \in Events : Stored(<<e, k>>)}
StorerAt(s) == [at |-> s, event |-> None, list |-> {}]

Init ==
    /\ page \in [TbaEvents -> SUBSET Keys]
    /\ fresh = [e \in TbaEvents |-> TRUE]
    /\ realm = InitialRealm
    /\ row = [m \in Matches |-> NoRow]
    /\ listed = [e \in Events |-> {}]
    /\ storer = StorerAt("recv")
    /\ ahead = [a \in Actors |-> {}]
    /\ req = [c \in Clients |-> None]
    /\ at = [c \in Clients |-> "start"]
    /\ answer = [c \in Clients |-> "none"]
    /\ existed = [c \in Clients |-> FALSE]

-----------------------------------------------------------------------------
(* Locks.  An actor that is at one of these has asked for the lock of the  *)
(* table, and has it when nobody is ahead any more.                        *)

EventsExclusive == {"edit event", "put event"}
MatchesExclusive == {"edit match", "put match", "delete match"}
MatchesShared == {"report", "upsert", "alliances", "mark"}

\* Mutant: LOCK TABLE ... IN ROW EXCLUSIVE MODE, which conflicts with no writer.
ConflictNever(s, t) == FALSE

\* Mutant: the table of matches alone is locked.
ConflictOnMatches(s, t) ==
    \/ s \in MatchesExclusive /\ t \in MatchesExclusive \cup MatchesShared
    \/ s \in MatchesShared /\ t \in MatchesExclusive

Conflict(s, t) ==
    \/ {s, t} \subseteq EventsExclusive
    \/ s \in MatchesExclusive /\ t \in MatchesExclusive \cup MatchesShared
    \/ s \in MatchesShared /\ t \in MatchesExclusive

Where(a) == IF a = Storer THEN storer.at ELSE at[a]

\* Actor a ends its transaction, and goes on to s, where it may ask for a lock.
Queue(a, s) == ahead' = [b \in Actors |->
    IF b = a THEN {d \in Actors \ {a} : Conflict(s, Where(d))} ELSE ahead[b] \ {a}]

Granted(a) == ahead[a] = {}

\* No post holds an alliance of match m, in the transaction it began with.
AllianceFree(m) == \A c \in Clients : at[c] = "report" => req[c].match # m

Goto(c, s) == at' = [at EXCEPT ![c] = s] /\ UNCHANGED <<ahead, answer>>
Ask(c, s) == at' = [at EXCEPT ![c] = s] /\ Queue(c, s) /\ UNCHANGED answer

\* Mutant: the transaction is not ended when the request is refused.
RespondLocked(c, a) ==
    /\ at' = [at EXCEPT ![c] = "done"]
    /\ answer' = [answer EXCEPT ![c] = a]
    /\ UNCHANGED ahead

\* The response is sent, after a commit or a rollback.
Respond(c, a) ==
    /\ at' = [at EXCEPT ![c] = "done"]
    /\ answer' = [answer EXCEPT ![c] = a]
    /\ Queue(c, "done")

-----------------------------------------------------------------------------
(* A request arrives.  The access rules of the routes let admins edit.     *)

Start(c) ==
    /\ at[c] = "start"
    /\ \E q \in Requests :
          /\ req' = [req EXCEPT ![c] = q]
          /\ CASE q.op = "post report" -> Goto(c, "alliance")
               [] q.role = "user" -> Respond(c, "forbidden")
               [] q.op = "put event" -> Ask(c, "edit event")
               [] OTHER -> Ask(c, "edit match")
    /\ UNCHANGED <<tba, db, storer, existed>>

\* The client hangs up: its context is cancelled and with it the transaction.
HangUp(c) ==
    /\ at[c] \notin {"start", "done"}
    /\ Respond(c, "nobody there")
    /\ UNCHANGED <<tba, db, storer, req, existed>>

-----------------------------------------------------------------------------
(* PUT of an event.                                                        *)

\* What editEvent and editMatch ask, of the realm they have found or of None.
MayEdit(q, r) == IF r = None THEN q.role = "super" ELSE r = q.realm

\* LOCK TABLE events, the event's realm, and the check.
EditEvent(c) ==
    /\ at[c] = "edit event" /\ Granted(c)
    /\ LET q == req[c]
           r == realm[q.event]
       IN /\ existed' = [existed EXCEPT ![c] = r # Missing]
          /\ IF MayEdit(q, IF r = Missing THEN None ELSE r)
             THEN Goto(c, "put event")
             ELSE Respond(c, "forbidden")
    /\ UNCHANGED <<tba, db, storer, req>>

\* UpsertEventTx: the event is one of the editor's realm from now on.
PutEvent(c) ==
    /\ at[c] = "put event"
    /\ realm' = [realm EXCEPT ![req[c].event] = req[c].realm]
    /\ Respond(c, IF existed[c] THEN "no content" ELSE "created")
    /\ UNCHANGED <<tba, row, listed, storer, req, existed>>

\* The refresher's EventsUpsert, of a list of TBA's events; it waits for who has
\* locked the table.
EventsUpsert ==
    /\ \A c \in Clients : at[c] # "put event"
    /\ \E es \in SUBSET TbaEvents :
          realm' = [e \in Events |-> IF e \in es THEN None ELSE realm[e]]
    /\ UNCHANGED <<tba, row, listed, storer, ahead, req, at, answer, existed>>

-----------------------------------------------------------------------------
(* PUT and DELETE of a match.                                              *)

\* LOCK TABLE matches, the realm of whichever event has a match with the key,
\* and the check.
EditMatch(c) ==
    /\ at[c] = "edit match" /\ Granted(c)
    /\ LET q == req[c]
           es == StoredKeys(q.match[2])
       IN /\ existed' = [existed EXCEPT ![c] = es # {}]
          /\ \E r \in IF es = {} THEN {None} ELSE {realm[e] : e \in es} :
                IF MayEdit(q, r) THEN Goto(c, q.op) ELSE Respond(c, "forbidden")
    /\ UNCHANGED <<tba, db, storer, req>>

Edited(c) == Respond(c, IF existed[c] THEN "no content" ELSE "created")

\* UpsertMatchTx, refused by the foreign key if the event is not stored; the
\* alliances of a match that exists are updated, once they are free.
PutMatch(c) ==
    /\ at[c] = "put match" /\ AllianceFree(req[c].match)
    /\ LET m == req[c].match IN
       IF realm[m[1]] = Missing
       THEN Respond(c, "error") /\ UNCHANGED row
       ELSE /\ row' = [row EXCEPT ![m] = [by |-> "user", deleted |-> FALSE]]
            /\ Edited(c)
    /\ UNCHANGED <<tba, realm, listed, storer, req, existed>>

\* DeleteMatchTx: a match that is stored has alliances, whose foreign key
\* refuses the deletion.
DeleteMatch(c) ==
    /\ at[c] = "delete match" /\ AllianceFree(req[c].match)
    /\ Respond(c, IF Stored(req[c].match) THEN "error"
                  ELSE IF existed[c] THEN "no content" ELSE "not found")
    /\ UNCHANGED <<tba, db, storer, req, existed>>

-----------------------------------------------------------------------------
(* POST of a report: it holds the alliance in one transaction, and in      *)
(* another needs the table of matches for its foreign key.                 *)

LockAlliance(c) ==
    /\ at[c] = "alliance" /\ AllianceFree(req[c].match)
    /\ IF Stored(req[c].match) THEN Ask(c, "report") ELSE Respond(c, "bad request")
    /\ UNCHANGED <<tba, db, storer, req, existed>>

FileReport(c) ==
    /\ at[c] = "report" /\ Granted(c)
    /\ Respond(c, "created")
    /\ UNCHANGED <<tba, db, storer, req, existed>>

-----------------------------------------------------------------------------
(* The goroutine storeMatches.                                             *)

StorerGoto(s) == storer' = StorerAt(s) /\ Queue(Storer, s)

\* A page that the etag store has not seen is fetched and handed over.
ReceiveMatches ==
    /\ storer.at = "recv"
    /\ \E e \in TbaEvents :
          /\ fresh[e]
          /\ fresh' = [fresh EXCEPT ![e] = FALSE]
          /\ storer' = [at |-> "upsert", event |-> e, list |-> page[e]]
    /\ Queue(Storer, "upsert")
    /\ UNCHANGED <<page, db, req, at, answer, existed>>

\* The first statement of UpdateTBAMatches gets its lock of the table.
BeginUpsert ==
    /\ storer.at = "upsert" /\ Granted(Storer)
    /\ storer' = [storer EXCEPT !.at = "alliances"]
    /\ UNCHANGED <<tba, db, ahead, req, at, answer, existed>>

\* Mutant: the upsert leaves tba_deleted alone.
UpsertKeepsMark(l, m) ==
    IF m[1] = storer.event /\ m[2] \in l
    THEN [by |-> "tba", deleted |-> row[m].deleted] ELSE row[m]

\* The row of match m after the upsert of list l.
Upserted(l, m) ==
    IF m[1] = storer.event /\ m[2] \in l THEN [by |-> "tba", deleted |-> FALSE] ELSE row[m]

\* UpdateTBAMatches, once all alliances are free: the matches of one event, all
\* refused by the foreign key if the event is not stored.
UpdateTBAMatches ==
    /\ storer.at = "alliances"
    /\ LET e == storer.event
           l == storer.list
       IN /\ \A k \in l : AllianceFree(<<e, k>>)
          /\ IF realm[e] = Missing /\ l # {}
             THEN StorerGoto("recv") /\ UNCHANGED <<row, listed>>
             ELSE /\ row' = [m \in Matches |-> Upserted(l, m)]
                  /\ listed' = [listed EXCEPT ![e] = l]
                  /\ storer' = [storer EXCEPT !.at = "mark"]
                  /\ Queue(Storer, "mark")
    /\ UNCHANGED <<tba, realm, req, at, answer, existed>>

\* Mutant: UpdateTBAMatches is given the context without the timeout.
NoTimeout == storer.at = "nowhere" /\ UNCHANGED vars

\* The context of UpdateTBAMatches times out while it waits.
Timeout ==
    /\ storer.at \in {"upsert", "alliances"}
    /\ StorerGoto("recv")
    /\ UNCHANGED <<tba, db, req, at, answer, existed>>

\* Mutant: matches are marked that have never been stored.
MarkedUnstored(m) ==
    IF m[1] = storer.event /\ m[2] \notin storer.list
    THEN [by |-> row[m].by, deleted |-> TRUE] ELSE row[m]

\* The row of match m after the mark, whoever has made the match.
Marked(m) ==
    IF m[1] = storer.event /\ m[2] \notin storer.list /\ Stored(m)
    THEN [by |-> row[m].by, deleted |-> TRUE] ELSE row[m]

\* MarkMatchesDeleted, without the timeout.
MarkMatchesDeleted ==
    /\ storer.at = "mark" /\ Granted(Storer)
    /\ row' = [m \in Matches |-> Marked(m)]
    /\ StorerGoto("recv")
    /\ UNCHANGED <<tba, realm, listed, req, at, answer, existed>>

\* TBA: the page of an event changes.
Publish(e) ==
    /\ ~fresh[e]
    /\ \E ks \in SUBSET Keys : page' = [page EXCEPT ![e] = ks]
    /\ fresh' = [fresh EXCEPT ![e] = TRUE]
    /\ UNCHANGED <<db, storer, ahead, req, at, answer, existed>>

-----------------------------------------------------------------------------
Serve(c) ==
    \/ EditEvent(c) \/ PutEvent(c)
    \/ EditMatch(c) \/ PutMatch(c) \/ DeleteMatch(c)
    \/ LockAlliance(c) \/ FileReport(c)

StoreMatches == BeginUpsert \/ UpdateTBAMatches \/ Timeout \/ MarkMatchesDeleted

Next ==
    \/ \E c \in Clients : Start(c) \/ Serve(c) \/ HangUp(c)
    \/ ReceiveMatches \/ StoreMatches \/ EventsUpsert
    \/ \E e \in TbaEvents : Publish(e)

\* A goroutine that can run runs, a lock that stays free is taken, a timeout
\* strikes.  Nobody has to make a request or to hang up, TBA need not change.
Fairness == WF_vars(StoreMatches) /\ \A c \in Clients : WF_vars(Serve(c))

Spec == Init /\ [][Next]_vars /\ Fairness

-----------------------------------------------------------------------------
(* Properties.                                                             *)

TypeOK ==
    /\ page \in [TbaEvents -> SUBSET Keys] /\ fresh \in [TbaEvents -> BOOLEAN]
    /\ realm \in [Events -> Maybe(Realms) \cup {Missing}]
    /\ row \in [Matches -> Rows]
    /\ listed \in [Events -> SUBSET Keys]
    /\ storer \in [at : {"recv", "upsert", "alliances", "mark"},
                   event : Maybe(TbaEvents), list : SUBSET Keys]
    /\ storer.at # "recv" => storer.event \in TbaEvents
    /\ ahead \in [Actors -> SUBSET Actors]
    /\ req \in [Clients -> Maybe(Requests)]
    /\ at \in [Clients -> Statements] /\ answer \in [Clients -> Answers]
    /\ existed \in [Clients -> BOOLEAN]

\* What editEvent or editMatch has found holds until the transaction commits: no
\* other request, and not the refresher, stores the event or a match of that key
\* in between, so 201 and 204 tell what has happened (matches.go:210-239,
\* events.go:132-160, "locks the matches table so no changes can be made").
FoundHolds == \A c \in Clients :
    /\ at[c] \in {"put match", "delete match"} =>
          existed[c] = (StoredKeys(req[c].match[2]) # {})
    /\ at[c] = "put event" => existed[c] = (realm[req[c].event] # Missing)

\* A custom event that TBA does not list stays with its realm, also when two
\* realms create it at once (events.go:140-151).
RealmKept == [][\A e \in Events \ TbaEvents : realm[e] \in Realms => realm'[e] = realm[e]]_vars

\* tba_deleted is the truth about TBA: a match on the list last stored is not
\* marked, and one that only TBA has written and that is not on it is, but for
\* the moment between the two statements (refresh.go:281-291), whatever users
\* put in the meantime.
DeletedAsListed == \A e \in Events, k \in Keys :
    /\ row[<<e, k>>].deleted => k \notin listed[e]
    /\ row[<<e, k>>].by = "tba" /\ k \notin listed[e] =>
          row[<<e, k>>].deleted \/ (storer.at = "mark" /\ storer.event = e)

\* A post holds an alliance and waits for the table that an edit of the match
\* has locked, which waits for the alliance.  PostgreSQL does not see it, as the
\* post does its waiting in another transaction.
Circle == \E c, d \in Clients :
    /\ at[c] = "report" /\ at[d] \in {"put match", "delete match"}
    /\ req[c].match = req[d].match

\* Every list handed to storeMatches is dealt with, or given up when its time is
\* over, and the goroutine receives again (the pipeline behind it depends on it,
\* refresh.go:274-299), unless a post and an edit wait for each other for good:
\* the mark has no timeout.
StorerReturns == storer.at # "recv" ~> (storer.at = "recv" \/ []Circle)

\* Every request is answered, unless a post and an edit wait for each other for
\* good; a circle through the refresher's upsert is ended by its timeout
\* (matches.go:210-239, refresh.go:275-281).
RequestsEnd == \A c \in Clients : at[c] # "start" ~> (at[c] = "done" \/ []Circle)
=============================================================================
