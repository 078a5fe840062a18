------------------------------ MODULE Refresh -------------------------------
(***************************************************************************)
(* The TBA refresher, src/internal/refresh/refresh.go, with the entity-tag *)
(* (etag) handling of src/internal/tba/tba.go and the transactions of      *)
(* src/internal/store it ends in.  Events, matches and rankings are here;  *)
(* the team list, which shares no channel with them, is in TeamsRefresh.   *)
(*                                                                         *)
(*   fetchEvents ---> dispatcher ---> storeEvents                          *)
(*                      ^   |  \----> fetchMatches ---> storeMatches       *)
(*   seedActiveEvents --+   \-------> fetchRankings --> storeRankings      *)
(*                                                                         *)
(* Each name is a goroutine and each arrow an unbuffered channel, so a     *)
(* send and its receive are one step of two goroutines.  A channel is      *)
(* closed exactly when the goroutine that sends on it is done.             *)
(*                                                                         *)
(* A page of TBA is a pair <<resource, event>>, the path that makeRequest  *)
(* uses as the key of the etag store; its content is a version number, 0   *)
(* being the empty list that TBA serves before anything is scheduled.      *)
(***************************************************************************)
EXTENDS Integers, FiniteSets

CONSTANTS
    Events,         \* event keys
    TbaEvents,      \* the ones TBA knows; the others are custom events
    InitialEvents,  \* the events the database holds when the program starts
    Active,         \* the events happening now
    NoKey,          \* the empty string, received from a closed channel
    MaxVersion,     \* bound: how often TBA changes a page
    MaxLists,       \* bound: how often TBA changes its list of events
    MaxFaults,      \* bound: failed requests, responses and transactions
    MaxRestarts,    \* bound: crashes of the process
    MaxEtagRaces,   \* bound: replacements of the etag store while in use
    CanShutdown     \* whether the process may be told to stop

ASSUME EventsAssumption ==
    /\ TbaEvents \subseteq Events
    /\ InitialEvents \subseteq Events
    /\ Active \subseteq Events
    /\ NoKey \notin Events

ASSUME BoundsAssumption ==
    /\ {MaxVersion, MaxLists, MaxFaults, MaxRestarts, MaxEtagRaces} \subseteq Nat
    /\ CanShutdown \in BOOLEAN

Resources == {"matches", "rankings"}
Pages == Resources \X Events
Keys == Events \cup {NoKey}
NoEtag == -1

VARIABLES
    \* The Blue Alliance.
    tbaList,        \* [ver, events]: the list of the year's events
    tba,            \* tba[p]: the version of page p
    \* Memory of the process.
    ctxDone,        \* the context given to Run is cancelled
    listEtag,       \* version of the event list the etag store remembers
    etag,           \* etag[p]: version of page p the etag store remembers
    fe,             \* goroutine fetchEvents
    sa,             \* goroutine seedActiveEvents
    disp,           \* the dispatching goroutine of Run
    se,             \* goroutine storeEvents
    fetch,          \* fetch[r]: goroutine fetchMatches, fetchRankings
    store,          \* store[r]: goroutine storeMatches, storeRankings
    \* The database.
    dbEvents,       \* keys of the events table
    db,             \* db[p]: the version of page p last upserted
    marked,         \* marked[e]: the version whose absent matches were last marked tba_deleted
    \* Bounded misfortunes so far.
    faults, restarts, races

tbaVars == <<tbaList, tba>>
etags == <<listEtag, etag>>
dbVars == <<dbEvents, db, marked>>
counters == <<faults, restarts, races>>
goroutines == <<fe, sa, disp, se, fetch, store>>
vars == <<tbaVars, ctxDone, etags, goroutines, dbVars, counters>>

-----------------------------------------------------------------------------
(* The local state of a goroutine: where it is and what it holds there.    *)

FeState == [at : {"poll", "send", "done"}, group : SUBSET Events]
SaState == [at : {"poll", "send", "done"}, todo : SUBSET Events]
DispState == [at : {"select", "store", "matches", "rankings", "done"},
              key : Keys, todo : SUBSET Events]
SeState == [at : {"recv", "upsert", "done"}, group : SUBSET Events]
FetchState == [at : {"recv", "get", "send", "done"}, key : Keys, ver : Nat]
StoreState == [at : {"recv", "upsert", "mark", "done"}, key : Keys, ver : Nat]

\* A goroutine that holds nothing.
FeAt(at) == [at |-> at, group |-> {}]
SaAt(at) == [at |-> at, todo |-> {}]
DispAt(at) == [at |-> at, key |-> NoKey, todo |-> {}]
PageAt(at) == [at |-> at, key |-> NoKey, ver |-> 0]

Init ==
    /\ tbaList \in [ver : {0}, events : SUBSET TbaEvents]
    /\ tba = [p \in Pages |-> 0]
    /\ ctxDone = FALSE
    /\ listEtag = NoEtag
    /\ etag = [p \in Pages |-> NoEtag]
    /\ fe = FeAt("poll")
    /\ sa = SaAt("poll")
    /\ disp = DispAt("select")
    /\ se = FeAt("recv")
    /\ fetch = [r \in Resources |-> PageAt("recv")]
    /\ store = [r \in Resources |-> PageAt("recv")]
    /\ dbEvents = InitialEvents
    /\ db = [p \in Pages |-> 0]
    /\ marked = [e \in Events |-> 0]
    /\ faults = 0
    /\ restarts = 0
    /\ races = 0

\* An operation goes wrong on its own: connection, timeout, database error.
Fault == faults < MaxFaults /\ faults' = faults + 1
Smooth == UNCHANGED faults

\* A request or a statement fails: for a cancelled context always, and
\* otherwise when there is a fault.
Fails == IF ctxDone THEN Smooth ELSE Fault

-----------------------------------------------------------------------------
(* fetchEvents: poll the list of events, hand it to the dispatcher.        *)

\* Mutant: poll the list only once.
GetEventsOnce ==
    /\ fe.at = "poll" /\ listEtag = NoEtag
    /\ ~ctxDone /\ Smooth
    /\ listEtag' = tbaList.ver
    /\ fe' = [at |-> "send", group |-> tbaList.events]
    /\ UNCHANGED <<tbaVars, ctxDone, etag, sa, disp, se, fetch, store, dbVars,
                   restarts, races>>

\* At "poll" the goroutine waits for its ticker, which may fire at any time, or
\* for the response.  The body may be lost after the etag has been stored.
GetEvents ==
    /\ fe.at = "poll"
    /\ \/ /\ ~ctxDone /\ Smooth
          /\ listEtag = tbaList.ver
          /\ fe' = FeAt("poll")
          /\ UNCHANGED listEtag
       \/ /\ ~ctxDone /\ Smooth
          /\ listEtag # tbaList.ver
          /\ listEtag' = tbaList.ver
          /\ fe' = [at |-> "send", group |-> tbaList.events]
       \/ /\ Fails
          /\ listEtag' \in {listEtag, tbaList.ver}
          /\ fe' = FeAt("poll")
    /\ UNCHANGED <<tbaVars, ctxDone, etag, sa, disp, se, fetch, store, dbVars,
                   restarts, races>>

FetchEventsDone ==
    /\ fe.at = "poll"
    /\ ctxDone
    /\ fe' = FeAt("done")
    /\ UNCHANGED <<tbaVars, ctxDone, etags, sa, disp, se, fetch, store, dbVars,
                   counters>>

-----------------------------------------------------------------------------
(* seedActiveEvents: ask the database which events are on, hand over each. *)

\* At "poll" the goroutine waits for its ticker or for the query.
AfterSeed(todo) == IF todo = {} THEN SaAt("poll") ELSE [at |-> "send", todo |-> todo]

GetActiveEvents ==
    /\ sa.at = "poll"
    /\ \/ ~ctxDone /\ Smooth /\ sa' = AfterSeed(Active \cap dbEvents)
       \/ Fails /\ sa' = SaAt("poll")
    /\ UNCHANGED <<tbaVars, ctxDone, etags, fe, disp, se, fetch, store, dbVars,
                   restarts, races>>

SeedDone ==
    /\ sa.at = "poll"
    /\ ctxDone
    /\ sa' = SaAt("done")
    /\ UNCHANGED <<tbaVars, ctxDone, etags, fe, disp, se, fetch, store, dbVars,
                   counters>>

-----------------------------------------------------------------------------
(* The dispatcher: every event it is given goes to both fetchers, matches  *)
(* first.  A closed channel is always ready and gives a zero value.        *)

\* The dispatcher's next state when the events of todo are still to go.
NextKey(todo) ==
    IF todo = {} THEN {DispAt("select")}
    ELSE {[at |-> "matches", key |-> e, todo |-> todo \ {e}] : e \in todo}

RecvEvents ==
    /\ disp.at = "select"
    /\ fe.at = "send"
    /\ fe' = FeAt("poll")
    /\ disp' = [at |-> "store", key |-> NoKey, todo |-> fe.group]
    /\ UNCHANGED <<tbaVars, ctxDone, etags, sa, se, fetch, store, dbVars, counters>>

RecvActive ==
    /\ disp.at = "select"
    /\ sa.at = "send"
    /\ \E e \in sa.todo :
          /\ sa' = AfterSeed(sa.todo \ {e})
          /\ disp' = [at |-> "matches", key |-> e, todo |-> {}]
    /\ UNCHANGED <<tbaVars, ctxDone, etags, fe, se, fetch, store, dbVars, counters>>

RecvClosed ==
    /\ disp.at = "select"
    /\ \/ fe.at = "done" /\ disp' = DispAt("store")
       \/ sa.at = "done" /\ disp' = DispAt("matches")
    /\ UNCHANGED <<tbaVars, ctxDone, etags, fe, sa, se, fetch, store, dbVars, counters>>

\* Mutant: the dispatcher never looks at its context.
DispatchForever == disp.at = "done" /\ UNCHANGED vars

DispatchDone ==
    /\ disp.at = "select"
    /\ ctxDone
    /\ disp' = DispAt("done")
    /\ UNCHANGED <<tbaVars, ctxDone, etags, fe, sa, se, fetch, store, dbVars, counters>>

SendStoreEvents ==
    /\ disp.at = "store"
    /\ se.at = "recv"
    /\ se' = [at |-> "upsert", group |-> disp.todo]
    /\ disp' \in NextKey(disp.todo)
    /\ UNCHANGED <<tbaVars, ctxDone, etags, fe, sa, fetch, store, dbVars, counters>>

\* matchEvents <- key, then rankingEvents <- key.
Forward(r) ==
    /\ disp.at = r
    /\ fetch[r].at = "recv"
    /\ fetch' = [fetch EXCEPT ![r] = [at |-> "get", key |-> disp.key, ver |-> 0]]
    /\ IF r = "matches"
       THEN disp' = [disp EXCEPT !.at = "rankings"]
       ELSE disp' \in NextKey(disp.todo)
    /\ UNCHANGED <<tbaVars, ctxDone, etags, fe, sa, se, store, dbVars, counters>>

-----------------------------------------------------------------------------
(* storeEvents: one transaction per list of events.                        *)

EventsUpsert ==
    /\ se.at = "upsert"
    /\ \/ ~ctxDone /\ Smooth /\ dbEvents' = dbEvents \cup se.group
       \/ Fails /\ UNCHANGED dbEvents
    /\ se' = FeAt("recv")
    /\ UNCHANGED <<tbaVars, ctxDone, etags, fe, sa, disp, fetch, store, db, marked,
                   restarts, races>>

StoreEventsDone ==
    /\ se.at = "recv"
    /\ disp.at = "done"
    /\ se' = FeAt("done")
    /\ UNCHANGED <<tbaVars, ctxDone, etags, fe, sa, disp, fetch, store, dbVars, counters>>

-----------------------------------------------------------------------------
(* fetchMatches and fetchRankings: poll the page of one event.             *)

\* Mutant: no return after an error, an empty list is sent.
GetSendsOnError(r) ==
    /\ fetch[r].at = "get" /\ fetch[r].key \in TbaEvents
    /\ LET p == <<r, fetch[r].key>> IN
          \/ /\ ~ctxDone /\ Smooth
             /\ etag' = [etag EXCEPT ![p] = tba[p]]
             /\ fetch' = [fetch EXCEPT ![r] = [@ EXCEPT !.at = "send", !.ver = tba[p]]]
          \/ /\ Fails
             /\ UNCHANGED etag
             /\ fetch' = [fetch EXCEPT ![r].at = "send"]
    /\ UNCHANGED <<tbaVars, ctxDone, listEtag, fe, sa, disp, se, store, dbVars,
                   restarts, races>>

\* Mutant: the page is sent with the version of the last response.
GetSendsOld(r) ==
    /\ fetch[r].at = "get" /\ fetch[r].key \in TbaEvents
    /\ LET p == <<r, fetch[r].key>> IN
          /\ ~ctxDone /\ Smooth
          /\ etag' = [etag EXCEPT ![p] = tba[p]]
          /\ fetch' = [fetch EXCEPT ![r] = [@ EXCEPT !.at = "send", !.ver = etag[p]]]
    /\ UNCHANGED <<tbaVars, ctxDone, listEtag, fe, sa, disp, se, store, dbVars,
                   restarts, races>>

\* Mutant: the fetcher ends at its first error.
GetEndsOnError(r) ==
    /\ fetch[r].at = "get" /\ fetch[r].key \in TbaEvents
    /\ LET p == <<r, fetch[r].key>> IN
          \/ /\ ~ctxDone /\ Smooth /\ etag[p] # tba[p]
             /\ etag' = [etag EXCEPT ![p] = tba[p]]
             /\ fetch' = [fetch EXCEPT ![r] = [@ EXCEPT !.at = "send", !.ver = tba[p]]]
          \/ /\ ~ctxDone /\ Smooth /\ etag[p] = tba[p]
             /\ UNCHANGED etag
             /\ fetch' = [fetch EXCEPT ![r] = PageAt("recv")]
          \/ /\ Fails
             /\ UNCHANGED etag
             /\ fetch' = [fetch EXCEPT ![r] = PageAt("done")]
    /\ UNCHANGED <<tbaVars, ctxDone, listEtag, fe, sa, disp, se, store, dbVars,
                   restarts, races>>

\* GetMatches or GetTeamRankings of the key held: 304, 404, the page, or an
\* error.  The etag is stored with the headers, before the body is read.
Get(r) ==
    /\ fetch[r].at = "get"
    /\ LET e == fetch[r].key
           p == <<r, e>>
       IN \/ /\ ~ctxDone /\ Smooth
             /\ e \in TbaEvents => etag[p] = tba[p]
             /\ fetch' = [fetch EXCEPT ![r] = PageAt("recv")]
             /\ UNCHANGED etag
          \/ /\ ~ctxDone /\ Smooth
             /\ e \in TbaEvents /\ etag[p] # tba[p]
             /\ etag' = [etag EXCEPT ![p] = tba[p]]
             /\ fetch' = [fetch EXCEPT ![r] = [at |-> "send", key |-> e, ver |-> tba[p]]]
          \/ /\ Fails
             /\ \/ UNCHANGED etag
                \/ e \in TbaEvents /\ etag' = [etag EXCEPT ![p] = tba[p]]
             /\ fetch' = [fetch EXCEPT ![r] = PageAt("recv")]
    /\ UNCHANGED <<tbaVars, ctxDone, listEtag, fe, sa, disp, se, store, dbVars,
                   restarts, races>>

\* What fetcher r holds, as its storer receives it.
Handed(r) == [at |-> "upsert", key |-> fetch[r].key, ver |-> fetch[r].ver]

\* Mutant: the fetcher does not wait for a storer that is busy.
SendDrops(r) ==
    /\ fetch[r].at = "send"
    /\ IF store[r].at = "recv"
       THEN store' = [store EXCEPT ![r] = Handed(r)]
       ELSE UNCHANGED store
    /\ fetch' = [fetch EXCEPT ![r] = PageAt("recv")]
    /\ UNCHANGED <<tbaVars, ctxDone, etags, fe, sa, disp, se, dbVars, counters>>

\* matches <- ..., rankings <- ...: the storer takes the page over.
Send(r) ==
    /\ fetch[r].at = "send"
    /\ store[r].at = "recv"
    /\ store' = [store EXCEPT ![r] = Handed(r)]
    /\ fetch' = [fetch EXCEPT ![r] = PageAt("recv")]
    /\ UNCHANGED <<tbaVars, ctxDone, etags, fe, sa, disp, se, dbVars, counters>>

FetchDone(r) ==
    /\ fetch[r].at = "recv"
    /\ disp.at = "done"
    /\ fetch' = [fetch EXCEPT ![r] = PageAt("done")]
    /\ UNCHANGED <<tbaVars, ctxDone, etags, fe, sa, disp, se, store, dbVars, counters>>

-----------------------------------------------------------------------------
(* storeMatches and storeRankings: write the page of one event.            *)

\* Mutant: absent matches are marked even when the upsert has failed.
UpsertMarksAnyway(r) ==
    /\ store[r].at = "upsert"
    /\ LET p == <<r, store[r].key>> IN
          \/ ~ctxDone /\ Smooth /\ db' = [db EXCEPT ![p] = store[r].ver]
          \/ Fails /\ UNCHANGED db
    /\ store' = [store EXCEPT ![r] =
                   IF r = "matches" THEN [@ EXCEPT !.at = "mark"] ELSE PageAt("recv")]
    /\ UNCHANGED <<tbaVars, ctxDone, etags, fe, sa, disp, se, fetch, dbEvents, marked,
                   restarts, races>>

\* Mutant: absent matches are never marked.
UpsertSkipsMark(r) ==
    /\ store[r].at = "upsert"
    /\ ~ctxDone /\ Smooth
    /\ db' = [db EXCEPT ![<<r, store[r].key>>] = store[r].ver]
    /\ store' = [store EXCEPT ![r] = PageAt("recv")]
    /\ UNCHANGED <<tbaVars, ctxDone, etags, fe, sa, disp, se, fetch, dbEvents, marked,
                   restarts, races>>

\* UpdateTBAMatches or EventTeamsUpsert: one transaction, refused by the
\* foreign key when it has rows and the event is not stored.
Upsert(r) ==
    /\ store[r].at = "upsert"
    /\ LET e == store[r].key
           p == <<r, e>>
           v == store[r].ver
       IN \/ /\ ~ctxDone /\ Smooth
             /\ v = 0 \/ e \in dbEvents
             /\ db' = [db EXCEPT ![p] = v]
             /\ store' = [store EXCEPT ![r] =
                            IF r = "matches" THEN [at |-> "mark", key |-> e, ver |-> v]
                            ELSE PageAt("recv")]
          \/ /\ IF v # 0 /\ e \notin dbEvents THEN Smooth ELSE Fails
             /\ store' = [store EXCEPT ![r] = PageAt("recv")]
             /\ UNCHANGED db
    /\ UNCHANGED <<tbaVars, ctxDone, etags, fe, sa, disp, se, fetch, dbEvents, marked,
                   restarts, races>>

\* MarkMatchesDeleted: a statement of its own, after the upsert's commit.
MarkMatchesDeleted ==
    /\ store["matches"].at = "mark"
    /\ \/ /\ ~ctxDone /\ Smooth
          /\ marked' = [marked EXCEPT ![store["matches"].key] = store["matches"].ver]
       \/ Fails /\ UNCHANGED marked
    /\ store' = [store EXCEPT !["matches"] = PageAt("recv")]
    /\ UNCHANGED <<tbaVars, ctxDone, etags, fe, sa, disp, se, fetch, dbEvents, db,
                   restarts, races>>

StoreDone(r) ==
    /\ store[r].at = "recv"
    /\ fetch[r].at = "done"
    /\ store' = [store EXCEPT ![r] = PageAt("done")]
    /\ UNCHANGED <<tbaVars, ctxDone, etags, fe, sa, disp, se, fetch, dbVars, counters>>

-----------------------------------------------------------------------------
(* The environment: TBA changes, the process is stopped or crashes.        *)

Publish(p) ==
    /\ p[2] \in TbaEvents
    /\ tba[p] < MaxVersion
    /\ tba' = [tba EXCEPT ![p] = @ + 1]
    /\ UNCHANGED <<tbaList, ctxDone, etags, goroutines, dbVars, counters>>

Relist ==
    /\ tbaList.ver < MaxLists
    /\ tbaList' \in [ver : {tbaList.ver + 1}, events : SUBSET TbaEvents]
    /\ UNCHANGED <<tba, ctxDone, etags, goroutines, dbVars, counters>>

Shutdown ==
    /\ CanShutdown
    /\ ~ctxDone
    /\ ctxDone' = TRUE
    /\ UNCHANGED <<tbaVars, etags, goroutines, dbVars, counters>>

\* The process ends, by a crash or after a shutdown, and is started again:
\* everything but the database is lost.
Restart ==
    /\ restarts < MaxRestarts
    /\ restarts' = restarts + 1
    /\ ctxDone' = FALSE
    /\ listEtag' = NoEtag
    /\ etag' = [p \in Pages |-> NoEtag]
    /\ fe' = FeAt("poll")
    /\ sa' = SaAt("poll")
    /\ disp' = DispAt("select")
    /\ se' = FeAt("recv")
    /\ fetch' = [r \in Resources |-> PageAt("recv")]
    /\ store' = [r \in Resources |-> PageAt("recv")]
    /\ UNCHANGED <<tbaVars, dbVars, faults, races>>

\* makeRequest creates the etag store when it finds none, without a lock:
\* one of the fetchers may replace the store another has already used.
EtagRace ==
    /\ races < MaxEtagRaces
    /\ fe.at = "poll" \/ \E r \in Resources : fetch[r].at = "get"
    /\ races' = races + 1
    /\ listEtag' = NoEtag
    /\ etag' = [p \in Pages |-> NoEtag]
    /\ UNCHANGED <<tbaVars, ctxDone, goroutines, dbVars, faults, restarts>>

-----------------------------------------------------------------------------
FetchEventsNext == GetEvents \/ FetchEventsDone
SeedNext == GetActiveEvents \/ SeedDone
DispatchNext == \/ RecvEvents \/ RecvActive \/ RecvClosed \/ DispatchDone
                \/ SendStoreEvents
                \/ \E r \in Resources : Forward(r)
StoreEventsNext == EventsUpsert \/ StoreEventsDone
FetchNext(r) == Get(r) \/ Send(r) \/ FetchDone(r)
StoreNext(r) == Upsert(r) \/ (r = "matches" /\ MarkMatchesDeleted) \/ StoreDone(r)
Environment == \/ Relist \/ Shutdown \/ Restart \/ EtagRace
               \/ \E p \in Pages : Publish(p)

Next ==
    \/ FetchEventsNext \/ SeedNext \/ DispatchNext \/ StoreEventsNext
    \/ \E r \in Resources : FetchNext(r) \/ StoreNext(r)
    \/ Environment

\* The scheduler runs every goroutine that can run and every timer fires.  A
\* select picks at random among its ready branches, so a branch that is ready
\* again and again is taken: strong fairness.  Nothing is assumed of TBA or of
\* failures, except that the bounds make them stop.
Fairness ==
    /\ WF_vars(GetEvents) /\ WF_vars(FetchEventsDone)
    /\ WF_vars(GetActiveEvents) /\ WF_vars(SeedDone)
    /\ SF_vars(RecvEvents) /\ SF_vars(RecvActive) /\ SF_vars(DispatchDone)
    /\ WF_vars(SendStoreEvents) /\ \A r \in Resources : WF_vars(Forward(r))
    /\ WF_vars(StoreEventsNext)
    /\ \A r \in Resources : WF_vars(FetchNext(r)) /\ WF_vars(StoreNext(r))

\* The specification without its fairness is all that its safety rests on.
Safety == Init /\ [][Next]_vars
Spec == Safety /\ Fairness

-----------------------------------------------------------------------------
(* Properties.                                                             *)

TypeOK ==
    /\ tbaList \in [ver : Nat, events : SUBSET TbaEvents]
    /\ tba \in [Pages -> Nat]
    /\ ctxDone \in BOOLEAN
    /\ listEtag \in Nat \cup {NoEtag}
    /\ etag \in [Pages -> Nat \cup {NoEtag}]
    /\ fe \in FeState /\ sa \in SaState /\ disp \in DispState /\ se \in SeState
    /\ fetch \in [Resources -> FetchState]
    /\ store \in [Resources -> StoreState]
    /\ dbEvents \in SUBSET Events
    /\ db \in [Pages -> Nat]
    /\ marked \in [Events -> Nat]
    /\ faults \in Nat /\ restarts \in Nat /\ races \in Nat

\* Page p is in the hands of the fetcher, or of the storer before its commit.
Fetched(p) == fetch[p[1]].at = "send" /\ fetch[p[1]].key = p[2]
Storing(p) == store[p[1]].at = "upsert" /\ store[p[1]].key = p[2]

OrderedAt(p) ==
    /\ db[p] <= tba[p]
    /\ etag[p] <= tba[p]
    /\ Fetched(p) => db[p] <= fetch[p[1]].ver /\ fetch[p[1]].ver <= tba[p]
    /\ Storing(p) => db[p] <= store[p[1]].ver /\ store[p[1]].ver <= tba[p]
    /\ Fetched(p) /\ Storing(p) => store[p[1]].ver <= fetch[p[1]].ver

\* Along the way from TBA to the database a page only gets older: what the
\* fetcher holds is no newer than TBA, what the storer holds no newer than what
\* the fetcher holds, and the database no newer than any of them.  Two versions
\* of one page can be under way at once and they do not overtake each other
\* (refresh.go:242-349, one fetcher and one storer per resource).
VersionsOrdered == \A p \in Pages : OrderedAt(p)

\* The version that the etag store remembers is stored, fetched or being stored.
OnItsWay(p) ==
    \/ etag[p] <= db[p]
    \/ Fetched(p) /\ fetch[p[1]].ver = etag[p]
    \/ Storing(p) /\ store[p[1]].ver = etag[p]

\* The etag store never runs ahead of the database on its own: a version it
\* remembers, and that TBA will therefore not send again, is in the database or
\* on its way there, as long as nothing has failed and the event is stored.  An
\* etag of a page that was dropped on the way would hide it for good
\* (tba.go:149-151, refresh.go:253-264).
NoUpdateLost ==
    faults = 0 /\ ~ctxDone => \A p \in Resources \X InitialEvents : OnItsWay(p)

Marking(e) == store["matches"].at = "mark" /\ store["matches"].key = e

\* Matches are marked deleted by a list that has been upserted before, never by
\* a newer one: a match of the newer list would be missing, and one it lacks
\* gone (refresh.go:281-291, two separate transactions).
MarkAfterUpsert == \A e \in Events :
    /\ marked[e] <= db[<<"matches", e>>]
    /\ Marking(e) => store["matches"].ver = db[<<"matches", e>>]

\* The absent matches of every list upserted are marked, or about to be, when
\* nothing fails and the process does not crash between the two statements.
MarksKeepUp == faults = 0 /\ restarts = 0 /\ ~ctxDone =>
    \A e \in Events : Marking(e) \/ marked[e] = db[<<"matches", e>>]

\* The database is a mirror of TBA, page by page, through crashes, lost
\* responses and shutdowns: nothing invented, nothing undone.
M == INSTANCE Mirror WITH source <- tba, copy <- db
ImplementsMirror == M!Spec

\* Version v of page p has arrived: its rows are stored and, for matches, the
\* rows it lacks are marked deleted.
Arrived(p, v) == db[p] >= v /\ (p[1] = "matches" => marked[p[2]] >= v)

\* Something has failed since the n-th fault, or the process is told to stop.
Excused(n) == faults > n \/ ctxDone

\* A version of an active, stored event's page that the etag store has not seen
\* reaches the database unless something fails from now on (refresh.go:31,
\* "Update all active event matches and rankings").  Earlier failures stop none
\* of the goroutines.
FreshUpdateStored == \A p \in Resources \X (Active \cap TbaEvents),
                        v \in 1..MaxVersion, n \in 0..MaxFaults :
    (tba[p] = v /\ etag[p] < v /\ p[2] \in dbEvents /\ faults = n)
        ~> (Arrived(p, v) \/ Excused(n))

\* An event that stays on TBA's list, when the etag store has not seen that list,
\* is stored in the end unless something fails from now on (refresh.go:29).
ListedStored == \A e \in TbaEvents, n \in 0..MaxFaults :
    (e \in tbaList.events /\ listEtag < tbaList.ver /\ faults = n)
        ~> (e \in dbEvents \/ e \notin tbaList.events \/ Excused(n))

\* The dispatcher, which feeds all three storers, is never stuck in a send,
\* whatever fails around it (refresh.go:52-66 sends without looking at the
\* context).
DispatcherNeverStuck ==
    disp.at \notin {"select", "done"} ~> disp.at \in {"select", "done"}

Drained ==
    /\ disp.at = "done" /\ se.at = "done"
    /\ \A r \in Resources : fetch[r].at = "done" /\ store[r].at = "done"

\* After the context is cancelled the closed channels bring every goroutine to
\* its end, down to storeRankings, on which Run waits (refresh.go:46-83).  The
\* two that feed the dispatcher may stay blocked in a send.
ShutdownDrains == ctxDone ~> Drained \/ ~ctxDone
=============================================================================
