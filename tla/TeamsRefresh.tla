---------------------------- MODULE TeamsRefresh ----------------------------
(***************************************************************************)
(* The team list: fetchTeams and storeTeams of src/internal/refresh with   *)
(* GetTeams of src/internal/tba, which asks for page after page until one  *)
(* is empty, and TeamsUpsert of src/internal/store.                        *)
(*                                                                         *)
(* Every page has a path, and so an etag, of its own, the empty page that  *)
(* ends the list included.  The content of a page is a version number and  *)
(* 0 is the empty page; TBA fills the pages in order.                      *)
(***************************************************************************)
EXTENDS Integers

CONSTANTS
    PageLimit,      \* how many pages GetTeams asks for, 50 in the code
    TbaPages,       \* bound: how many pages TBA fills
    MaxVersion,     \* bound: how often TBA changes a page
    MaxFaults,      \* bound: failed requests, responses and transactions
    MaxRestarts,    \* bound: crashes of the process
    CanShutdown     \* whether the process may be told to stop

ASSUME LimitAssumption == PageLimit \in Nat \ {0} /\ TbaPages \in 0..(PageLimit + 1)
ASSUME BoundsAssumption ==
    {MaxVersion, MaxFaults, MaxRestarts} \subseteq Nat /\ CanShutdown \in BOOLEAN

\* The pages TBA has; GetTeams never asks for the last one.
Pages == 0..PageLimit
NoEtag == -1
NoTeams == [i \in Pages |-> 0]

VARIABLES
    tba,            \* tba[i]: version of page i
    ctxDone,        \* the context given to Run is cancelled
    etag,           \* etag[i]: version of page i the etag store remembers
    fetcher,        \* goroutine fetchTeams: where it is, next page, pages so far
    storer,         \* goroutine storeTeams
    db,             \* db[i]: the version of page i in all_teams
    tooMany,        \* GetTeams has reported more than PageLimit pages
    faults, restarts

vars == <<tba, ctxDone, etag, fetcher, storer, db, tooMany, faults, restarts>>

FetcherState == [at : {"poll", "get", "send", "done"}, page : 0..(PageLimit - 1), got : [Pages -> Nat]]
StorerState == [at : {"recv", "upsert", "done"}, got : [Pages -> Nat]]

FetcherAt(at) == [at |-> at, page |-> 0, got |-> NoTeams]
StorerAt(at) == [at |-> at, got |-> NoTeams]

\* TBA may have any number of pages of teams when the program starts.
Init ==
    /\ \E n \in 0..TbaPages : tba = [i \in Pages |-> IF i < n THEN 1 ELSE 0]
    /\ ctxDone = FALSE
    /\ etag = [i \in Pages |-> NoEtag]
    /\ fetcher = FetcherAt("get")
    /\ storer = StorerAt("recv")
    /\ db = NoTeams
    /\ tooMany = FALSE
    /\ faults = 0
    /\ restarts = 0

Fault == faults < MaxFaults /\ faults' = faults + 1
Smooth == UNCHANGED faults
Fails == IF ctxDone THEN Smooth ELSE Fault

-----------------------------------------------------------------------------
(* fetchTeams.                                                             *)

Tick ==
    /\ fetcher.at = "poll"
    /\ fetcher' = FetcherAt("get")
    /\ UNCHANGED <<tba, ctxDone, etag, storer, db, tooMany, faults, restarts>>

\* Mutant: a page that is not modified ends the list.
GetPageReturnsPart ==
    /\ fetcher.at = "get"
    /\ LET i == fetcher.page IN
          /\ ~ctxDone /\ Smooth
          /\ etag' = [etag EXCEPT ![i] = tba[i]]
          /\ IF etag[i] = tba[i] \/ tba[i] = 0
             THEN fetcher' = [fetcher EXCEPT !.at = "send"]
             ELSE IF i + 1 < PageLimit
                  THEN fetcher' = [fetcher EXCEPT !.page = i + 1, !.got[i] = tba[i]]
                  ELSE fetcher' = FetcherAt("poll")
    /\ UNCHANGED <<tba, ctxDone, storer, db, tooMany, restarts>>

\* Mutant: the loop starts with the second page.
GetPageSkipsFirst ==
    /\ fetcher.at = "get"
    /\ LET i == fetcher.page IN
          /\ ~ctxDone /\ Smooth /\ etag[i] # tba[i]
          /\ etag' = [etag EXCEPT ![i] = tba[i]]
          /\ IF tba[i] = 0
             THEN fetcher' = [fetcher EXCEPT !.at = "send"]
             ELSE IF i + 1 < PageLimit
                  THEN fetcher' = [fetcher EXCEPT !.page = i + 1,
                                                  !.got[i] = IF i = 0 THEN 0 ELSE tba[i]]
                  ELSE fetcher' = FetcherAt("poll")
    /\ UNCHANGED <<tba, ctxDone, storer, db, tooMany, restarts>>

\* Mutant: a page that is not modified comes from a cache, never updated.
GetPageCached ==
    /\ fetcher.at = "get"
    /\ LET i == fetcher.page IN
          /\ ~ctxDone /\ Smooth
          /\ etag' = [etag EXCEPT ![i] = tba[i]]
          /\ IF tba[i] = 0
             THEN fetcher' = [fetcher EXCEPT !.at = "send"]
             ELSE IF i + 1 < PageLimit
                  THEN fetcher' = [fetcher EXCEPT !.page = i + 1,
                                                  !.got[i] = IF etag[i] = tba[i] THEN 1 ELSE tba[i]]
                  ELSE fetcher' = FetcherAt("poll")
    /\ UNCHANGED <<tba, ctxDone, storer, db, tooMany, restarts>>

\* Mutant: one page too many is asked for.
GetPageTooFar ==
    /\ fetcher.at = "get"
    /\ LET i == fetcher.page IN
          /\ ~ctxDone /\ Smooth
          /\ etag' = [etag EXCEPT ![i] = tba[i]]
          /\ IF tba[i] # 0 /\ i + 1 <= PageLimit
             THEN fetcher' = [fetcher EXCEPT !.page = i + 1, !.got[i] = tba[i]]
             ELSE fetcher' = FetcherAt("poll")
    /\ UNCHANGED <<tba, ctxDone, storer, db, tooMany, restarts>>

\* One request of GetTeams.  A 304 for any page abandons the whole list, and so
\* does an error; the etags of the pages read so far stay in the etag store.
GetPage ==
    /\ fetcher.at = "get"
    /\ LET i == fetcher.page IN
          \/ /\ ~ctxDone /\ Smooth
             /\ etag[i] = tba[i]
             /\ fetcher' = FetcherAt("poll")
             /\ UNCHANGED <<etag, tooMany>>
          \/ /\ ~ctxDone /\ Smooth
             /\ etag[i] # tba[i] /\ tba[i] = 0
             /\ etag' = [etag EXCEPT ![i] = 0]
             /\ fetcher' = [fetcher EXCEPT !.at = "send"]
             /\ UNCHANGED tooMany
          \/ /\ ~ctxDone /\ Smooth
             /\ etag[i] # tba[i] /\ tba[i] # 0
             /\ etag' = [etag EXCEPT ![i] = tba[i]]
             /\ IF i + 1 < PageLimit
                THEN /\ fetcher' = [at |-> "get", page |-> i + 1,
                                    got |-> [fetcher.got EXCEPT ![i] = tba[i]]]
                     /\ UNCHANGED tooMany
                ELSE /\ fetcher' = FetcherAt("poll")
                     /\ tooMany' = TRUE
          \/ /\ Fails
             /\ etag' \in {etag, [etag EXCEPT ![i] = tba[i]]}
             /\ fetcher' = FetcherAt("poll")
             /\ UNCHANGED tooMany
    /\ UNCHANGED <<tba, ctxDone, storer, db, restarts>>

\* teams <- tbaTeams
Send ==
    /\ fetcher.at = "send"
    /\ storer.at = "recv"
    /\ storer' = [at |-> "upsert", got |-> fetcher.got]
    /\ fetcher' = FetcherAt("poll")
    /\ UNCHANGED <<tba, ctxDone, etag, db, tooMany, faults, restarts>>

FetchDone ==
    /\ fetcher.at = "poll"
    /\ ctxDone
    /\ fetcher' = FetcherAt("done")
    /\ UNCHANGED <<tba, ctxDone, etag, storer, db, tooMany, faults, restarts>>

-----------------------------------------------------------------------------
(* storeTeams.                                                             *)

\* TeamsUpsert: all the pages in one transaction; no team is ever removed.
TeamsUpsert ==
    /\ storer.at = "upsert"
    /\ \/ /\ ~ctxDone /\ Smooth
          /\ db' = [i \in Pages |-> IF storer.got[i] = 0 THEN db[i] ELSE storer.got[i]]
       \/ Fails /\ UNCHANGED db
    /\ storer' = StorerAt("recv")
    /\ UNCHANGED <<tba, ctxDone, etag, fetcher, tooMany, restarts>>

StoreDone ==
    /\ storer.at = "recv"
    /\ fetcher.at = "done"
    /\ storer' = StorerAt("done")
    /\ UNCHANGED <<tba, ctxDone, etag, fetcher, db, tooMany, faults, restarts>>

-----------------------------------------------------------------------------
(* The environment.                                                        *)

\* A page changes, or the first team of a new page registers.
Publish(i) ==
    /\ i < TbaPages
    /\ i > 0 => tba[i - 1] > 0
    /\ tba[i] < MaxVersion
    /\ tba' = [tba EXCEPT ![i] = @ + 1]
    /\ UNCHANGED <<ctxDone, etag, fetcher, storer, db, tooMany, faults, restarts>>

Shutdown ==
    /\ CanShutdown /\ ~ctxDone
    /\ ctxDone' = TRUE
    /\ UNCHANGED <<tba, etag, fetcher, storer, db, tooMany, faults, restarts>>

Restart ==
    /\ restarts < MaxRestarts
    /\ restarts' = restarts + 1
    /\ ctxDone' = FALSE
    /\ etag' = [i \in Pages |-> NoEtag]
    /\ fetcher' = FetcherAt("get")
    /\ storer' = StorerAt("recv")
    /\ UNCHANGED <<tba, db, tooMany, faults>>

Next ==
    \/ Tick \/ GetPage \/ Send \/ FetchDone
    \/ TeamsUpsert \/ StoreDone
    \/ Shutdown \/ Restart \/ \E i \in Pages : Publish(i)

\* Every goroutine that can run runs, and the ticker fires.
Fairness ==
    /\ WF_vars(Tick) /\ WF_vars(GetPage) /\ WF_vars(Send) /\ SF_vars(FetchDone)
    /\ WF_vars(TeamsUpsert) /\ WF_vars(StoreDone)

Spec == Init /\ [][Next]_vars /\ Fairness

-----------------------------------------------------------------------------
(* Properties.                                                             *)

TypeOK ==
    /\ tba \in [Pages -> Nat] /\ db \in [Pages -> Nat]
    /\ etag \in [Pages -> Nat \cup {NoEtag}]
    /\ ctxDone \in BOOLEAN /\ tooMany \in BOOLEAN
    /\ fetcher \in FetcherState /\ storer \in StorerState
    /\ faults \in Nat /\ restarts \in Nat

\* The list given to TeamsUpsert holds every page stored before it: a list cut
\* short by a 304 or an error on one of its pages is never stored as if it were
\* whole (tba.go:356-381).
NeverShorter == storer.at = "upsert" =>
    \A i \in Pages : db[i] > 0 => storer.got[i] >= db[i]

M == INSTANCE Mirror WITH source <- tba, copy <- db

\* Page by page the stored teams are a mirror of TBA: never invented, never
\* undone.  TBA has some pages when the program starts, which Mirror would count
\* as published before, so its steps are claimed and its Init is not.
ImplementsMirror == [][M!Next]_<<tba, db>> /\ [](\A i \in Pages : db[i] <= tba[i])

\* Right after a start, and after a crash, the whole list is stored, unless
\* something fails or TBA has more pages than GetTeams asks for.
FirstListStored == \A i \in Pages, n \in 0..MaxFaults :
    ((\A j \in Pages : etag[j] = NoEtag) /\ tba[i] > 0 /\ faults = n)
        ~> (db[i] > 0 \/ faults > n \/ tooMany \/ ctxDone)

\* "Update all teams every day" (refresh.go:30): every change of a page arrives.
TeamsKeptUpToDate == \A i \in Pages, v \in 1..MaxVersion : tba[i] >= v ~> db[i] >= v
=============================================================================
