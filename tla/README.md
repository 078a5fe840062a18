# Peregrine: a TLA+ model of the backend

Peregrine is the backend of a scouting application for the FIRST Robotics
Competition. It mirrors events, teams, matches and rankings from The Blue
Alliance (TBA) into a PostgreSQL database, and lets scouts file reports on how
the teams did. This directory models the parts whose correctness depends on the
order in which things happen, checks them with TLC, and proves the most important
invariants with TLAPS. Paths below are relative to `src/`; `refresh.go` is
`internal/refresh/refresh.go`, `tba.go` is `internal/tba/tba.go`.

## 1. The system

| Component | State it keeps | Operations | What is hard about it |
|---|---|---|---|
| Refresher (`internal/refresh`) | none that is shared: what each of nine goroutines and the dispatcher holds, and the channels between them | polls TBA and the database on timers; forwards event keys; stores what it fetched; ends when its context is cancelled | a pipeline over unbuffered channels, closed one after the other; a fetch and the write of its result are separate; crash at any point |
| TBA client (`internal/tba`) | the etag store: for each path, the etag of the last response | `GetEvents`, `GetMatches`, `GetTeamRankings`, `GetTeams`, `Ping` | the etag is remembered before the body is read and long before it is in the database; the store is created without a lock |
| Store (`internal/store`) | the database: events, matches, alliances, teams, reports, users, stars, realms, schemas | one method per operation; `DoTransaction` makes several one; `...Tx` methods take part in the caller's | READ COMMITTED; explicit locks on rows and tables; foreign keys and unique constraints that decide what a statement does and whom it waits for |
| Reports (`internal/server/reports.go`, `store/reports.go`, `store/alliances.go`) | reports | list, POST, PUT (which may replace a conflicting report), DELETE | POST checks in one transaction and writes in another; PUT and DELETE validate what they have locked |
| Matches (`server/matches.go`, `store/matches.go`) | matches, alliances, the teams of an event | list, get, PUT, DELETE | written by users (under a table lock) and by the refresher; the locks of a report's POST on the same rows |
| Users (`server/users.go`, `store/users.go`, `internal/http`) | users, stars, tokens held by clients | log in, refresh a token, create, patch, delete; access rules by role and realm | roles in a token outlive the user's; checks outside the transaction that writes |
| Events (`server/events.go`) | events, webcasts | list, get, PUT | table lock; realms decide who may edit; the refresher stores the same rows |
| Realms and schemas (`server/realms.go`, `schemas.go`) | realms, schemas | CRUD | a realm takes its users with it, or is kept by what refers to it; the id of the path against the id of the body |
| Summary (`internal/summary`) | none | averages and maxima of the stats of a schema over reports | a pure algorithm with boundary cases |
| Process (`cmd/peregrine`, `server/server.go`) | none | start, stop by signal, shutdown | two long-running parts, one context, one error channel |
| Routes, health, configuration, `pack` | none | | pure I/O |

How they interact: the refresher and the HTTP handlers share nothing but the
database. The handlers share nothing with each other but the database either, so
every interaction between requests is one of statements, locks and commits. The
refresher's goroutines share channels and the etag store.

What makes each correct, in a sentence. *Refresher*: what TBA publishes arrives,
is never undone by something older, and no failure stops the pipeline. *Reports*:
a report is edited by those, and as, the validation has allowed; the team played
in the match; every request ends. *Matches*: what a handler has read holds until it
commits; the `tba_deleted` marks tell the truth. *Events*: an event stays with its realm.
*Users*: no two names that differ in case only; nobody gains rights by the timing of a
request. *Realms*: nobody edits another realm. *Process*: it ends when told to, in the
right order.
*Summary*: both endpoints speak of the same statistics, in which every match weighs the same.

## 2. The modules

| Module | What it is | Code |
|---|---|---|
| `Mirror` | abstract: a copy of versioned pages that is never invented and never undone | the promise of `refresh.go:28-32` |
| `Refresh` | the refresher for events, matches and rankings | `refresh.go`, `tba.go`, `store/events.go`, `store/matches.go` |
| `MCRefresh` | `Refresh` for TLC, and the claims of a comment it does not meet | |
| `RefreshProofs` | proofs about `Refresh` | |
| `Lifecycle` | the process around `Refresh`: start, signal, server, exit | `main.go`, `server.go:33-68`, `store.New`, `store.Close` |
| `LifecycleProofs` | proofs about `Lifecycle`, and that it is one of the environments of `Refresh` | |
| `TeamsRefresh` | the refresher for the team list, page by page | `refresh.go:183-240`, `GetTeams`, `TeamsUpsert` |
| `TeamsRefreshProofs` | proofs about `TeamsRefresh` | |
| `Reports` | the report handlers, with the requests that change the alliance or remove the reporter | `server/reports.go`, `store/reports.go`, `store/alliances.go` and parts of matches and users |
| `MCReports` | `Reports` for TLC: users, realms and requests | |
| `ReportTable` | abstract: the reports of a match as the API promises them, every request in one step | the rules that `Reports` comes to, in the order of its transactions |
| `ReportsProofs` | proofs about `Reports` | |
| `ReportTableProofs` | proof that `Reports` implements `ReportTable` | |
| `Matches` | the rows of events and matches, with everybody who writes them: PUT of an event, PUT and DELETE of a match, `EventsUpsert`, `storeMatches`; POST of a report as far as its locks go | `server/events.go`, `server/matches.go`, `store/events.go`, `store/matches.go`, `refresh.go:274-299` |
| `MCMatches` | `Matches` for TLC: one event of TBA and a custom one; a claim of `openapi.yaml` that is not met | |
| `MatchesProofs` | proofs about `Matches` | |
| `Accounts` | users, realms and tokens: log in, refresh, the handlers that write | `server/users.go`, `server/realms.go`, `server/schemas.go`, `store/users.go`, `store/realms.go`, `http/middleware.go` |
| `MCAccounts` | `Accounts` for TLC: a super admin, an admin, three realms | |
| `AccountsProofs` | proofs about `Accounts` | |
| `Summary` | the statistics of an event: a pure algorithm, and the two handlers around it | `summary.go`, `server/stats.go` and the queries they rest on |
| `MCSummary` | `Summary` for TLC: schemas, matches and reports | |
| `SummaryProofs` | proofs about `Summary`: its folds, and what the answers come to | |

### Refresh

A *page* is a pair of a resource (matches, rankings) and an event, the path that
`makeRequest` uses as a key of the etag store. Its content is a version number: the
properties only ask which version is where. 0 is the empty list of an event that
has not begun, which needs no event row; a later version has rows, and is refused
by the foreign key when the event is not stored.

Every goroutine is a variable that says where it is and what it holds there. A
channel is unbuffered, so a send and its receive are one step of two goroutines
(`RecvEvents`, `RecvActive`, `SendStoreEvents`, `Forward`, `Send`). A channel is
closed exactly when its sender is `"done"`, and a receive from a closed channel
gives the zero value, as in the dispatcher's `select` (`RecvClosed`). A request, and
a transaction, is one step with three kinds of outcome: nothing to do (304, 404),
done, failed. A failed request may or may not have left its etag in the store,
because `tba.go:149` stores it before the body is read. `UpdateTBAMatches` and
`MarkMatchesDeleted` are two steps (`Upsert`, `MarkMatchesDeleted`).

Timers are not modelled as time: a ticker may fire whenever its goroutine waits
for it. A timeout is a failure. After the context is cancelled every request and
statement fails (`Fails`). `Restart` is a crash or the start after a shutdown: all
but the database is lost. `EtagRace` replaces the etag store, as two goroutines may
that find none at the same time.

### Lifecycle

`Lifecycle` EXTENDS `Refresh` and composes it with `main`, `run` and `Server.Run`: every
step of the refresher is a step of the process while it runs, and `Signal` cancels both
contexts at once, as one is derived from the other. `Connect` is `store.New`, whose ping
fails when the context is cancelled or the database is away; the program then exits
with status 1. `StopServing` is the `select` of `Server.Run`; `Shutdown` is given the
context that has just been cancelled, so it waits for no request and returns at once. The
deferred calls run in reverse order: `CancelUpdates`, `CloseStore`. Nobody waits for the
refresher. What TBA publishes and what becomes of the etag store are left to `Refresh`: they
decide what is stored, not who waits for whom. `End` is the exit or a crash at any time; it has no fairness, so that the
goroutines' own progress is checked and not that of a process that is killed.

### TeamsRefresh

`GetTeams` asks for page after page until one is empty. Each page has an etag,
also the empty one at the end. `PageLimit` is 50 in the code. A page's version is 0
as long as it is empty; TBA fills pages in order. The database's version of a page
stands for the rows of the teams on it.

### Reports

A client is one request. A step is one statement of its transaction, named after
the Go function; the last statement of a transaction that has nothing more to wait
for is one step with its commit. `Blockers` says which transactions the next
statement of a client waits for: row locks (`FOR UPDATE` in `LockReport`,
`LockUser`, `LockAlliance`), the table lock of `ExclusiveLockMatchesTx`, uncommitted
rows of a unique index, and the row locks that foreign keys take. POST is two
transactions: the outer one holds the alliance while the inner one, of
`UpsertReport`, runs on another connection. `Visible` are the waits that PostgreSQL
can see; the wait of the outer transaction for the inner one it cannot. `Abort`
ends one transaction of a circle of visible waits.

One match with one alliance is enough: reports of different matches never share a
key and the two alliances are locked alike, row by row. A report's data and
comment are never read by the control. The foreign keys to realms and events are
never waited for here, since no request of the model deletes a realm or an event.
`ReportTable` has the same requests and no statements: whoever may do something does it at
once. A post that finds the user's report writes it again, as the upsert does; an edit
removes at most one other report, and only when asked to replace. `Reports` implements it
with one transition of each request, at the commit (for a post, that of its inner
transaction) and stutters everywhere else. What `ReportTable` leaves open is what the code
does not keep: whether a request is answered, and which report a replacing edit removes.

Not modelled here: a client that hangs up, which `Matches` has; failures of the database (`DoTransaction` rolls back, which is what the
refused requests of the model do).

### Matches

A row of `matches` has two things the properties tell apart: who has written it last, and
whether it is marked `tba_deleted`. A key is that of a match within its event: two events
may have matches with the same one, and `editMatch` does not ask for the event. An
actor is a request or the goroutine `storeMatches`.

Table locks are what orders the actors here. `EventsExclusive`, `MatchesExclusive` and
`MatchesShared` are the statements that hold or ask for one; `Conflict` is PostgreSQL's
table of lock modes restricted to those in use (EXCLUSIVE against EXCLUSIVE, ROW EXCLUSIVE
and ROW SHARE). Requests for a lock are served in order: `ahead[a]` are the actors that
a waits for, and a transaction that ends leaves every queue. POST of a report holds the
alliance in one transaction and asks for the table in another, as in `Reports`. A client
may hang up at any time, which cancels its context and rolls back its transaction
(`HangUp`). `Timeout` is that of `UpdateTBAMatches`; `MarkMatchesDeleted` has none.

A `LOCK TABLE` and the look up of the realm are one step, since nobody can come between
them. The foreign key of a new match waits for an edit of its event; that wait is left out,
as the edit waits for nothing. The refresher's fetch and its receipt by `storeMatches`
are one step, of a page the etag store has not seen: `Refresh` has the two apart.

### Accounts

Unlike in `Reports` and `Matches` the handlers here take no lock between look and write, so each
is two or three steps with others in between: `PatchUser`, `CheckSimilar`, `UpdateUser`
for instance. A request that is refused without having written anything is left out: it
changes nothing and nobody waits for it. A patch changes one field. A request comes with
either token of its client (`Claims`): the access token, whose claims are those of the user
when it was read (`Issue`), is let through until it expires; the refresh token has the
same signature, so `Auth` lets it through as well, as one without roles and with realm 0
(`None`), and `password_changed` is compared by `refreshHandler` only. Time is in units of a token's life; `password_changed` is
compared in seconds by the code, which is the same unit here, so that two changes may
fall into one (`hasty`). `editRealm` is one step as it does everything under a table lock
on rows that nobody else writes; that the foreign keys of users make it wait is left out.
A number of realms is used once (`spent`), as is one of users (`nextId`): both are serial.
`lone` says whose request nobody else has come into, for properties of undisturbed requests.

### Summary

The input is what the handlers' four queries return; they share no snapshot, so
reports without a match and matches without a report are inputs as well. The
output is the answer to one request, to `/events/{eventKey}/stats` (`EventStats`) or to
`/events/{eventKey}/matches/{matchKey}/teams/{teamKey}/stats` (`MatchTeamStats`), with its status. A Go map
is a function whose domain grows (`Record`); the groups of a stat are the reports of
one match. `Number` and `Equal` are `sumJSONValues` and `compareRecords`: `true` counts 1,
and what is no number otherwise, a string, `null` or an object, counts 0. A report
without a realm is shown to nobody, as the query joins the realms. Numbers are multiples of 1/`Unit`, chosen so that all divisions
of the run are exact; `UnitAssumption` is all that is assumed of it. What float64
rounds is left out, and with it that the order of a sum can change its last bit.

The type of the rows is an assumption on `Inputs` (`InputsAssumption`): what the columns
can hold and JSON can say, no more. What the code takes for granted beyond that has names of its own,
to be the hypotheses of theorems: `IsSchedule` (a key names one match, which is the primary key
of `matches`, and a team sits in a match once, which nothing enforces), `IsSchema` (a stat is
described once, which nothing enforces either, and by one kind of reference, as `summary.go:45` asks for), and
`Exact` (the averages of the event are integers in terms of `Unit`). `MCSummary` has TLC
evaluate that all inputs of the run meet them (`InputsAreWellFormed`).

## 3. The runs

| Run | Question | Instance | Distinct states |
|---|---|---|---|
| `RefreshSafety` | order and loss, through faults and crashes | 1 event, 1 change per page, 1 fault, 1 crash, 1 replacement of the etag store, shutdown | 2.0 M |
| `RefreshLive` | does what is new arrive, and does the dispatcher go on? | 1 event that may be unknown at first, 1 change per page and of the list, 1 fault | 75 k |
| `RefreshNewEvent` (violation) | are the pages of new events kept up to date (`refresh.go:31`)? | no fault | |
| `Lifecycle` | does the process end when told to, in the right order? | 1 TBA event and 1 active custom event, 1 start, signal, failing listener, crash | 80 k |
| `TeamsSafety` | is a list cut short ever stored, and the first list always? | limit of 2 pages, TBA has up to 3, 2 changes each, 1 fault, 1 crash, shutdown | 10 k |
| `TeamsStale` (violation) | are the teams updated every day (`refresh.go:30`)? | limit of 2 pages, 1 page, no fault | |
| `ReportsEdits` | POST, PUT, DELETE, PUT of the match, deletion of the reporter, all at once | 3 clients, 18 requests, 2 reports | 296 k |
| `ReportsUpdate` (violation) | is an update that keeps the key done? | 2 clients, the same report again | |
| `MatchesEdits` | requests against each other and against the refresher | 2 clients, 11 requests, 1 event of TBA, 1 custom event, 1 key | 164 k |
| `MatchesRealm` (violation) | may realm admins edit matches of their own events only (`openapi.yaml:585`)? | the same with an event of a realm | |
| `Accounts` | who gains what, and who reaches whom, by the timing of requests? | 2 clients, 4 requests, 3 users, 3 names, 3 realms, 3 points in time | 1.1 M |
| `SummaryStats` | do the two endpoints agree, whatever the rows and their order? | up to 3 reports of a pool of 7, 1 or 2 matches of 4 teams (18 schedules), 5 schemas, 2 viewers | 421 k |

**The properties of the passing runs.** Each has a mutant in `PROJECT.json`, a
plausible bug of a mapped definition that TLC finds.

* `VersionsOrdered`: of one page, TBA's version, the one in the fetcher's hands, the
  one in the storer's and the one in the database are in this order, although two
  versions can be on the way at once.
* `NoUpdateLost`: while nothing has failed, a version that the etag store remembers
  (and TBA will not send again) is stored or on its way.
* `MarkAfterUpsert`, `MarksKeepUp`: absent matches are marked deleted by a list that
  has been upserted, and by every such list.
* `ImplementsMirror`: the refresher implements `Mirror`.
* `FreshUpdateStored`, `ListedStored`: a version, or a list, that the etag store has
  not seen arrives if nothing fails from now on; what failed before does not matter.
* `DispatcherNeverStuck`, `ShutdownDrains`: the dispatcher sends without looking at
  its context, and yet is never stuck; all that Run waits for ends.
* `NeverShorter`, `FirstListStored` (teams): a list that a 304 or an error cut short is
  not taken for the whole list; the first one is stored.
* `FoundHolds` (reports): the alliance that POST has checked in its outer transaction does not
  change before its inner transaction has committed, and neither the report nor the new
  reporter of a PUT changes between validation and commit.
* `ImplementsTable`: `Reports` implements `ReportTable`.
* `CreatedMeansNew`: 201 and 200 are told apart rightly, while nobody edits reports.
* `ReporterInRealm`: a report and its reporter are of one realm.
* `MoveStored`: a PUT that changes the key is in the database when it is answered.
* `AnsweredOrStuck`: every request ends, and every circle of waits is one that PostgreSQL
  sees and breaks, but for that of a POST of a report and a PUT of its match (below).
* `StoreOpenForUpdates`, `RunReturns`: the store is closed only after the refresher has been
  told to stop; a signal or a failing listener always brings `run` to its end.
* `FoundHolds` (matches): whether the match or the event existed, as the handler has found it, is
  still so when it writes, whatever requests and refresher do meanwhile.
* `DeletedAsListed`: `tba_deleted` is the truth about the list last stored, although three
  statements in three transactions write it. The list is what the upsert was given.
* `RealmKept`: a custom event that TBA does not list never changes realm, even if two realms
  create it at once.
* `StorerReturns`, `RequestsEnd`: `storeMatches` gets back to its channel and every request
  ends, unless a POST and an edit of the same match wait for each other for good.
* `RefreshNeedsPassword`: for a refresh token, `refreshHandler` gives access tokens only under
  the password of the log in, even if that is changed in the middle of it, but for two
  changes in one second.
* `NamesDistinct`, `SupersSafe`: what the look before the write is for, for requests that nobody
  comes into; both fail for two that overlap, as no lock or constraint backs the look.
* `OwnRealmOnly`: users of another realm are out of an admin's reach however stale the look,
  and a refresh token, which has no realm, reaches only its own user.
* `RightsGranted`: whoever gains a role gains it from a token that may grant it.
* `EventIsMeanOfMatches`: a team's statistics of an event are the mean and the maximum of
  what the other endpoint answers match by match, so no match weighs more because
  more scouts have reported it.
* `SumsAddUp`: a computed sum is the sum of the averages beside it.
* `RobotInOwnPosition`: a positional stat is read from the team's own alliance and seat.
* `UnscoutedMatchesDoNotCount`: a match nobody knows anything about changes no average.
* `RowOrderIsFree`: the queries have no `ORDER BY`, and the answer does not depend on it.

**Bounds, and why they are enough.** Events do not interact but for the goroutines they
share; a second event only makes goroutines busy, which one event and stuttering
show as well, and the proofs cover any number of events and versions. One change per page
is what it takes for the old and the new version to be at different places; the safety
properties are proved for any number. One fault can hit any step; the liveness
properties speak of what happens after the n-th fault for each n up to the bound. Liveness
across a crash is not in a run: a crash leads to a state that differs from an initial one
in what is stored, which `FreshUpdateStored` does not depend on. `RefreshSafety`
combines a fault and a crash with a replacement of the etag store, and with a shutdown of the
first process (`FirstShutdown`): under a cancelled context no etag is read, and a second
process differs from the first in what is stored only. `Lifecycle` needs no versions:
its properties are about who waits for whom; the custom event, for which TBA has no page,
and the TBA event take every way through the dispatcher.

Three clients are needed in `Reports` for a third to come between two; circles of waits of
two and three clients occur. In `Matches` the refresher is the third actor beside two
clients, and the proofs cover any number. The requests were chosen so that every
statement, refusal and lock is reached, and every pair of requests that touch a common row
is there. Four requests in `Accounts` are two log ins and two acts, one of which comes into the
other, or a log in, a deletion and a creation under a token that has outlived its user; three
points in time let an access token expire.

Three reports of two matches are what it takes for matches to have different numbers of
reports; the pool has a missing, a repeated, a negative and a `null` field, reports of a
realm that does not share, one of no realm, and one of a team that is not in the match. The
schemas have every kind of field, computed stats of computed ones, one before
what it refers to, and two invalid ones.

**Deadlock** is checked where the system goes on for ever. It is switched off where it
may stop: after a shutdown (`RefreshLive` has none, and checks it), when every client has
had its answer, when the bounds of `Accounts` are reached, and when the one request of
`Summary` has been answered. In `Reports` and `Matches`
`AnsweredOrStuck`, `StorerReturns` and `RequestsEnd` say who may be left waiting.

**Fairness.** Goroutines that can run do run (weak fairness): the Go scheduler. A
`select` chooses at random among its ready cases, and the dispatcher passes through
it again and again; a case that is ready again and again is taken (strong fairness
of `RecvEvents`, `RecvActive`, `DispatchDone`). In `TeamsRefresh` the same goes for
`FetchDone`, a case of the select in `fetchTeams`. Tickers fire. Requests and
statements end, by their timeouts if nothing else (this is an assumption for
`MarkMatchesDeleted`, which has none). In `Reports` a statement whose blockers are
gone proceeds and a deadlock is found, both PostgreSQL's promise. In `Matches` the
statements of the refresher's storer proceed when they can, one of them at the latest by its
timeout. In `Lifecycle` `main` goes on, and the refresher as in `Refresh`; that the
process is gone some time after `main` has returned is not assumed. `Accounts` has no lock to
wait for and no liveness property. Nothing is assumed of TBA, faults, crashes, signals,
hang-ups or the arrival of requests.

## 4. Disagreements between code and comments

Shown by the violation runs, and described with their quotes in `PROJECT.json`:

1. `RefreshNewEvent`: the keys of new events overtake `EventsUpsert`; the foreign
   key refuses their matches, and their etags hide them.
2. `TeamsStale`: after the first complete list, the empty last page is always 304
   and no later list is ever stored.
3. `ReportsUpdate`: a PUT with `replace=true` that keeps event, match, team and
   reporter finds itself as the conflict and deletes itself, with 204.
4. `MatchesRealm`: `editMatch` looks for the realm of a match by its key without the
   event, so an admin may put a match of TBA's event if an event of the realm has a
   match with the same key.

Seen on the way and without a run of their own, in the models where a module is named:

* *Refresher* (`Refresh`, `Lifecycle`). The etag is stored before the body is read, so
  one failure hides a version until TBA publishes the next (`tba.go:149`); this is why
  `NoUpdateLost` and `FreshUpdateStored` speak of what happens without failures.
  `fetchEvents` sends nothing when the list is unchanged, so matches of events that
  are not active are not followed every 15 minutes (`refresh.go:29`). Active events
  are polled every 30 seconds, not every 15 (`refresh.go:31`, `refresh.go:35`). A list of
  exactly 50 pages is reported as more than 50 (`tba.go:380`). `EventsUpsert` makes a
  custom event public if TBA comes to list it. `fetchEvents` and `seedActiveEvents` may
  stay blocked in a send after the context is cancelled (`refresh.go:108`).
* *Process* (`Lifecycle`). A failure to listen ends in exit status 0, as the error is
  assigned to a shadowing variable (`main.go:95`), and the goroutine that listens may
  stay blocked in its send. `Shutdown` is given a context that is already cancelled, so
  requests under way are not drained. Nobody waits for the refresher.
* *Reports* (`Reports`, `Matches`). A POST holds the alliance in one transaction and
  waits in another for the table lock of a PUT of the match, which waits for the alliance.
  PostgreSQL does not see the circle; only a client that hangs up ends it. It is the
  one exception in `AnsweredOrStuck`, `StorerReturns` and `RequestsEnd`. A report deleted
  between the two statements of `UpsertReport` is created with status 200
  (`store/reports.go:93-95`). Without `replace`, the PUT of 3 is a conflict of the report
  with itself (`server/reports.go:173`). The conflict that a PUT replaces is found without a
  lock and deleted by id, even if it has been moved to another key in between
  (`store/reports.go:176`); this is why `ReportTable` does not promise that only reports
  in conflict are replaced.
* *Matches and events* (`Matches`). DELETE of a match always answers 500, as the foreign
  key of the alliances refuses it. Matches that users have made are marked
  `tba_deleted` too, against "User-created matches will be unaffected"
  (`store/matches.go:236-239`). A realm's admin cannot create the first match with a
  key, as the look up of the realm finds none. A super admin's PUT of an event of TBA
  takes it into the super admin's realm.
* *Users and realms* (`Accounts`). Two creations or patches that overlap can make names
  that differ in case only, and an admin can patch or delete somebody who has become a
  super admin since the look. After two changes of a password within one second the
  refresh token of the first is still good. `Auth` takes a refresh token as a Bearer, with no
  roles and realm 0, and does not look at `password_changed` (`middleware.go:111-136`); it is
  enough for PATCH of its own user (`users.go:352-362`), also after the password has
  changed. A user with stars cannot be deleted, nor can
  its realm; a realm that is deleted takes its super admins with it. Not in the model, as
  no order of steps matters: `getUserByID` takes the token's subject for a realm;
  `UpdateRealm` is guarded by the realm of the path and changes that of the body, and its
  check of `RowsAffected` never fails; `getSchemaByID` compares pointers;
  `GetSchemasForRealm` returns every schema without a year, of any realm.
* *Summary* (`Summary`). The seat of a robot is wrong where the blue alliance is the
  longer one, and the handler panics where only red is empty (`stats.go:177`). A stat
  that is always negative has the maximum 0 (`summary.go:113`). An `anyOf` whose
  references are not all recorded depends on their order (`summary.go:244`). Matches
  that TBA has deleted count in the statistics (`store/matches.go:278`).

## 5. What is proved

`RefreshProofs`, for any sets of events and any bounds. The theorems are of `Safety`, the
specification without its fairness, and so of `Spec` too (`SpecIsSafe`):

* `TypeCorrect`: `Safety => []TypeOK`. The type invariant is inductive; there is a
  lemma per group of actions.
* `VersionsOrderedCorrect`: `Safety => []VersionsOrdered`. Inductive together with
  `TypeOK`: `Get` takes TBA's version, which bounds all others; `Send` needs that the
  storer is at `"recv"`, so that the order of the two in hand has nothing to say.
* `NoUpdateLostCorrect`: needs `VersionsOrdered`, as an older version that is stored
  while a newer one is fetched must not be taken for its loss, and that initial
  events stay stored, so that the foreign key does not refuse them
  (`InitialStored`).
* `MarkAfterUpsertCorrect`, `MarksKeepUpCorrect`: the first needs `VersionsOrdered`, since
  a mark is only as new as the list upserted before it.
* `MirrorImplemented`: `Safety => ImplementsMirror`, every step is a step of `Mirror` or
  leaves `tba` and `db` alone; from `VersionsOrdered` again.
* `SendsAreReceivedCorrect`: the safety part of `DispatcherNeverStuck` and `ShutdownDrains`.
  From the order in which the goroutines end (`EndsInOrder`): the dispatcher only when the
  context is done, each of the others after the one that sends to it.
* `StrayKeysDoNothingCorrect`: the dispatcher receives from its channels without asking
  whether they are closed, and `seedActiveEvents` hands over custom events as well. By
  `KeysAreEvents` an empty key means that the context is done, so that all requests fail, and what
  a fetcher sends on has a key that TBA knows. So the matches of custom events are
  neither stored nor marked by the refresher.

`LifecycleProofs`:

* `StoreOpenForUpdatesCorrect`: from the order of the deferred calls (`LInv`: the store is
  open from the first to the last but one of them, and once `run` closes it the context is done).
* `ProcessRefinesRefresh`: the process with its starts, signals, failing listener, defers
  and exit is an environment that `Refresh` allows for: a signal and a deferred
  cancellation are its `Shutdown`, the end of the process its `Restart`. It is assumed that
  the process can be told to stop (`CanShutdown`). What is proved of `Safety` is therefore true of
  the process: `ProcessMirrors`, `ProcessLosesNoUpdate`.

`TeamsRefreshProofs`, for any page limit:

* `TypeCorrect`; `NeverShorterCorrect`; `MirrorImplemented`, all from one inductive
  invariant. `NeverShorter` is not inductive: it needs that TBA fills its pages in
  order (`Contiguous`), that the pages read so far are all the pages before the
  next one and no newer than TBA's (`Newest`), and that what the fetcher and the
  storer hold is no older than the database (`FetcherAhead`, `StorerAhead`).

`MatchesProofs`, for any number of clients, events and keys, all from one inductive
invariant:

* `TypeCorrect` (with `Known`: the request a statement belongs to is of its kind).
* `FoundHoldsCorrect`, `RealmKeptCorrect`: what a handler has found stays true because
  the locks keep everybody else out. `Locks` says so for any number of actors: of two
  whose statements conflict one waits for the other (`Ordered`), and those that have
  written or are about to wait for nobody (`Holding`); the lemma `Exclusive` draws the
  conclusion. `EditAllowed` is the verdict of `editEvent`, which must still be
  right when it writes.
* `DeletedAsListedCorrect`: needs that the list that is marked by is the list last
  upserted (`MarksWhatIsListed`).
* `NobodyStuckCorrect`: the safety part of `StorerReturns` and `RequestsEnd`. Every set of actors
  has a first one in the queue for the tables (`QueueOrdered`; who asks goes to the end), and
  one is only behind those whose lock conflicts (`Justified`). The first one of those who
  wait for each other only has its lock, so it waits for an alliance; that is an edit whose
  match is being reported on, or the upsert of the refresher.

`ReportsProofs`, for any number of clients, requests, users, realms, teams and reports, all
from one inductive invariant, `IInv`:

* `TypeCorrect` (with `Known`: what a statement finds in its handler's variables).
* `FoundHoldsCorrect`: row locks exclude each other (`RowsExclusive`), an edit holds the
  rows that it edits and replaces (`EditLocks`), nobody deletes a user whom an edit or an insert
  has found (`UsersExclusive`), and one post at a time has the alliance, from its
  check in one transaction to the commit of the other (`OnePost`).
* `ReporterInRealmCorrect`: what an edit writes is what has been validated (`Validated`).
* `CreatedMeansNewCorrect`: `FoundRight` says when the look of `UpsertReport` may be
  wrong: only if the reporter has left in between, and then the insert fails.
* `UniqueKeysCorrect`: not even a key that is yet to be committed is used twice. An
  insert looks at the unique index two statements before it commits, and what others write
  in between has to wait for it.
* `MoveStoredCorrect`: an action property, from `Validated` and `KeysUnique`.
* `NobodyStuckCorrect`: the safety part of `AnsweredOrStuck`. Of any set of requests that
  wait for its own members only, one is told of a deadlock, or a post and an edit
  of its match are in it. The argument: a smallest such set is a circle; whoever is
  waited for is under way and holds rows only if it is an edit or a departure
  (`RowsHeldByWriters`); each of these waits is one that PostgreSQL sees, but for that
  of a post for its own inner transaction. The number of requests has to be finite.

`ReportTableProofs`, under the same conditions:

* `TableImplemented`: `Spec => ImplementsTable`. A request takes effect with the last statement
  of its writing, and all that it has found and checked before (`Granted`, and `FoundHolds`)
  is still so then. In addition no user is deleted twice at a time (`LeavesAlone`).
* `ReportersRegisteredCorrect`: the foreign key of the reporter, which an insert looks at
  a statement before it commits.

`AccountsProofs`, for any number of clients, names, realms and points in time:

* `TypeCorrect`: ids and names are unique and nobody is left in a realm that is gone.
* `RefreshNeedsPasswordCorrect`, `OwnRealmOnlyCorrect`, `RightsGrantedCorrect`: no lock protects
  what a handler has read, so the invariant says what of it lasts. What a token or a
  request says of a user (its realm; its password at a time; the roles that may be
  given) stays true, since users never change realm and ids are never used again
  (`TokensSound`, `ReqSound`, over `UsersStep`, which says what any step may do to the users).
  Of who comes with a refresh token it says that the user is patched by itself (`Itself`).
* `SupersSafeCorrect`, `NamesDistinctCorrect`: what does not last, the roles and the
  names, is still as it was seen for a request that nobody has come into (`Alone`).

`SummaryProofs`, for any number of matches, teams, reports, fields and values. A behaviour is one
request, so the inductive invariant (`Explained`) says no more than that the answer is the handler's;
what has to be shown is what the handlers' loops compute. Each of them is a fold. The library's
induction theorems cannot be used, as they take a formula as a parameter; instead `Induction` and
`SeqInduction` are about a *set* that has the first element and with each the next, and follow from the
well-foundedness of the naturals. `RunIs` makes a fold of the community modules a `Run` of a step
function, and every loop has a lemma `...Steps` that says what one element more does to it.

* `UnscoutedDoNotCount`: nothing is recorded of a match without reports and breakdown, by
  induction over the schema. This is where a sum must not take a missing stat for 0.
* `RowOrderFree`: reversing the reports permutes the groups of a match, which changes neither a
  mean nor what an `anyOf` finds (`RecordsAlike`); reversing the matches permutes a team's means.
* `SumsAreSums`, for well-formed rows and schemas (`WellFormed`): `RecordedAlways`, by induction over the schema. A sum
  has seen the final records of what it sums, as no later field adds to them. If two fields share a
  name, the second may add to what has been summed.
* `SeatsFound`, for alliances of any length: every robot's position is its own seat exactly if blue is
  no longer than red. `RobotsInTheirPositions` rests on it, and on `RecordedAlways` for what becomes
  of the value that is read there; under `WellFormed` too, since a second seat would be averaged with the first.
* `EventsAreMeans`, if keys are unique, a team has one seat in a match and the averages are
  exact: the means that the event endpoint adds up are, match by match, the averages that the match
  endpoint answers (`MeansMatched`, by induction over the matches). A team with two seats in
  a match would have that match count twice for the event.

Assumptions: the named `ASSUME`s of the modules, which TLC evaluates on each
run, and where a theorem says so that the process can be told to stop, that the number of
requests is finite, or that rows and schemas are `WellFormed` and `Exact`, which TLC evaluates
of the inputs of `SummaryStats`. Environment assumptions of `TeamsRefresh` (TBA fills pages in order and never
removes one) are in its action `Publish`.

Only model-checked: the liveness properties (`FreshUpdateStored`, `ListedStored`,
`DispatcherNeverStuck`, `ShutdownDrains`, `FirstListStored`, `RunReturns`, `AnsweredOrStuck`,
`StorerReturns`, `RequestsEnd`), as fairness is out of the prover's reach, though the safety
that most of them rest on is proved. All invariants and action properties that the passing runs check are theorems
as well, some of them under the hypotheses named above.

## 6. What is not modelled, and the plan

In the order in which it will be added:

1. Clients that hang up in `Reports`, as they do in `Matches`.
2. The update of a realm and the schemas of a year in `Accounts`.
3. A table of events and matches that changes atomically, as `ReportTable` is for reports.
   What a request answers is true of the moment it writes (`FoundHolds`), but the permission to put
   a match may be older: the realm of a match's event is read without a lock of the events.

Not planned: routing, JSON, configuration, `pack`, health, and handlers that only read,
which have no state; the payloads of TBA, whose decoding is a matter of field names;
migrations, which run before the program does; `MarkEventsDeleted`, which nothing calls;
the expiry of a refresh token, which only makes it good for less.
