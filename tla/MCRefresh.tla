----------------------------- MODULE MCRefresh ------------------------------
(***************************************************************************)
(* Refresh for TLC, and the claim of the comment of Run that the code does *)
(* not live up to.                                                         *)
(***************************************************************************)
EXTENDS Refresh

\* "Update all active event matches and rankings" (refresh.go:31): every change
\* TBA makes to a page of an active event reaches the database, as soon as the
\* event is stored, also when the refresher itself has stored it.
NewEventKeptUpToDate == \A p \in Resources \X (Active \cap TbaEvents), v \in 1..MaxVersion :
    tba[p] >= v /\ p[2] \in dbEvents ~> Arrived(p, v)

\* A bound: only the first process is shut down, and only when its etag store has not
\* been replaced, as no request of a cancelled context succeeds and reads an etag.
FirstShutdown == ctxDone => races = 0 /\ restarts = 0
=============================================================================
