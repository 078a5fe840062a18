------------------------------- MODULE Mirror -------------------------------
(***************************************************************************)
(* What the refresher promises of its copy of The Blue Alliance (TBA).     *)
(*                                                                         *)
(* TBA publishes pages; the content of a page is represented by the number *)
(* of times it has changed.  The database holds a copy of every page, at   *)
(* some version.  The promise has three parts:                             *)
(*   - nothing is invented: a copy is a version that TBA has published;    *)
(*   - nothing is undone: a copy is never replaced by an older version;    *)
(*   - the copies are independent: nothing is said of the versions of two  *)
(*     pages at one time (src/internal/refresh/refresh.go:1-2 does not     *)
(*     group resources into transactions).                                 *)
(* How a version travels from TBA to the database (polling, entity tags,   *)
(* goroutines, channels, transactions) is the business of Refresh and of   *)
(* TeamsRefresh, which implement this specification.                       *)
(***************************************************************************)
EXTENDS Naturals

CONSTANT Pages    \* the pages of TBA that are mirrored

VARIABLES
    source,       \* source[p]: the version of page p on TBA
    copy          \* copy[p]: the version of page p in the database

vars == <<source, copy>>

Init ==
    /\ source = [p \in Pages |-> 0]
    /\ copy = [p \in Pages |-> 0]

\* TBA changes a page.
Publish(p) ==
    /\ source' = [source EXCEPT ![p] = @ + 1]
    /\ UNCHANGED copy

\* The database takes over some version of some pages, no older than it has.
CatchUp ==
    /\ copy' \in [Pages -> Nat]
    /\ \A p \in Pages : copy[p] <= copy'[p] /\ copy'[p] <= source[p]
    /\ UNCHANGED source

Next == CatchUp \/ \E p \in Pages : Publish(p)

Spec == Init /\ [][Next]_vars
=============================================================================
