----------------------------- MODULE MCMatches ------------------------------
(***************************************************************************)
(* Matches for TLC: one event of TBA, one custom event and their matches.  *)
(***************************************************************************)
EXTENDS Matches

CONSTANTS e1, e2, k1, r1, r2

RealmAtFirst == [e \in Events |-> IF e = e1 THEN None ELSE Missing]
RealmOfCustom == [e \in Events |-> IF e = e1 THEN None ELSE r1]

PutEventBy(r, role, e) == [op |-> "put event", realm |-> r, role |-> role, event |-> e]
By(op, r, role, m) == [op |-> op, realm |-> r, role |-> role, match |-> m]

\* The custom event is created, twice at once, and TBA's is edited; matches of
\* both are put, deleted and reported.
EditRequests ==
    {PutEventBy(r1, "super", e2), PutEventBy(r2, "super", e2), PutEventBy(r1, "admin", e2),
     PutEventBy(r1, "super", e1), PutEventBy(r1, "user", e2),
     By("put match", r1, "super", <<e1, k1>>), By("put match", r1, "admin", <<e2, k1>>),
     By("put match", r2, "super", <<e2, k1>>),
     By("delete match", r1, "super", <<e1, k1>>), By("delete match", r1, "super", <<e2, k1>>),
     By("post report", r1, "user", <<e1, k1>>)}

\* A realm admin edits a match of TBA's event.
AdminRequests == {By("put match", r1, "super", <<e2, k1>>), By("put match", r1, "super", <<e1, k1>>),
                  By("put match", r1, "admin", <<e1, k1>>)}

\* "Global admins can create matches on any event, and realm admins can create
\* matches on events in their realm" (openapi.yaml:585): a match that a realm
\* admin puts is one of an event of that realm.
AdminsEditOwnEvents == [][\A c \in Clients :
    at[c] = "put match" /\ req[c].role = "admin" /\ answer'[c] \in {"created", "no content"}
        => realm[req[c].match[1]] = req[c].realm]_vars
=============================================================================
