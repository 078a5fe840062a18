----------------------------- MODULE MCAccounts -----------------------------
(***************************************************************************)
(* Accounts for TLC: a super admin and an admin of one realm, and another realm.   *)
(***************************************************************************)
EXTENDS Accounts, TLC

CONSTANTS ann, Ann, bob, r1, r2, r3

LowerOf == [n \in Names |-> IF n = Ann THEN ann ELSE n]
Staff(i, n, r, rs) == [id |-> i, name |-> n, realm |-> r, roles |-> rs, stars |-> FALSE,
                       changed |-> 0, password |-> 0, hasty |-> FALSE]
SomeUsers == {Staff(1, bob, r2, {"verified", "super"}), Staff(2, ann, r2, {"verified", "admin"})}
SomeGrants == {{"verified", "admin"}, {"super"}}

\* The clients are alike.
Symmetry == Permutations(Clients)
=============================================================================
