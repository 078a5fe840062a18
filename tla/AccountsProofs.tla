--------------------------- MODULE AccountsProofs ----------------------------
(***************************************************************************)
(* Theorems about Accounts, for any number of clients and users: the       *)
(* tables stay whole, and nobody gets more than the rules allow.           *)
(***************************************************************************)
EXTENDS Accounts, TLAPS

\* The patches that may be carried out.
AllPatches ==
    [field : {"name"}, value : Names] \cup [field : {"roles"}, value : SUBSET Roles] \cup
    [field : {"stars"}, value : BOOLEAN] \cup [field : {"password"}, value : {None}]

\* What the request rq knows at its statement.
LoginOK(rq) == rq.user \in User /\ rq.user.id < nextId
InsertOK(rq) ==
    /\ rq.by \in Caller \cup {None} /\ rq.name \in Names /\ rq.realm \in Realms
    /\ rq.roles \subseteq Roles /\ rq.stars \in BOOLEAN
PatchOK(rq) ==
    /\ rq.by \in Caller /\ rq.patch \in AllPatches
    /\ rq.target \in Nat /\ rq.target < nextId
RealmOK(rq) == rq.by \in Caller /\ rq.realm \in Realms

ReqOK(c) ==
    /\ at[c] \in {"issue both", "issue"} => LoginOK(req[c])
    /\ at[c] = "insert" => InsertOK(req[c])
    /\ at[c] \in {"similar", "update"} => PatchOK(req[c])
    /\ at[c] = "similar" => req[c].patch.field = "name"
    /\ at[c] = "remove" => req[c].by \in Caller
    /\ at[c] \in {"delete realm", "create schema"} => RealmOK(req[c])

\* Tokens are of users that have been created.
TokensKnown == \A c \in Clients :
    /\ access[c] # None => access[c].sub < nextId
    /\ refresh[c] # None => refresh[c].sub < nextId

RequestsKnown == req = [c \in Clients |-> req[c]] /\ \A c \in Clients : ReqOK(c)

TypeInv == TypeOK /\ TokensKnown /\ RequestsKnown

\* The bounds are numbers.
LEMMA BoundsType == MaxUsers \in Nat /\ MaxTime \in Nat /\ Ids \subseteq Nat /\ Times \subseteq Nat
BY AccountsAssumption DEF Ids, Times

\* A patch that is reduced is one that may be carried out.
LEMMA PatchesType == \A by : \A p \in Patches : Reduced(by, p) \in AllPatches
<1> SUFFICES ASSUME NEW by, NEW p \in Patches PROVE Reduced(by, p) \in AllPatches
  OBVIOUS
<1>1. p \in AllPatches
  BY AccountsAssumption DEF Patches, AllPatches
<1>2. CASE p.field = "roles"
  <2>1. p \in [field : {"roles"}, value : SUBSET Roles]
    BY <1>1, <1>2 DEF AllPatches
  <2>2. [p EXCEPT !.value = @ \ {"super"}] \in [field : {"roles"}, value : SUBSET Roles]
    BY <2>1
  <2> QED
    BY <1>1, <2>2 DEF Reduced, AllPatches
<1>3. CASE p.field # "roles"
  BY <1>1, <1>3 DEF Reduced
<1> QED
  BY <1>2, <1>3

\* What a patch does to a user.
LEMMA PatchedUser ==
    ASSUME TypeInv, NEW u \in User, NEW p \in AllPatches
    PROVE  /\ Patched(u, p) \in User
           /\ Patched(u, p).id = u.id /\ Patched(u, p).realm = u.realm
           /\ Patched(u, p).name = IF p.field = "name" THEN p.value ELSE u.name
           /\ Patched(u, p).roles = IF p.field = "roles" THEN p.value ELSE u.roles
           /\ IF p.field = "password"
              THEN /\ Patched(u, p).changed = now /\ Patched(u, p).password = u.password + 1
                   /\ Patched(u, p).hasty = (u.changed = now)
              ELSE /\ Patched(u, p).changed = u.changed /\ Patched(u, p).password = u.password
                   /\ Patched(u, p).hasty = u.hasty
<1>n. now \in Times
  BY DEF TypeInv, TypeOK
<1>1. CASE p \in [field : {"name"}, value : Names]
  BY <1>1 DEF Patched, User
<1>2. CASE p \in [field : {"roles"}, value : SUBSET Roles]
  BY <1>2 DEF Patched, User
<1>3. CASE p \in [field : {"stars"}, value : BOOLEAN]
  BY <1>3 DEF Patched, User
<1>4. CASE p \in [field : {"password"}, value : {None}]
  <2> DEFINE h == u.changed = now
  <2>1. Patched(u, p) = [u EXCEPT !.changed = now, !.password = @ + 1, !.hasty = h]
    BY <1>4 DEF Patched
  <2>2. h \in BOOLEAN
    OBVIOUS
  <2> HIDE DEF h
  <2>3. /\ u.id \in Ids /\ u.name \in Names /\ u.realm \in Realms /\ u.roles \in SUBSET Roles
        /\ u.stars \in BOOLEAN /\ u.password \in Nat
    BY DEF User
  <2>5. Patched(u, p) = [id |-> u.id, name |-> u.name, realm |-> u.realm, roles |-> u.roles,
                         stars |-> u.stars, changed |-> now, password |-> u.password + 1,
                         hasty |-> h]
    BY <2>1 DEF User
  <2>6. Patched(u, p) \in User
    BY <1>n, <2>2, <2>3, <2>5 DEF User
  <2>4. p.field = "password"
    BY <1>4
  <2> QED
    BY <2>4, <2>5, <2>6 DEF h
<1> QED
  BY <1>1, <1>2, <1>3, <1>4 DEF AllPatches

-----------------------------------------------------------------------------
(* Types, and the keys of the tables.                                      *)

TablesOK ==
    /\ users \subseteq User
    /\ \A u, v \in users : u.id = v.id \/ u.name = v.name => u = v
    /\ \A u \in users : u.id < nextId /\ u.realm \in realms
    /\ realms \subseteq spent /\ spent \subseteq Realms /\ schemas \subseteq realms
    /\ nextId \in 1..MaxUsers + 1

TokensOK ==
    /\ access \in [Clients -> Access \cup {None}] /\ refresh \in [Clients -> Refresh \cup {None}]
    /\ TokensKnown

\* Client c goes on to statement s of request q.
Moves(c, s, q) ==
    /\ at' = [at EXCEPT ![c] = s] /\ req' = [req EXCEPT ![c] = q]
    /\ s \in Statements /\ (s = "idle" => q = None)
    /\ lone' \in {c, None} /\ (lone' = c => at[c] = "idle" \/ lone = c)

\* The type invariant, part by part.
LEMMA TypeParts == TypeInv <=>
    /\ TablesOK /\ TokensOK /\ now \in Times /\ lone \in Clients \cup {None}
    /\ at \in [Clients -> Statements]
    /\ RequestsKnown /\ \A c \in Clients : at[c] = "idle" => req[c] = None
BY DEF TypeInv, TypeOK, TablesOK, TokensOK

\* Going on, starting and answering are moves.
LEMMA MovesType ==
    ASSUME TypeInv, NEW c \in Clients
    PROVE  /\ \A s \in Statements \ {"idle"} : Goto(c, s) /\ UNCHANGED req => Moves(c, s, req[c])
           /\ \A s \in Statements \ {"idle"} : \A q : Begin(c, s, q) => Moves(c, s, q)
           /\ Respond(c) => Moves(c, "idle", None)
<1>1. ASSUME Step(c) PROVE lone' \in {c, None} /\ (lone' = c => at[c] = "idle" \/ lone = c)
  BY <1>1, AccountsAssumption DEF Step
<1>2. req = [d \in Clients |-> req[d]]
  BY DEF TypeInv, RequestsKnown
<1>3. ASSUME NEW s \in Statements \ {"idle"}, Goto(c, s), UNCHANGED req PROVE Moves(c, s, req[c])
  BY <1>1, <1>2, <1>3 DEF Goto, Moves
<1>4. ASSUME NEW s \in Statements \ {"idle"}, NEW q, Begin(c, s, q) PROVE Moves(c, s, q)
  BY <1>1, <1>4 DEF Begin, Moves
<1>5. ASSUME Respond(c) PROVE Moves(c, "idle", None)
  BY <1>1, <1>5 DEF Respond, Goto, Moves, Statements
<1> QED
  BY <1>3, <1>4, <1>5

\* A client's step keeps the types if it keeps those of the tables and its tokens
\* and knows what its next statement needs.
LEMMA KeepsTypes ==
    ASSUME TypeInv, NEW c \in Clients, NEW s, NEW q, Moves(c, s, q),
           TablesOK', TokensOK', UNCHANGED now, nextId' >= nextId, ReqOK(c)'
    PROVE  TypeInv'
<1>1. at' \in [Clients -> Statements] /\ req' = [d \in Clients |-> req'[d]]
  BY DEF Moves, TypeInv, TypeOK, RequestsKnown
<1>2. \A d \in Clients : at'[d] = "idle" => req'[d] = None
  BY DEF Moves, TypeInv, TypeOK, RequestsKnown
<1>3. ASSUME NEW d \in Clients PROVE ReqOK(d)'
  <2>1. CASE d # c
    <3>1. at'[d] = at[d] /\ req'[d] = req[d]
      BY <2>1 DEF Moves, TypeInv, TypeOK, RequestsKnown
    <3>2. nextId \in Nat /\ nextId' \in Nat /\ ReqOK(d)
      BY BoundsType DEF TypeInv, RequestsKnown, TypeOK, TablesOK
    <3>3. \A i \in Nat : i < nextId => i < nextId'
      BY <3>2
    <3>5. \A u \in User : u.id \in Nat
      BY BoundsType DEF User
    <3>6. LoginOK(req[d]) => LoginOK(req[d])'
      BY <3>1, <3>2, <3>3, <3>5 DEF LoginOK
    <3>7. InsertOK(req[d]) => InsertOK(req[d])'
      BY <3>1, Zenon DEF InsertOK
    <3>8. PatchOK(req[d]) => PatchOK(req[d])'
      BY <3>1, <3>2, <3>3 DEF PatchOK
    <3>9. RealmOK(req[d]) => RealmOK(req[d])'
      BY <3>1, Zenon DEF RealmOK
    <3> QED
      BY <3>1, <3>2, <3>6, <3>7, <3>8, <3>9 DEF ReqOK
  <2> QED
    BY <2>1
<1>4. lone' \in Clients \cup {None}
  BY DEF Moves
<1>5. now' \in Times
  BY DEF TypeInv, TypeOK
<1>6. RequestsKnown'
  BY <1>1, <1>3 DEF RequestsKnown
<1> QED
  BY <1>1, <1>2, <1>4, <1>5, <1>6 DEF TypeInv, TypeOK, TablesOK, TokensOK

\* The types hold at first.
LEMMA TypeInit == Init => TypeInv
<1> SUFFICES ASSUME Init PROVE TypeInv
  OBVIOUS
<1>1. TablesOK
  BY AccountsAssumption, BoundsType DEF Init, TablesOK, User, Ids
<1>2. TokensOK
  BY DEF Init, TokensOK, TokensKnown
<1>3. now \in Times /\ lone \in Clients \cup {None} /\ at \in [Clients -> Statements]
  BY BoundsType DEF Init, Times, Statements
<1>4. \A c \in Clients : (at[c] = "idle" => req[c] = None) /\ ReqOK(c)
  BY DEF Init, ReqOK
<1>5. RequestsKnown
  BY <1>4 DEF Init, RequestsKnown
<1> QED
  BY <1>1, <1>2, <1>3, <1>4, <1>5, TypeParts

\* Steps that write no table.
LEMMA SameTables ==
    ASSUME TypeInv, UNCHANGED db
    PROVE  TablesOK' /\ nextId' >= nextId
BY BoundsType DEF TypeInv, TypeOK, TablesOK, db

\* A step that writes no tokens keeps their types.
LEMMA SameTokens ==
    ASSUME TypeInv, UNCHANGED tokens, nextId' >= nextId, nextId' \in Nat
    PROVE  TokensOK'
<1>1. nextId \in Nat
  BY BoundsType DEF TypeInv, TypeOK
<1>2. \A a \in Access \cup Refresh : a.sub \in Nat
  BY BoundsType DEF Access, Refresh
<1>3. TokensOK /\ UNCHANGED <<access, refresh>>
  BY DEF TypeInv, TypeOK, TokensOK, tokens
<1> QED
  BY <1>1, <1>2, <1>3 DEF TokensOK, TokensKnown

\* Steps that write neither tables nor tokens.
LEMMA KeepsTypesOnly ==
    ASSUME TypeInv, NEW c \in Clients, NEW s, NEW q, Moves(c, s, q), UNCHANGED <<db, now, tokens>>,
           ReqOK(c)'
    PROVE  TypeInv'
<1>1. nextId' \in Nat
  BY BoundsType DEF TypeInv, TypeOK, db
<1> QED
  BY <1>1, SameTables, SameTokens, KeepsTypes

\* What Auth makes of a token: a caller, with the rights of the access token or as
\* the user of the refresh token, without any.
LEMMA ClaimsType ==
    ASSUME NEW c \in Clients, access[c] \in Access \cup {None}, refresh[c] \in Refresh \cup {None},
           NEW by \in Claims(c)
    PROVE  /\ by \in Caller
           /\ \/ access[c] # None /\ by.sub = access[c].sub /\ by.realm = access[c].realm
              \/ by.realm = None /\ by.roles = {}
<1>1. CASE access[c] # None /\ by = [sub |-> access[c].sub, roles |-> access[c].roles,
                                     realm |-> access[c].realm]
  BY <1>1 DEF Access, Caller
<1>2. CASE refresh[c] # None /\ by = [sub |-> refresh[c].sub, roles |-> {}, realm |-> None]
  BY <1>2 DEF Refresh, Caller
<1> QED
  BY <1>1, <1>2 DEF Claims

\* A client that is idle knows nothing.
LEMMA IdleKnows ==
    ASSUME TypeInv, NEW c \in Clients, Moves(c, "idle", None) PROVE ReqOK(c)'
BY DEF Moves, TypeInv, TypeOK, ReqOK

\* Where a client has moved to.
LEMMA MovesTo ==
    ASSUME TypeInv, NEW c \in Clients, NEW s, NEW q, Moves(c, s, q)
    PROVE  at'[c] = s /\ req'[c] = q
BY DEF Moves, TypeInv, TypeOK, RequestsKnown

\* Every step keeps the types.
LEMMA TypeStep == TypeInv /\ [Next]_vars => TypeInv'
<1> SUFFICES ASSUME TypeInv, [Next]_vars PROVE TypeInv'
  OBVIOUS
<1>t. /\ TablesOK /\ TokensOK /\ now \in Times /\ now \in Nat /\ nextId \in Nat
      /\ at \in [Clients -> Statements] /\ \A c \in Clients : ReqOK(c)
  BY TypeParts, BoundsType DEF TablesOK, RequestsKnown
<1>u. \A u \in users : u \in User /\ u.id < nextId
  BY <1>t DEF TablesOK
<1>c. \A c \in Clients : \A by \in Claims(c) : by \in Caller
  BY <1>t, ClaimsType DEF TokensOK
<1>i. \A i \in 1..(nextId - 1) : i \in Nat /\ i < nextId
  BY <1>t
<1>s. Statements \ {"idle"} = {"issue both", "issue", "insert", "similar", "update", "remove",
                               "delete realm", "create schema"}
  BY DEF Statements
<1>1. CASE Tick
  <2>1. now' \in Times
    BY <1>1, <1>t, BoundsType DEF Tick, Times
  <2> QED
    BY <1>1, <2>1 DEF Tick, TypeInv, TypeOK, TokensKnown, RequestsKnown, ReqOK, LoginOK, InsertOK,
       PatchOK, RealmOK, db, tokens
<1>2. ASSUME NEW c \in Clients, Authenticate(c) PROVE TypeInv'
  <2>1. PICK u \in users : Begin(c, "issue both", [op |-> "login", by |-> None, user |-> u])
    BY <1>2 DEF Authenticate
  <2> DEFINE q == [op |-> "login", by |-> None, user |-> u]
  <2>2. Moves(c, "issue both", q) /\ UNCHANGED <<db, now, tokens>>
    BY <1>2, <1>s, <2>1, MovesType DEF Authenticate
  <2>3. at'[c] \in {"issue both", "issue"}
    BY <2>2, MovesTo
  <2>4. req'[c] = q /\ nextId' = nextId
    BY <2>2, MovesTo DEF db
  <2>5. LoginOK(req[c])'
    BY <1>u, <2>4 DEF LoginOK
  <2>6. ReqOK(c)'
    BY <2>3, <2>5 DEF ReqOK
  <2> QED
    BY <2>2, <2>6, KeepsTypesOnly
<1>3. ASSUME NEW c \in Clients, RefreshAccess(c) PROVE TypeInv'
  <2>1. PICK u \in users : Begin(c, "issue", [op |-> "refresh", by |-> None, user |-> u])
    BY <1>3 DEF RefreshAccess, With
  <2> DEFINE q == [op |-> "refresh", by |-> None, user |-> u]
  <2>2. Moves(c, "issue", q) /\ UNCHANGED <<db, now, tokens>>
    BY <1>3, <1>s, <2>1, MovesType DEF RefreshAccess
  <2>3. at'[c] \in {"issue both", "issue"}
    BY <2>2, MovesTo
  <2>4. req'[c] = q /\ nextId' = nextId
    BY <2>2, MovesTo DEF db
  <2>5. LoginOK(req[c])'
    BY <1>u, <2>4 DEF LoginOK
  <2>6. ReqOK(c)'
    BY <2>3, <2>5 DEF ReqOK
  <2> QED
    BY <2>2, <2>6, KeepsTypesOnly
<1>4. ASSUME NEW c \in Clients, Issue(c) PROVE TypeInv'
  <2> DEFINE u == req[c].user
             a == [sub |-> u.id, roles |-> u.roles, realm |-> u.realm, exp |-> now + 1]
             r == [sub |-> u.id, changed |-> u.changed, password |-> u.password]
  <2>1. /\ access' = [access EXCEPT ![c] = a]
        /\ refresh' = refresh \/ refresh' = [refresh EXCEPT ![c] = r]
        /\ Moves(c, "idle", None) /\ UNCHANGED <<db, now>>
    BY <1>4, MovesType DEF Issue
  <2>2. u \in User /\ u.id < nextId
    BY <1>4, <1>t DEF Issue, ReqOK, LoginOK
  <2>3. a \in Access /\ r \in Refresh
    <3>1. now + 1 \in 0..MaxTime + 1
      BY <1>t, BoundsType DEF Times
    <3> QED
      BY <2>2, <3>1 DEF User, Access, Refresh
  <2>4. /\ access' \in [Clients -> Access \cup {None}]
        /\ refresh' \in [Clients -> Refresh \cup {None}]
    BY <1>t, <2>1, <2>3 DEF TokensOK
  <2>5. TokensKnown'
    <3> SUFFICES ASSUME NEW d \in Clients
                 PROVE  /\ access'[d] # None => access'[d].sub < nextId
                        /\ refresh'[d] # None => refresh'[d].sub < nextId
      BY <2>1 DEF TokensKnown, db
    <3>1. CASE d = c
      BY <1>t, <2>1, <2>2, <3>1 DEF TokensOK, TokensKnown
    <3>2. CASE d # c
      BY <1>t, <2>1, <3>2 DEF TokensOK, TokensKnown
    <3> QED
      BY <3>1, <3>2
  <2> QED
    BY <2>1, <2>4, <2>5, SameTables, IdleKnows, KeepsTypes DEF TokensOK
<1>5. ASSUME NEW c \in Clients, CreateUser(c) PROVE TypeInv'
  <2>1. PICK by \in Claims(c) \cup {None}, n \in Names, r \in Realms, g \in Grants, t \in BOOLEAN :
          Begin(c, "insert", [op |-> "create", by |-> by, name |-> n, realm |-> r,
                              roles |-> GrantedTo(by, r, g), stars |-> t])
    BY <1>5 DEF CreateUser
  <2> DEFINE q == [op |-> "create", by |-> by, name |-> n, realm |-> r,
                   roles |-> GrantedTo(by, r, g), stars |-> t]
  <2>2. Moves(c, "insert", q) /\ UNCHANGED <<db, now, tokens>>
    BY <1>5, <1>s, <2>1, MovesType DEF CreateUser
  <2>3. GrantedTo(by, r, g) \subseteq Roles
    BY AccountsAssumption DEF GrantedTo
  <2>4. InsertOK(q)'
    BY <1>c, <2>3, Zenon DEF InsertOK
  <2>5. ReqOK(c)'
    BY <2>2, <2>4, MovesTo DEF ReqOK
  <2> QED
    BY <2>2, <2>5, KeepsTypesOnly
<1>6. ASSUME NEW c \in Clients, InsertUser(c) PROVE TypeInv'
  <2> DEFINE q == req[c]
             u == [id |-> nextId, name |-> q.name, realm |-> q.realm, roles |-> q.roles,
                   stars |-> q.stars, changed |-> now, password |-> 0, hasty |-> FALSE]
  <2>1. Moves(c, "idle", None) /\ UNCHANGED <<realms, schemas, spent, now, tokens>>
    BY <1>6, MovesType DEF InsertUser
  <2>2. u \in User
    <3>1. nextId \in Ids
      BY <1>6, <1>t, BoundsType DEF InsertUser, Ids, TablesOK
    <3>2. /\ q.name \in Names /\ q.realm \in Realms /\ q.roles \in SUBSET Roles
          /\ q.stars \in BOOLEAN
      BY <1>6, <1>t DEF InsertUser, ReqOK, InsertOK
    <3> QED
      BY <1>t, <3>1, <3>2 DEF User
  <2>3. TablesOK' /\ nextId' >= nextId /\ nextId' \in Nat
    <3>1. CASE UNCHANGED <<users, nextId>>
      BY <1>t, <2>1, <3>1 DEF TablesOK
    <3>2. CASE /\ users' = users \cup {u} /\ nextId' = nextId + 1
               /\ ~((\E v \in users : v.name = q.name) \/ q.realm \notin realms)
      <4>1. \A v \in users : v.id # nextId /\ v.id < nextId + 1 /\ v.name # q.name
        BY <1>u, <1>t, <3>2, BoundsType DEF User, Ids
      <4>2. nextId + 1 \in 1..MaxUsers + 1 /\ u.id < nextId + 1
        BY <1>6, <1>t, BoundsType DEF InsertUser
      <4>3. u.id = nextId /\ u.name = q.name /\ u.realm \in realms
        BY <3>2
      <4> HIDE DEF u
      <4> QED
        BY <1>t, <2>1, <2>2, <3>2, <4>1, <4>2, <4>3 DEF TablesOK
    <3> QED
      BY <1>6, <3>1, <3>2 DEF InsertUser
  <2> QED
    BY <2>1, <2>3, SameTokens, IdleKnows, KeepsTypes
<1>7. ASSUME NEW c \in Clients, PatchUser(c) PROVE TypeInv'
  <2>1. PICK by \in Claims(c), i \in 1..(nextId - 1), p \in Patches :
          Begin(c, AfterTarget(p), [op |-> "patch", by |-> by, target |-> i,
                                    patch |-> Reduced(by, p)])
    BY <1>7 DEF PatchUser
  <2> DEFINE q == [op |-> "patch", by |-> by, target |-> i, patch |-> Reduced(by, p)]
  <2>2. Moves(c, AfterTarget(p), q) /\ UNCHANGED <<db, now, tokens>>
    BY <1>7, <1>s, <2>1, MovesType DEF PatchUser, AfterTarget
  <2>3. Reduced(by, p) \in AllPatches /\ by \in Caller
    BY <1>c, PatchesType
  <2>4. AfterTarget(p) = "similar" => Reduced(by, p).field = "name"
    BY DEF AfterTarget, Reduced
  <2>5. i \in Nat /\ i < nextId /\ AfterTarget(p) \in {"similar", "update"}
    BY <1>i DEF AfterTarget
  <2>6. at'[c] = AfterTarget(p) /\ req'[c] = q /\ nextId' = nextId
    BY <2>2, MovesTo DEF db
  <2>8. PatchOK(req[c])'
    BY <2>3, <2>5, <2>6 DEF PatchOK
  <2>9. at'[c] \in {"similar", "update"}
    BY <2>5, <2>6
  <2>10. at'[c] = "similar" => req'[c].patch.field = "name"
    BY <2>4, <2>6
  <2>7. ReqOK(c)'
    BY <2>8, <2>9, <2>10 DEF ReqOK
  <2> QED
    BY <2>2, <2>7, KeepsTypesOnly
<1>8. ASSUME NEW c \in Clients, CheckSimilar(c) PROVE TypeInv'
  <2>1. CASE Respond(c)
    BY <1>8, <2>1, MovesType, IdleKnows, KeepsTypesOnly DEF CheckSimilar
  <2>2. CASE Goto(c, "update") /\ UNCHANGED req
    <3>1. Moves(c, "update", req[c]) /\ UNCHANGED <<db, now, tokens>>
      BY <1>8, <1>s, <2>2, MovesType DEF CheckSimilar
    <3>2. at[c] = "similar" /\ at'[c] = "update" /\ req'[c] = req[c] /\ UNCHANGED nextId
      BY <1>8, <3>1, MovesTo DEF CheckSimilar, db
    <3>3. ReqOK(c)'
      BY <1>t, <3>2 DEF ReqOK, PatchOK
    <3> QED
      BY <3>1, <3>3, KeepsTypesOnly
  <2> QED
    BY <1>8, <2>1, <2>2 DEF CheckSimilar
<1>9. ASSUME NEW c \in Clients, UpdateUser(c) PROVE TypeInv'
  <2> DEFINE i == req[c].target
             p == req[c].patch
  <2>1. Moves(c, "idle", None) /\ UNCHANGED <<realms, schemas, nextId, spent, now, tokens>>
    BY <1>9, MovesType DEF UpdateUser
  <2>2. p \in AllPatches
    BY <1>9, <1>t DEF UpdateUser, ReqOK, PatchOK
  <2>3. CASE users' = users
    BY <1>t, <2>1, <2>3, SameTokens, IdleKnows, KeepsTypes DEF TablesOK
  <2>4. CASE /\ users' = {IF u.id = i THEN Patched(u, p) ELSE u : u \in users}
             /\ p.field = "name" => \A u \in users : u.name = p.value => u.id = i
    <3> DEFINE f(u) == IF u.id = i THEN Patched(u, p) ELSE u
    <3>1. \A u \in users : /\ f(u) \in User /\ f(u).id = u.id /\ f(u).realm = u.realm
                           /\ f(u).name = IF u.id = i /\ p.field = "name" THEN p.value ELSE u.name
      BY <1>u, <2>2, PatchedUser
    <3>2. \A u \in users' : \E v \in users : u = f(v)
      BY <2>4
    <3> HIDE DEF f
    <3>3. users' \subseteq User /\ \A u \in users' : u.id < nextId /\ u.realm \in realms
      BY <1>t, <3>1, <3>2 DEF TablesOK
    <3>4. ASSUME NEW u \in users', NEW v \in users', u.id = v.id \/ u.name = v.name PROVE u = v
      <4>1. PICK a \in users, b \in users : u = f(a) /\ v = f(b)
        BY <3>2
      <4>2. a.id = b.id
        BY <1>t, <2>4, <3>1, <3>4, <4>1 DEF TablesOK
      <4> QED
        BY <1>t, <4>1, <4>2 DEF TablesOK
    <3>5. TablesOK'
      BY <1>t, <2>1, <3>3, <3>4 DEF TablesOK
    <3> QED
      BY <1>t, <2>1, <3>5, SameTokens, IdleKnows, KeepsTypes
  <2> QED
    BY <1>9, <2>3, <2>4 DEF UpdateUser
<1>10. ASSUME NEW c \in Clients, DeleteUser(c) PROVE TypeInv'
  <2>1. PICK by \in Claims(c), i \in 1..(nextId - 1) :
          Begin(c, "remove", [op |-> "delete", by |-> by, target |-> i])
    BY <1>10 DEF DeleteUser
  <2> DEFINE q == [op |-> "delete", by |-> by, target |-> i]
  <2>2. Moves(c, "remove", q) /\ UNCHANGED <<db, now, tokens>>
    BY <1>10, <1>s, <2>1, MovesType DEF DeleteUser
  <2>3. at'[c] = "remove" /\ req'[c] = q
    BY <2>2, MovesTo
  <2>4. ReqOK(c)'
    BY <1>c, <2>3 DEF ReqOK
  <2> QED
    BY <2>2, <2>4, KeepsTypesOnly
<1>11. ASSUME NEW c \in Clients, RemoveUser(c) PROVE TypeInv'
  <2>1. Moves(c, "idle", None) /\ UNCHANGED <<realms, schemas, nextId, spent, now, tokens>>
    BY <1>11, MovesType DEF RemoveUser
  <2>2. users' \subseteq users
    BY <1>11 DEF RemoveUser
  <2>3. TablesOK'
    BY <1>t, <2>1, <2>2 DEF TablesOK
  <2> QED
    BY <1>t, <2>1, <2>3, SameTokens, IdleKnows, KeepsTypes
<1>12. ASSUME NEW c \in Clients, CreateRealm(c) PROVE TypeInv'
  <2>1. /\ at[c] = "idle" /\ at' = [at EXCEPT ![c] = "idle"] /\ UNCHANGED req
        /\ UNCHANGED <<users, schemas, nextId, now, tokens>>
        /\ lone' \in {c, None}
    BY <1>12 DEF CreateRealm, Goto, Step
  <2>2. TablesOK'
    BY <1>12, <1>t, <2>1 DEF CreateRealm, TablesOK
  <2>3. at' = at
    BY <1>t, <2>1
  <2> QED
    BY <2>1, <2>2, <2>3 DEF TypeInv, TypeOK, TablesOK, TokensKnown, RequestsKnown, ReqOK, LoginOK,
       InsertOK, PatchOK, RealmOK, tokens
<1>13. ASSUME NEW c \in Clients, EditRealms(c) PROVE TypeInv'
  <2>1. PICK by \in Claims(c), op \in {"delete realm", "create schema"}, r \in Realms :
          Begin(c, op, [op |-> op, by |-> by, realm |-> r])
    BY <1>13 DEF EditRealms
  <2> DEFINE q == [op |-> op, by |-> by, realm |-> r]
  <2>2. Moves(c, op, q) /\ UNCHANGED <<db, now, tokens>>
    BY <1>13, <1>s, <2>1, MovesType DEF EditRealms
  <2>3. at'[c] = op
    BY <2>2, MovesTo
  <2>4. req'[c] = q
    BY <2>2, MovesTo
  <2>5. RealmOK(req[c])'
    <3>1. q.by = by /\ q.realm = r
      OBVIOUS
    <3>2. req'[c].by = by /\ req'[c].realm = r
      BY <2>4, <3>1
    <3> QED
      BY <1>c, <3>2 DEF RealmOK
  <2>6. ReqOK(c)'
    BY <2>3, <2>5 DEF ReqOK
  <2> QED
    BY <2>2, <2>6, KeepsTypesOnly
<1>14. ASSUME NEW c \in Clients, DeleteRealm(c) PROVE TypeInv'
  <2> DEFINE r == req[c].realm
  <2>1. Moves(c, "idle", None) /\ UNCHANGED <<schemas, nextId, spent, now, tokens>>
    BY <1>14, MovesType DEF DeleteRealm
  <2>2. \/ UNCHANGED <<users, realms>>
        \/ /\ users' = users \ {u \in users : u.realm = r} /\ realms' = realms \ {r}
           /\ r \notin schemas
    BY <1>14 DEF DeleteRealm
  <2>3. TablesOK'
    BY <1>t, <2>1, <2>2 DEF TablesOK
  <2> QED
    BY <1>t, <2>1, <2>3, SameTokens, IdleKnows, KeepsTypes
<1>15. ASSUME NEW c \in Clients, CreateSchema(c) PROVE TypeInv'
  <2>1. /\ Moves(c, "idle", None) /\ UNCHANGED <<users, realms, nextId, spent, now, tokens>>
        /\ schemas' \subseteq schemas \cup realms
    BY <1>15, MovesType DEF CreateSchema
  <2>2. TablesOK'
    BY <1>t, <2>1 DEF TablesOK
  <2> QED
    BY <1>t, <2>1, <2>2, SameTokens, IdleKnows, KeepsTypes
<1>16. CASE UNCHANGED vars
  BY <1>16 DEF vars, TypeInv, TypeOK, TokensKnown, RequestsKnown, ReqOK, LoginOK, InsertOK,
       PatchOK, RealmOK, db, tokens
<1> QED
  BY <1>1, <1>2, <1>3, <1>4, <1>5, <1>6, <1>7, <1>8, <1>9, <1>10, <1>11, <1>12, <1>13, <1>14,
     <1>15, <1>16 DEF Next, Request, Serve

\* The tables stay whole for any number of clients: ids and usernames are unique,
\* and nobody belongs to a realm that is gone (migrations/13_user_realms.up.sql).
THEOREM TypeCorrect == Spec => []TypeOK
<1>1. TypeInv => TypeOK
  BY DEF TypeInv
<1> QED
  BY <1>1, TypeInit, TypeStep, PTL DEF Spec

-----------------------------------------------------------------------------
(* What becomes of the users.                                              *)

\* v's password_changed stays, with the password, or is now.
PasswordKept(v, u) ==
    \/ u.changed = v.changed /\ u.password = v.password /\ (v.hasty => u.hasty)
    \/ u.changed = now /\ (v.changed = now => u.hasty)

\* A user is new, or has been there, in the same realm and for longer.
LEMMA UsersStep ==
    ASSUME TypeInv, [Next]_vars, NEW u \in users'
    PROVE  \/ u.id = nextId /\ u.changed = now
           \/ \E v \in users : v.id = u.id /\ v.realm = u.realm /\ PasswordKept(v, u)
<1>1. CASE u \in users
  BY <1>1 DEF PasswordKept
<1>2. ASSUME NEW c \in Clients, InsertUser(c), u \notin users PROVE u.id = nextId /\ u.changed = now
  BY <1>2 DEF InsertUser
<1>3. ASSUME NEW c \in Clients, UpdateUser(c), u \notin users
      PROVE  \E v \in users : v.id = u.id /\ v.realm = u.realm /\ PasswordKept(v, u)
  <2>1. PICK v \in users : u = Patched(v, req[c].patch)
    BY <1>3 DEF UpdateUser
  <2>2. v \in User /\ req[c].patch \in AllPatches
    BY <1>3 DEF UpdateUser, TypeInv, TypeOK, RequestsKnown, ReqOK, PatchOK
  <2>3. v.id = u.id /\ v.realm = u.realm
    BY <2>1, <2>2, PatchedUser
  <2>4. PasswordKept(v, u)
    <3>1. CASE req[c].patch.field = "password"
      BY <2>1, <2>2, <3>1, PatchedUser, Zenon DEF PasswordKept
    <3>2. CASE req[c].patch.field # "password"
      BY <2>1, <2>2, <3>2, PatchedUser, Zenon DEF PasswordKept
    <3> QED
      BY <3>1, <3>2
  <2> QED
    BY <2>3, <2>4
<1>4. \A c \in Clients : RemoveUser(c) \/ DeleteRealm(c) => users' \subseteq users
  BY DEF RemoveUser, DeleteRealm
<1>5. \A c \in Clients : Issue(c) \/ CheckSimilar(c) \/ CreateSchema(c) => users' = users
  BY DEF Issue, CheckSimilar, CreateSchema, db
<1>6. \A c \in Clients : Request(c) => users' = users
  BY DEF Request, Authenticate, RefreshAccess, CreateUser, PatchUser, DeleteUser, CreateRealm,
     EditRealms, db
<1>7. Tick \/ UNCHANGED vars => users' = users
  BY DEF Tick, vars, db
<1> QED
  BY <1>1, <1>2, <1>3, <1>4, <1>5, <1>6, <1>7 DEF Next, Serve

\* No password has been changed in the future.
ChangedBefore == \A u \in users : u.changed <= now

\* The clock goes forward, and a password changes now at the latest.
LEMMA TimeStep == TypeInv /\ ChangedBefore /\ [Next]_vars => ChangedBefore' /\ now <= now'
<1> SUFFICES ASSUME TypeInv, ChangedBefore, [Next]_vars PROVE ChangedBefore' /\ now <= now'
  OBVIOUS
<1>1. now \in Nat /\ \A u \in users : u.changed \in Nat
  BY BoundsType DEF TypeInv, TypeOK, User
<1>2. now' = now \/ (Tick /\ now' = now + 1)
  BY DEF Next, Request, Serve, Tick, Authenticate, RefreshAccess, CreateUser, PatchUser,
     DeleteUser, CreateRealm, EditRealms, Issue, InsertUser, CheckSimilar, UpdateUser, RemoveUser,
     DeleteRealm, CreateSchema, vars
<1>3. now <= now'
  BY <1>1, <1>2
<1>4. ASSUME NEW u \in users' PROVE u.changed <= now'
  <2>1. u.changed = now \/ \E v \in users : u.changed = v.changed
    BY UsersStep DEF PasswordKept
  <2> QED
    BY <1>1, <1>2, <2>1 DEF ChangedBefore
<1> QED
  BY <1>3, <1>4 DEF ChangedBefore

\* The user with this id, if there is one, is of realm r; has, at the earliest,
\* changed its password at t, and then to pw or hastily.
RealmOf(i, r) == \A u \in users : u.id = i => u.realm = r
PassOf(i, t, pw) == \A u \in users : u.id = i =>
    t <= u.changed /\ (t = u.changed => pw = u.password \/ u.hasty)

\* Users never change realm and ids are not used again.
LEMMA RealmOfStays ==
    ASSUME TypeInv, [Next]_vars, NEW i \in Nat, i < nextId, NEW r, RealmOf(i, r)
    PROVE  RealmOf(i, r)'
<1>1. nextId \in Nat
  BY BoundsType DEF TypeInv, TypeOK
<1> QED
  BY <1>1, UsersStep DEF RealmOf

\* A password that is changed is changed later, or hastily.
LEMMA PassOfStays ==
    ASSUME TypeInv, ChangedBefore, [Next]_vars, NEW i \in Nat, i < nextId, NEW t \in Times, NEW pw,
           PassOf(i, t, pw)
    PROVE  PassOf(i, t, pw)'
<1>t. nextId \in Nat /\ t \in Nat
  BY BoundsType DEF TypeInv, TypeOK
<1>u. now \in Nat /\ \A u \in users : u.changed \in Nat
  BY BoundsType DEF TypeInv, TypeOK, User
<1>1. nextId \in Nat /\ now \in Nat /\ t \in Nat /\ \A u \in users : u.changed \in Nat
  BY <1>t, <1>u
<1> SUFFICES ASSUME NEW u \in users', u.id = i
             PROVE  t <= u.changed /\ (t = u.changed => pw = u.password \/ u.hasty)
  BY DEF PassOf
<1>2. PICK v \in users : v.id = i /\ PasswordKept(v, u)
  BY <1>1, UsersStep
<1>3. t <= v.changed /\ v.changed <= now /\ (t = v.changed => pw = v.password \/ v.hasty)
  BY <1>2 DEF PassOf, ChangedBefore
<1>4. CASE u.changed = v.changed /\ u.password = v.password /\ (v.hasty => u.hasty)
  BY <1>3, <1>4
<1>5. CASE u.changed = now /\ (v.changed = now => u.hasty)
  <2>1. t <= now /\ (t = now => v.changed = now)
    BY <1>1, <1>3
  <2> QED
    BY <1>5, <2>1
<1> QED
  BY <1>2, <1>4, <1>5 DEF PasswordKept

-----------------------------------------------------------------------------
(* The tokens and the requests are about the users that there are.         *)

TokensSound == \A c \in Clients :
    /\ access[c] # None => RealmOf(access[c].sub, access[c].realm)
    /\ refresh[c] # None => PassOf(refresh[c].sub, refresh[c].changed, refresh[c].password)

UserSound(u) == RealmOf(u.id, u.realm) /\ PassOf(u.id, u.changed, u.password)
InsertSound(rq) == \A r \in rq.roles : MayGrant(rq.by, r, rq.realm)
Itself(rq) == rq.by.realm = None /\ rq.by.roles = {} /\ rq.target = rq.by.sub
PatchSound(rq) ==
    /\ Is(rq.by, "super") \/ Itself(rq) \/ RealmOf(rq.target, rq.by.realm)
    /\ rq.patch.field = "roles" => \A r \in rq.patch.value :
          Is(rq.by, "super") \/ (r # "super" /\ Is(rq.by, "admin"))

ReqSound(c) ==
    /\ at[c] \in {"issue both", "issue"} => UserSound(req[c].user)
    /\ at[c] = "insert" => InsertSound(req[c])
    /\ at[c] \in {"similar", "update"} => PatchSound(req[c])

IInv == TypeInv /\ ChangedBefore /\ TokensSound /\ \A c \in Clients : ReqSound(c)

\* The inductive invariant holds at first.
LEMMA SoundInit == Init => IInv
<1> SUFFICES ASSUME Init PROVE IInv
  OBVIOUS
<1>1. ChangedBefore
  BY AccountsAssumption DEF Init, ChangedBefore
<1>2. TokensSound /\ \A c \in Clients : ReqSound(c)
  BY DEF Init, TokensSound, ReqSound
<1> QED
  BY <1>1, <1>2, TypeInit DEF IInv

\* What is known of a user stays true.
LEMMA UserSoundStays ==
    ASSUME TypeInv, ChangedBefore, [Next]_vars, NEW u \in User, u.id < nextId, UserSound(u)
    PROVE  UserSound(u)'
<1>1. u.id \in Nat /\ u.changed \in Times
  BY BoundsType DEF User
<1> QED
  BY <1>1, RealmOfStays, PassOfStays DEF UserSound

\* A patch that was sound stays so.
LEMMA PatchSoundStays ==
    ASSUME TypeInv, [Next]_vars, NEW q, PatchOK(q), PatchSound(q)
    PROVE  PatchSound(q)'
BY RealmOfStays DEF PatchSound, PatchOK, Itself

\* A request stays sound, and one that ends is.
LEMMA ReqSoundStays ==
    ASSUME IInv, [Next]_vars, NEW c \in Clients, at'[c] = at[c], req'[c] = req[c]
    PROVE  ReqSound(c)'
<1>1. ReqSound(c) /\ ReqOK(c) /\ TypeInv /\ ChangedBefore
  BY DEF IInv, TypeInv, RequestsKnown
<1>2. ASSUME at[c] \in {"issue both", "issue"} PROVE UserSound(req[c].user)'
  <2>1. req[c].user \in User /\ req[c].user.id < nextId /\ UserSound(req[c].user)
    BY <1>1, <1>2 DEF ReqOK, LoginOK, ReqSound
  <2> DEFINE u == req[c].user
  <2>2. \A w \in User : w.id < nextId /\ UserSound(w) => UserSound(w)'
    BY <1>1, UserSoundStays
  <2> QED
    BY <2>1, <2>2 DEF UserSound, RealmOf, PassOf
<1>3. ASSUME at[c] = "insert" PROVE InsertSound(req[c])'
  BY <1>1, <1>3 DEF ReqSound, InsertSound, MayGrant, Is
<1>4. ASSUME at[c] \in {"similar", "update"} PROVE PatchSound(req[c])'
  BY <1>1, <1>4, PatchSoundStays DEF ReqSound, ReqOK, PatchSound, Itself, RealmOf
<1> QED
  BY <1>2, <1>3, <1>4 DEF ReqSound

\* Every step keeps the tokens sound.
LEMMA TokensStep == IInv /\ [Next]_vars => TokensSound'
<1> SUFFICES ASSUME IInv, [Next]_vars PROVE TokensSound'
  OBVIOUS
<1>t. /\ TypeInv /\ TokensSound /\ ChangedBefore
      /\ access \in [Clients -> Access \cup {None}] /\ refresh \in [Clients -> Refresh \cup {None}]
  BY DEF IInv, TypeInv, TypeOK
<1>1. ASSUME UNCHANGED tokens PROVE TokensSound'
  <2>1. UNCHANGED <<access, refresh>>
    BY <1>1 DEF tokens
  <2>2. ASSUME NEW d \in Clients, access[d] # None PROVE RealmOf(access[d].sub, access[d].realm)'
    <3>1. access[d].sub \in Nat /\ access[d].sub < nextId
      BY <1>t, <2>2, BoundsType DEF TypeInv, TokensKnown, Access
    <3>2. \A i \in Nat : \A r : i < nextId /\ RealmOf(i, r) => RealmOf(i, r)'
      BY <1>t, RealmOfStays
    <3> QED
      BY <1>t, <2>1, <2>2, <3>1, <3>2 DEF TokensSound, RealmOf
  <2>3. ASSUME NEW d \in Clients, refresh[d] # None
        PROVE  PassOf(refresh[d].sub, refresh[d].changed, refresh[d].password)'
    <3>1. refresh[d].sub \in Nat /\ refresh[d].sub < nextId /\ refresh[d].changed \in Times
      BY <1>t, <2>3, BoundsType DEF TypeInv, TokensKnown, Refresh
    <3>2. \A i \in Nat, t \in Times : \A pw :
             i < nextId /\ PassOf(i, t, pw) => PassOf(i, t, pw)'
      BY <1>t, PassOfStays
    <3>3. PICK x : x = refresh[d]
      OBVIOUS
    <3>4. PassOf(x.sub, x.changed, x.password)'
      BY <1>t, <2>3, <3>1, <3>2, <3>3 DEF TokensSound
    <3>5. x = refresh'[d]
      BY <2>1, <3>3
    <3> QED
      BY <3>4, <3>5, Zenon DEF PassOf
  <2> QED
    BY <2>1, <2>2, <2>3 DEF TokensSound
<1>2. ASSUME NEW c \in Clients, Issue(c) PROVE TokensSound'
  <2> DEFINE u == req[c].user
             a == [sub |-> u.id, roles |-> u.roles, realm |-> u.realm, exp |-> now + 1]
             r == [sub |-> u.id, changed |-> u.changed, password |-> u.password]
  <2>1. /\ access' = [access EXCEPT ![c] = a] /\ UNCHANGED users
        /\ refresh' = refresh \/ refresh' = [refresh EXCEPT ![c] = r]
    BY <1>2 DEF Issue, db
  <2>2. RealmOf(u.id, u.realm) /\ PassOf(u.id, u.changed, u.password)
    BY <1>2 DEF Issue, IInv, ReqSound, UserSound
  <2>3. a.sub = u.id /\ a.realm = u.realm
    OBVIOUS
  <2>4. r.sub = u.id /\ r.changed = u.changed /\ r.password = u.password
    OBVIOUS
  <2> HIDE DEF a, r
  <2>5. \A d \in Clients : access'[d] = a \/ access'[d] = access[d]
    BY <1>t, <2>1
  <2>6. \A d \in Clients : refresh'[d] = r \/ refresh'[d] = refresh[d]
    BY <1>t, <2>1
  <2>7. \A d \in Clients : access'[d] # None => RealmOf(access'[d].sub, access'[d].realm)
    BY <1>t, <2>2, <2>3, <2>5 DEF TokensSound
  <2>8. \A d \in Clients : refresh'[d] # None =>
          PassOf(refresh'[d].sub, refresh'[d].changed, refresh'[d].password)
    BY <1>t, <2>2, <2>4, <2>6 DEF TokensSound
  <2>9. \A d \in Clients : access'[d] # None => RealmOf(access[d].sub, access[d].realm)'
    BY <2>1, <2>7 DEF RealmOf
  <2>10. \A d \in Clients : refresh'[d] # None =>
          PassOf(refresh[d].sub, refresh[d].changed, refresh[d].password)'
    BY <2>1, <2>8 DEF PassOf
  <2> QED
    BY <2>9, <2>10 DEF TokensSound
<1>3. \A c \in Clients : Request(c) => UNCHANGED tokens
  BY DEF Request, Authenticate, RefreshAccess, CreateUser, PatchUser, DeleteUser, CreateRealm,
     EditRealms
<1>4. \A c \in Clients : Serve(c) => Issue(c) \/ UNCHANGED tokens
  BY DEF Serve, InsertUser, CheckSimilar, UpdateUser, RemoveUser, DeleteRealm, CreateSchema
<1>5. Tick \/ UNCHANGED vars => UNCHANGED tokens
  BY DEF Tick, vars
<1> QED
  BY <1>1, <1>2, <1>3, <1>4, <1>5 DEF Next

\* The roles that a new user gets may be given.
LEMMA GrantedSound ==
    \A by, n, r, t, g, o : InsertSound([op |-> o, by |-> by, name |-> n, realm |-> r,
                                        roles |-> GrantedTo(by, r, g), stars |-> t])
<1> SUFFICES ASSUME NEW by, NEW r, NEW g, NEW x \in GrantedTo(by, r, g) PROVE MayGrant(by, x, r)
  BY DEF InsertSound
<1> QED
  BY DEF GrantedTo, MayGrant

\* A patch that passes the rules may be carried out, if its target is of the realm.
LEMMA ReducedSound ==
    ASSUME NEW by, NEW p \in Patches, Allowed(by, p), Reduced(by, p).field = "roles",
           NEW r \in Reduced(by, p).value
    PROVE  Is(by, "super") \/ (r # "super" /\ Is(by, "admin"))
<1>1. p \in [field : {"roles"}, value : Grants]
  BY DEF Patches, Reduced
<1>2. r \in p.value /\ (~Is(by, "super") => r # "super")
  BY <1>1 DEF Reduced
<1>3. r \in Roles
  BY <1>1, <1>2, AccountsAssumption
<1>4. r \in {"admin", "verified"} => Manages(by)
  BY <1>1, <1>2 DEF Allowed
<1> QED
  BY <1>2, <1>3, <1>4 DEF Roles, Manages

\* A request goes on, starts or ends; the tables are written when it ends.
LEMMA RequestSteps ==
    ASSUME TypeInv, [Next]_vars, NEW d \in Clients
    PROVE  \/ at'[d] = at[d] /\ req'[d] = req[d]
           \/ at'[d] = "idle"
           \/ Authenticate(d) \/ RefreshAccess(d) \/ CreateUser(d) \/ PatchUser(d)
           \/ DeleteUser(d) \/ EditRealms(d)
           \/ CheckSimilar(d) /\ at'[d] = "update" /\ req'[d] = req[d]
<1>t. at \in [Clients -> Statements] /\ req = [c \in Clients |-> req[c]]
  BY DEF TypeInv, TypeOK, RequestsKnown
<1>1. ASSUME NEW c \in Clients, c # d, Request(c) \/ Serve(c)
      PROVE  at'[d] = at[d] /\ req'[d] = req[d]
  <2>1. ASSUME NEW s, NEW q, Begin(c, s, q) PROVE at'[d] = at[d] /\ req'[d] = req[d]
    BY <1>t, <1>1, <2>1 DEF Begin
  <2>2. ASSUME Respond(c) PROVE at'[d] = at[d] /\ req'[d] = req[d]
    BY <1>t, <1>1, <2>2 DEF Respond, Goto
  <2>3. ASSUME NEW s, Goto(c, s), UNCHANGED req PROVE at'[d] = at[d] /\ req'[d] = req[d]
    BY <1>t, <1>1, <2>3 DEF Goto
  <2>4. CASE Request(c)
    BY <2>1, <2>3, <2>4 DEF Request, Authenticate, RefreshAccess, CreateUser, PatchUser, DeleteUser,
       CreateRealm, EditRealms
  <2>5. CASE Serve(c)
    BY <2>2, <2>3, <2>5 DEF Serve, Issue, InsertUser, CheckSimilar, UpdateUser, RemoveUser,
       DeleteRealm, CreateSchema
  <2> QED
    BY <1>1, <2>4, <2>5
<1>2. CASE CreateRealm(d)
  BY <1>t, <1>2 DEF CreateRealm, Goto
<1>3. ASSUME Respond(d) PROVE at'[d] = "idle"
  BY <1>t, <1>3 DEF Respond, Goto
<1>4. CASE Issue(d) \/ InsertUser(d) \/ UpdateUser(d) \/ RemoveUser(d) \/ DeleteRealm(d) \/
           CreateSchema(d)
  BY <1>3, <1>4 DEF Issue, InsertUser, UpdateUser, RemoveUser, DeleteRealm, CreateSchema
<1>5. CASE CheckSimilar(d)
  BY <1>t, <1>3, <1>5 DEF CheckSimilar, Goto
<1>6. CASE Tick \/ UNCHANGED vars
  BY <1>6 DEF Tick, vars
<1> QED
  BY <1>1, <1>2, <1>4, <1>5, <1>6 DEF Next, Request, Serve

\* Every step keeps the requests sound.
LEMMA ReqStep == IInv /\ [Next]_vars => \A d \in Clients : ReqSound(d)'
<1> SUFFICES ASSUME IInv, [Next]_vars, NEW d \in Clients PROVE ReqSound(d)'
  OBVIOUS
<1>t. /\ TypeInv /\ TokensSound /\ ReqSound(d) /\ at \in [Clients -> Statements]
      /\ req = [c \in Clients |-> req[c]] /\ users \subseteq User
      /\ \A u, v \in users : u.id = v.id => u = v
      /\ access[d] \in Access \cup {None} /\ refresh[d] \in Refresh \cup {None}
  BY DEF IInv, TypeInv, TypeOK, RequestsKnown
<1>1. CASE at'[d] = at[d] /\ req'[d] = req[d]
  BY <1>1, ReqSoundStays
<1>2. CASE at'[d] = "idle"
  BY <1>2 DEF ReqSound
<1>3. CASE Authenticate(d) \/ RefreshAccess(d)
  <2>1. PICK u \in users : req'[d].user = u
    <3>1. CASE Authenticate(d)
      <4>1. PICK u \in users : Begin(d, "issue both", [op |-> "login", by |-> None, user |-> u])
        BY <3>1 DEF Authenticate
      <4>2. req'[d] = [op |-> "login", by |-> None, user |-> u]
        BY <1>t, <4>1 DEF Begin
      <4> QED
        BY <4>2
    <3>2. CASE RefreshAccess(d)
      BY <1>t, <3>2 DEF RefreshAccess, Begin, With
    <3> QED
      BY <1>3, <3>1, <3>2
  <2>6. at'[d] = "issue both" \/ at'[d] = "issue"
    BY <1>t, <1>3 DEF Authenticate, RefreshAccess, Begin
  <2>2. UNCHANGED users
    BY <1>3 DEF Authenticate, RefreshAccess, db
  <2>3. UserSound(u)
    <3>1. RealmOf(u.id, u.realm)
      BY <1>t DEF RealmOf
    <3>2. u.changed \in Nat
      BY <1>t, BoundsType DEF User
    <3>3. PassOf(u.id, u.changed, u.password)
      <4> SUFFICES ASSUME NEW v \in users, v.id = u.id
                   PROVE  u.changed <= v.changed /\
                          (u.changed = v.changed => u.password = v.password \/ v.hasty)
        BY DEF PassOf
      <4>1. v = u
        BY <1>t
      <4> QED
        BY <3>2, <4>1
    <3> QED
      BY <3>1, <3>3 DEF UserSound
  <2>4. UserSound(u)'
    BY <2>2, <2>3 DEF UserSound, RealmOf, PassOf
  <2>5. UserSound(req[d].user)'
    BY <2>1, <2>4 DEF UserSound, RealmOf, PassOf
  <2> QED
    BY <2>5, <2>6 DEF ReqSound
<1>4. CASE CreateUser(d)
  <2>1. PICK by, n, r, g, t :
          Begin(d, "insert", [op |-> "create", by |-> by, name |-> n, realm |-> r,
                              roles |-> GrantedTo(by, r, g), stars |-> t])
    BY <1>4 DEF CreateUser
  <2> DEFINE q == [op |-> "create", by |-> by, name |-> n, realm |-> r,
                   roles |-> GrantedTo(by, r, g), stars |-> t]
  <2>2. at'[d] = "insert" /\ req'[d] = q
    BY <1>t, <2>1 DEF Begin
  <2>3. InsertSound(q)
    BY GrantedSound
  <2>4. InsertSound(req[d])'
    BY <2>2, <2>3 DEF InsertSound, MayGrant, Is
  <2> QED
    BY <2>2, <2>4 DEF ReqSound
<1>5. CASE PatchUser(d)
  <2>1. PICK by \in Claims(d), i \in 1..(nextId - 1), p \in Patches :
          /\ i = by.sub \/ Is(by, "super") \/ \E u \in With(i) :
                u.realm = by.realm /\ "super" \notin u.roles
          /\ Allowed(by, p)
          /\ Begin(d, AfterTarget(p), [op |-> "patch", by |-> by, target |-> i,
                                       patch |-> Reduced(by, p)])
    BY <1>5 DEF PatchUser
  <2> DEFINE q == [op |-> "patch", by |-> by, target |-> i, patch |-> Reduced(by, p)]
  <2>2. at'[d] \in {"similar", "update"}
    BY <1>t, <2>1 DEF Begin, AfterTarget
  <2>3. req'[d] = q /\ UNCHANGED users
    BY <1>5, <1>t, <2>1 DEF PatchUser, Begin, db
  <2>5. q.by = by /\ q.target = i /\ q.patch = Reduced(by, p)
    OBVIOUS
  <2> HIDE DEF q
  <2>4. Is(by, "super") \/ Itself(q) \/ RealmOf(i, by.realm)
    <3>1. CASE i = by.sub
      <4>1. \/ access[d] # None /\ by.sub = access[d].sub /\ by.realm = access[d].realm
            \/ by.realm = None /\ by.roles = {}
        BY <1>t, ClaimsType
      <4> QED
        BY <1>t, <2>5, <3>1, <4>1 DEF Itself, TokensSound
    <3>2. CASE i # by.sub
      BY <1>t, <2>1, <3>2 DEF RealmOf, With
    <3> QED
      BY <3>1, <3>2
  <2>6. PatchSound(q)
    BY <2>1, <2>4, <2>5, ReducedSound DEF PatchSound
  <2>7. PatchSound(req[d])'
    BY <2>3, <2>6 DEF PatchSound, Itself, RealmOf, Is
  <2> QED
    BY <2>2, <2>7 DEF ReqSound
<1>6. CASE DeleteUser(d)
  <2>1. at'[d] = "remove"
    BY <1>t, <1>6 DEF DeleteUser, Begin
  <2> QED
    BY <2>1 DEF ReqSound
<1>7. CASE EditRealms(d)
  <2>1. at'[d] \in {"delete realm", "create schema"}
    BY <1>t, <1>7 DEF EditRealms, Begin
  <2> QED
    BY <2>1 DEF ReqSound
<1>8. CASE CheckSimilar(d) /\ at'[d] = "update" /\ req'[d] = req[d]
  <2>1. PatchSound(req[d]) /\ UNCHANGED users
    BY <1>t, <1>8 DEF CheckSimilar, ReqSound, db
  <2>2. PatchSound(req[d])'
    BY <1>8, <2>1 DEF PatchSound, Itself, RealmOf, Is
  <2> QED
    BY <1>8, <2>2 DEF ReqSound
<1> QED
  BY <1>t, <1>1, <1>2, <1>3, <1>4, <1>5, <1>6, <1>7, <1>8, RequestSteps

\* IInv is inductive.
LEMMA InductiveStep == IInv /\ [Next]_vars => IInv'
BY TypeStep, TimeStep, TokensStep, ReqStep DEF IInv

\* A refresh token gives access tokens only while the password is the one of its log
\* in, for any number of clients that log in or change passwords at once
\* (users.go:179-183).
THEOREM RefreshNeedsPasswordCorrect == Spec => RefreshNeedsPassword
<1> DEFINE Needs == \A c \in Clients : at[c] = "idle" /\ at'[c] = "issue" =>
               \A u \in With(refresh[c].sub) : refresh[c].password = u.password \/ u.hasty
<1>1. ASSUME IInv, [Next]_vars PROVE Needs
  <2> SUFFICES ASSUME NEW c \in Clients, at[c] = "idle", at'[c] = "issue",
                      NEW u \in With(refresh[c].sub)
               PROVE  refresh[c].password = u.password \/ u.hasty
    OBVIOUS
  <2>t. /\ TypeInv /\ TokensSound /\ at \in [Clients -> Statements]
        /\ \A v, w \in users : v.id = w.id => v = w
    BY <1>1 DEF IInv, TypeInv, TypeOK
  <2>1. RefreshAccess(c)
    <3>1. \A s, q : Begin(c, s, q) => at'[c] = s
      BY <2>t DEF Begin
    <3>2. ~Authenticate(c) /\ ~CreateUser(c) /\ ~PatchUser(c) /\ ~DeleteUser(c) /\ ~EditRealms(c)
      BY <3>1 DEF Authenticate, CreateUser, PatchUser, AfterTarget, DeleteUser, EditRealms
    <3> QED
      BY <1>1, <2>t, <3>2, RequestSteps
  <2>2. refresh[c] # None /\ u.changed = refresh[c].changed
    BY <2>t, <2>1 DEF RefreshAccess, With
  <2>3. PassOf(refresh[c].sub, refresh[c].changed, refresh[c].password)
    BY <2>t, <2>2 DEF TokensSound
  <2> QED
    BY <2>2, <2>3 DEF PassOf, With
<1>2. IInv /\ [Next]_vars => [Needs]_vars
  BY <1>1
<1> QED
  BY <1>2, SoundInit, InductiveStep, PTL DEF Spec, RefreshNeedsPassword

-----------------------------------------------------------------------------
(* What a request may do to the users.                                     *)

\* A client acts when one of its statements ends its request.
LEMMA ActsBy ==
    ASSUME TypeInv, [Next]_vars, NEW d \in Clients, Acts(d)
    PROVE  \/ UNCHANGED users
           \/ InsertUser(d) \/ UpdateUser(d) \/ RemoveUser(d) \/ DeleteRealm(d)
<1>t. at \in [Clients -> Statements]
  BY DEF TypeInv, TypeOK
<1>1. ASSUME NEW c \in Clients, c # d, \E s : at' = [at EXCEPT ![c] = s] PROVE FALSE
  BY <1>t, <1>1 DEF Acts
<1>2. \A c \in Clients : InsertUser(c) \/ UpdateUser(c) \/ RemoveUser(c) \/ DeleteRealm(c) =>
        \E s : at' = [at EXCEPT ![c] = s]
  BY DEF InsertUser, UpdateUser, RemoveUser, DeleteRealm, Respond, Goto
<1>3. \A c \in Clients : Request(c) => UNCHANGED users
  BY DEF Request, Authenticate, RefreshAccess, CreateUser, PatchUser, DeleteUser, CreateRealm,
     EditRealms, db
<1>4. \A c \in Clients : Issue(c) \/ CheckSimilar(c) \/ CreateSchema(c) => UNCHANGED users
  BY DEF Issue, CheckSimilar, CreateSchema, db
<1>5. Tick \/ UNCHANGED vars => UNCHANGED users
  BY DEF Tick, vars, db
<1> QED
  BY <1>1, <1>2, <1>3, <1>4, <1>5 DEF Next, Serve

\* Who is changed by an update is the one it is about.
LEMMA UpdateTarget ==
    ASSUME TypeInv, NEW c \in Clients, UpdateUser(c)
    PROVE  /\ \A u \in users \ users' : u.id = req[c].target
           /\ \A u \in users' : \E v \in users :
                 u = v \/ (v.id = req[c].target /\ u = Patched(v, req[c].patch))
           /\ req[c].patch \in AllPatches
<1>1. req[c].patch \in AllPatches
  BY DEF UpdateUser, TypeInv, TypeOK, RequestsKnown, ReqOK, PatchOK
<1>2. CASE UNCHANGED users
  BY <1>1, <1>2
<1>3. CASE users' = {IF u.id = req[c].target THEN Patched(u, req[c].patch) ELSE u : u \in users}
  BY <1>1, <1>3
<1> QED
  BY <1>2, <1>3 DEF UpdateUser

\* An update removes nobody.
LEMMA UpdateKeeps ==
    ASSUME TypeInv, NEW c \in Clients, UpdateUser(c), NEW u \in users
    PROVE  \E v \in users' : v.id = u.id
<1>1. u \in User /\ req[c].patch \in AllPatches
  BY UpdateTarget DEF TypeInv, TypeOK
<1>2. Patched(u, req[c].patch).id = u.id
  BY <1>1, PatchedUser
<1>3. CASE UNCHANGED users
  BY <1>3
<1>4. CASE users' = {IF v.id = req[c].target THEN Patched(v, req[c].patch) ELSE v : v \in users}
  BY <1>2, <1>4
<1> QED
  BY <1>3, <1>4 DEF UpdateUser

\* For any number of clients, only super admins change or remove users of another
\* realm than their own, and who comes with a refresh token changes its own user at
\* most (users.go:370-386, 469-489).
THEOREM OwnRealmOnlyCorrect == Spec => OwnRealmOnly
<1> DEFINE May(c, u) ==
               \/ u.realm = By(c).realm
               \/ By(c).realm = None /\ u.id = By(c).sub /\ \E v \in users' : v.id = u.id
           Own == \A c \in Clients : Acts(c) /\ ~Is(By(c), "super") =>
                      \A u \in users \ users' : May(c, u)
<1>1. ASSUME IInv, [Next]_vars PROVE Own
  <2> SUFFICES ASSUME NEW c \in Clients, Acts(c), ~Is(By(c), "super"), NEW u \in users \ users'
               PROVE  May(c, u)
    OBVIOUS
  <2>t. TypeInv /\ ReqSound(c)
    BY <1>1 DEF IInv
  <2>1. CASE InsertUser(c)
    BY <2>1 DEF InsertUser
  <2>2. CASE UpdateUser(c)
    <3>1. u.id = req[c].target
      BY <2>t, <2>2, UpdateTarget
    <3>2. Itself(req[c]) \/ RealmOf(req[c].target, req[c].by.realm)
      BY <2>t, <2>2 DEF UpdateUser, ReqSound, PatchSound, By
    <3>3. \E v \in users' : v.id = u.id
      BY <2>t, <2>2, UpdateKeeps
    <3> QED
      BY <3>1, <3>2, <3>3 DEF RealmOf, Itself, By
  <2>3. CASE RemoveUser(c)
    BY <2>3 DEF RemoveUser, Removable, By
  <2>4. CASE DeleteRealm(c)
    BY <2>4 DEF DeleteRealm, By
  <2> QED
    BY <1>1, <2>t, <2>1, <2>2, <2>3, <2>4, ActsBy
<1>2. IInv /\ [Next]_vars => [Own]_vars
  BY <1>1
<1> QED
  BY <1>2, SoundInit, InductiveStep, PTL DEF Spec, OwnRealmOnly

\* For any number of clients, roles come from those who have them (users.go:204-221,
\* 388-397).
THEOREM RightsGrantedCorrect == Spec => RightsGranted
<1> DEFINE Granted == \A u \in users' : \A r \in u.roles :
               \/ \E v \in users : v.id = u.id /\ r \in v.roles
               \/ \E c \in Clients : Acts(c) /\ MayGrant(By(c), r, u.realm)
<1>1. ASSUME IInv, [Next]_vars PROVE Granted
  <2> SUFFICES ASSUME NEW u \in users', NEW r \in u.roles,
                      ~\E v \in users : v.id = u.id /\ r \in v.roles
               PROVE  \E c \in Clients : Acts(c) /\ MayGrant(By(c), r, u.realm)
    OBVIOUS
  <2>t. /\ TypeInv /\ at \in [Clients -> Statements] /\ users \subseteq User
        /\ \A c \in Clients : ReqSound(c) /\ ReqOK(c)
    BY <1>1 DEF IInv, TypeInv, TypeOK, RequestsKnown
  <2>a. \A c \in Clients : Respond(c) /\ at[c] # "idle" => Acts(c)
    BY <2>t DEF Respond, Goto, Acts
  <2>1. ASSUME NEW c \in Clients, InsertUser(c)
        PROVE  \E d \in Clients : Acts(d) /\ MayGrant(By(d), r, u.realm)
    <3>1. at[c] = "insert" /\ Acts(c)
      BY <2>1, <2>a DEF InsertUser
    <3>2. u.roles = req[c].roles /\ u.realm = req[c].realm
      BY <2>1 DEF InsertUser
    <3>3. MayGrant(req[c].by, r, u.realm)
      BY <2>t, <3>1, <3>2 DEF ReqSound, InsertSound
    <3> QED
      BY <3>1, <3>3 DEF By
  <2>2. ASSUME NEW c \in Clients, UpdateUser(c)
        PROVE  \E d \in Clients : Acts(d) /\ MayGrant(By(d), r, u.realm)
    <3> DEFINE p == req[c].patch
               by == req[c].by
    <3>1. at[c] = "update" /\ Acts(c)
      BY <2>2, <2>a DEF UpdateUser
    <3>2. PICK v \in users : v.id = req[c].target /\ u = Patched(v, p)
      BY <2>t, <2>2, UpdateTarget
    <3>3. v \in User /\ p \in AllPatches
      BY <2>t, <2>2, UpdateTarget
    <3>4. u.id = v.id /\ u.realm = v.realm /\ p.field = "roles" /\ r \in p.value
      BY <2>t, <3>2, <3>3, PatchedUser
    <3>5. PatchSound(req[c])
      BY <2>t, <3>1 DEF ReqSound
    <3>7. Is(by, "super") \/ (r # "super" /\ Is(by, "admin"))
      BY <3>4, <3>5 DEF PatchSound
    <3>6. ~Is(by, "super") => u.realm = by.realm
      BY <3>2, <3>4, <3>5, <3>7 DEF PatchSound, RealmOf, Itself, Is
    <3>8. MayGrant(by, r, u.realm)
      BY <3>6, <3>7 DEF MayGrant
    <3> QED
      BY <3>1, <3>8 DEF By
  <2>3. \A c \in Clients : RemoveUser(c) \/ DeleteRealm(c) => users' \subseteq users
    BY DEF RemoveUser, DeleteRealm
  <2>4. \A c \in Clients : Request(c) => UNCHANGED users
    BY DEF Request, Authenticate, RefreshAccess, CreateUser, PatchUser, DeleteUser, CreateRealm,
       EditRealms, db
  <2>5. \A c \in Clients : Issue(c) \/ CheckSimilar(c) \/ CreateSchema(c) => UNCHANGED users
    BY DEF Issue, CheckSimilar, CreateSchema, db
  <2>6. Tick \/ UNCHANGED vars => UNCHANGED users
    BY DEF Tick, vars, db
  <2> QED
    BY <1>1, <2>1, <2>2, <2>3, <2>4, <2>5, <2>6 DEF Next, Serve
<1>2. IInv /\ [Next]_vars => [Granted]_vars
  BY <1>1
<1> QED
  BY <1>2, SoundInit, InductiveStep, PTL DEF Spec, RightsGranted

\* The client whose request nobody has come into still sees what it has checked.
AloneSound(c) == lone = c =>
    /\ at[c] = "insert" => \A u \in users : Lower[u.name] # Lower[req[c].name]
    /\ at[c] = "update" /\ req[c].patch.field = "name" =>
          \A u \in users : Lower[u.name] = Lower[req[c].patch.value] => u.id = req[c].target
    /\ at[c] \in {"similar", "update", "remove"} /\ ~Is(req[c].by, "super") =>
          \A u \in users : u.id = req[c].target /\ "super" \in u.roles => u.id = req[c].by.sub

Alone == \A c \in Clients : AloneSound(c)

\* Only steps of its own leave a client alone, and the clock.
LEMMA AloneSteps ==
    ASSUME TypeInv, [Next]_vars, NEW d \in Clients, lone' = d
    PROVE  \/ lone = d /\ at'[d] = at[d] /\ req'[d] = req[d] /\ UNCHANGED users
           \/ at'[d] \notin {"insert", "similar", "update", "remove"}
           \/ CreateUser(d) \/ PatchUser(d) \/ DeleteUser(d)
           \/ CheckSimilar(d) /\ lone = d /\ at'[d] = "update" /\ req'[d] = req[d]
<1>t. at \in [Clients -> Statements] /\ d # None
  BY AccountsAssumption DEF TypeInv, TypeOK
<1>1. ASSUME NEW c \in Clients, Step(c) PROVE c = d
  BY <1>t, <1>1 DEF Step
<1>2. \A c \in Clients : Request(c) => Step(c)
  <2>1. \A c \in Clients : (\E s, q : Begin(c, s, q)) => Step(c)
    BY DEF Begin
  <2>2. \A c \in Clients : CreateRealm(c) => Step(c)
    BY DEF CreateRealm, Goto
  <2>3. \A c \in Clients : Authenticate(c) \/ RefreshAccess(c) \/ CreateUser(c) =>
          \E s, q : Begin(c, s, q)
    BY DEF Authenticate, RefreshAccess, CreateUser
  <2>4. \A c \in Clients : PatchUser(c) \/ DeleteUser(c) \/ EditRealms(c) =>
          \E s, q : Begin(c, s, q)
    BY DEF PatchUser, DeleteUser, EditRealms
  <2> QED
    BY <2>1, <2>2, <2>3, <2>4 DEF Request
<1>3. \A c \in Clients : Serve(c) => Step(c)
  BY DEF Serve, Issue, InsertUser, CheckSimilar, UpdateUser, RemoveUser, DeleteRealm,
     CreateSchema, Respond, Goto
<1>4. CASE Authenticate(d) \/ RefreshAccess(d)
  <2>1. at'[d] = "issue both" \/ at'[d] = "issue"
    BY <1>t, <1>4 DEF Authenticate, RefreshAccess, Begin
  <2> QED
    BY <2>1
<1>5. CASE EditRealms(d)
  <2>1. at'[d] = "delete realm" \/ at'[d] = "create schema"
    BY <1>t, <1>5 DEF EditRealms, Begin
  <2> QED
    BY <2>1
<1>6. CASE CreateRealm(d)
  BY <1>t, <1>6 DEF CreateRealm, Goto
<1>7. ASSUME Respond(d) PROVE at'[d] = "idle"
  BY <1>t, <1>7 DEF Respond, Goto
<1>8. CASE Issue(d) \/ InsertUser(d) \/ UpdateUser(d) \/ RemoveUser(d) \/ DeleteRealm(d) \/
           CreateSchema(d)
  BY <1>7, <1>8 DEF Issue, InsertUser, UpdateUser, RemoveUser, DeleteRealm, CreateSchema
<1>9. CASE CheckSimilar(d)
  BY <1>t, <1>7, <1>9 DEF CheckSimilar, Goto, Step
<1>10. CASE Tick \/ UNCHANGED vars
  BY <1>10 DEF Tick, vars, db
<1> QED
  BY <1>1, <1>2, <1>3, <1>4, <1>5, <1>6, <1>8, <1>9, <1>10 DEF Next, Request, Serve

\* What an undisturbed client has checked stays true.
LEMMA AloneStep == TypeInv /\ Alone /\ [Next]_vars => Alone'
<1> SUFFICES ASSUME TypeInv, Alone, [Next]_vars, NEW d \in Clients, lone' = d
             PROVE  AloneSound(d)'
  BY DEF Alone, AloneSound
<1>t. /\ at \in [Clients -> Statements] /\ req = [c \in Clients |-> req[c]] /\ AloneSound(d)
      /\ \A u, v \in users : u.id = v.id => u = v
  BY DEF TypeInv, TypeOK, RequestsKnown, Alone
<1>1. CASE lone = d /\ at'[d] = at[d] /\ req'[d] = req[d] /\ UNCHANGED users
  BY <1>t, <1>1 DEF AloneSound, Is
<1>2. CASE at'[d] \notin {"insert", "similar", "update", "remove"}
  BY <1>2 DEF AloneSound
<1>3. CASE CreateUser(d)
  <2>1. PICK by, n, r, g, t :
          /\ ~Similar(n, None)
          /\ Begin(d, "insert", [op |-> "create", by |-> by, name |-> n, realm |-> r,
                                 roles |-> GrantedTo(by, r, g), stars |-> t])
    BY <1>3 DEF CreateUser
  <2>2. at'[d] = "insert" /\ UNCHANGED users
    BY <1>3, <1>t, <2>1 DEF CreateUser, Begin, db
  <2>3. req'[d].name = n
    <3>1. req'[d] = [op |-> "create", by |-> by, name |-> n, realm |-> r,
                     roles |-> GrantedTo(by, r, g), stars |-> t]
      BY <1>t, <2>1 DEF Begin
    <3> QED
      BY <3>1
  <2>4. \A u \in users : u.id # None
    BY AccountsAssumption DEF TypeInv, TypeOK, User
  <2> QED
    BY <2>1, <2>2, <2>3, <2>4 DEF AloneSound, Similar
<1>4. CASE PatchUser(d)
  <2>1. PICK by \in Claims(d), i \in 1..(nextId - 1), p \in Patches :
          /\ i = by.sub \/ Is(by, "super") \/ \E u \in With(i) :
                u.realm = by.realm /\ "super" \notin u.roles
          /\ Begin(d, AfterTarget(p), [op |-> "patch", by |-> by, target |-> i,
                                       patch |-> Reduced(by, p)])
    BY <1>4 DEF PatchUser
  <2> DEFINE q == [op |-> "patch", by |-> by, target |-> i, patch |-> Reduced(by, p)]
  <2>2. at'[d] = AfterTarget(p)
    BY <1>t, <2>1 DEF Begin
  <2>3. req'[d] = q /\ UNCHANGED users
    BY <1>4, <1>t, <2>1 DEF PatchUser, Begin, db
  <2>4. q.by = by /\ q.target = i /\ q.patch = Reduced(by, p)
    OBVIOUS
  <2> HIDE DEF q
  <2>5. at'[d] = "update" => req'[d].patch.field # "name"
    <3>1. Reduced(by, p).field = p.field
      BY DEF Reduced, Patches
    <3> QED
      BY <2>2, <2>3, <2>4, <3>1 DEF AfterTarget
  <2>6. at'[d] # "insert"
    BY <2>2 DEF AfterTarget
  <2>7. ~Is(by, "super") => \A u \in users : u.id = i /\ "super" \in u.roles => u.id = by.sub
    BY <1>t, <2>1 DEF With
  <2> QED
    BY <2>3, <2>4, <2>5, <2>6, <2>7 DEF AloneSound, Is
<1>5. CASE DeleteUser(d)
  <2>1. PICK by \in Claims(d), i \in 1..(nextId - 1) :
          /\ Is(by, "super") \/ \E u \in With(i) : "super" \notin u.roles
          /\ Begin(d, "remove", [op |-> "delete", by |-> by, target |-> i])
    BY <1>5 DEF DeleteUser
  <2>2. at'[d] = "remove" /\ UNCHANGED users
    BY <1>5, <1>t, <2>1 DEF DeleteUser, Begin, db
  <2>3. req'[d] = [op |-> "delete", by |-> by, target |-> i]
    BY <1>t, <2>1 DEF Begin
  <2>4. req'[d].by = by /\ req'[d].target = i
    BY <2>3
  <2>5. ~Is(by, "super") => \A u \in users : u.id = i => "super" \notin u.roles
    BY <1>t, <2>1 DEF With
  <2> QED
    BY <2>2, <2>4, <2>5 DEF AloneSound, Is
<1>6. CASE CheckSimilar(d) /\ lone = d /\ at'[d] = "update" /\ req'[d] = req[d]
  <2>1. at[d] = "similar" /\ UNCHANGED users /\ ~Similar(req[d].patch.value, req[d].target)
    <3>1. Respond(d) => at'[d] = "idle"
      BY <1>t DEF Respond, Goto
    <3> QED
      BY <1>6, <3>1 DEF CheckSimilar, db
  <2> QED
    BY <1>t, <1>6, <2>1 DEF AloneSound, Similar, Is
<1> QED
  BY <1>1, <1>2, <1>3, <1>4, <1>5, <1>6, AloneSteps

\* No client has checked anything at first.
LEMMA AloneInit == Init => Alone
BY DEF Init, Alone, AloneSound

\* "Only super-admins can edit super-admins", for any number of clients, where
\* nobody comes in between (users.go:370-386, 469-489).
THEOREM SupersSafeCorrect == Spec => SupersSafe
<1> DEFINE Safe == \A c \in Clients :
               Acts(c) /\ at[c] \in {"update", "remove"} /\ Undisturbed(c) /\ ~Is(By(c), "super") =>
                   \A u \in users \ users' : "super" \in u.roles => u.id = By(c).sub
<1>1. ASSUME TypeInv, Alone, [Next]_vars PROVE Safe
  <2> SUFFICES ASSUME NEW c \in Clients, Acts(c), at[c] \in {"update", "remove"}, lone = c,
                      ~Is(req[c].by, "super"), NEW u \in users \ users', "super" \in u.roles
               PROVE  u.id = req[c].by.sub
    BY DEF Undisturbed, By
  <2>1. AloneSound(c)
    BY <1>1 DEF Alone
  <2>2. u.id = req[c].target
    <3>1. CASE UpdateUser(c)
      BY <1>1, <3>1, UpdateTarget
    <3>2. CASE RemoveUser(c)
      BY <3>2 DEF RemoveUser, Removable, With
    <3>3. ~InsertUser(c) /\ ~DeleteRealm(c)
      BY DEF InsertUser, DeleteRealm
    <3> QED
      BY <1>1, <3>1, <3>2, <3>3, ActsBy
  <2> QED
    BY <2>1, <2>2 DEF AloneSound
<1>2. TypeInv /\ Alone /\ [Next]_vars => [Safe]_vars
  BY <1>1
<1> QED
  BY <1>2, TypeInit, TypeStep, AloneInit, AloneStep, PTL DEF Spec, SupersSafe

\* Two usernames become alike only by requests that overlap, for any number of
\* clients (users.go:228, 404-405).
THEOREM NamesDistinctCorrect == Spec => NamesDistinct
<1> DEFINE Distinct == \A c \in Clients : Acts(c) /\ Undisturbed(c) =>
               \A u \in users' \ users, v \in users' :
                   Lower[u.name] = Lower[v.name] =>
                       u.id = v.id \/ \E w \in users : w.id = u.id /\ w.name = u.name
<1>1. ASSUME TypeInv, Alone, [Next]_vars PROVE Distinct
  <2> SUFFICES ASSUME NEW c \in Clients, Acts(c), lone = c, NEW u \in users' \ users,
                      NEW v \in users', Lower[u.name] = Lower[v.name]
               PROVE  u.id = v.id \/ \E w \in users : w.id = u.id /\ w.name = u.name
    BY DEF Undisturbed
  <2>t. AloneSound(c) /\ users \subseteq User
    BY <1>1 DEF Alone, TypeInv, TypeOK
  <2>1. CASE InsertUser(c)
    <3>1. at[c] = "insert"
      BY <2>1 DEF InsertUser
    <3> DEFINE n == [id |-> nextId, name |-> req[c].name, realm |-> req[c].realm,
                     roles |-> req[c].roles, stars |-> req[c].stars, changed |-> now,
                     password |-> 0, hasty |-> FALSE]
    <3>2. users' = users \/ users' = users \cup {n}
      BY <2>1 DEF InsertUser
    <3>4. n.name = req[c].name
      OBVIOUS
    <3> HIDE DEF n
    <3>3. u.name = req[c].name /\ (v \in users \/ v = u)
      BY <3>2, <3>4
    <3> QED
      BY <2>t, <3>1, <3>3 DEF AloneSound
  <2>2. CASE UpdateUser(c)
    <3>1. at[c] = "update" /\ req[c].patch \in AllPatches
      BY <1>1, <2>2, UpdateTarget DEF UpdateUser
    <3>2. PICK a \in users : a.id = req[c].target /\ u = Patched(a, req[c].patch)
      BY <1>1, <2>2, UpdateTarget
    <3>3. PICK b \in users : v = b \/ (b.id = req[c].target /\ v = Patched(b, req[c].patch))
      BY <1>1, <2>2, UpdateTarget
    <3>4. /\ u.id = a.id /\ v.id = b.id
          /\ u.name = IF req[c].patch.field = "name" THEN req[c].patch.value ELSE a.name
      BY <1>1, <2>t, <3>1, <3>2, <3>3, PatchedUser
    <3>5. CASE req[c].patch.field # "name"
      BY <3>4, <3>5
    <3>6. CASE req[c].patch.field = "name" /\ v = b
      BY <2>t, <3>1, <3>2, <3>4, <3>6 DEF AloneSound
    <3>7. CASE b.id = req[c].target
      BY <3>2, <3>4, <3>7
    <3> QED
      BY <3>3, <3>5, <3>6, <3>7
  <2>3. RemoveUser(c) \/ DeleteRealm(c) => users' \subseteq users
    BY DEF RemoveUser, DeleteRealm
  <2> QED
    BY <1>1, <2>1, <2>2, <2>3, ActsBy
<1>2. TypeInv /\ Alone /\ [Next]_vars => [Distinct]_vars
  BY <1>1
<1> QED
  BY <1>2, TypeInit, TypeStep, AloneInit, AloneStep, PTL DEF Spec, NamesDistinct
=============================================================================
