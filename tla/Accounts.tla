------------------------------ MODULE Accounts -------------------------------
(***************************************************************************)
(* Users, realms and the tokens that name them: the handlers of            *)
(* src/internal/server/users.go, realms.go and schemas.go that write, with *)
(* their statements in src/internal/store, behind Auth and ACL of          *)
(* src/internal/http/middleware.go.                                        *)
(*                                                                         *)
(* A client logs in, and then makes one request after the other with one   *)
(* of its tokens: the access token, whose roles and realm are those of the *)
(* moment it was issued, or the refresh token, which has neither.  A       *)
(* handler that looks before it writes does so in a statement of its own,  *)
(* on another connection, so others may come in between.  editRealm does   *)
(* everything under one table lock, in one step here.  Time is in units of *)
(* the access token's life, and password_changed is compared in the same   *)
(* unit, as it is in seconds by the program.  A refresh token outlives     *)
(* every behaviour here.                                                   *)
(***************************************************************************)
EXTENDS Integers, FiniteSets

CONSTANTS
    Clients,
    Names, Lower,       \* usernames, and Lower[n]: the name in lower case
    Realms,
    InitialUsers, InitialRealms,
    EventRealms,        \* the realms that have events
    Grants,             \* the roles that a request may ask for
    None,
    MaxUsers,           \* bound: users ever created
    MaxTime,            \* bound: time
    MaxRequests         \* bound: requests made by all clients

Roles == {"verified", "admin", "super"}
Ids == 1..MaxUsers
Times == 0..MaxTime

\* A row of the users table.  stars: the user has some; password: which one it
\* is; hasty: it was changed in the very second of the change before (both are
\* no columns of the table, which has a hash instead).
User == [id : Ids, name : Names, realm : Realms, roles : SUBSET Roles, stars : BOOLEAN,
         changed : Times, password : Nat, hasty : BOOLEAN]

\* The claims of the access token, None without, and those of the refresh token.
Access == [sub : Ids, roles : SUBSET Roles, realm : Realms, exp : 0..MaxTime + 1]
Refresh == [sub : Ids, changed : Times, password : Nat]

\* Who a request is from, as Auth tells the handlers.  Realm 0, which no realm
\* has, is None.
Caller == [sub : Ids, roles : SUBSET Roles, realm : Realms \cup {None}]

ASSUME AccountsAssumption ==
    /\ Lower \in [Names -> Names]
    /\ InitialRealms \subseteq Realms /\ EventRealms \subseteq InitialRealms
    /\ Grants \subseteq SUBSET Roles
    /\ {MaxUsers, MaxTime, MaxRequests} \subseteq Nat
    /\ None \notin Ids \cup Clients \cup Realms
    /\ InitialUsers \subseteq User /\ Cardinality(InitialUsers) \in 0..MaxUsers
    /\ \A u \in InitialUsers :
          /\ u.id <= Cardinality(InitialUsers) /\ u.realm \in InitialRealms /\ u.changed = 0
          /\ \A v \in InitialUsers : u.id = v.id \/ u.name = v.name => u = v

\* The statements that a request waits to make.
Statements == {"idle", "issue both", "issue", "insert", "similar", "update", "remove",
               "delete realm", "create schema"}

VARIABLES
    users, realms, schemas,     \* the tables; of schemas the realms that own one
    nextId, spent,              \* serial numbers: of the next user, and the realms there have been
    now,
    access, refresh,            \* the tokens that client c holds
    at, req,                    \* the statement its request is at, and the request
    asked,                      \* requests made so far
    lone                        \* the client whose request nobody has come into (no variable of the program)

db == <<users, realms, schemas, nextId, spent>>
tokens == <<access, refresh>>
vars == <<db, now, tokens, at, req, asked, lone>>

Init ==
    /\ users = InitialUsers /\ realms = InitialRealms /\ schemas = {}
    /\ nextId = Cardinality(InitialUsers) + 1 /\ spent = InitialRealms
    /\ now = 0
    /\ access = [c \in Clients |-> None] /\ refresh = [c \in Clients |-> None]
    /\ at = [c \in Clients |-> "idle"] /\ req = [c \in Clients |-> None]
    /\ asked = 0 /\ lone = None

With(i) == {u \in users : u.id = i}
Is(by, r) == by # None /\ r \in by.roles
Manages(by) == Is(by, "admin") \/ Is(by, "super")

\* Client c takes a step of its request, which goes on at s; the request is over
\* at "idle".
Step(c) == lone' = IF at[c] = "idle" \/ lone = c THEN c ELSE None
Goto(c, s) == at' = [at EXCEPT ![c] = s] /\ Step(c) /\ UNCHANGED asked
Begin(c, s, q) ==
    /\ at[c] = "idle" /\ asked < MaxRequests
    /\ at' = [at EXCEPT ![c] = s] /\ req' = [req EXCEPT ![c] = q]
    /\ asked' = asked + 1 /\ Step(c)
Respond(c) == req' = [req EXCEPT ![c] = None] /\ Goto(c, "idle")

-----------------------------------------------------------------------------
(* Logging in, and the refresh of an access token.                         *)

\* authenticate finds the user by name, and compares the password.
Authenticate(c) ==
    /\ at[c] = "idle"
    /\ \E u \in users : Begin(c, "issue both", [op |-> "login", by |-> None, user |-> u])
    /\ UNCHANGED <<db, now, tokens>>

\* refresh finds the user by the token's subject.  An access token has no
\* password_changed and is refused.
RefreshAccess(c) ==
    /\ at[c] = "idle" /\ refresh[c] # None
    /\ \E u \in With(refresh[c].sub) :
          /\ u.changed = refresh[c].changed
          /\ Begin(c, "issue", [op |-> "refresh", by |-> None, user |-> u])
    /\ UNCHANGED <<db, now, tokens>>

\* The tokens tell of the user as it was read.
Issue(c) ==
    /\ at[c] \in {"issue both", "issue"}
    /\ LET u == req[c].user IN
       /\ access' = [access EXCEPT ![c] =
             [sub |-> u.id, roles |-> u.roles, realm |-> u.realm, exp |-> now + 1]]
       /\ refresh' = IF at[c] = "issue" THEN refresh ELSE [refresh EXCEPT ![c] =
             [sub |-> u.id, changed |-> u.changed, password |-> u.password]]
    /\ Respond(c)
    /\ UNCHANGED <<db, now>>

\* What Auth makes of the client's tokens: the claims of an access token that has
\* not expired, and those of a refresh token, which has the same signature and is
\* read as one without roles and realm; password_changed is not compared.
Claims(c) ==
    {[sub |-> a.sub, roles |-> a.roles, realm |-> a.realm] :
        a \in {t \in {access[c]} \ {None} : now <= t.exp}} \cup
    {[sub |-> r.sub, roles |-> {}, realm |-> None] : r \in {refresh[c]} \ {None}}

-----------------------------------------------------------------------------
(* POST of a user, by anybody.                                             *)

\* The roles a new user gets.
GrantedTo(by, realm, roles) ==
    IF Is(by, "super") THEN roles
    ELSE IF Is(by, "admin") /\ by.realm = realm THEN roles \ {"super"}
    ELSE {}

\* Mutant: the two names are compared as they are.
Same(name, i) == \E u \in users : u.name = name /\ u.id # i

Similar(name, i) == \E u \in users : Lower[u.name] = Lower[name] /\ u.id # i

\* CheckSimilarUsernameExists.
CreateUser(c) ==
    /\ at[c] = "idle" /\ nextId <= MaxUsers
    /\ \E by \in Claims(c) \cup {None}, n \in Names, r \in Realms, g \in Grants, s \in BOOLEAN :
          /\ ~Similar(n, None)
          /\ Begin(c, "insert", [op |-> "create", by |-> by, name |-> n, realm |-> r,
                                 roles |-> GrantedTo(by, r, g), stars |-> s])
    /\ UNCHANGED <<db, now, tokens>>

\* The INSERT, refused for a name that is taken or a realm that is not there.
InsertUser(c) ==
    /\ at[c] = "insert" /\ nextId <= MaxUsers
    /\ LET q == req[c] IN
       IF (\E u \in users : u.name = q.name) \/ q.realm \notin realms
       THEN UNCHANGED <<users, nextId>>
       ELSE /\ users' = users \cup
                  {[id |-> nextId, name |-> q.name, realm |-> q.realm, roles |-> q.roles,
                    stars |-> q.stars, changed |-> now, password |-> 0, hasty |-> FALSE]}
            /\ nextId' = nextId + 1
    /\ Respond(c)
    /\ UNCHANGED <<realms, schemas, spent, now, tokens>>

-----------------------------------------------------------------------------
(* PATCH of a user: one of its fields.                                     *)

Patches ==
    [field : {"name"}, value : Names] \cup [field : {"roles"}, value : Grants] \cup
    [field : {"stars"}, value : BOOLEAN] \cup [field : {"password"}, value : {None}]

\* Only admins make admins or verify users.
Allowed(by, p) == p.field = "roles" /\ p.value \cap {"admin", "verified"} # {} => Manages(by)
\* Mutant: a patch may make super admins.
Unreduced(by, p) == p

\* A patch of roles as it is carried out.
Reduced(by, p) ==
    IF p.field = "roles" /\ ~Is(by, "super") THEN [p EXCEPT !.value = @ \ {"super"}] ELSE p

AfterTarget(p) == IF p.field = "name" THEN "similar" ELSE "update"

\* Mutant: nobody asks whether the other is a super admin.
PatchAnyOfRealm(c) ==
    /\ at[c] = "idle"
    /\ \E by \in Claims(c), i \in 1..(nextId - 1), p \in Patches :
          /\ i = by.sub \/ Manages(by)
          /\ i = by.sub \/ Is(by, "super") \/ \E u \in With(i) : u.realm = by.realm
          /\ Allowed(by, p)
          /\ Begin(c, AfterTarget(p), [op |-> "patch", by |-> by, target |-> i,
                                       patch |-> Reduced(by, p)])
    /\ UNCHANGED <<db, now, tokens>>

\* Admins may patch others of their realm that are no super admins, after a look
\* at the other; super admins anybody.
PatchUser(c) ==
    /\ at[c] = "idle"
    /\ \E by \in Claims(c), i \in 1..(nextId - 1), p \in Patches :
          /\ i = by.sub \/ Manages(by)
          /\ i = by.sub \/ Is(by, "super") \/ \E u \in With(i) :
                u.realm = by.realm /\ "super" \notin u.roles
          /\ Allowed(by, p)
          /\ Begin(c, AfterTarget(p), [op |-> "patch", by |-> by, target |-> i,
                                       patch |-> Reduced(by, p)])
    /\ UNCHANGED <<db, now, tokens>>

CheckSimilar(c) ==
    /\ at[c] = "similar"
    /\ IF Similar(req[c].patch.value, req[c].target)
       THEN Respond(c) ELSE Goto(c, "update") /\ UNCHANGED req
    /\ UNCHANGED <<db, now, tokens>>

\* Mutant: password_changed stays.
PatchedSilently(u, p) ==
    CASE p.field = "name" -> [u EXCEPT !.name = p.value]
      [] p.field = "roles" -> [u EXCEPT !.roles = p.value]
      [] p.field = "stars" -> [u EXCEPT !.stars = p.value]
      [] OTHER -> [u EXCEPT !.password = @ + 1]

Patched(u, p) ==
    CASE p.field = "name" -> [u EXCEPT !.name = p.value]
      [] p.field = "roles" -> [u EXCEPT !.roles = p.value]
      [] p.field = "stars" -> [u EXCEPT !.stars = p.value]
      [] OTHER -> [u EXCEPT !.changed = now, !.password = @ + 1, !.hasty = u.changed = now]

\* The UPDATE, refused for a name that is taken, and without effect on a user
\* that is gone.
UpdateUser(c) ==
    /\ at[c] = "update"
    /\ LET i == req[c].target
           p == req[c].patch
           taken == p.field = "name" /\ \E u \in users : u.name = p.value /\ u.id # i
       IN users' = IF taken THEN users
                   ELSE {IF u.id = i THEN Patched(u, p) ELSE u : u \in users}
    /\ Respond(c)
    /\ UNCHANGED <<realms, schemas, nextId, spent, now, tokens>>

-----------------------------------------------------------------------------
(* DELETE of a user.                                                       *)

\* Who is no super admin looks at the other, or at himself, before the DELETE.
DeleteUser(c) ==
    /\ at[c] = "idle"
    /\ \E by \in Claims(c), i \in 1..(nextId - 1) :
          /\ i = by.sub \/ Manages(by)
          /\ Is(by, "super") \/ \E u \in With(i) : "super" \notin u.roles
          /\ Begin(c, "remove", [op |-> "delete", by |-> by, target |-> i])
    /\ UNCHANGED <<db, now, tokens>>

\* The users who can be deleted: the stars of a user refer to it.
Removable(us) == {u \in us : ~u.stars}

\* Mutant: DELETE ... WHERE id = $1 for everybody.
RemoveById(c) ==
    /\ at[c] = "remove"
    /\ users' = users \ Removable(With(req[c].target))
    /\ Respond(c)
    /\ UNCHANGED <<realms, schemas, nextId, spent, now, tokens>>

\* The DELETE, by super admins in every realm, by others in that of their token:
\* in none, if it is a refresh token.
RemoveUser(c) ==
    /\ at[c] = "remove"
    /\ LET by == req[c].by IN
       users' = users \ Removable({u \in With(req[c].target) :
                                      Is(by, "super") \/ u.realm = by.realm})
    /\ Respond(c)
    /\ UNCHANGED <<realms, schemas, nextId, spent, now, tokens>>

-----------------------------------------------------------------------------
(* Realms and schemas.                                                     *)

\* InsertRealm, by anybody.
CreateRealm(c) ==
    /\ at[c] = "idle"
    /\ \E r \in Realms \ spent : realms' = realms \cup {r} /\ spent' = spent \cup {r}
    /\ Goto(c, "idle")
    /\ UNCHANGED <<users, schemas, nextId, now, tokens, req>>

\* DELETE of a realm and POST of a schema pass ACL.
EditRealms(c) ==
    /\ at[c] = "idle"
    /\ \E by \in Claims(c), op \in {"delete realm", "create schema"}, r \in Realms :
          /\ Is(by, "verified") /\ Manages(by)
          /\ op = "create schema" => r = by.realm
          /\ Begin(c, op, [op |-> op, by |-> by, realm |-> r])
    /\ UNCHANGED <<db, now, tokens>>

\* Mutant: the users of the realm are left behind.
DeleteRealmAlone(c) ==
    /\ at[c] = "delete realm"
    /\ LET r == req[c].realm IN
       realms' = IF /\ Is(req[c].by, "super") \/ req[c].by.realm = r
                    /\ r \notin EventRealms \cup schemas
                 THEN realms \ {r} ELSE realms
    /\ Respond(c)
    /\ UNCHANGED <<users, schemas, nextId, spent, now, tokens>>

\* editRealm and DeleteRealmTx: the users of the realm go with it, and none of
\* them may have stars; events and schemas refer to their realm.
DeleteRealm(c) ==
    /\ at[c] = "delete realm"
    /\ LET r == req[c].realm
           mine == {u \in users : u.realm = r}
       IN IF /\ Is(req[c].by, "super") \/ req[c].by.realm = r
             /\ r \notin EventRealms \cup schemas /\ mine = Removable(mine)
          THEN users' = users \ mine /\ realms' = realms \ {r}
          ELSE UNCHANGED <<users, realms>>
    /\ Respond(c)
    /\ UNCHANGED <<schemas, nextId, spent, now, tokens>>

\* The INSERT of a schema for a realm, refused if the realm is gone.
CreateSchema(c) ==
    /\ at[c] = "create schema"
    /\ schemas' = schemas \cup ({req[c].realm} \cap realms)
    /\ Respond(c)
    /\ UNCHANGED <<users, realms, nextId, spent, now, tokens>>

Tick == now < MaxTime /\ now' = now + 1 /\ UNCHANGED <<db, tokens, at, req, asked, lone>>

Request(c) ==
    \/ Authenticate(c) \/ RefreshAccess(c) \/ CreateUser(c) \/ PatchUser(c)
    \/ DeleteUser(c) \/ CreateRealm(c) \/ EditRealms(c)

Serve(c) ==
    \/ Issue(c) \/ InsertUser(c) \/ CheckSimilar(c) \/ UpdateUser(c)
    \/ RemoveUser(c) \/ DeleteRealm(c) \/ CreateSchema(c)

Next == Tick \/ \E c \in Clients : Request(c) \/ Serve(c)

Spec == Init /\ [][Next]_vars

-----------------------------------------------------------------------------
(* Properties.                                                             *)

\* With the foreign keys and the unique columns of the tables, also when a realm
\* takes its users with it (migrations/13_user_realms.up.sql).
TypeOK ==
    /\ users \subseteq User
    /\ \A u, v \in users : u.id = v.id \/ u.name = v.name => u = v
    /\ \A u \in users : u.id < nextId /\ u.realm \in realms
    /\ realms \subseteq spent /\ spent \subseteq Realms /\ schemas \subseteq realms
    /\ nextId \in 1..MaxUsers + 1 /\ now \in Times
    /\ access \in [Clients -> Access \cup {None}] /\ refresh \in [Clients -> Refresh \cup {None}]
    /\ at \in [Clients -> Statements]
    /\ \A c \in Clients : at[c] = "idle" => req[c] = None
    /\ lone \in Clients \cup {None}

\* Client c's request is carried out, and by whom.
Acts(c) == at[c] # "idle" /\ at'[c] = "idle"
By(c) == req[c].by
Undisturbed(c) == lone = c /\ lone' = c

\* refresh gives access tokens, and so roles and a realm, for a refresh token only
\* while the password is the one of the log in, even if it is changed while the
\* client logs in; only a change in the second of the change before goes unnoticed
\* (users.go:179-183).  Auth never asks: see Claims.
RefreshNeedsPassword == [][\A c \in Clients : at[c] = "idle" /\ at'[c] = "issue" =>
    \A u \in With(refresh[c].sub) : refresh[c].password = u.password \/ u.hasty]_vars

\* A request that no other comes into between its check and its write never makes
\* two usernames alike but for their case (users.go:228, 404-405); two that overlap can.
NamesDistinct == [][\A c \in Clients : Acts(c) /\ Undisturbed(c) =>
    \A u \in users' \ users, v \in users' :
        Lower[u.name] = Lower[v.name] => u.id = v.id \/ \E w \in users : w.id = u.id /\ w.name = u.name]_vars

MayGrant(by, r, realm) ==
    Is(by, "super") \/ (r # "super" /\ Is(by, "admin") /\ by.realm = realm)

\* Roles come from those who have them: whoever gains one, newly created or not,
\* has it from a super admin or, a super admin's aside, from an admin of the same
\* realm (users.go:204-221, 388-397), as the token says.
RightsGranted == [][\A u \in users' : \A r \in u.roles :
    \/ \E v \in users : v.id = u.id /\ r \in v.roles
    \/ \E c \in Clients : Acts(c) /\ MayGrant(By(c), r, u.realm)]_vars

\* Nobody but a super admin changes or removes a user of another realm, however
\* long ago the handler has looked (users.go:370-386, 469-489).  Who comes with a
\* refresh token has no realm: it changes its own user, and removes nobody.
OwnRealmOnly == [][\A c \in Clients : Acts(c) /\ ~Is(By(c), "super") =>
    \A u \in users \ users' :
        \/ u.realm = By(c).realm
        \/ By(c).realm = None /\ u.id = By(c).sub /\ \E v \in users' : v.id = u.id]_vars

\* "Only super-admins can edit super-admins" and delete them, themselves aside:
\* so it is unless they become so between the look and the write, or their realm
\* is deleted (users.go:370-386, 469-489).
SupersSafe == [][\A c \in Clients :
    Acts(c) /\ at[c] \in {"update", "remove"} /\ Undisturbed(c) /\ ~Is(By(c), "super") =>
        \A u \in users \ users' : "super" \in u.roles => u.id = By(c).sub]_vars
=============================================================================
