---------------------------- MODULE MatchesProofs ----------------------------
(***************************************************************************)
(* Theorems about Matches, for any number of clients, events and matches:  *)
(* the table locks exclude what they are there to exclude, and the rows of *)
(* the events and the matches keep their promises.                         *)
(***************************************************************************)
EXTENDS Matches, TLAPS

\* A request that is under way is one of those that may be made.
Known == \A c \in Clients : at[c] # "start" =>
    /\ req[c] \in Requests
    /\ at[c] \in {"edit match", "put match", "delete match"} =>
          req[c].op \in {"put match", "delete match"}

TypeInv == TypeOK /\ Known

\* Of two actors whose requests conflict, one waits for the other.
Ordered == \A a, b \in Actors :
    a # b /\ Conflict(Where(a), Where(b)) => a \in ahead[b] \/ b \in ahead[a]

\* Those that have written, or are about to, have their lock.
Holding ==
    /\ \A c \in Clients :
          at[c] \in {"put event", "put match", "delete match"} => ahead[c] = {}
    /\ storer.at = "alliances" => ahead[Storer] = {}

Locks == Ordered /\ Holding

\* The requests have a realm.
LEMMA RequestType == \A q \in Requests :
    /\ q.realm \in Realms
    /\ q.op \in {"put event", "put match", "delete match", "post report"}
    /\ q.op # "put event" => q.match \in Matches
BY MatchesAssumption DEF Request, EventRequest, MatchRequest

-----------------------------------------------------------------------------
(* Types.                                                                  *)

\* The types hold at first.
LEMMA TypeInit == Init => TypeInv
<1> SUFFICES ASSUME Init PROVE TypeInv
  OBVIOUS
<1>1. realm \in [Events -> Maybe(Realms) \cup {Missing}]
  BY MatchesAssumption DEF Init
<1>2. row \in [Matches -> Rows]
  BY DEF Init, Rows
<1>3. ahead \in [Actors -> SUBSET Actors] /\ req \in [Clients -> Maybe(Requests)]
  BY DEF Init, Maybe
<1>4. storer \in [at : {"recv", "upsert", "alliances", "mark"},
                  event : Maybe(TbaEvents), list : SUBSET Keys] /\ storer.at = "recv"
  BY DEF Init, StorerAt, Maybe
<1> QED
  BY <1>1, <1>2, <1>3, <1>4 DEF Init, TypeInv, TypeOK, Known, Statements, Answers

\* Client c goes on to statement t.
Moves(c, t) ==
    /\ at' = [at EXCEPT ![c] = t]
    /\ answer' \in [Clients -> Answers] /\ ahead' \in [Actors -> SUBSET Actors]

\* A queue is one of actors.
LEMMA QueueType == \A a, s : Queue(a, s) /\ TypeInv => ahead' \in [Actors -> SUBSET Actors]
<1> SUFFICES ASSUME NEW a, NEW s, Queue(a, s), TypeInv PROVE ahead' \in [Actors -> SUBSET Actors]
  OBVIOUS
<1>1. ahead \in [Actors -> SUBSET Actors]
  BY DEF TypeInv, TypeOK
<1>2. \A b \in Actors :
        (IF b = a THEN {d \in Actors \ {a} : Conflict(s, Where(d))} ELSE ahead[b] \ {a})
            \in SUBSET Actors
  BY <1>1
<1> QED
  BY <1>2, Zenon DEF Queue

\* Going on, asking for a lock and answering are moves.
LEMMA MovesType ==
    ASSUME TypeInv, NEW c \in Clients
    PROVE  /\ \A t : Goto(c, t) => Moves(c, t)
           /\ \A t : Ask(c, t) => Moves(c, t)
           /\ \A a \in Answers : Respond(c, a) => Moves(c, "done")
<1>1. ASSUME NEW t, Goto(c, t) PROVE Moves(c, t)
  BY <1>1 DEF Goto, Moves, TypeInv, TypeOK
<1>2. ASSUME NEW t, Ask(c, t) PROVE Moves(c, t)
  BY <1>2, QueueType DEF Ask, Moves, TypeInv, TypeOK
<1>3. ASSUME NEW a \in Answers, Respond(c, a) PROVE Moves(c, "done")
  <2>1. ahead' \in [Actors -> SUBSET Actors]
    BY <1>3, QueueType DEF Respond
  <2>2. answer' \in [Clients -> Answers]
    BY <1>3 DEF Respond, TypeInv, TypeOK
  <2> QED
    BY <1>3, <2>1, <2>2 DEF Respond, Moves
<1> QED
  BY <1>1, <1>2, <1>3

\* The responses are among the Answers.
LEMMA AnswersType == {"created", "no content", "bad request", "forbidden", "not found", "error",
                      "nobody there"} \subseteq Answers
BY DEF Answers

\* A client's step keeps the types if it keeps its request and those of the tables.
LEMMA ClientKeepsTypes ==
    ASSUME TypeInv, NEW c \in Clients,
           \E t \in {"put event", "put match", "delete match", "report", "done"} :
               Moves(c, t) /\ (t \in {"put match", "delete match"} => at[c] = "edit match"),
           at[c] # "start", UNCHANGED <<page, fresh, listed, storer, req>>,
           realm' \in [Events -> Maybe(Realms) \cup {Missing}], row' \in [Matches -> Rows],
           existed' \in [Clients -> BOOLEAN]
    PROVE  TypeInv'
<1>1. PICK t \in {"put event", "put match", "delete match", "report", "done"} :
        Moves(c, t) /\ (t \in {"put match", "delete match"} => at[c] = "edit match")
  OBVIOUS
<1>2. at' \in [Clients -> Statements]
  BY <1>1 DEF Moves, TypeInv, TypeOK, Statements
<1>3. TypeOK'
  BY <1>1, <1>2 DEF Moves, TypeInv, TypeOK
<1>4. Known'
  BY <1>1 DEF Moves, TypeInv, TypeOK, Known
<1> QED
  BY <1>3, <1>4 DEF TypeInv

\* The types do not depend on what the storer and TBA do.
LEMMA StorerKeepsTypes ==
    ASSUME TypeInv, UNCHANGED <<req, at, answer, existed>>,
           page' \in [TbaEvents -> SUBSET Keys], fresh' \in [TbaEvents -> BOOLEAN],
           realm' \in [Events -> Maybe(Realms) \cup {Missing}], row' \in [Matches -> Rows],
           listed' \in [Events -> SUBSET Keys],
           storer' \in [at : {"recv", "upsert", "alliances", "mark"},
                        event : Maybe(TbaEvents), list : SUBSET Keys],
           storer'.at # "recv" => storer'.event \in TbaEvents,
           UNCHANGED ahead \/ \E s : Queue(Storer, s)
    PROVE  TypeInv'
<1>1. ahead' \in [Actors -> SUBSET Actors]
  BY QueueType DEF TypeInv, TypeOK
<1> QED
  BY <1>1 DEF TypeInv, TypeOK, Known

\* Every step keeps the types.
LEMMA TypeStep == TypeInv /\ [Next]_vars => TypeInv'
<1> SUFFICES ASSUME TypeInv, [Next]_vars PROVE TypeInv'
  OBVIOUS
<1>t. /\ realm \in [Events -> Maybe(Realms) \cup {Missing}] /\ row \in [Matches -> Rows]
      /\ existed \in [Clients -> BOOLEAN] /\ listed \in [Events -> SUBSET Keys]
      /\ page \in [TbaEvents -> SUBSET Keys] /\ fresh \in [TbaEvents -> BOOLEAN]
      /\ storer \in [at : {"recv", "upsert", "alliances", "mark"},
                     event : Maybe(TbaEvents), list : SUBSET Keys]
      /\ storer.at # "recv" => storer.event \in TbaEvents
      /\ [by |-> "user", deleted |-> FALSE] \in Rows
      /\ [by |-> "tba", deleted |-> FALSE] \in Rows
  BY DEF TypeInv, TypeOK, Rows
<1>r. StorerAt("recv") \in [at : {"recv", "upsert", "alliances", "mark"},
                            event : Maybe(TbaEvents), list : SUBSET Keys]
      /\ StorerAt("recv").at = "recv"
  BY DEF StorerAt, Maybe
<1>k. \A c \in Clients : at[c] # "start" => req[c] \in Requests /\ req[c].realm \in Realms
  BY RequestType DEF TypeInv, Known, MatchesAssumption
<1>1. ASSUME NEW c \in Clients, Start(c) PROVE TypeInv'
  <2>1. PICK q \in Requests :
          /\ req' = [req EXCEPT ![c] = q]
          /\ CASE q.op = "post report" -> Goto(c, "alliance")
               [] q.role = "user" -> Respond(c, "forbidden")
               [] q.op = "put event" -> Ask(c, "edit event")
               [] OTHER -> Ask(c, "edit match")
    BY <1>1 DEF Start
  <2>2. \/ Goto(c, "alliance") \/ Respond(c, "forbidden") \/ Ask(c, "edit event")
        \/ (Ask(c, "edit match") /\ q.op \in {"put match", "delete match"})
    BY <2>1, RequestType
  <2>3. PICK t \in {"alliance", "done", "edit event", "edit match"} :
          Moves(c, t) /\ (t = "edit match" => q.op \in {"put match", "delete match"})
    BY <2>2, MovesType, AnswersType
  <2>4. /\ at' = [at EXCEPT ![c] = t] /\ at' \in [Clients -> Statements]
        /\ answer' \in [Clients -> Answers] /\ ahead' \in [Actors -> SUBSET Actors]
    BY <2>3 DEF Moves, TypeInv, TypeOK, Statements
  <2>5. req' \in [Clients -> Maybe(Requests)]
    BY <2>1 DEF TypeInv, TypeOK, Maybe
  <2>6. TypeOK'
    BY <1>1, <2>4, <2>5 DEF Start, TypeInv, TypeOK, tba, db
  <2>7. Known'
    BY <2>1, <2>3, <2>4 DEF TypeInv, TypeOK, Known
  <2> QED
    BY <2>6, <2>7 DEF TypeInv
<1>2. ASSUME NEW c \in Clients, HangUp(c) PROVE TypeInv'
  BY <1>2, <1>t, MovesType, AnswersType, ClientKeepsTypes DEF HangUp, db, tba
<1>3. ASSUME NEW c \in Clients, EditEvent(c) PROVE TypeInv'
  <2>1. existed' \in [Clients -> BOOLEAN]
    BY <1>3, <1>t DEF EditEvent
  <2>2. Goto(c, "put event") \/ Respond(c, "forbidden")
    BY <1>3 DEF EditEvent
  <2> QED
    BY <1>3, <1>t, <2>1, <2>2, MovesType, AnswersType, ClientKeepsTypes DEF EditEvent, db, tba
<1>4. ASSUME NEW c \in Clients, PutEvent(c) PROVE TypeInv'
  <2>1. realm' \in [Events -> Maybe(Realms) \cup {Missing}]
    BY <1>4, <1>t, <1>k DEF PutEvent, Maybe
  <2>2. Respond(c, "no content") \/ Respond(c, "created")
    BY <1>4 DEF PutEvent
  <2> QED
    BY <1>4, <1>t, <2>1, <2>2, MovesType, AnswersType, ClientKeepsTypes DEF PutEvent, tba
<1>5. ASSUME NEW c \in Clients, EditMatch(c) PROVE TypeInv'
  <2>1. existed' \in [Clients -> BOOLEAN]
    BY <1>5, <1>t DEF EditMatch
  <2>2. Goto(c, req[c].op) \/ Respond(c, "forbidden")
    BY <1>5 DEF EditMatch
  <2>3. req[c].op \in {"put match", "delete match"}
    BY <1>5 DEF EditMatch, TypeInv, Known
  <2> QED
    BY <1>5, <1>t, <2>1, <2>2, <2>3, MovesType, AnswersType, ClientKeepsTypes DEF EditMatch, db, tba
<1>6. ASSUME NEW c \in Clients, PutMatch(c) PROVE TypeInv'
  <2>1. row' \in [Matches -> Rows]
    BY <1>6, <1>t DEF PutMatch
  <2>2. Respond(c, "error") \/ Respond(c, "no content") \/ Respond(c, "created")
    BY <1>6 DEF PutMatch, Edited
  <2> QED
    BY <1>6, <1>t, <2>1, <2>2, MovesType, AnswersType, ClientKeepsTypes DEF PutMatch, tba
<1>7. ASSUME NEW c \in Clients, DeleteMatch(c) PROVE TypeInv'
  <2>1. Respond(c, "error") \/ Respond(c, "no content") \/ Respond(c, "not found")
    BY <1>7 DEF DeleteMatch
  <2> QED
    BY <1>7, <1>t, <2>1, MovesType, AnswersType, ClientKeepsTypes DEF DeleteMatch, db, tba
<1>8. ASSUME NEW c \in Clients, LockAlliance(c) PROVE TypeInv'
  <2>1. Ask(c, "report") \/ Respond(c, "bad request")
    BY <1>8 DEF LockAlliance
  <2> QED
    BY <1>8, <1>t, <2>1, MovesType, AnswersType, ClientKeepsTypes DEF LockAlliance, db, tba
<1>9. ASSUME NEW c \in Clients, FileReport(c) PROVE TypeInv'
  BY <1>9, <1>t, MovesType, AnswersType, ClientKeepsTypes DEF FileReport, db, tba
<1>10. CASE EventsUpsert
  <2>1. realm' \in [Events -> Maybe(Realms) \cup {Missing}]
    BY <1>10, <1>t DEF EventsUpsert, Maybe
  <2> QED
    BY <1>10, <1>t, <2>1, StorerKeepsTypes DEF EventsUpsert, tba
<1>11. CASE ReceiveMatches
  <2>1. PICK e \in TbaEvents : fresh' = [fresh EXCEPT ![e] = FALSE]
          /\ storer' = [at |-> "upsert", event |-> e, list |-> page[e]]
    BY <1>11 DEF ReceiveMatches
  <2>2. storer' \in [at : {"recv", "upsert", "alliances", "mark"},
                     event : Maybe(TbaEvents), list : SUBSET Keys] /\ storer'.event \in TbaEvents
    BY <2>1, <1>t DEF Maybe
  <2> QED
    BY <1>11, <1>t, <2>1, <2>2, StorerKeepsTypes DEF ReceiveMatches, db
<1>12. CASE BeginUpsert
  <2>1. storer' = [at |-> "alliances", event |-> storer.event, list |-> storer.list]
    BY <1>12, <1>t DEF BeginUpsert
  <2>2. storer.event \in TbaEvents
    BY <1>12, <1>t DEF BeginUpsert
  <2> QED
    BY <1>12, <1>t, <2>1, <2>2, StorerKeepsTypes DEF BeginUpsert, tba, db
<1>13. CASE UpdateTBAMatches
  <2>1. storer.event \in TbaEvents /\ storer.list \in SUBSET Keys
    BY <1>13, <1>t DEF UpdateTBAMatches
  <2>2. CASE UNCHANGED <<row, listed>> /\ StorerGoto("recv")
    BY <1>13, <2>2, <1>t, <1>r, StorerKeepsTypes DEF UpdateTBAMatches, StorerGoto, tba
  <2>3. CASE /\ row' = [m \in Matches |-> Upserted(storer.list, m)]
             /\ listed' = [listed EXCEPT ![storer.event] = storer.list]
             /\ storer' = [storer EXCEPT !.at = "mark"] /\ Queue(Storer, "mark")
    <3>1. row' \in [Matches -> Rows]
      BY <2>3, <1>t DEF Upserted
    <3>2. listed' \in [Events -> SUBSET Keys]
      BY <2>1, <2>3, <1>t
    <3>3. storer' = [at |-> "mark", event |-> storer.event, list |-> storer.list]
      BY <2>3, <1>t
    <3> QED
      BY <1>13, <2>1, <2>3, <3>1, <3>2, <3>3, <1>t, StorerKeepsTypes DEF UpdateTBAMatches, tba
  <2> QED
    BY <1>13, <2>2, <2>3 DEF UpdateTBAMatches
<1>14. CASE Timeout
  BY <1>14, <1>t, <1>r, StorerKeepsTypes DEF Timeout, StorerGoto, tba, db
<1>15. CASE MarkMatchesDeleted
  <2>1. \A m \in Matches : Marked(m) \in Rows
    <3> SUFFICES ASSUME NEW m \in Matches, Stored(m) PROVE [by |-> row[m].by, deleted |-> TRUE] \in Rows
      BY <1>t DEF Marked
    <3> QED
      BY <1>t DEF Stored, Rows
  <2>2. row' \in [Matches -> Rows]
    BY <1>15, <2>1 DEF MarkMatchesDeleted
  <2> QED
    BY <1>15, <1>t, <1>r, <2>2, StorerKeepsTypes DEF MarkMatchesDeleted, StorerGoto, tba
<1>16. ASSUME NEW e \in TbaEvents, Publish(e) PROVE TypeInv'
  <2>1. page' \in [TbaEvents -> SUBSET Keys] /\ fresh' \in [TbaEvents -> BOOLEAN]
    BY <1>16, <1>t DEF Publish
  <2> QED
    BY <1>16, <1>t, <2>1, StorerKeepsTypes DEF Publish, db
<1>17. CASE UNCHANGED vars
  BY <1>17 DEF vars, tba, db, TypeInv, TypeOK, Known
<1> QED
  BY <1>1, <1>2, <1>3, <1>4, <1>5, <1>6, <1>7, <1>8, <1>9, <1>10, <1>11, <1>12, <1>13, <1>14,
     <1>15, <1>16, <1>17 DEF Next, Serve, StoreMatches

\* TypeOK holds for any number of clients: who is served is a client whose request
\* is known (matches.go:110-208, events.go:87-129).
THEOREM TypeCorrect == Spec => []TypeOK
<1>1. TypeInv => TypeOK
  BY DEF TypeInv
<1> QED
  BY <1>1, TypeInit, TypeStep, PTL DEF Spec

-----------------------------------------------------------------------------
(* Locks.                                                                  *)

\* Two statements conflict in either order.
LEMMA ConflictSymmetric == \A s, t : Conflict(s, t) <=> Conflict(t, s)
BY DEF Conflict

\* An actor that goes on within its transaction, to a statement of the same lock
\* or of none, changes nothing.
LEMMA SameLock ==
    ASSUME Ordered, UNCHANGED ahead, NEW a \in Actors,
           \A t : Conflict(Where(a)', t) => Conflict(Where(a), t),
           \A b \in Actors \ {a} : Where(b)' = Where(b)
    PROVE  Ordered'
<1> SUFFICES ASSUME NEW b \in Actors, NEW d \in Actors, b # d, Conflict(Where(b)', Where(d)')
             PROVE  b \in ahead[d] \/ d \in ahead[b]
  BY DEF Ordered
<1>1. Conflict(Where(b), Where(d))
  BY ConflictSymmetric
<1> QED
  BY <1>1 DEF Ordered

\* An actor that ends its transaction goes to the end of the queue.
LEMMA EndOfQueue ==
    ASSUME Ordered, NEW a \in Actors, Queue(a, Where(a)'),
           \A b \in Actors \ {a} : Where(b)' = Where(b)
    PROVE  Ordered'
<1> SUFFICES ASSUME NEW b \in Actors, NEW d \in Actors, b # d, Conflict(Where(b)', Where(d)')
             PROVE  b \in ahead'[d] \/ d \in ahead'[b]
  BY DEF Ordered
<1>1. CASE b = a
  BY <1>1 DEF Queue
<1>2. CASE d = a
  BY <1>2, ConflictSymmetric DEF Queue
<1>3. CASE b # a /\ d # a
  <2>1. b \in ahead[d] \/ d \in ahead[b]
    BY <1>3 DEF Ordered
  <2> QED
    BY <1>3, <2>1 DEF Queue
<1> QED
  BY <1>1, <1>2, <1>3

\* Nobody gets into a queue, and nobody's queue grows, but that of who asks.
LEMMA QueueShrinks ==
    ASSUME TypeInv, NEW a, NEW t, Queue(a, t)
    PROVE  \A b \in Actors \ {a} : ahead[b] = {} => ahead'[b] = {}
BY DEF Queue

\* A client's step to statement t of the lock that it has, or of none.
LEMMA ClientSameLock ==
    ASSUME TypeInv, Locks, NEW c \in Clients, NEW t, Goto(c, t), UNCHANGED storer,
           \/ at[c] = "edit event" /\ t = "put event" /\ Granted(c)
           \/ at[c] = "edit match" /\ t \in {"put match", "delete match"} /\ Granted(c)
           \/ t = "alliance"
    PROVE  Locks'
<1>1. at' = [at EXCEPT ![c] = t] /\ UNCHANGED ahead
  BY DEF Goto
<1>2. c \in Actors /\ c # Storer
  BY MatchesAssumption DEF Actors
<1>3. Where(c)' = t /\ Where(c) = at[c] /\ \A b \in Actors \ {c} : Where(b)' = Where(b)
  BY <1>1, <1>2 DEF Where, Actors, TypeInv, TypeOK
<1>4. \A s : Conflict(t, s) => Conflict(at[c], s)
  BY DEF Conflict, EventsExclusive, MatchesExclusive, MatchesShared
<1>5. Ordered'
  BY <1>1, <1>2, <1>3, <1>4, SameLock DEF Locks
<1>6. Holding'
  BY <1>1 DEF Locks, Holding, Granted, TypeInv, TypeOK
<1> QED
  BY <1>5, <1>6 DEF Locks

\* A client's step to statement t that ends a transaction.
LEMMA ClientQueues ==
    ASSUME TypeInv, Locks, NEW c \in Clients, NEW t, at' = [at EXCEPT ![c] = t], Queue(c, t),
           UNCHANGED storer, t \notin {"put event", "put match", "delete match"}
    PROVE  Locks'
<1>1. c \in Actors /\ c # Storer
  BY MatchesAssumption DEF Actors
<1>2. Where(c)' = t /\ \A b \in Actors \ {c} : Where(b)' = Where(b)
  BY <1>1 DEF Where, Actors, TypeInv, TypeOK
<1>3. Ordered'
  BY <1>1, <1>2, EndOfQueue DEF Locks
<1>4. Holding'
  <2>1. \A d \in Clients \ {c} : d \in Actors \ {c} /\ at'[d] = at[d]
    BY DEF Actors, TypeInv, TypeOK
  <2>2. at'[c] = t /\ Storer \in Actors \ {c}
    BY <1>1 DEF Actors, TypeInv, TypeOK
  <2> QED
    BY <2>1, <2>2, QueueShrinks DEF Locks, Holding
<1> QED
  BY <1>3, <1>4 DEF Locks

\* A client that answers, or asks for a table at the end of a transaction.
LEMMA ClientResponds ==
    ASSUME TypeInv, Locks, NEW c \in Clients, UNCHANGED storer,
           (\E a : Respond(c, a)) \/ (\E t \in {"edit event", "edit match", "report"} : Ask(c, t))
    PROVE  Locks'
<1>1. ASSUME NEW a, Respond(c, a) PROVE Locks'
  BY <1>1, ClientQueues DEF Respond
<1>2. ASSUME NEW t \in {"edit event", "edit match", "report"}, Ask(c, t) PROVE Locks'
  BY <1>2, ClientQueues DEF Ask
<1> QED
  BY <1>1, <1>2

\* A step of the storer's to another statement that ends a transaction.
LEMMA StorerQueues ==
    ASSUME TypeInv, Locks, NEW t, storer'.at = t, t # "alliances", Queue(Storer, t), UNCHANGED at
    PROVE  Locks'
<1>1. Storer \in Actors /\ \A c \in Clients : c \in Actors \ {Storer}
  BY MatchesAssumption DEF Actors
<1>2. Where(Storer)' = t /\ \A b \in Actors \ {Storer} : Where(b)' = Where(b)
  BY <1>1 DEF Where
<1>3. Ordered'
  BY <1>1, <1>2, EndOfQueue DEF Locks
<1>4. Holding'
  BY <1>1, QueueShrinks DEF Locks, Holding
<1> QED
  BY <1>3, <1>4 DEF Locks

\* Nobody has a lock at first.
LEMMA LocksInit == Init => Locks
<1> SUFFICES ASSUME Init PROVE Locks
  OBVIOUS
<1>1. \A a \in Actors : Where(a) \in {"start", "recv"}
  BY DEF Init, Where, StorerAt, Actors
<1>2. \A s, t \in {"start", "recv"} : ~Conflict(s, t)
  BY DEF Conflict, EventsExclusive, MatchesExclusive, MatchesShared
<1>3. Ordered
  BY <1>1, <1>2 DEF Ordered
<1>4. Holding
  BY DEF Init, Holding, StorerAt
<1> QED
  BY <1>3, <1>4 DEF Locks

\* Every step keeps the locks in order.
LEMMA LocksStep == TypeInv /\ Locks /\ [Next]_vars => Locks'
<1> SUFFICES ASSUME TypeInv, Locks, [Next]_vars PROVE Locks'
  OBVIOUS
<1>1. ASSUME NEW c \in Clients, Start(c) PROVE Locks'
  <2>1. PICK q \in Requests :
          CASE q.op = "post report" -> Goto(c, "alliance")
            [] q.role = "user" -> Respond(c, "forbidden")
            [] q.op = "put event" -> Ask(c, "edit event")
            [] OTHER -> Ask(c, "edit match")
    BY <1>1 DEF Start
  <2>2. \/ Goto(c, "alliance") \/ Respond(c, "forbidden")
        \/ Ask(c, "edit event") \/ Ask(c, "edit match")
    BY <2>1
  <2> QED
    BY <1>1, <2>2, ClientSameLock, ClientResponds DEF Start
<1>2. ASSUME NEW c \in Clients, HangUp(c) PROVE Locks'
  BY <1>2, ClientResponds DEF HangUp
<1>3. ASSUME NEW c \in Clients, EditEvent(c) PROVE Locks'
  <2>1. Goto(c, "put event") \/ Respond(c, "forbidden")
    BY <1>3 DEF EditEvent
  <2> QED
    BY <1>3, <2>1, ClientSameLock, ClientResponds DEF EditEvent
<1>4. ASSUME NEW c \in Clients, PutEvent(c) PROVE Locks'
  BY <1>4, ClientResponds DEF PutEvent
<1>5. ASSUME NEW c \in Clients, EditMatch(c) PROVE Locks'
  <2>1. Goto(c, req[c].op) \/ Respond(c, "forbidden")
    BY <1>5 DEF EditMatch
  <2>2. req[c].op \in {"put match", "delete match"}
    BY <1>5 DEF EditMatch, TypeInv, Known
  <2> QED
    BY <1>5, <2>1, <2>2, ClientSameLock, ClientResponds DEF EditMatch
<1>6. ASSUME NEW c \in Clients, PutMatch(c) PROVE Locks'
  BY <1>6, ClientResponds DEF PutMatch, Edited
<1>7. ASSUME NEW c \in Clients, DeleteMatch(c) PROVE Locks'
  BY <1>7, ClientResponds DEF DeleteMatch
<1>8. ASSUME NEW c \in Clients, LockAlliance(c) PROVE Locks'
  <2>1. Ask(c, "report") \/ Respond(c, "bad request")
    BY <1>8 DEF LockAlliance
  <2> QED
    BY <1>8, <2>1, ClientResponds DEF LockAlliance
<1>9. ASSUME NEW c \in Clients, FileReport(c) PROVE Locks'
  BY <1>9, ClientResponds DEF FileReport
<1>10. CASE ReceiveMatches
  BY <1>10, StorerQueues DEF ReceiveMatches
<1>11. CASE BeginUpsert
  <2>1. storer'.at = "alliances" /\ storer.at = "upsert" /\ UNCHANGED <<at, ahead>>
    BY <1>11 DEF BeginUpsert, TypeInv, TypeOK
  <2>2. Storer \in Actors /\ Where(Storer)' = "alliances" /\ Where(Storer) = "upsert"
        /\ \A b \in Actors \ {Storer} : Where(b)' = Where(b)
    BY <2>1 DEF Where, Actors
  <2>3. \A t : Conflict("alliances", t) => Conflict("upsert", t)
    BY DEF Conflict, EventsExclusive, MatchesExclusive, MatchesShared
  <2>4. Ordered'
    BY <2>1, <2>2, <2>3, SameLock DEF Locks
  <2>5. Holding'
    BY <1>11, <2>1 DEF BeginUpsert, Granted, Locks, Holding
  <2> QED
    BY <2>4, <2>5 DEF Locks
<1>12. CASE UpdateTBAMatches
  <2>1. CASE StorerGoto("recv")
    BY <1>12, <2>1, StorerQueues DEF UpdateTBAMatches, StorerGoto, StorerAt
  <2>2. CASE storer' = [storer EXCEPT !.at = "mark"] /\ Queue(Storer, "mark")
    <3>1. storer'.at = "mark"
      BY <2>2 DEF TypeInv, TypeOK
    <3> QED
      BY <1>12, <2>2, <3>1, StorerQueues DEF UpdateTBAMatches
  <2> QED
    BY <1>12, <2>1, <2>2 DEF UpdateTBAMatches
<1>13. CASE Timeout \/ MarkMatchesDeleted
  BY <1>13, StorerQueues DEF Timeout, MarkMatchesDeleted, StorerGoto, StorerAt
<1>14. CASE \/ EventsUpsert \/ (\E e \in TbaEvents : Publish(e)) \/ UNCHANGED vars
  <2>1. UNCHANGED <<storer, at, ahead>>
    BY <1>14 DEF EventsUpsert, Publish, vars
  <2> QED
    BY <2>1 DEF Locks, Ordered, Holding, Where
<1> QED
  BY <1>1, <1>2, <1>3, <1>4, <1>5, <1>6, <1>7, <1>8, <1>9, <1>10, <1>11, <1>12, <1>13, <1>14
     DEF Next, Serve, StoreMatches

\* What the locks are there for.
LEMMA Exclusive ==
    ASSUME Locks
    PROVE  /\ \A c, d \in Clients : at[c] = "put event" /\ at[d] = "put event" => c = d
           /\ \A c, d \in Clients :
                 {at[c], at[d]} \subseteq {"put match", "delete match"} => c = d
           /\ \A c \in Clients :
                 ~(storer.at = "alliances" /\ at[c] \in {"put match", "delete match"})
<1>1. \A c \in Clients : c \in Actors /\ c # Storer /\ Where(c) = at[c]
  BY MatchesAssumption DEF Actors, Where
<1>2. Storer \in Actors /\ Where(Storer) = storer.at
  BY DEF Actors, Where
<1>3. /\ Conflict("put event", "put event")
      /\ \A s \in {"put match", "delete match"} :
            \A t \in {"put match", "delete match", "alliances"} : Conflict(s, t)
  BY DEF Conflict, EventsExclusive, MatchesExclusive, MatchesShared
<1>4. \A a, b \in Actors : ahead[a] = {} /\ ahead[b] = {} /\ a # b => ~Conflict(Where(a), Where(b))
  BY DEF Locks, Ordered
<1>5. \A c, d \in Clients : at[c] = "put event" /\ at[d] = "put event" => c = d
  BY <1>1, <1>3, <1>4 DEF Locks, Holding
<1>6. \A c, d \in Clients : {at[c], at[d]} \subseteq {"put match", "delete match"} => c = d
  BY <1>1, <1>3, <1>4 DEF Locks, Holding
<1>7. \A c \in Clients : ~(storer.at = "alliances" /\ at[c] \in {"put match", "delete match"})
  BY <1>1, <1>2, <1>3, <1>4 DEF Locks, Holding
<1> QED
  BY <1>5, <1>6, <1>7

-----------------------------------------------------------------------------
(* The rows.                                                               *)

\* Who may put an event that belongs to a realm is of that realm.
EditAllowed == \A c \in Clients :
    at[c] = "put event" /\ realm[req[c].event] \in Realms => realm[req[c].event] = req[c].realm

\* What is marked is compared with the list last stored.
MarksWhatIsListed == storer.at = "mark" => listed[storer.event] = storer.list

IInv == TypeInv /\ Locks /\ FoundHolds /\ EditAllowed /\ MarksWhatIsListed /\ DeletedAsListed

\* A client's step that ends its request.
Ends(c) == at' = [at EXCEPT ![c] = "done"]

\* An answer ends a request.
LEMMA RespondEnds == \A c \in Clients : \A a : Respond(c, a) => Ends(c)
BY DEF Respond, Ends

\* The inductive invariant holds at first.
LEMMA RowsInit == Init => IInv
<1> SUFFICES ASSUME Init PROVE IInv
  OBVIOUS
<1>1. storer.at = "recv" /\ \A m \in Matches : row[m] = NoRow
  BY DEF Init, StorerAt
<1>2. FoundHolds /\ EditAllowed
  BY DEF Init, FoundHolds, EditAllowed
<1>3. DeletedAsListed /\ MarksWhatIsListed
  BY <1>1 DEF DeletedAsListed, MarksWhatIsListed, NoRow, Matches
<1> QED
  BY <1>2, <1>3, TypeInit, LocksInit DEF IInv

\* What client c has found, and that it may edit it.
Found(c) ==
    /\ at[c] \in {"put match", "delete match"} =>
          existed[c] = (StoredKeys(req[c].match[2]) # {})
    /\ at[c] = "put event" => existed[c] = (realm[req[c].event] # Missing)
    /\ at[c] = "put event" /\ realm[req[c].event] \in Realms => realm[req[c].event] = req[c].realm

\* What a client has found holds on while the rows that it asked about are the same.
LEMMA FoundStays ==
    ASSUME TypeInv, NEW c \in Clients, Found(c), at'[c] = at[c], req'[c] = req[c], existed'[c] = existed[c],
           at[c] \in {"put match", "delete match"} =>
               UNCHANGED row \/ \A m \in Matches : Stored(m)' <=> Stored(m),
           at[c] = "put event" => UNCHANGED realm
    PROVE  Found(c)'
<1>1. \A k \in Keys : \A e \in Events : <<e, k>> \in Matches
  BY DEF Matches
<1>2. ASSUME at[c] \in {"put match", "delete match"}, NEW k \in Keys
      PROVE  StoredKeys(k)' = StoredKeys(k)
  <2>1. \A e \in Events : Stored(<<e, k>>)' <=> Stored(<<e, k>>)
    BY <1>1, <1>2 DEF Stored
  <2> QED
    BY <2>1 DEF StoredKeys
<1>3. at[c] \in {"put match", "delete match"} => req[c].match[2] \in Keys
  BY RequestType DEF TypeInv, Known, Matches
<1> QED
  BY <1>2, <1>3 DEF Found

\* Every client's find holds on after a step.
LEMMA FoundStep ==
    ASSUME TypeInv, Locks, \A c \in Clients : Found(c), [Next]_vars, NEW d \in Clients
    PROVE  Found(d)'
<1> USE DEF TypeInv, TypeOK
<1>1. ASSUME NEW c \in Clients, UNCHANGED db, Start(c) \/ HangUp(c) \/ DeleteMatch(c) \/
             LockAlliance(c) \/ FileReport(c)
      PROVE  Found(d)'
  <2>1. PICK t \in {"alliance", "edit event", "edit match", "report", "done"} :
          at' = [at EXCEPT ![c] = t]
    <3>1. ASSUME NEW q, CASE q.op = "post report" -> Goto(c, "alliance")
                          [] q.role = "user" -> Respond(c, "forbidden")
                          [] q.op = "put event" -> Ask(c, "edit event")
                          [] OTHER -> Ask(c, "edit match")
          PROVE  Goto(c, "alliance") \/ Respond(c, "forbidden") \/
                 Ask(c, "edit event") \/ Ask(c, "edit match")
      BY <3>1
    <3> QED
      BY <1>1, <3>1 DEF Start, HangUp, DeleteMatch, LockAlliance, FileReport, Goto, Ask, Respond
  <2>2. UNCHANGED <<row, realm, existed>> /\ \A b \in Clients \ {c} : req'[b] = req[b]
    BY <1>1 DEF Start, HangUp, DeleteMatch, LockAlliance, FileReport, db
  <2>3. CASE d = c
    BY <2>1, <2>3 DEF Found
  <2>4. CASE d # c
    BY <2>1, <2>2, <2>4, FoundStays
  <2> QED
    BY <2>3, <2>4
<1>2. ASSUME NEW c \in Clients, EditEvent(c) PROVE Found(d)'
  <2>1. /\ existed' = [existed EXCEPT ![c] = realm[req[c].event] # Missing]
        /\ UNCHANGED <<row, realm, req>>
    BY <1>2 DEF EditEvent, db
  <2>2. CASE d # c
    <3>1. at'[d] = at[d] /\ existed'[d] = existed[d]
      BY <1>2, <2>1, <2>2 DEF EditEvent, Goto, Respond
    <3> QED
      BY <2>1, <3>1, FoundStays
  <2>3. CASE d = c /\ Respond(c, "forbidden")
    BY <2>3 DEF Respond, Found
  <2>4. CASE d = c /\ Goto(c, "put event") /\
             MayEdit(req[c], IF realm[req[c].event] = Missing THEN None ELSE realm[req[c].event])
    <3>1. realm[req[c].event] \in Realms => realm[req[c].event] = req[c].realm
      BY <2>4, MatchesAssumption DEF MayEdit, Maybe
    <3> QED
      BY <2>1, <2>4, <3>1 DEF Goto, Found
  <2> QED
    BY <1>2, <2>2, <2>3, <2>4 DEF EditEvent
<1>3. ASSUME NEW c \in Clients, PutEvent(c) PROVE Found(d)'
  <2>1. at[c] = "put event" /\ at' = [at EXCEPT ![c] = "done"] /\ UNCHANGED <<row, req, existed>>
    BY <1>3 DEF PutEvent, Respond
  <2>2. CASE d = c
    BY <2>1, <2>2 DEF Found
  <2>3. CASE d # c
    BY <2>1, <2>3, Exclusive, FoundStays
  <2> QED
    BY <2>2, <2>3
<1>4. ASSUME NEW c \in Clients, EditMatch(c) PROVE Found(d)'
  <2>1. /\ existed' = [existed EXCEPT ![c] = StoredKeys(req[c].match[2]) # {}]
        /\ UNCHANGED <<row, realm, req>>
    BY <1>4 DEF EditMatch, db
  <2>2. \E t \in {"put match", "delete match", "done"} : at' = [at EXCEPT ![c] = t]
    <3>1. req[c].op \in {"put match", "delete match"}
      BY <1>4 DEF EditMatch, Known
    <3>2. Goto(c, req[c].op) \/ Respond(c, "forbidden")
      BY <1>4 DEF EditMatch
    <3> QED
      BY <3>1, <3>2 DEF Goto, Respond
  <2>3. CASE d = c
    BY <2>1, <2>2, <2>3 DEF Found, StoredKeys, Stored
  <2>4. CASE d # c
    BY <2>1, <2>2, <2>4, FoundStays
  <2> QED
    BY <2>3, <2>4
<1>5. ASSUME NEW c \in Clients, PutMatch(c) PROVE Found(d)'
  <2>1. at[c] = "put match" /\ UNCHANGED <<realm, req, existed>>
    BY <1>5 DEF PutMatch
  <2>2. at' = [at EXCEPT ![c] = "done"]
    BY <1>5 DEF PutMatch, Edited, Respond
  <2>3. CASE d = c
    BY <2>2, <2>3 DEF Found
  <2>4. CASE d # c
    BY <2>1, <2>2, <2>4, Exclusive, FoundStays
  <2> QED
    BY <2>3, <2>4
<1>6. CASE EventsUpsert
  BY <1>6, FoundStays DEF EventsUpsert
<1>7. CASE UpdateTBAMatches
  BY <1>7, Exclusive, FoundStays DEF UpdateTBAMatches
<1>8. CASE MarkMatchesDeleted
  <2>1. \A m \in Matches : Stored(m)' <=> Stored(m)
    <3>1. \A m \in Matches : row'[m] = Marked(m)
      BY <1>8 DEF MarkMatchesDeleted
    <3>2. \A m : [by |-> row[m].by, deleted |-> TRUE] # NoRow
      BY DEF NoRow
    <3> QED
      BY <3>1, <3>2 DEF Marked, Stored
  <2> QED
    BY <1>8, <2>1, FoundStays DEF MarkMatchesDeleted
<1>9. CASE \/ ReceiveMatches \/ BeginUpsert \/ Timeout \/ UNCHANGED vars
           \/ \E e \in TbaEvents : Publish(e)
  <2>1. UNCHANGED <<row, realm, req, at, existed>>
    BY <1>9 DEF ReceiveMatches, BeginUpsert, Timeout, Publish, vars, db
  <2> QED
    BY <2>1, FoundStays
<1> QED
  BY <1>1, <1>2, <1>3, <1>4, <1>5, <1>6, <1>7, <1>8, <1>9 DEF Next, Serve, StoreMatches,
     Start, HangUp, DeleteMatch, LockAlliance, FileReport

\* What a row and a list have to do with each other, for match k of event e.
Told(e, k) ==
    /\ row[<<e, k>>].deleted => k \notin listed[e]
    /\ row[<<e, k>>].by = "tba" /\ k \notin listed[e] =>
          row[<<e, k>>].deleted \/ (storer.at = "mark" /\ storer.event = e)

\* The steps of the storer's two statements, and those of all others.
LEMMA ToldStep ==
    ASSUME TypeInv, MarksWhatIsListed, NEW e \in Events, NEW k \in Keys, Told(e, k), [Next]_vars
    PROVE  Told(e, k)'
<1> USE DEF TypeInv, TypeOK
<1>m. <<e, k>> \in Matches
  BY DEF Matches
<1>1. ASSUME NEW c \in Clients, PutMatch(c) PROVE Told(e, k)'
  <2>1. UNCHANGED <<listed, storer>>
    BY <1>1 DEF PutMatch
  <2>2. row' = row \/ row' = [row EXCEPT ![req[c].match] = [by |-> "user", deleted |-> FALSE]]
    BY <1>1 DEF PutMatch
  <2> QED
    BY <2>1, <2>2, <1>m DEF Told
<1>2. CASE UpdateTBAMatches
  <2>1. CASE StorerGoto("recv") /\ UNCHANGED <<row, listed>>
    BY <1>2, <2>1 DEF UpdateTBAMatches, StorerGoto, StorerAt, Told
  <2>2. CASE /\ row' = [m \in Matches |-> Upserted(storer.list, m)]
             /\ listed' = [listed EXCEPT ![storer.event] = storer.list]
             /\ storer' = [storer EXCEPT !.at = "mark"]
    <3>1. /\ storer.at = "alliances" /\ storer.event \in TbaEvents /\ TbaEvents \subseteq Events
          /\ storer'.at = "mark" /\ storer'.event = storer.event /\ storer'.list = storer.list
      BY <1>2, <2>2, MatchesAssumption DEF UpdateTBAMatches
    <3>2. row'[<<e, k>>] = IF e = storer.event /\ k \in storer.list
                           THEN [by |-> "tba", deleted |-> FALSE] ELSE row[<<e, k>>]
      BY <2>2, <1>m DEF Upserted
    <3>3. listed'[e] = IF e = storer.event THEN storer.list ELSE listed[e]
      BY <2>2, <3>1
    <3> QED
      BY <3>1, <3>2, <3>3 DEF Told
  <2> QED
    BY <1>2, <2>1, <2>2 DEF UpdateTBAMatches
<1>3. CASE MarkMatchesDeleted
  <2>1. /\ storer.at = "mark" /\ storer'.at = "recv" /\ UNCHANGED listed
        /\ listed[storer.event] = storer.list
    BY <1>3 DEF MarkMatchesDeleted, StorerGoto, StorerAt, MarksWhatIsListed
  <2>2. row'[<<e, k>>] = Marked(<<e, k>>)
    BY <1>3, <1>m DEF MarkMatchesDeleted
  <2>3. CASE e = storer.event /\ k \notin storer.list /\ Stored(<<e, k>>)
    BY <2>1, <2>2, <2>3 DEF Marked, Told
  <2>4. CASE ~(e = storer.event /\ k \notin storer.list /\ Stored(<<e, k>>))
    <3>1. row'[<<e, k>>] = row[<<e, k>>]
      BY <2>2, <2>4 DEF Marked
    <3>2. row[<<e, k>>].by = "tba" => Stored(<<e, k>>)
      BY DEF Stored, NoRow
    <3> QED
      BY <2>1, <2>4, <3>1, <3>2 DEF Told
  <2> QED
    BY <2>3, <2>4
<1>4. CASE ReceiveMatches \/ BeginUpsert \/ Timeout
  <2>1. UNCHANGED <<row, listed>> /\ storer.at # "mark" /\ storer'.at # "mark"
    BY <1>4 DEF ReceiveMatches, BeginUpsert, Timeout, StorerGoto, StorerAt, db
  <2> QED
    BY <2>1 DEF Told
<1>5. ASSUME UNCHANGED <<row, listed, storer>> PROVE Told(e, k)'
  BY <1>5 DEF Told
<1>6. \A c \in Clients : Start(c) \/ HangUp(c) \/ EditEvent(c) \/ PutEvent(c) \/ EditMatch(c) \/
        DeleteMatch(c) \/ LockAlliance(c) \/ FileReport(c) => UNCHANGED <<row, listed, storer>>
  BY DEF Start, HangUp, EditEvent, PutEvent, EditMatch, DeleteMatch, LockAlliance, FileReport, db
<1>7. EventsUpsert \/ (\E f \in TbaEvents : Publish(f)) \/ UNCHANGED vars =>
        UNCHANGED <<row, listed, storer>>
  BY DEF EventsUpsert, Publish, vars, db
<1> QED
  BY <1>1, <1>2, <1>3, <1>4, <1>5, <1>6, <1>7 DEF Next, Serve, StoreMatches

\* The list that is upserted is the list that is marked by.
LEMMA ListStep == TypeInv /\ MarksWhatIsListed /\ [Next]_vars => MarksWhatIsListed'
<1> SUFFICES ASSUME TypeInv, MarksWhatIsListed, [Next]_vars PROVE MarksWhatIsListed'
  OBVIOUS
<1>1. CASE UpdateTBAMatches
  <2>1. CASE storer' = StorerAt("recv")
    BY <2>1 DEF StorerAt, MarksWhatIsListed
  <2>2. CASE /\ listed' = [listed EXCEPT ![storer.event] = storer.list]
             /\ storer' = [storer EXCEPT !.at = "mark"]
    BY <1>1, <2>2, MatchesAssumption DEF UpdateTBAMatches, TypeInv, TypeOK, MarksWhatIsListed
  <2> QED
    BY <1>1, <2>1, <2>2 DEF UpdateTBAMatches, StorerGoto
<1>2. CASE ReceiveMatches \/ BeginUpsert \/ Timeout \/ MarkMatchesDeleted
  <2>1. storer'.at # "mark"
    BY <1>2 DEF ReceiveMatches, BeginUpsert, Timeout, MarkMatchesDeleted, StorerGoto, StorerAt,
       TypeInv, TypeOK
  <2> QED
    BY <2>1 DEF MarksWhatIsListed
<1>3. ASSUME UNCHANGED <<listed, storer>> PROVE MarksWhatIsListed'
  BY <1>3 DEF MarksWhatIsListed
<1>4. \A c \in Clients : Start(c) \/ HangUp(c) \/ EditEvent(c) \/ PutEvent(c) \/ EditMatch(c) \/
        PutMatch(c) \/ DeleteMatch(c) \/ LockAlliance(c) \/ FileReport(c) =>
        UNCHANGED <<listed, storer>>
  BY DEF Start, HangUp, EditEvent, PutEvent, EditMatch, PutMatch, DeleteMatch, LockAlliance,
     FileReport, db
<1>5. EventsUpsert \/ (\E f \in TbaEvents : Publish(f)) \/ UNCHANGED vars =>
        UNCHANGED <<listed, storer>>
  BY DEF EventsUpsert, Publish, vars, db
<1> QED
  BY <1>1, <1>2, <1>3, <1>4, <1>5 DEF Next, Serve, StoreMatches

\* FoundHolds and EditAllowed are about every client in turn.
LEMMA FoundAll == (\A c \in Clients : Found(c)) <=> FoundHolds /\ EditAllowed
BY DEF Found, FoundHolds, EditAllowed

\* DeletedAsListed is about every match in turn.
LEMMA ToldAll == (\A e \in Events, k \in Keys : Told(e, k)) <=> DeletedAsListed
BY DEF Told, DeletedAsListed

\* Every step keeps the inductive invariant.
LEMMA InductiveStep == IInv /\ [Next]_vars => IInv'
<1> SUFFICES ASSUME IInv, [Next]_vars PROVE IInv'
  OBVIOUS
<1>1. TypeInv' /\ Locks'
  BY TypeStep, LocksStep DEF IInv
<1>2. (FoundHolds /\ EditAllowed)'
  <2>1. \A c \in Clients : Found(c)'
    BY FoundAll, FoundStep DEF IInv
  <2> QED
    BY <2>1 DEF Found, FoundHolds, EditAllowed
<1>3. MarksWhatIsListed'
  BY ListStep DEF IInv
<1>4. DeletedAsListed'
  <2>1. \A e \in Events, k \in Keys : Told(e, k)'
    BY ToldAll, ToldStep DEF IInv
  <2> QED
    BY <2>1 DEF Told, DeletedAsListed
<1> QED
  BY <1>1, <1>2, <1>3, <1>4 DEF IInv

\* What editMatch or editEvent has found holds until the commit, for any number
\* of clients that edit, and the refresher (matches.go:210-239, events.go:132-160).
THEOREM FoundHoldsCorrect == Spec => []FoundHolds
<1>1. IInv => FoundHolds
  BY DEF IInv
<1> QED
  BY <1>1, RowsInit, InductiveStep, PTL DEF Spec

\* tba_deleted is the truth about TBA, whatever any number of users put in between
\* (refresh.go:281-291).
THEOREM DeletedAsListedCorrect == Spec => []DeletedAsListed
<1>1. IInv => DeletedAsListed
  BY DEF IInv
<1> QED
  BY <1>1, RowsInit, InductiveStep, PTL DEF Spec

\* A custom event stays with its realm, however many realms create it at once
\* (events.go:140-151).
THEOREM RealmKeptCorrect == Spec => RealmKept
<1> DEFINE Kept == \A e \in Events \ TbaEvents : realm[e] \in Realms => realm'[e] = realm[e]
<1>1. ASSUME IInv, [Next]_vars PROVE Kept
  <2>1. ASSUME NEW c \in Clients, PutEvent(c) PROVE Kept
    <3>1. /\ at[c] = "put event"
          /\ realm' = [realm EXCEPT ![req[c].event] = req[c].realm]
      BY <2>1 DEF PutEvent
    <3>2. realm[req[c].event] \in Realms => realm[req[c].event] = req[c].realm
      BY <1>1, <3>1 DEF IInv, EditAllowed
    <3> QED
      BY <1>1, <3>1, <3>2 DEF IInv, TypeInv, TypeOK
  <2>2. CASE EventsUpsert
    BY <2>2 DEF EventsUpsert
  <2>3. \A c \in Clients : Start(c) \/ HangUp(c) \/ EditEvent(c) \/ EditMatch(c) \/
          PutMatch(c) \/ DeleteMatch(c) \/ LockAlliance(c) \/ FileReport(c) => UNCHANGED realm
    BY DEF Start, HangUp, EditEvent, EditMatch, PutMatch, DeleteMatch, LockAlliance, FileReport, db
  <2>4. (\E e \in TbaEvents : Publish(e)) \/ ReceiveMatches \/ StoreMatches \/ UNCHANGED vars =>
          UNCHANGED realm
    BY DEF Publish, ReceiveMatches, StoreMatches, BeginUpsert, UpdateTBAMatches, Timeout,
       MarkMatchesDeleted, vars, db
  <2> QED
    BY <1>1, <2>1, <2>2, <2>3, <2>4 DEF Next, Serve
<1>2. IInv /\ [Next]_vars => [Kept]_vars
  BY <1>1
<1> QED
  BY <1>2, RowsInit, InductiveStep, PTL DEF Spec, RealmKept

-----------------------------------------------------------------------------
(* Who waits for whom.                                                     *)

\* One waits for a lock only behind those whose lock, or whose earlier request for
\* one, conflicts; and nobody is behind anybody in a circle: each set of actors has a
\* first one.
Justified == \A a \in Actors : \A b \in ahead[a] : Conflict(Where(a), Where(b))

QueueOrdered == \A S \in SUBSET Actors : S # {} => \E a \in S : ahead[a] \cap S = {}

Queued == Justified /\ QueueOrdered

\* The posts that hold an alliance of one of the matches ms.
Posts(ms) == {c \in Clients : at[c] = "report" /\ req[c].match \in ms}

\* The matches whose alliances actor a needs next.
Wanted(a) ==
    IF a = Storer THEN IF storer.at = "alliances" THEN {<<storer.event, k>> : k \in storer.list} ELSE {}
                  ELSE IF at[a] \in {"alliance", "put match", "delete match"} THEN {req[a].match} ELSE {}

\* The next statement of actor a need not wait.
CanGoOn(a) == Granted(a) /\ \A m \in Wanted(a) : AllianceFree(m)

\* Whom it waits for otherwise.
WaitsFor(a) == ahead[a] \cup Posts(Wanted(a))

UnderWay == {c \in Clients : at[c] \notin {"start", "done"}} \cup
                (IF storer.at = "recv" THEN {} ELSE {Storer})

\* Whoever is waited for is under way, and if all of a set of actors wait, for each other
\* only, a post and an edit of one match are among them, or the refresher's upsert, which
\* will time out.
NobodyStuck ==
    /\ \A a \in Actors : WaitsFor(a) \subseteq UnderWay
    /\ \A S \in SUBSET Actors :
          S # {} /\ (\A a \in S : ~CanGoOn(a) /\ WaitsFor(a) \subseteq S) =>
             \/ \E c, d \in S \cap Clients : /\ at[c] = "report" /\ at[d] \in {"put match", "delete match"}
                                             /\ req[c].match = req[d].match
             \/ Storer \in S /\ storer.at = "alliances"

\* Actor a alone goes on: to the end of the queue of what it needs next, or to a
\* statement that needs the same lock.
GoesOn(a) ==
    /\ \A b \in Actors \ {a} : Where(b)' = Where(b)
    /\ \/ Queue(a, Where(a)')
       \/ UNCHANGED ahead /\ \A t : Conflict(Where(a), t) => Conflict(Where(a)', t)

LEMMA ClientGoesOn ==
    ASSUME TypeInv, NEW c \in Clients, UNCHANGED storer, NEW t, at' = [at EXCEPT ![c] = t],
           \/ Queue(c, t)
           \/ UNCHANGED ahead /\ at[c] = "start"
           \/ UNCHANGED ahead /\ at[c] = "edit event" /\ t = "put event"
           \/ UNCHANGED ahead /\ at[c] = "edit match" /\ t \in {"put match", "delete match"}
    PROVE  c \in Actors /\ GoesOn(c)
<1>1. c \in Actors /\ c # Storer
  BY MatchesAssumption DEF Actors
<1>2. Where(c) = at[c] /\ Where(c)' = t /\ \A b \in Actors \ {c} : Where(b)' = Where(b)
  BY <1>1 DEF Where, Actors, TypeInv, TypeOK
<1>3. \A s : /\ Conflict("start", s) => Conflict(t, s)
             /\ Conflict("edit event", s) => Conflict("put event", s)
             /\ Conflict("edit match", s) => Conflict("put match", s) /\ Conflict("delete match", s)
  BY DEF Conflict, EventsExclusive, MatchesExclusive, MatchesShared
<1> QED
  BY <1>1, <1>2, <1>3 DEF GoesOn

LEMMA StorerGoesOn ==
    ASSUME UNCHANGED at, NEW t, storer'.at = t,
           \/ Queue(Storer, t)
           \/ UNCHANGED ahead /\ storer.at = "upsert" /\ t = "alliances"
    PROVE  Storer \in Actors /\ GoesOn(Storer)
<1>1. Storer \in Actors /\ Where(Storer) = storer.at /\ Where(Storer)' = t
  BY DEF Actors, Where
<1>2. \A b \in Actors \ {Storer} : Where(b)' = Where(b)
  BY DEF Where
<1>3. \A s : Conflict("upsert", s) => Conflict("alliances", s)
  BY DEF Conflict, EventsExclusive, MatchesExclusive, MatchesShared
<1> QED
  BY <1>1, <1>2, <1>3 DEF GoesOn

\* In every step one actor goes on, or nobody does.
LEMMA OneGoesOn ==
    ASSUME TypeInv, [Next]_vars
    PROVE  (\E a \in Actors : GoesOn(a)) \/ UNCHANGED <<storer, at, ahead>>
<1>a. \A c \in Clients : \A x : Respond(c, x) => at' = [at EXCEPT ![c] = "done"] /\ Queue(c, "done")
  BY DEF Respond
<1>b. \A c \in Clients : \A s : Ask(c, s) => at' = [at EXCEPT ![c] = s] /\ Queue(c, s)
  BY DEF Ask
<1>c. \A c \in Clients : \A s : Goto(c, s) => at' = [at EXCEPT ![c] = s] /\ UNCHANGED ahead
  BY DEF Goto
<1>1. ASSUME NEW c \in Clients, Start(c) PROVE GoesOn(c) /\ c \in Actors
  <2>1. PICK q \in Requests :
          CASE q.op = "post report" -> Goto(c, "alliance")
            [] q.role = "user" -> Respond(c, "forbidden")
            [] q.op = "put event" -> Ask(c, "edit event")
            [] OTHER -> Ask(c, "edit match")
    BY <1>1 DEF Start
  <2>2. \/ Goto(c, "alliance") \/ Respond(c, "forbidden")
        \/ Ask(c, "edit event") \/ Ask(c, "edit match")
    BY <2>1
  <2> QED
    BY <1>1, <1>a, <1>b, <1>c, <2>2, ClientGoesOn DEF Start
<1>2. ASSUME NEW c \in Clients, HangUp(c) \/ PutEvent(c) \/ PutMatch(c) \/ DeleteMatch(c) \/ FileReport(c)
      PROVE  GoesOn(c) /\ c \in Actors
  <2>1. (\E x : Respond(c, x)) /\ UNCHANGED storer
    BY <1>2 DEF HangUp, PutEvent, PutMatch, DeleteMatch, FileReport, Edited
  <2> QED
    BY <1>a, <2>1, ClientGoesOn
<1>3. ASSUME NEW c \in Clients, EditEvent(c) PROVE GoesOn(c) /\ c \in Actors
  <2>1. /\ Goto(c, "put event") \/ Respond(c, "forbidden")
        /\ at[c] = "edit event" /\ UNCHANGED storer
    BY <1>3 DEF EditEvent
  <2> QED
    BY <1>a, <1>c, <2>1, ClientGoesOn
<1>4. ASSUME NEW c \in Clients, EditMatch(c) PROVE GoesOn(c) /\ c \in Actors
  <2>1. /\ Goto(c, req[c].op) \/ Respond(c, "forbidden")
        /\ at[c] = "edit match" /\ UNCHANGED storer
    BY <1>4 DEF EditMatch
  <2>2. req[c].op \in {"put match", "delete match"}
    BY <2>1 DEF TypeInv, Known
  <2> QED
    BY <1>a, <1>c, <2>1, <2>2, ClientGoesOn
<1>5. ASSUME NEW c \in Clients, LockAlliance(c) PROVE GoesOn(c) /\ c \in Actors
  <2>1. (Ask(c, "report") \/ Respond(c, "bad request")) /\ UNCHANGED storer
    BY <1>5 DEF LockAlliance
  <2> QED
    BY <1>a, <1>b, <2>1, ClientGoesOn
<1>6. CASE ReceiveMatches
  BY <1>6, StorerGoesOn DEF ReceiveMatches
<1>7. CASE BeginUpsert
  <2>1. storer'.at = "alliances"
    BY <1>7 DEF BeginUpsert, TypeInv, TypeOK
  <2> QED
    BY <1>7, <2>1, StorerGoesOn DEF BeginUpsert
<1>8. CASE UpdateTBAMatches
  <2>1. CASE StorerGoto("recv")
    BY <1>8, <2>1, StorerGoesOn DEF UpdateTBAMatches, StorerGoto, StorerAt
  <2>2. CASE storer' = [storer EXCEPT !.at = "mark"] /\ Queue(Storer, "mark")
    <3>1. storer'.at = "mark"
      BY <2>2 DEF TypeInv, TypeOK
    <3> QED
      BY <1>8, <2>2, <3>1, StorerGoesOn DEF UpdateTBAMatches
  <2> QED
    BY <1>8, <2>1, <2>2 DEF UpdateTBAMatches
<1>9. CASE Timeout \/ MarkMatchesDeleted
  BY <1>9, StorerGoesOn DEF Timeout, MarkMatchesDeleted, StorerGoto, StorerAt
<1>10. CASE EventsUpsert \/ (\E e \in TbaEvents : Publish(e)) \/ UNCHANGED vars
  BY <1>10 DEF EventsUpsert, Publish, vars
<1> QED
  BY <1>1, <1>2, <1>3, <1>4, <1>5, <1>6, <1>7, <1>8, <1>9, <1>10 DEF Next, Serve, StoreMatches

\* Whoever goes to the end of the queue leaves the order of the others as it is, and
\* is itself not ahead of anybody.
LEMMA QueuedStep == TypeInv /\ Queued /\ [Next]_vars => Queued'
<1> SUFFICES ASSUME TypeInv, Queued, [Next]_vars PROVE Queued'
  OBVIOUS
<1>1. CASE UNCHANGED <<storer, at, ahead>>
  BY <1>1 DEF Queued, Justified, QueueOrdered, Where
<1>2. ASSUME NEW a \in Actors, GoesOn(a), Queue(a, Where(a)') PROVE Queued'
  <2>1. /\ ahead'[a] = {d \in Actors \ {a} : Conflict(Where(a)', Where(d))}
        /\ \A b \in Actors \ {a} : ahead'[b] = ahead[b] \ {a}
    BY <1>2 DEF Queue
  <2>2. Justified'
    <3> SUFFICES ASSUME NEW b \in Actors, NEW d \in ahead'[b] PROVE Conflict(Where(b), Where(d))'
      BY DEF Justified
    <3>1. CASE b = a
      <4>1. d \in Actors \ {a} /\ Conflict(Where(a)', Where(d))
        BY <2>1, <3>1
      <4> QED
        BY <1>2, <3>1, <4>1 DEF GoesOn, Conflict
    <3>2. CASE b # a
      <4>1. d \in ahead[b] /\ d # a /\ d \in Actors
        BY <2>1, <3>2 DEF TypeInv, TypeOK
      <4>2. Conflict(Where(b), Where(d)) /\ Where(b)' = Where(b) /\ Where(d)' = Where(d)
        BY <1>2, <3>2, <4>1 DEF Queued, Justified, GoesOn
      <4> QED
        BY <4>2 DEF Conflict
    <3> QED
      BY <3>1, <3>2
  <2>3. QueueOrdered'
    <3> SUFFICES ASSUME NEW S \in SUBSET Actors, S # {} PROVE \E b \in S : ahead'[b] \cap S = {}
      BY DEF QueueOrdered
    <3>1. CASE S \ {a} = {}
      <4>1. S = {a} /\ a \notin ahead'[a]
        BY <2>1, <3>1
      <4> QED
        BY <4>1
    <3>2. CASE S \ {a} # {}
      <4>1. PICK b \in S \ {a} : ahead[b] \cap (S \ {a}) = {}
        BY <3>2 DEF Queued, QueueOrdered
      <4>2. ahead'[b] \cap S = {}
        BY <2>1, <4>1
      <4> QED
        BY <4>1, <4>2
    <3> QED
      BY <3>1, <3>2
  <2> QED
    BY <2>2, <2>3 DEF Queued
<1>3. ASSUME NEW a \in Actors, GoesOn(a), UNCHANGED ahead,
             \A t : Conflict(Where(a), t) => Conflict(Where(a)', t)
      PROVE  Queued'
  <2>1. \A b, d \in Actors : Conflict(Where(b), Where(d)) /\ d # b => Conflict(Where(b)', Where(d)')
    BY <1>3, ConflictSymmetric DEF GoesOn
  <2>2. \A b \in Actors : b \notin ahead[b]
    <3> SUFFICES ASSUME NEW b \in Actors PROVE b \notin ahead[b]
      OBVIOUS
    <3>1. {b} \in SUBSET Actors /\ {b} # {}
      OBVIOUS
    <3>2. PICK d \in {b} : ahead[d] \cap {b} = {}
      BY <3>1, Zenon DEF Queued, QueueOrdered
    <3> QED
      BY <3>2
  <2>3. Justified'
    <3> SUFFICES ASSUME NEW b \in Actors, NEW d \in ahead[b] PROVE Conflict(Where(b)', Where(d)')
      BY <1>3, Zenon DEF Justified, Conflict, Where
    <3>1. d \in Actors /\ d # b /\ Conflict(Where(b), Where(d))
      BY <2>2 DEF TypeInv, TypeOK, Queued, Justified
    <3> QED
      BY <2>1, <3>1
  <2> QED
    BY <1>3, <2>3 DEF Queued, QueueOrdered
<1> QED
  BY <1>1, <1>2, <1>3, OneGoesOn DEF GoesOn

LEMMA QueuedInit == Init => Queued
BY DEF Init, Queued, Justified, QueueOrdered

\* Nobody waits for an actor that asks for no lock of a table, and who waits for one is
\* under way.
LEMMA NoLockNoWait ==
    ASSUME TypeInv, Queued, NEW a \in Actors, NEW b \in ahead[a]
    PROVE  b \in UnderWay /\ Where(b) \notin {"start", "alliance", "done", "recv"}
<1>1. b \in Actors /\ Conflict(Where(a), Where(b))
  BY DEF Queued, Justified, TypeInv, TypeOK
<1>2. Where(b) \notin {"start", "alliance", "done", "recv"}
  BY <1>1 DEF Conflict, EventsExclusive, MatchesExclusive, MatchesShared
<1>3. b \in UnderWay
  BY <1>1, <1>2 DEF UnderWay, Where, Actors
<1> QED
  BY <1>2, <1>3

\* For any number of requests, and the refresher: the first in the queue of those who wait
\* for each other waits for an alliance, which a post among them holds.  Only an edit of the
\* match and the refresher's upsert can be that first one, as nobody waits for a post that
\* has no alliance yet (reports.go:133-158, matches.go:210-239, refresh.go:275-299).
THEOREM NobodyStuckCorrect == Spec => []NobodyStuck
<1>1. ASSUME TypeInv, Queued PROVE NobodyStuck
  <2>1. ASSUME NEW a \in Actors PROVE WaitsFor(a) \subseteq UnderWay
    <3>1. \A ms : Posts(ms) \subseteq UnderWay
      BY DEF Posts, UnderWay
    <3> QED
      BY <1>1, <3>1, NoLockNoWait DEF WaitsFor
  <2>2. ASSUME NEW S \in SUBSET Actors, S # {}, \A a \in S : ~CanGoOn(a) /\ WaitsFor(a) \subseteq S
        PROVE  \/ \E c, d \in S \cap Clients : /\ at[c] = "report" /\ at[d] \in {"put match", "delete match"}
                                               /\ req[c].match = req[d].match
               \/ Storer \in S /\ storer.at = "alliances"
    <3> DEFINE T == {a \in S : Where(a) # "alliance"}
    <3>1. ASSUME NEW a \in S, Granted(a)
          PROVE  \E c \in S \cap Clients : at[c] = "report" /\ req[c].match \in Wanted(a)
      <4>1. PICK m \in Wanted(a) : ~AllianceFree(m)
        BY <2>2, <3>1 DEF CanGoOn
      <4>2. PICK c \in Clients : at[c] = "report" /\ req[c].match = m
        BY <4>1 DEF AllianceFree
      <4>3. c \in Posts(Wanted(a))
        BY <4>1, <4>2 DEF Posts
      <4> QED
        BY <2>2, <4>1, <4>2, <4>3 DEF WaitsFor
    <3>2. \A a \in S : ahead[a] \subseteq T
      BY <1>1, <2>2, NoLockNoWait DEF WaitsFor
    <3>3. \A c \in Clients : Where(c) = at[c] /\ c \in Actors /\ c # Storer
      BY MatchesAssumption DEF Where, Actors
    <3>4. T # {}
      <4>1. PICK a \in S : TRUE
        BY <2>2
      <4>2. CASE ahead[a] # {}
        BY <3>2, <4>2
      <4>3. CASE ahead[a] = {}
        <5>1. PICK c \in S \cap Clients : at[c] = "report"
          BY <3>1, <4>3 DEF Granted
        <5>2. c \in T
          BY <3>3, <5>1
        <5> QED
          BY <5>2
      <4> QED
        BY <4>2, <4>3
    <3>5. PICK a \in T : ahead[a] \cap T = {}
      <4>1. T \in SUBSET Actors
        OBVIOUS
      <4> QED
        BY <1>1, <3>4, <4>1 DEF Queued, QueueOrdered
    <3>6. PICK c \in S \cap Clients : at[c] = "report" /\ req[c].match \in Wanted(a)
      BY <3>1, <3>2, <3>5 DEF Granted
    <3>7. CASE a = Storer
      BY <3>5, <3>6, <3>7 DEF Wanted
    <3>8. CASE a # Storer
      <4>1. a \in Clients /\ at[a] # "alliance"
        BY <3>3, <3>5, <3>8 DEF Actors
      <4>2. at[a] \in {"put match", "delete match"} /\ req[c].match = req[a].match
        BY <3>6, <3>8, <4>1 DEF Wanted
      <4> QED
        BY <3>5, <3>6, <4>1, <4>2
    <3> QED
      BY <3>7, <3>8
  <2> QED
    BY <2>1, <2>2 DEF NobodyStuck
<1> QED
  BY <1>1, TypeInit, TypeStep, QueuedInit, QueuedStep, PTL DEF Spec
=============================================================================
