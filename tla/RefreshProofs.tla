--------------------------- MODULE RefreshProofs ----------------------------
(***************************************************************************)
(* Theorems about Refresh, for every value of its constants.  None needs   *)
(* the fairness of Spec, which is therefore left out: Safety is implied by *)
(* Spec, and by other specifications that the refresher is a part of.      *)
(***************************************************************************)
EXTENDS Refresh, TLAPS

LEMMA SpecIsSafe == Spec => Safety
BY DEF Spec

\* The dispatcher's next state is one of its states.
LEMMA NextKeyType ==
    ASSUME NEW todo \in SUBSET Events
    PROVE  NextKey(todo) \subseteq DispState
BY DEF NextKey, DispAt, DispState, Keys

\* Every variable keeps its type (all of refresh.go).
THEOREM TypeCorrect == Safety => []TypeOK
<1>1. Init => TypeOK
  <2> SUFFICES ASSUME Init PROVE TypeOK
    OBVIOUS
  <2>1. tbaList \in [ver : Nat, events : SUBSET TbaEvents]
    BY DEF Init
  <2>2. /\ fe \in FeState /\ sa \in SaState /\ disp \in DispState /\ se \in SeState
    BY DEF Init, FeAt, SaAt, DispAt, FeState, SaState, DispState, SeState, Keys
  <2>3. /\ fetch \in [Resources -> FetchState]
        /\ store \in [Resources -> StoreState]
    BY DEF Init, PageAt, FetchState, StoreState, Keys
  <2> QED
    BY EventsAssumption, <2>1, <2>2, <2>3 DEF Init, TypeOK
<1>2. TypeOK /\ [Next]_vars => TypeOK'
  <2> SUFFICES ASSUME TypeOK, [Next]_vars PROVE TypeOK'
    OBVIOUS
  <2> USE DEF TypeOK
  <2>1. CASE GetEvents
    BY EventsAssumption, <2>1 DEF GetEvents, FeAt, FeState, Smooth, Fails, Fault, tbaVars, dbVars
  <2>2. CASE FetchEventsDone
    BY <2>2 DEF FetchEventsDone, FeAt, FeState, tbaVars, dbVars, etags, counters
  <2>3. CASE GetActiveEvents
    BY <2>3 DEF GetActiveEvents, AfterSeed, SaAt, SaState, Smooth, Fails, Fault, tbaVars,
       dbVars, etags
  <2>4. CASE SeedDone
    BY <2>4 DEF SeedDone, SaAt, SaState, tbaVars, dbVars, etags, counters
  <2>5. CASE RecvEvents
    BY <2>5 DEF RecvEvents, FeAt, FeState, DispState, Keys, tbaVars, dbVars, etags, counters
  <2>6. CASE RecvActive
    BY <2>6 DEF RecvActive, AfterSeed, SaAt, SaState, DispState, Keys, tbaVars, dbVars, etags,
       counters
  <2>7. CASE RecvClosed
    BY <2>7 DEF RecvClosed, DispAt, DispState, Keys, tbaVars, dbVars, etags, counters
  <2>8. CASE DispatchDone
    BY <2>8 DEF DispatchDone, DispAt, DispState, Keys, tbaVars, dbVars, etags, counters
  <2>9. CASE SendStoreEvents
    BY <2>9, NextKeyType DEF SendStoreEvents, SeState, DispState, tbaVars, dbVars, etags,
       counters
  <2>10. ASSUME NEW r \in Resources, Forward(r) PROVE TypeOK'
    BY <2>10, NextKeyType DEF Forward, Resources, FetchState, DispState, tbaVars, dbVars,
       etags, counters
  <2>11. CASE EventsUpsert
    BY <2>11 DEF EventsUpsert, FeAt, SeState, Smooth, Fails, Fault, tbaVars, etags
  <2>12. CASE StoreEventsDone
    BY <2>12 DEF StoreEventsDone, FeAt, SeState, tbaVars, dbVars, etags, counters
  <2>13. ASSUME NEW r \in Resources, Get(r) PROVE TypeOK'
    <3> DEFINE e == fetch[r].key
               p == <<r, e>>
    <3>1. e \in TbaEvents => p \in Pages /\ tba[p] \in Nat
      BY EventsAssumption DEF Pages
    <3>2. PageAt("recv") \in FetchState
      BY DEF PageAt, FetchState, Keys
    <3>3. e \in TbaEvents => [at |-> "send", key |-> e, ver |-> tba[p]] \in FetchState
      BY <3>1, EventsAssumption DEF FetchState, Keys
    <3>4. fetch' \in [Resources -> FetchState]
      BY <2>13, <3>2, <3>3 DEF Get
    <3>5. etag' \in [Pages -> Nat \cup {NoEtag}]
      BY <2>13, <3>1 DEF Get
    <3>6. faults' \in Nat
      BY <2>13 DEF Get, Smooth, Fails, Fault
    <3> QED
      BY <2>13, <3>4, <3>5, <3>6 DEF Get, tbaVars, dbVars
  <2>14. ASSUME NEW r \in Resources, Send(r) PROVE TypeOK'
    <3>1. Handed(r) \in StoreState
      BY DEF Handed, FetchState, StoreState
    <3>2. PageAt("recv") \in FetchState
      BY DEF PageAt, FetchState, Keys
    <3> QED
      BY <2>14, <3>1, <3>2 DEF Send, tbaVars, dbVars, etags, counters
  <2>15. ASSUME NEW r \in Resources, FetchDone(r) PROVE TypeOK'
    BY <2>15 DEF FetchDone, PageAt, FetchState, Keys, tbaVars, dbVars, etags, counters
  <2>16. ASSUME NEW r \in Resources, Upsert(r) PROVE TypeOK'
    <3> DEFINE e == store[r].key
               v == store[r].ver
    <3>1. e \in Keys /\ v \in Nat
      BY DEF StoreState
    <3>2. PageAt("recv") \in StoreState /\ [at |-> "mark", key |-> e, ver |-> v] \in StoreState
      BY <3>1 DEF PageAt, StoreState, Keys
    <3>3. store' \in [Resources -> StoreState]
      BY <2>16, <3>2 DEF Upsert
    <3>4. db' \in [Pages -> Nat]
      BY <2>16, <3>1 DEF Upsert
    <3>5. faults' \in Nat
      BY <2>16 DEF Upsert, Smooth, Fails, Fault
    <3> QED
      BY <2>16, <3>3, <3>4, <3>5 DEF Upsert, tbaVars, etags
  <2>17. CASE MarkMatchesDeleted
    BY <2>17 DEF MarkMatchesDeleted, PageAt, StoreState, Keys, Resources, Smooth, Fails, Fault,
       tbaVars, etags
  <2>18. ASSUME NEW r \in Resources, StoreDone(r) PROVE TypeOK'
    BY <2>18 DEF StoreDone, PageAt, StoreState, Keys, tbaVars, dbVars, etags, counters
  <2>19. ASSUME NEW p \in Pages, Publish(p) PROVE TypeOK'
    BY <2>19 DEF Publish, goroutines, dbVars, etags, counters
  <2>20. CASE Relist
    BY <2>20 DEF Relist, goroutines, dbVars, etags, counters
  <2>21. CASE Shutdown
    BY <2>21 DEF Shutdown, goroutines, tbaVars, dbVars, etags, counters
  <2>22. CASE Restart
    <3>1. fe' \in FeState /\ sa' \in SaState /\ disp' \in DispState /\ se' \in SeState
      BY <2>22 DEF Restart, FeAt, SaAt, DispAt, FeState, SaState, DispState, SeState, Keys
    <3>2. fetch' \in [Resources -> FetchState] /\ store' \in [Resources -> StoreState]
      BY <2>22 DEF Restart, PageAt, FetchState, StoreState, Keys
    <3>3. ctxDone' \in BOOLEAN
      BY <2>22 DEF Restart
    <3>4. etag' \in [Pages -> Nat \cup {NoEtag}] /\ listEtag' \in Nat \cup {NoEtag}
      BY <2>22 DEF Restart
    <3>5. /\ restarts' \in Nat
          /\ UNCHANGED <<tbaList, tba, dbEvents, db, marked, faults, races>>
      BY <2>22 DEF Restart, tbaVars, dbVars
    <3> QED
      BY <3>1, <3>2, <3>3, <3>4, <3>5
  <2>23. CASE EtagRace
    BY <2>23 DEF EtagRace, goroutines, tbaVars, dbVars
  <2>24. CASE UNCHANGED vars
    BY <2>24 DEF vars, goroutines, tbaVars, dbVars, etags, counters
  <2> QED
    BY <2>1, <2>2, <2>3, <2>4, <2>5, <2>6, <2>7, <2>8, <2>9, <2>10, <2>11, <2>12, <2>13,
       <2>14, <2>15, <2>16, <2>17, <2>18, <2>19, <2>20, <2>21, <2>22, <2>23, <2>24
       DEF Next, FetchEventsNext, SeedNext, DispatchNext, StoreEventsNext, FetchNext,
       StoreNext, Environment
<1> QED
  BY <1>1, <1>2, PTL DEF Safety

-----------------------------------------------------------------------------
(* The flow of pages, from TBA through fetch and store to the database.    *)

\* A step that moves no page, and can only spoil the premises of NoUpdateLost.
Quiet ==
    /\ UNCHANGED <<tba, etag, fetch, store, db, marked>>
    /\ restarts' = restarts
    /\ faults' = 0 => faults = 0
    /\ ~ctxDone' => ~ctxDone
    /\ dbEvents \subseteq dbEvents'

PageStep ==
    \/ \E r \in Resources : \/ Forward(r) \/ Get(r) \/ Send(r) \/ FetchDone(r)
                            \/ Upsert(r) \/ StoreDone(r)
    \/ MarkMatchesDeleted \/ Restart \/ EtagRace
    \/ \E p \in Pages : Publish(p)

\* A step either moves no page's version or is one of the few that do.
LEMMA StepCases ==
    ASSUME TypeOK, [Next]_vars
    PROVE  Quiet \/ PageStep
<1>1. GetEvents \/ FetchEventsDone => Quiet
  BY DEF GetEvents, FetchEventsDone, Quiet, Smooth, Fails, Fault, tbaVars, dbVars, etags,
     counters, TypeOK
<1>2. GetActiveEvents \/ SeedDone => Quiet
  BY DEF GetActiveEvents, SeedDone, Quiet, Smooth, Fails, Fault, tbaVars, dbVars, etags,
     counters, TypeOK
<1>3. RecvEvents \/ RecvActive \/ RecvClosed \/ DispatchDone \/ SendStoreEvents => Quiet
  BY DEF RecvEvents, RecvActive, RecvClosed, DispatchDone, SendStoreEvents, Quiet, tbaVars,
     dbVars, etags, counters
<1>4. EventsUpsert \/ StoreEventsDone => Quiet
  BY DEF EventsUpsert, StoreEventsDone, Quiet, Smooth, Fails, Fault, tbaVars, dbVars, etags,
     counters, TypeOK
<1>5. Relist \/ Shutdown => Quiet
  BY DEF Relist, Shutdown, Quiet, goroutines, tbaVars, dbVars, etags, counters
<1>6. UNCHANGED vars => Quiet
  BY DEF vars, Quiet, goroutines, tbaVars, dbVars, etags, counters
<1> QED
  BY <1>1, <1>2, <1>3, <1>4, <1>5, <1>6 DEF Next, FetchEventsNext, SeedNext, DispatchNext,
     StoreEventsNext, FetchNext, StoreNext, Environment, PageStep

\* Along the pipeline the versions of a page only get older, whatever fails and
\* whenever the process stops (refresh.go:242-349).
THEOREM VersionsOrderedCorrect == Safety => []VersionsOrdered
<1>1. Init => VersionsOrdered
  BY DEF Init, VersionsOrdered, OrderedAt, Fetched, Storing, PageAt, NoEtag, Pages
<1>2. TypeOK /\ VersionsOrdered /\ [Next]_vars => VersionsOrdered'
  <2> SUFFICES ASSUME TypeOK, VersionsOrdered, [Next]_vars, NEW p \in Pages
               PROVE  OrderedAt(p)'
    BY DEF VersionsOrdered
  <2>0. OrderedAt(p)
    BY DEF VersionsOrdered
  <2>t. /\ p[1] \in Resources /\ p[2] \in Events /\ p = <<p[1], p[2]>>
        /\ tba[p] \in Nat /\ db[p] \in Nat /\ etag[p] \in Nat \cup {-1}
        /\ fetch[p[1]] \in FetchState /\ store[p[1]] \in StoreState
        /\ fetch[p[1]].ver \in Nat /\ store[p[1]].ver \in Nat
    BY DEF Pages, TypeOK, NoEtag, FetchState, StoreState
  <2>1. CASE Quiet
    BY <2>0, <2>1 DEF Quiet, OrderedAt, Fetched, Storing
  <2>2. ASSUME NEW r \in Resources, Forward(r) \/ FetchDone(r) \/ StoreDone(r)
        PROVE  OrderedAt(p)'
    <3>1. UNCHANGED <<db, tba, etag>>
      BY <2>2 DEF Forward, FetchDone, StoreDone, tbaVars, dbVars, etags
    <3>2. /\ Fetched(p)' => Fetched(p) /\ fetch'[p[1]] = fetch[p[1]]
          /\ Storing(p)' => Storing(p) /\ store'[p[1]] = store[p[1]]
      BY <2>2, <2>t DEF Forward, FetchDone, StoreDone, Fetched, Storing, PageAt, TypeOK
    <3> QED
      BY <2>0, <3>1, <3>2 DEF OrderedAt
  <2>3. ASSUME NEW r \in Resources, Get(r) PROVE OrderedAt(p)'
    <3>1. UNCHANGED <<db, tba, store>> /\ etag'[p] \in {etag[p], tba[p]}
      BY <2>3, <2>t DEF Get, TypeOK, tbaVars, dbVars
    <3>2. Fetched(p)' => \/ fetch'[p[1]].ver = tba[p]
                         \/ Fetched(p) /\ fetch'[p[1]] = fetch[p[1]]
      BY <2>3, <2>t DEF Get, Fetched, PageAt, TypeOK
    <3> QED
      BY <2>0, <2>t, <3>1, <3>2 DEF OrderedAt, Storing
  <2>4. ASSUME NEW r \in Resources, Send(r) PROVE OrderedAt(p)'
    <3>1. UNCHANGED <<db, tba, etag>>
      BY <2>4 DEF Send, tbaVars, dbVars, etags
    <3>2. CASE r = p[1]
      <4>1. ~Fetched(p)'
        BY <2>4, <2>t, <3>2 DEF Send, Fetched, PageAt, TypeOK
      <4>2. Storing(p)' => Fetched(p) /\ store'[p[1]].ver = fetch[p[1]].ver
        BY <2>4, <2>t, <3>2 DEF Send, Handed, Fetched, Storing, TypeOK
      <4> QED
        BY <2>0, <3>1, <4>1, <4>2 DEF OrderedAt
    <3>3. CASE r # p[1]
      <4>1. UNCHANGED <<fetch[p[1]], store[p[1]]>>
        BY <2>4, <2>t, <3>3 DEF Send, TypeOK
      <4> QED
        BY <2>0, <3>1, <4>1 DEF OrderedAt, Fetched, Storing
    <3> QED
      BY <3>2, <3>3
  <2>5. ASSUME NEW r \in Resources, Upsert(r) PROVE OrderedAt(p)'
    <3>1. UNCHANGED <<tba, etag, fetch>>
      BY <2>5 DEF Upsert, tbaVars, etags
    <3>2. Storing(p)' => store'[p[1]] = store[p[1]] /\ Storing(p) /\ r # p[1]
      BY <2>5, <2>t DEF Upsert, Storing, PageAt, TypeOK
    <3>3. db'[p] = db[p] \/ (Storing(p) /\ db'[p] = store[p[1]].ver /\ r = p[1])
      BY <2>5, <2>t DEF Upsert, Storing, TypeOK
    <3> QED
      BY <2>0, <2>t, <3>1, <3>2, <3>3 DEF OrderedAt, Fetched
  <2>6. CASE MarkMatchesDeleted
    <3>1. UNCHANGED <<db, tba, etag, fetch>>
      BY <2>6 DEF MarkMatchesDeleted, tbaVars, etags
    <3>2. Storing(p)' => Storing(p) /\ store'[p[1]] = store[p[1]]
      BY <2>6, <2>t DEF MarkMatchesDeleted, Storing, PageAt, TypeOK
    <3> QED
      BY <2>0, <3>1, <3>2 DEF OrderedAt, Fetched
  <2>7. CASE Restart
    <3>1. UNCHANGED <<db, tba>> /\ etag'[p] = -1 /\ ~Fetched(p)' /\ ~Storing(p)'
      BY <2>7, <2>t DEF Restart, tbaVars, dbVars, NoEtag, Fetched, Storing, PageAt
    <3> QED
      BY <2>0, <2>t, <3>1 DEF OrderedAt
  <2>8. CASE EtagRace
    <3>1. UNCHANGED <<db, tba, fetch, store>> /\ etag'[p] = -1
      BY <2>8 DEF EtagRace, tbaVars, dbVars, goroutines, NoEtag
    <3> QED
      BY <2>0, <2>t, <3>1 DEF OrderedAt, Fetched, Storing
  <2>9. ASSUME NEW q \in Pages, Publish(q) PROVE OrderedAt(p)'
    <3>1. UNCHANGED <<db, etag, fetch, store>> /\ tba'[p] \in {tba[p], tba[p] + 1}
      BY <2>9 DEF Publish, etags, dbVars, goroutines, TypeOK
    <3> QED
      BY <2>0, <2>t, <3>1 DEF OrderedAt, Fetched, Storing
  <2> QED
    BY <2>1, <2>2, <2>3, <2>4, <2>5, <2>6, <2>7, <2>8, <2>9, StepCases DEF PageStep
<1> QED
  BY <1>1, <1>2, TypeCorrect, PTL DEF Safety

-----------------------------------------------------------------------------
(* The etag store and the database.                                        *)

\* Events are never deleted: a foreign key that holds keeps holding.
InitialStored == InitialEvents \subseteq dbEvents

\* The events of the start stay in the database.
LEMMA InitialStoredCorrect == Safety => []InitialStored
<1>1. Init => InitialStored
  BY DEF Init, InitialStored
<1>2. PageStep => UNCHANGED dbEvents
  BY DEF PageStep, Forward, Get, Send, FetchDone, Upsert, StoreDone, MarkMatchesDeleted,
     Restart, EtagRace, Publish, dbVars
<1>3. TypeOK /\ InitialStored /\ [Next]_vars => InitialStored'
  BY <1>2, StepCases DEF Quiet, InitialStored
<1> QED
  BY <1>1, <1>3, TypeCorrect, PTL DEF Safety

\* As long as nothing fails, an etag never hides a version of a stored event's
\* page that is neither in the database nor on its way (tba.go:149-151).  The
\* induction needs VersionsOrdered: the upsert of an older version must not end
\* below the etag it satisfied.
THEOREM NoUpdateLostCorrect == Safety => []NoUpdateLost
<1>1. Init => NoUpdateLost
  BY EventsAssumption DEF Init, NoUpdateLost, OnItsWay, Pages, NoEtag
<1>2. TypeOK /\ VersionsOrdered /\ InitialStored /\ NoUpdateLost /\ [Next]_vars
        => NoUpdateLost'
  <2> SUFFICES ASSUME TypeOK, VersionsOrdered, InitialStored, NoUpdateLost, [Next]_vars,
                      faults' = 0, ~ctxDone', NEW p \in Resources \X InitialEvents
               PROVE  OnItsWay(p)'
    BY DEF NoUpdateLost
  <2>t. /\ p \in Pages
        /\ p[1] \in Resources /\ p[2] \in InitialEvents /\ p = <<p[1], p[2]>>
        /\ tba[p] \in Nat /\ db[p] \in Nat /\ etag[p] \in Nat \cup {-1}
        /\ fetch[p[1]] \in FetchState /\ store[p[1]] \in StoreState
        /\ fetch[p[1]].ver \in Nat /\ store[p[1]].ver \in Nat
        /\ faults \in Nat
    BY EventsAssumption DEF Pages, TypeOK, NoEtag, FetchState, StoreState
  <2>o. OrderedAt(p)
    BY <2>t DEF VersionsOrdered
  <2>i. faults = 0 /\ ~ctxDone => OnItsWay(p)
    BY DEF NoUpdateLost
  <2>1. CASE Quiet
    BY <2>i, <2>1 DEF Quiet, OnItsWay, Fetched, Storing
  <2>2. ASSUME NEW r \in Resources, Forward(r) \/ FetchDone(r) \/ StoreDone(r)
        PROVE  OnItsWay(p)'
    <3>1. UNCHANGED <<db, etag, faults, ctxDone>>
      BY <2>2 DEF Forward, FetchDone, StoreDone, dbVars, etags, counters
    <3>2. /\ Fetched(p) => Fetched(p)' /\ fetch'[p[1]] = fetch[p[1]]
          /\ Storing(p) => Storing(p)' /\ store'[p[1]] = store[p[1]]
      BY <2>2, <2>t DEF Forward, FetchDone, StoreDone, Fetched, Storing, TypeOK
    <3> QED
      BY <2>i, <3>1, <3>2 DEF OnItsWay
  <2>3. ASSUME NEW r \in Resources, Get(r) PROVE OnItsWay(p)'
    <3>1. UNCHANGED <<db, store, ctxDone>> /\ faults = 0
      BY <2>3, <2>t DEF Get, Smooth, Fails, Fault, dbVars
    <3>2. CASE UNCHANGED etag
      <4>1. Fetched(p) => Fetched(p)' /\ fetch'[p[1]] = fetch[p[1]]
        BY <2>3, <2>t DEF Get, Fetched, TypeOK
      <4> QED
        BY <2>i, <3>1, <3>2, <4>1 DEF OnItsWay, Storing
    <3>3. CASE etag' # etag
      <4>1. /\ fetch[r].key \in TbaEvents
            /\ etag' = [etag EXCEPT ![<<r, fetch[r].key>>] = tba[<<r, fetch[r].key>>]]
            /\ fetch' = [fetch EXCEPT ![r] = [at |-> "send", key |-> fetch[r].key,
                                              ver |-> tba[<<r, fetch[r].key>>]]]
        BY <2>3, <2>t, <3>1, <3>3 DEF Get, Fails, Fault
      <4>2. CASE p = <<r, fetch[r].key>>
        BY <2>t, <4>1, <4>2 DEF OnItsWay, Fetched, TypeOK
      <4>3. CASE p # <<r, fetch[r].key>>
        <5>1. etag'[p] = etag[p]
          BY <2>t, <4>1, <4>3 DEF TypeOK
        <5>2. Fetched(p) => Fetched(p)' /\ fetch'[p[1]] = fetch[p[1]]
          BY <2>3, <2>t, <4>1 DEF Get, Fetched, TypeOK
        <5> QED
          BY <2>i, <3>1, <5>1, <5>2 DEF OnItsWay, Storing
      <4> QED
        BY <4>2, <4>3
    <3> QED
      BY <3>2, <3>3
  <2>4. ASSUME NEW r \in Resources, Send(r) PROVE OnItsWay(p)'
    <3>1. UNCHANGED <<db, etag, faults, ctxDone>>
      BY <2>4 DEF Send, dbVars, etags, counters
    <3>2. Storing(p) => Storing(p)' /\ store'[p[1]] = store[p[1]]
      BY <2>4, <2>t DEF Send, Storing, TypeOK
    <3>3. Fetched(p) => \/ Fetched(p)' /\ fetch'[p[1]] = fetch[p[1]]
                        \/ Storing(p)' /\ store'[p[1]].ver = fetch[p[1]].ver
      BY <2>4, <2>t DEF Send, Handed, Fetched, Storing, TypeOK
    <3> QED
      BY <2>i, <3>1, <3>2, <3>3 DEF OnItsWay
  <2>5. ASSUME NEW r \in Resources, Upsert(r) PROVE OnItsWay(p)'
    <3>1. UNCHANGED <<etag, fetch, ctxDone>>
      BY <2>5 DEF Upsert, etags
    <3>2. faults = 0
      BY <2>5, <2>t DEF Upsert, Smooth, Fails, Fault
    <3>3. CASE r = p[1] /\ store[r].key = p[2]
      <4>1. p[2] \in dbEvents
        BY <2>t DEF InitialStored
      <4>2. db' = [db EXCEPT ![p] = store[r].ver]
        BY <2>5, <2>t, <3>1, <3>2, <3>3, <4>1 DEF Upsert, Fails, Fault
      <4>3. db'[p] = store[r].ver /\ Storing(p)
        BY <2>5, <2>t, <3>3, <4>2 DEF Upsert, Storing, TypeOK
      <4> QED
        BY <2>i, <2>o, <2>t, <3>1, <3>2, <3>3, <4>3 DEF OnItsWay, OrderedAt, Fetched
    <3>4. CASE ~(r = p[1] /\ store[r].key = p[2])
      <4>1. db'[p] = db[p]
        BY <2>5, <2>t, <3>4 DEF Upsert, TypeOK
      <4>2. Storing(p) => Storing(p)' /\ store'[p[1]] = store[p[1]]
        BY <2>5, <2>t, <3>4 DEF Upsert, Storing, TypeOK
      <4> QED
        BY <2>i, <3>1, <3>2, <4>1, <4>2 DEF OnItsWay, Fetched
    <3> QED
      BY <3>3, <3>4
  <2>6. CASE MarkMatchesDeleted
    <3>1. UNCHANGED <<db, etag, fetch, ctxDone>> /\ faults = 0
      BY <2>6, <2>t DEF MarkMatchesDeleted, etags, Smooth, Fails, Fault
    <3>2. Storing(p) => Storing(p)' /\ store'[p[1]] = store[p[1]]
      BY <2>6, <2>t DEF MarkMatchesDeleted, Storing, TypeOK
    <3> QED
      BY <2>i, <3>1, <3>2 DEF OnItsWay, Fetched
  <2>7. CASE Restart \/ EtagRace
    <3>1. UNCHANGED db /\ etag'[p] = -1
      BY <2>7, <2>t DEF Restart, EtagRace, dbVars, NoEtag
    <3> QED
      BY <2>t, <3>1 DEF OnItsWay
  <2>8. ASSUME NEW q \in Pages, Publish(q) PROVE OnItsWay(p)'
    BY <2>8, <2>i DEF Publish, etags, dbVars, goroutines, counters, OnItsWay, Fetched, Storing
  <2> QED
    BY <2>1, <2>2, <2>3, <2>4, <2>5, <2>6, <2>7, <2>8, StepCases DEF PageStep
<1> QED
  BY <1>1, <1>2, TypeCorrect, VersionsOrderedCorrect, InitialStoredCorrect, PTL DEF Safety

-----------------------------------------------------------------------------
(* Matches deleted on TBA.                                                 *)

\* What a step does to the matches of an event: nothing, commit the upsert,
\* mark (or fail to), or restart.
LEMMA MarkSteps ==
    ASSUME TypeOK, [Next]_vars, NEW e \in Events
    PROVE  \/ /\ UNCHANGED <<marked[e], db[<<"matches", e>>]>>
              /\ Marking(e)' <=> Marking(e)
              /\ Marking(e) => store'["matches"].ver = store["matches"].ver
           \/ /\ Storing(<<"matches", e>>)
              /\ Marking(e)' /\ store'["matches"].ver = store["matches"].ver
              /\ db'[<<"matches", e>>] = store["matches"].ver
              /\ marked'[e] = marked[e]
           \/ /\ Marking(e) /\ ~Marking(e)'
              /\ db'[<<"matches", e>>] = db[<<"matches", e>>]
              /\ \/ marked'[e] = store["matches"].ver
                 \/ marked'[e] = marked[e] /\ (ctxDone' \/ faults' > 0)
           \/ /\ ~Marking(e)' /\ UNCHANGED <<marked[e], db[<<"matches", e>>]>>
              /\ restarts' > 0
<1> USE DEF Resources
<1>t. <<"matches", e>> \in Pages /\ store["matches"] \in StoreState
  BY DEF Pages, TypeOK
<1>1. CASE Quiet
  BY <1>1 DEF Quiet, Marking
<1>2. ASSUME NEW r \in Resources, Forward(r) \/ Get(r) \/ FetchDone(r) PROVE
        UNCHANGED <<marked, db, store>>
  BY <1>2 DEF Forward, Get, FetchDone, dbVars
<1>3. ASSUME NEW r \in Resources, Send(r) \/ StoreDone(r)
      PROVE  UNCHANGED <<marked, db>> /\ (Marking(e)' <=> Marking(e))
             /\ (Marking(e) => store'["matches"] = store["matches"])
  BY <1>3, <1>t DEF Send, Handed, StoreDone, PageAt, dbVars, Marking, TypeOK
<1>4. CASE Upsert("rankings")
  <2>1. /\ UNCHANGED <<marked, store["matches"]>>
        /\ db'[<<"matches", e>>] = db[<<"matches", e>>]
    BY <1>4, <1>t DEF Upsert, TypeOK
  <2> QED
    BY <2>1 DEF Marking
<1>5. CASE Upsert("matches")
  <2>1. UNCHANGED marked /\ ~Marking(e)
    BY <1>5 DEF Upsert, Marking
  <2>2. CASE UNCHANGED db /\ store' = [store EXCEPT !["matches"] = PageAt("recv")]
    BY <2>1, <2>2, <1>t DEF Marking, PageAt, TypeOK
  <2>3. CASE /\ db' = [db EXCEPT ![<<"matches", store["matches"].key>>] = store["matches"].ver]
             /\ store' = [store EXCEPT !["matches"] =
                  [at |-> "mark", key |-> store["matches"].key, ver |-> store["matches"].ver]]
    <3>1. CASE store["matches"].key = e
      BY <1>5, <1>t, <2>1, <2>3, <3>1 DEF Upsert, Marking, Storing, TypeOK
    <3>2. CASE store["matches"].key # e
      BY <1>t, <2>1, <2>3, <3>2 DEF Marking, TypeOK
    <3> QED
      BY <3>1, <3>2
  <2> QED
    BY <1>5, <2>2, <2>3 DEF Upsert
<1>6. CASE MarkMatchesDeleted
  <2>1. UNCHANGED db /\ ~Marking(e)'
    BY <1>6, <1>t DEF MarkMatchesDeleted, Marking, PageAt, TypeOK
  <2>2. CASE Marking(e)
    <3>1. \/ marked'[e] = store["matches"].ver
          \/ marked'[e] = marked[e] /\ (ctxDone' \/ faults' > 0)
      BY <1>6, <2>2 DEF MarkMatchesDeleted, Marking, Fails, Fault, TypeOK
    <3> QED
      BY <2>1, <2>2, <3>1
  <2>3. CASE ~Marking(e)
    <3>1. marked'[e] = marked[e]
      BY <1>6, <2>3 DEF MarkMatchesDeleted, Marking, TypeOK
    <3> QED
      BY <2>1, <2>3, <3>1
  <2> QED
    BY <2>2, <2>3
<1>7. CASE Restart
  BY <1>7 DEF Restart, Marking, PageAt, dbVars, TypeOK
<1>8. CASE EtagRace \/ \E p \in Pages : Publish(p)
  BY <1>8 DEF EtagRace, Publish, goroutines, dbVars, Marking
<1> QED
  BY <1>1, <1>2, <1>3, <1>4, <1>5, <1>6, <1>7, <1>8, StepCases DEF PageStep, Marking

\* Matches are only ever marked deleted by a list that has been upserted before
\* (refresh.go:281-291).
THEOREM MarkAfterUpsertCorrect == Safety => []MarkAfterUpsert
<1>1. Init => MarkAfterUpsert
  BY DEF Init, MarkAfterUpsert, Marking, PageAt, Pages, Resources
<1>2. TypeOK /\ VersionsOrdered /\ MarkAfterUpsert /\ [Next]_vars => MarkAfterUpsert'
  <2> SUFFICES ASSUME TypeOK, VersionsOrdered, MarkAfterUpsert, [Next]_vars, NEW e \in Events
               PROVE  /\ marked'[e] <= db'[<<"matches", e>>]
                      /\ Marking(e)' => store'["matches"].ver = db'[<<"matches", e>>]
    BY DEF MarkAfterUpsert
  <2> DEFINE p == <<"matches", e>>
  <2>1. p \in Pages /\ db[p] \in Nat /\ marked[e] \in Nat /\ store["matches"].ver \in Nat
    BY DEF Pages, Resources, TypeOK, StoreState
  <2>2. Storing(p) => db[p] <= store["matches"].ver
    BY <2>1 DEF VersionsOrdered, OrderedAt
  <2>3. marked[e] <= db[p] /\ (Marking(e) => store["matches"].ver = db[p])
    BY DEF MarkAfterUpsert
  <2> QED
    BY <2>1, <2>2, <2>3, MarkSteps
<1> QED
  BY <1>1, <1>2, TypeCorrect, VersionsOrderedCorrect, PTL DEF Safety

\* What has gone wrong stays on record, unless the process restarts.
LEMMA Misfortunes ==
    ASSUME TypeOK, [Next]_vars, faults' = 0, restarts' = 0, ~ctxDone'
    PROVE  faults = 0 /\ restarts = 0 /\ ~ctxDone
<1>1. CASE Quiet
  BY <1>1 DEF Quiet
<1>2. CASE Restart
  BY <1>2 DEF Restart, TypeOK
<1>3. ASSUME NEW r \in Resources, Get(r) \/ Upsert(r) \/ MarkMatchesDeleted
      PROVE  faults = 0 /\ UNCHANGED <<restarts, ctxDone>>
  BY <1>3 DEF Get, Upsert, MarkMatchesDeleted, Smooth, Fails, Fault, TypeOK
<1>4. ASSUME NEW r \in Resources, Forward(r) \/ Send(r) \/ FetchDone(r) \/ StoreDone(r)
      PROVE  UNCHANGED <<faults, restarts, ctxDone>>
  BY <1>4 DEF Forward, Send, FetchDone, StoreDone, counters
<1>5. CASE EtagRace \/ \E p \in Pages : Publish(p)
  BY <1>5 DEF EtagRace, Publish, counters
<1> QED
  BY <1>1, <1>2, <1>3, <1>4, <1>5, StepCases DEF PageStep, Resources

\* Without failures and crashes the marking never falls behind by more than the
\* list in the storer's hands (refresh.go:281-291).
THEOREM MarksKeepUpCorrect == Safety => []MarksKeepUp
<1>1. Init => MarksKeepUp
  BY DEF Init, MarksKeepUp, Pages, Resources
<1>2. TypeOK /\ MarkAfterUpsert /\ MarksKeepUp /\ [Next]_vars => MarksKeepUp'
  <2> SUFFICES ASSUME TypeOK, MarkAfterUpsert, MarksKeepUp, [Next]_vars,
                      faults' = 0, restarts' = 0, ~ctxDone', NEW e \in Events
               PROVE  Marking(e)' \/ marked'[e] = db'[<<"matches", e>>]
    BY DEF MarksKeepUp
  <2>1. Marking(e) \/ marked[e] = db[<<"matches", e>>]
    BY Misfortunes DEF MarksKeepUp
  <2>2. Marking(e) => store["matches"].ver = db[<<"matches", e>>]
    BY DEF MarkAfterUpsert
  <2> QED
    BY <2>1, <2>2, MarkSteps
<1> QED
  BY <1>1, <1>2, TypeCorrect, MarkAfterUpsertCorrect, PTL DEF Safety

-----------------------------------------------------------------------------
(* Refinement.                                                             *)

\* The refresher implements Mirror: every page it stores is a version TBA has
\* published, never older than the one stored before.  Only Publish and a
\* successful Upsert show in the abstract state.
THEOREM MirrorImplemented == Safety => ImplementsMirror
<1>1. Init => M!Init
  BY DEF Init, M!Init
<1>2. TypeOK /\ VersionsOrdered /\ [Next]_vars => [M!Next]_<<tba, db>>
  <2> SUFFICES ASSUME TypeOK, VersionsOrdered, [Next]_vars
               PROVE  M!Next \/ UNCHANGED <<tba, db>>
    OBVIOUS
  <2>1. CASE Quiet
    BY <2>1 DEF Quiet
  <2>2. ASSUME NEW r \in Resources, Forward(r) \/ Get(r) \/ Send(r) \/ FetchDone(r) \/ StoreDone(r)
        PROVE  UNCHANGED <<tba, db>>
    BY <2>2 DEF Forward, Get, Send, FetchDone, StoreDone, tbaVars, dbVars
  <2>3. ASSUME NEW r \in Resources, Upsert(r) PROVE M!Next \/ UNCHANGED <<tba, db>>
    <3> DEFINE p == <<r, store[r].key>>
    <3>1. UNCHANGED tba
      BY <2>3 DEF Upsert, tbaVars
    <3>2. UNCHANGED db \/ db' = [db EXCEPT ![p] = store[r].ver]
      BY <2>3 DEF Upsert
    <3>3. CASE p \in Pages /\ db' = [db EXCEPT ![p] = store[r].ver]
      <4>1. Storing(p)
        BY <2>3 DEF Upsert, Storing
      <4>2. db[p] <= store[r].ver /\ store[r].ver <= tba[p]
        BY <3>3, <4>1 DEF VersionsOrdered, OrderedAt
      <4>3. db[p] \in Nat /\ tba[p] \in Nat /\ store[r].ver \in Nat
        BY <3>3 DEF TypeOK, StoreState
      <4>4. \A q \in Pages : db[q] <= db'[q] /\ db'[q] <= tba[q]
        BY <3>3, <4>2, <4>3 DEF VersionsOrdered, OrderedAt, TypeOK
      <4>5. M!CatchUp
        BY <3>1, <3>3, <4>3, <4>4 DEF M!CatchUp, TypeOK
      <4> QED
        BY <4>5 DEF M!Next
    <3>4. CASE p \notin Pages /\ db' = [db EXCEPT ![p] = store[r].ver]
      BY <3>1, <3>4 DEF TypeOK
    <3> QED
      BY <3>1, <3>2, <3>3, <3>4
  <2>4. CASE MarkMatchesDeleted \/ Restart \/ EtagRace
    BY <2>4 DEF MarkMatchesDeleted, Restart, EtagRace, tbaVars, dbVars
  <2>5. ASSUME NEW p \in Pages, Publish(p) PROVE M!Next
    BY <2>5 DEF Publish, dbVars, M!Next, M!Publish
  <2> QED
    BY <2>1, <2>2, <2>3, <2>4, <2>5, StepCases DEF PageStep
<1> QED
  BY <1>1, <1>2, TypeCorrect, VersionsOrderedCorrect, PTL
     DEF Safety, ImplementsMirror, M!Spec, M!vars

-----------------------------------------------------------------------------
(* The channels.                                                           *)

\* Who ends has been told to, or has found the channel closed that it receives from.
EndsInOrder ==
    /\ fe.at = "done" \/ sa.at = "done" \/ disp.at = "done" => ctxDone
    /\ se.at = "done" => disp.at = "done"
    /\ \A r \in Resources : /\ fetch[r].at = "done" => disp.at = "done"
                            /\ store[r].at = "done" => fetch[r].at = "done"

\* A key on its way is that of an event, or the zero value of a closed channel;
\* behind the fetchers it is the key of an event that TBA knows.
KeysAreEvents ==
    /\ disp.at \in Resources /\ disp.key = NoKey => ctxDone
    /\ \A r \in Resources :
          /\ fetch[r].at = "get" /\ fetch[r].key = NoKey => ctxDone
          /\ fetch[r].at = "send" => fetch[r].key \in TbaEvents
          /\ store[r].at \in {"upsert", "mark"} => store[r].key \in TbaEvents

\* Events that TBA does not know have no page.
CustomUntouched ==
    /\ \A p \in Pages : p[2] \notin TbaEvents => db[p] = 0
    /\ \A e \in Events \ TbaEvents : marked[e] = 0

Channels == EndsInOrder /\ KeysAreEvents /\ CustomUntouched

\* Nobody has to send to a goroutine that has ended, where a Go program would wait
\* for ever, unless it is one of the two that feed the dispatcher, after a shutdown.
SendsAreReceived ==
    /\ disp.at = "store" => se.at # "done"
    /\ \A r \in Resources : /\ disp.at = r => fetch[r].at # "done"
                            /\ fetch[r].at = "send" => store[r].at # "done"
    /\ disp.at = "done" => ctxDone

\* TBA is asked for no event without a key but under a context that is done, so
\* that the request fails; no storer is given one; and of the events that TBA does not
\* know, which are polled like all others while they are active, nothing is stored
\* and no match marked deleted.
StrayKeysDoNothing ==
    /\ \A r \in Resources : fetch[r].at = "get" /\ fetch[r].key = NoKey => ctxDone
    /\ \A r \in Resources : store[r].at \in {"upsert", "mark"} => store[r].key \in TbaEvents
    /\ CustomUntouched

\* The dispatcher goes on to an event, if to any.
LEMMA NextKeyIsEvent ==
    ASSUME NEW todo \in SUBSET Events, NEW d \in NextKey(todo)
    PROVE  d.at # "done" /\ (d.at \in Resources => d.key # NoKey)
BY EventsAssumption DEF NextKey, DispAt, Resources

LEMMA ChannelsInit == Init => Channels
BY DEF Init, Channels, EndsInOrder, KeysAreEvents, CustomUntouched, FeAt, SaAt, DispAt, PageAt,
   Resources, Pages

LEMMA ChannelsStep == TypeOK /\ Channels /\ [Next]_vars => Channels'
<1> SUFFICES ASSUME TypeOK, Channels, [Next]_vars PROVE Channels'
  OBVIOUS
<1> USE DEF Channels, EndsInOrder, KeysAreEvents, CustomUntouched
<1>t. /\ fetch \in [Resources -> FetchState] /\ store \in [Resources -> StoreState]
      /\ Resources = {"matches", "rankings"}
  BY DEF TypeOK, Resources
<1>1. CASE GetEvents \/ FetchEventsDone
  BY <1>1 DEF GetEvents, FetchEventsDone, FeAt, tbaVars, dbVars, etags, counters
<1>2. CASE GetActiveEvents \/ SeedDone
  BY <1>2 DEF GetActiveEvents, SeedDone, AfterSeed, SaAt, tbaVars, dbVars, etags, counters
<1>3. CASE RecvEvents
  BY <1>3 DEF RecvEvents, FeAt, Resources, dbVars
<1>4. CASE RecvActive
  <2>1. PICK e \in Events : disp'.key = e /\ disp'.at = "matches"
    BY <1>4 DEF RecvActive, TypeOK, SaState
  <2>2. e # NoKey
    BY EventsAssumption
  <2> QED
    BY <1>4, <2>1, <2>2 DEF RecvActive, AfterSeed, SaAt, dbVars
<1>5. CASE RecvClosed
  BY <1>5 DEF RecvClosed, DispAt, Resources, dbVars
<1>6. CASE DispatchDone
  BY <1>6 DEF DispatchDone, DispAt, Resources, dbVars
<1>7. CASE SendStoreEvents
  <2>1. disp'.at # "done" /\ (disp'.at \in Resources => disp'.key # NoKey)
    BY <1>7, NextKeyIsEvent DEF SendStoreEvents, TypeOK, DispState
  <2> QED
    BY <1>7, <2>1 DEF SendStoreEvents, dbVars
<1>8. ASSUME NEW r \in Resources, Forward(r) PROVE Channels'
  <2>1. disp'.at # "done"
    BY <1>8, NextKeyIsEvent DEF Forward, TypeOK, DispState
  <2>2. disp'.at \in Resources /\ disp'.key = NoKey => disp.key = NoKey
    BY <1>8, NextKeyIsEvent DEF Forward, TypeOK, DispState
  <2>3. disp.at \in Resources /\ fetch' = [fetch EXCEPT ![r] = [at |-> "get", key |-> disp.key, ver |-> 0]]
    BY <1>8 DEF Forward
  <2>4. UNCHANGED <<ctxDone, fe, sa, se, store, db, marked>>
    BY <1>8 DEF Forward, dbVars
  <2> QED
    BY <1>t, <2>1, <2>2, <2>3, <2>4, <1>8 DEF Forward
<1>9. CASE EventsUpsert \/ StoreEventsDone
  BY <1>9 DEF EventsUpsert, StoreEventsDone, FeAt, dbVars
<1>10. ASSUME NEW r \in Resources, Get(r) PROVE Channels'
  <2>1. UNCHANGED <<ctxDone, fe, sa, disp, se, store, db, marked>> /\ fetch[r].at = "get"
    BY <1>10 DEF Get, dbVars
  <2>2. \/ fetch' = [fetch EXCEPT ![r] = PageAt("recv")]
        \/ /\ fetch[r].key \in TbaEvents
           /\ fetch' = [fetch EXCEPT ![r] = [at |-> "send", key |-> fetch[r].key,
                                             ver |-> tba[<<r, fetch[r].key>>]]]
    BY <1>10 DEF Get
  <2> QED
    BY <1>t, <2>1, <2>2 DEF PageAt
<1>11. ASSUME NEW r \in Resources, Send(r) \/ FetchDone(r) \/ StoreDone(r) PROVE Channels'
  BY <1>t, <1>11 DEF Send, FetchDone, StoreDone, Handed, PageAt, dbVars
<1>12. ASSUME NEW r \in Resources, Upsert(r) PROVE Channels'
  <2>1. UNCHANGED <<ctxDone, fe, sa, disp, se, fetch, marked>> /\ store[r].key \in TbaEvents
    BY <1>12 DEF Upsert
  <2>2. \/ store' = [store EXCEPT ![r] = PageAt("recv")]
        \/ store' = [store EXCEPT ![r] = [at |-> "mark", key |-> store[r].key, ver |-> store[r].ver]]
    BY <1>12 DEF Upsert
  <2>3. db' = db \/ db' = [db EXCEPT ![<<r, store[r].key>>] = store[r].ver]
    BY <1>12 DEF Upsert
  <2>4. EndsInOrder' /\ KeysAreEvents'
    BY <1>t, <1>12, <2>1, <2>2 DEF PageAt, Upsert
  <2>5. CustomUntouched'
    BY <2>1, <2>3 DEF TypeOK, Pages
  <2> QED
    BY <2>4, <2>5
<1>13. CASE MarkMatchesDeleted
  <2>1. EndsInOrder' /\ KeysAreEvents'
    BY <1>t, <1>13 DEF MarkMatchesDeleted, PageAt
  <2>2. CustomUntouched'
    BY <1>t, <1>13 DEF MarkMatchesDeleted, TypeOK
  <2> QED
    BY <2>1, <2>2
<1>14. CASE Restart
  BY <1>14 DEF Restart, FeAt, SaAt, DispAt, PageAt, Resources, dbVars
<1>15. CASE Shutdown
  BY <1>15 DEF Shutdown, goroutines, dbVars
<1>16. CASE Relist \/ EtagRace \/ (\E p \in Pages : Publish(p)) \/ UNCHANGED vars
  BY <1>16 DEF Relist, EtagRace, Publish, vars, goroutines, dbVars
<1> QED
  BY <1>1, <1>2, <1>3, <1>4, <1>5, <1>6, <1>7, <1>8, <1>9, <1>10, <1>11, <1>12, <1>13, <1>14,
     <1>15, <1>16 DEF Next, FetchEventsNext, SeedNext, DispatchNext, StoreEventsNext, FetchNext,
     StoreNext, Environment

LEMMA ChannelsCorrect == Safety => []Channels
BY ChannelsInit, ChannelsStep, TypeCorrect, PTL DEF Safety

\* What the liveness of the pipeline rests on: whoever sends has somebody to send to, in
\* any order of failures, shutdowns and ends of the goroutines (refresh.go:46-83).
THEOREM SendsAreReceivedCorrect == Safety => []SendsAreReceived
<1>1. Channels => SendsAreReceived
  BY DEF Channels, EndsInOrder, SendsAreReceived, Resources
<1> QED
  BY <1>1, ChannelsCorrect, PTL

\* The dispatcher does not ask whether a channel is closed, and nobody asks whether an
\* active event is one of TBA's: neither does any harm (refresh.go:52-66, 124-160).
THEOREM StrayKeysDoNothingCorrect == Safety => []StrayKeysDoNothing
<1>1. Channels => StrayKeysDoNothing
  BY DEF Channels, KeysAreEvents, StrayKeysDoNothing
<1> QED
  BY <1>1, ChannelsCorrect, PTL
=============================================================================
