------------------------- MODULE TeamsRefreshProofs -------------------------
(***************************************************************************)
(* Theorems about TeamsRefresh: a stored list is always whole, and the     *)
(* stored teams are a mirror of TBA, for any page limit and any bounds.    *)
(***************************************************************************)
EXTENDS TeamsRefresh, TLAPS

\* TBA fills its pages in order.
Contiguous == \A i, j \in Pages : i <= j /\ tba[i] = 0 => tba[j] = 0

Newest == \A i \in Pages : db[i] <= tba[i] /\ etag[i] <= tba[i] /\ fetcher.got[i] <= tba[i]

\* What is being stored is, page by page, no older than what is stored: also
\* the pages that are missing from it.
StorerAhead == storer.at = "upsert" => \A i \in Pages :
    db[i] <= storer.got[i] /\ storer.got[i] <= tba[i]

\* The pages that are no longer going to be asked for.
Passed == {i \in Pages : fetcher.at = "send" \/ (fetcher.at = "get" /\ i < fetcher.page)}

\* What has been fetched is no older than what is stored or being stored.
FetcherAhead == \A i \in Passed :
    db[i] <= fetcher.got[i] /\ (storer.at = "upsert" => storer.got[i] <= fetcher.got[i])

IInv == TypeOK /\ Contiguous /\ Newest /\ StorerAhead /\ FetcherAhead

\* The pages GetTeams asks for are pages.
LEMMA PagesType == Pages \subseteq Nat /\ 0..(PageLimit - 1) \subseteq Pages
BY LimitAssumption DEF Pages

\* The inductive invariant holds initially.
LEMMA InductiveInit == Init => IInv
<1> SUFFICES ASSUME Init PROVE IInv
  OBVIOUS
<1>1. NoTeams \in [Pages -> Nat]
  BY DEF NoTeams
<1>2. fetcher \in FetcherState /\ storer \in StorerState
  BY <1>1, LimitAssumption DEF Init, FetcherAt, StorerAt, FetcherState, StorerState
<1>3. tba \in [Pages -> Nat]
  BY DEF Init
<1>4. TypeOK
  BY <1>1, <1>2, <1>3 DEF Init, TypeOK
<1>5. Contiguous
  <2>1. PICK n \in 0..TbaPages : tba = [i \in Pages |-> IF i < n THEN 1 ELSE 0]
    BY DEF Init
  <2> QED
    BY <2>1, PagesType, LimitAssumption DEF Contiguous
<1>6. Newest
  BY <1>3 DEF Init, Newest, NoTeams, FetcherAt, NoEtag
<1>7. StorerAhead
  BY DEF Init, StorerAhead, StorerAt
<1>8. FetcherAhead
  <2>1. \A i \in Pages : ~(i < 0)
    BY PagesType
  <2>2. Passed = {}
    BY <2>1 DEF Init, Passed, FetcherAt
  <2> QED
    BY <2>2 DEF FetcherAhead
<1> QED
  BY <1>4, <1>5, <1>6, <1>7, <1>8 DEF IInv

\* Every step keeps the inductive invariant.
LEMMA InductiveStep == IInv /\ [Next]_vars => IInv'
<1> SUFFICES ASSUME TypeOK, Contiguous, Newest, StorerAhead, FetcherAhead, [Next]_vars
             PROVE  IInv'
  BY DEF IInv
<1> USE DEF IInv
<1>t. /\ NoTeams \in [Pages -> Nat] /\ \A i \in Pages : NoTeams[i] = 0
      /\ \A i \in Pages : i \in Nat
      /\ FetcherAt("get") \in FetcherState /\ FetcherAt("poll") \in FetcherState
      /\ FetcherAt("done") \in FetcherState
      /\ StorerAt("recv") \in StorerState /\ StorerAt("done") \in StorerState
  BY PagesType, LimitAssumption DEF NoTeams, FetcherAt, StorerAt, FetcherState, StorerState
<1>f. \A at \in {"get", "poll", "done"} :
        fetcher' = FetcherAt(at) => Passed' = {} /\ fetcher'.got = NoTeams
  BY <1>t DEF Passed, FetcherAt
<1>1. CASE Tick \/ FetchDone
  <2>1. UNCHANGED <<tba, ctxDone, etag, storer, db, tooMany, faults, restarts>>
    BY <1>1 DEF Tick, FetchDone
  <2>2. fetcher' \in FetcherState /\ Passed' = {} /\ fetcher'.got = NoTeams
    BY <1>1, <1>t, <1>f DEF Tick, FetchDone
  <2>3. TypeOK'
    BY <2>1, <2>2 DEF TypeOK
  <2>4. Newest'
    BY <2>1, <2>2, <1>t DEF Newest, TypeOK
  <2> QED
    BY <2>1, <2>2, <2>3, <2>4 DEF Contiguous, StorerAhead, FetcherAhead
<1>2. CASE GetPage
  <2> DEFINE i == fetcher.page
  <2>1. UNCHANGED <<tba, ctxDone, storer, db, restarts>> /\ fetcher.at = "get"
    BY <1>2 DEF GetPage
  <2>2. i \in Pages /\ i \in 0..(PageLimit - 1) /\ tba[i] \in Nat /\ fetcher.got \in [Pages -> Nat]
    BY PagesType DEF TypeOK, FetcherState
  <2>3. faults' \in Nat /\ tooMany' \in BOOLEAN
    <3>1. faults' = faults \/ faults' = faults + 1
      BY <1>2 DEF GetPage, Smooth, Fails, Fault
    <3>2. tooMany' = tooMany \/ tooMany' = TRUE
      BY <1>2 DEF GetPage
    <3>3. tooMany' \in BOOLEAN
      BY <3>2, Zenon DEF TypeOK
    <3> QED
      BY <3>1, <3>3 DEF TypeOK
  <2>4. etag' \in [Pages -> Nat \cup {NoEtag}] /\ \A j \in Pages : etag'[j] <= tba[j]
    <3>1. etag' = etag \/ etag' = [etag EXCEPT ![i] = tba[i]]
      BY <1>2 DEF GetPage
    <3> QED
      BY <2>2, <3>1 DEF TypeOK, Newest
  <2>5. CASE fetcher' = FetcherAt("poll")
    <3>1. TypeOK'
      BY <2>1, <2>3, <2>4, <2>5, <1>t DEF TypeOK
    <3>2. Newest'
      BY <2>1, <2>4, <2>5, <1>t, <1>f DEF Newest, TypeOK
    <3> QED
      BY <2>1, <2>5, <1>f, <3>1, <3>2 DEF Contiguous, StorerAhead, FetcherAhead
  <2>6. CASE tba[i] = 0 /\ fetcher' = [fetcher EXCEPT !.at = "send"]
    <3>1. fetcher' \in FetcherState /\ fetcher'.got = fetcher.got /\ fetcher'.at = "send"
      BY <2>6 DEF TypeOK, FetcherState
    <3>2. TypeOK'
      BY <2>1, <2>3, <2>4, <3>1 DEF TypeOK
    <3>3. Newest'
      BY <2>1, <2>4, <3>1 DEF Newest
    <3>4. ASSUME NEW j \in Pages, ~(j < i)
          PROVE  db[j] = 0 /\ (storer.at = "upsert" => storer.got[j] = 0)
      <4>1. tba[j] = 0
        BY <2>2, <2>6, <3>4, <1>t DEF Contiguous
      <4> QED
        BY <4>1 DEF Newest, StorerAhead, TypeOK, StorerState
    <3>5. ASSUME NEW j \in Pages
          PROVE  db[j] <= fetcher.got[j] /\ (storer.at = "upsert" => storer.got[j] <= fetcher.got[j])
      <4>1. CASE j < i
        BY <2>1, <4>1 DEF FetcherAhead, Passed
      <4>2. CASE ~(j < i)
        BY <3>4, <4>2, <2>2
      <4> QED
        BY <4>1, <4>2
    <3>6. FetcherAhead'
      BY <2>1, <3>1, <3>5 DEF FetcherAhead, Passed
    <3> QED
      BY <2>1, <3>2, <3>3, <3>6 DEF Contiguous, StorerAhead
  <2>7. CASE /\ i + 1 < PageLimit
             /\ fetcher' = [at |-> "get", page |-> i + 1, got |-> [fetcher.got EXCEPT ![i] = tba[i]]]
    <3>1. /\ fetcher' \in FetcherState /\ fetcher'.at = "get" /\ fetcher'.page = i + 1
          /\ fetcher'.got = [fetcher.got EXCEPT ![i] = tba[i]]
      BY <2>2, <2>7, LimitAssumption DEF FetcherState
    <3>2. TypeOK'
      BY <2>1, <2>3, <2>4, <3>1 DEF TypeOK
    <3>3. Newest'
      BY <2>1, <2>2, <2>4, <3>1 DEF Newest
    <3>4. ASSUME NEW j \in Passed'
          PROVE  db[j] <= fetcher'.got[j] /\ (storer.at = "upsert" => storer.got[j] <= fetcher'.got[j])
      <4>1. j \in Pages /\ j < i + 1
        BY <3>1, <3>4 DEF Passed
      <4>2. CASE j = i
        BY <2>2, <3>1, <4>2 DEF Newest, StorerAhead
      <4>3. CASE j # i
        <5>1. j \in Passed
          BY <2>1, <2>2, <4>1, <4>3, <1>t DEF Passed
        <5> QED
          BY <2>2, <3>1, <4>1, <4>3, <5>1 DEF FetcherAhead
      <4> QED
        BY <4>2, <4>3
    <3> QED
      BY <2>1, <3>2, <3>3, <3>4 DEF Contiguous, StorerAhead, FetcherAhead
  <2> QED
    BY <1>2, <2>5, <2>6, <2>7 DEF GetPage
<1>3. CASE Send
  <2>1. UNCHANGED <<tba, ctxDone, etag, db, tooMany, faults, restarts>>
    BY <1>3 DEF Send
  <2>2. fetcher' \in FetcherState /\ Passed' = {} /\ fetcher'.got = NoTeams
    BY <1>3, <1>t, <1>f DEF Send
  <2>3. storer' \in StorerState /\ storer'.got = fetcher.got
    BY <1>3 DEF Send, StorerState, FetcherState, TypeOK
  <2>4. TypeOK'
    BY <2>1, <2>2, <2>3 DEF TypeOK
  <2>5. Newest'
    BY <2>1, <2>2, <1>t DEF Newest, TypeOK
  <2>6. StorerAhead'
    BY <1>3, <2>1, <2>3 DEF Send, StorerAhead, FetcherAhead, Passed, Newest
  <2> QED
    BY <2>1, <2>2, <2>4, <2>5, <2>6 DEF Contiguous, FetcherAhead
<1>4. CASE TeamsUpsert
  <2>1. UNCHANGED <<tba, ctxDone, etag, fetcher, tooMany, restarts>> /\ storer.at = "upsert"
        /\ storer' = StorerAt("recv")
    BY <1>4 DEF TeamsUpsert
  <2>2. faults' \in Nat
    BY <1>4 DEF TeamsUpsert, Smooth, Fails, Fault, TypeOK
  <2>3. storer.got \in [Pages -> Nat]
    BY DEF TypeOK, StorerState
  <2>4. db' \in [Pages -> Nat] /\ \A j \in Pages : db'[j] = db[j] \/ db'[j] = storer.got[j]
    BY <1>4, <2>3 DEF TeamsUpsert, TypeOK
  <2>5. TypeOK'
    BY <2>1, <2>2, <2>4, <1>t DEF TypeOK
  <2>6. Newest'
    BY <2>1, <2>4 DEF Newest, StorerAhead
  <2>7. FetcherAhead'
    <3>1. Passed' = Passed /\ storer'.at # "upsert"
      BY <2>1 DEF Passed, StorerAt
    <3> QED
      BY <2>1, <2>4, <3>1 DEF FetcherAhead, Passed
  <2>8. StorerAhead'
    BY <2>1 DEF StorerAhead, StorerAt
  <2> QED
    BY <2>1, <2>5, <2>6, <2>7, <2>8 DEF Contiguous
<1>5. CASE StoreDone
  <2>1. UNCHANGED <<tba, ctxDone, etag, fetcher, db, tooMany, faults, restarts>>
        /\ storer' = StorerAt("done")
    BY <1>5 DEF StoreDone
  <2>2. storer'.at # "upsert" /\ Passed' = Passed
    BY <2>1 DEF StorerAt, Passed
  <2>3. TypeOK'
    BY <2>1, <1>t DEF TypeOK
  <2> QED
    BY <2>1, <2>2, <2>3 DEF Contiguous, Newest, StorerAhead, FetcherAhead
<1>6. ASSUME NEW i \in Pages, Publish(i) PROVE IInv'
  <2>1. UNCHANGED <<ctxDone, etag, fetcher, storer, db, tooMany, faults, restarts>>
    BY <1>6 DEF Publish
  <2>2. /\ tba' \in [Pages -> Nat]
        /\ \A j \in Pages : tba'[j] = IF j = i THEN tba[j] + 1 ELSE tba[j]
    BY <1>6 DEF Publish, TypeOK
  <2>3. TypeOK'
    BY <2>1, <2>2 DEF TypeOK
  <2>4. Newest'
    <3>1. \A j \in Pages : tba[j] <= tba'[j] /\ tba[j] \in Nat /\ tba'[j] \in Nat
      BY <2>2 DEF TypeOK
    <3>2. \A j \in Pages : fetcher.got[j] \in Nat /\ db[j] \in Nat /\ etag[j] \in Nat \cup {-1}
      BY DEF TypeOK, FetcherState, NoEtag
    <3> QED
      BY <2>1, <3>1, <3>2 DEF Newest
  <2>5. StorerAhead'
    <3>1. \A j \in Pages : tba[j] <= tba'[j] /\ tba[j] \in Nat /\ tba'[j] \in Nat
      BY <2>2 DEF TypeOK
    <3>2. \A j \in Pages : storer.got[j] \in Nat
      BY DEF TypeOK, StorerState
    <3> QED
      BY <2>1, <3>1, <3>2 DEF StorerAhead
  <2>6. Contiguous'
    <3> SUFFICES ASSUME NEW j \in Pages, NEW k \in Pages, j <= k, tba'[j] = 0
                 PROVE  tba'[k] = 0
      BY DEF Contiguous
    <3>1. tba[j] = 0 /\ j # i
      BY <2>2 DEF TypeOK
    <3>2. tba[k] = 0
      BY <3>1 DEF Contiguous
    <3>3. k # i
      <4> SUFFICES ASSUME k = i PROVE FALSE
        OBVIOUS
      <4>1. i > 0 /\ i - 1 \in Pages /\ j <= i - 1
        BY <3>1, LimitAssumption DEF Pages
      <4>2. tba[i - 1] > 0
        BY <1>6, <4>1 DEF Publish
      <4> QED
        BY <3>1, <4>1, <4>2 DEF Contiguous
    <3> QED
      BY <2>2, <3>2, <3>3
  <2> QED
    BY <2>1, <2>3, <2>4, <2>5, <2>6 DEF FetcherAhead, Passed
<1>7. CASE Restart
  <2>1. /\ UNCHANGED <<tba, db, tooMany, faults>> /\ restarts' \in Nat /\ ctxDone' = FALSE
        /\ etag' = [i \in Pages |-> NoEtag] /\ storer' = StorerAt("recv")
    BY <1>7 DEF Restart, TypeOK
  <2>2. fetcher' \in FetcherState /\ Passed' = {} /\ fetcher'.got = NoTeams
    BY <1>7, <1>t, <1>f DEF Restart
  <2>3. storer' \in StorerState /\ storer'.at # "upsert"
    BY <2>1, <1>t DEF StorerAt
  <2>4. TypeOK'
    BY <2>1, <2>2, <2>3 DEF TypeOK
  <2>5. Newest'
    BY <2>1, <2>2, <1>t DEF Newest, TypeOK, NoEtag
  <2> QED
    BY <2>1, <2>2, <2>3, <2>4, <2>5 DEF Contiguous, StorerAhead, FetcherAhead
<1>8. CASE Shutdown \/ UNCHANGED vars
  <2>1. UNCHANGED <<tba, etag, fetcher, storer, db, tooMany, faults, restarts>>
        /\ ctxDone' \in BOOLEAN
    BY <1>8 DEF Shutdown, vars, TypeOK
  <2> QED
    BY <2>1 DEF TypeOK, Contiguous, Newest, StorerAhead, FetcherAhead, Passed
<1> QED
  BY <1>1, <1>2, <1>3, <1>4, <1>5, <1>6, <1>7, <1>8 DEF Next

\* Every variable keeps its type: GetTeams never asks for page PageLimit.
THEOREM TypeCorrect == Spec => []TypeOK
<1>1. IInv => TypeOK
  BY DEF IInv
<1> QED
  BY <1>1, InductiveInit, InductiveStep, PTL DEF Spec

\* A list that a 304 or an error has cut short never reaches the database
\* (tba.go:356-381, refresh.go:193-208).
THEOREM NeverShorterCorrect == Spec => []NeverShorter
<1>1. IInv => NeverShorter
  BY DEF IInv, StorerAhead, NeverShorter
<1> QED
  BY <1>1, InductiveInit, InductiveStep, PTL DEF Spec

\* Page by page, the stored teams are a mirror of TBA.
THEOREM MirrorImplemented == Spec => ImplementsMirror
<1>1. IInv => \A i \in Pages : db[i] <= tba[i]
  BY DEF IInv, Newest
<1>2. IInv /\ IInv' /\ [Next]_vars => [M!Next]_<<tba, db>>
  <2> SUFFICES ASSUME IInv, IInv', [Next]_vars PROVE M!Next \/ UNCHANGED <<tba, db>>
    OBVIOUS
  <2>1. CASE TeamsUpsert
    <3>1. UNCHANGED tba /\ db' \in [Pages -> Nat]
      BY <2>1 DEF TeamsUpsert, IInv, TypeOK
    <3>2. \A i \in Pages : db'[i] = db[i] \/ db'[i] = storer.got[i]
      BY <2>1 DEF TeamsUpsert, IInv, TypeOK
    <3>3. \A i \in Pages : db[i] <= db'[i] /\ db'[i] <= tba[i]
      BY <2>1, <3>2 DEF TeamsUpsert, IInv, StorerAhead, Newest, TypeOK
    <3> QED
      BY <3>1, <3>3 DEF M!Next, M!CatchUp
  <2>2. ASSUME NEW i \in Pages, Publish(i) PROVE M!Next
    BY <2>2 DEF Publish, M!Next, M!Publish
  <2>3. Tick \/ GetPage \/ Send \/ FetchDone \/ StoreDone \/ Shutdown \/ Restart
          => UNCHANGED <<tba, db>>
    BY DEF Tick, GetPage, Send, FetchDone, StoreDone, Shutdown, Restart
  <2> QED
    BY <2>1, <2>2, <2>3 DEF Next, vars
<1> QED
  BY <1>1, <1>2, InductiveInit, InductiveStep, PTL DEF Spec, ImplementsMirror
=============================================================================
