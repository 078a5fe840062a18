-------------------------- MODULE LifecycleProofs ---------------------------
(***************************************************************************)
(* Theorems about Lifecycle: when the store is open, and that the process, *)
(* with its signals, its failing listener and its starts and ends, is one  *)
(* of the environments that Refresh allows for.                            *)
(***************************************************************************)
EXTENDS Lifecycle, RefreshProofs

-----------------------------------------------------------------------------
(* The order of the defers.                                                *)

\* run opens the store before it starts the refresher, and closes it after it has
\* cancelled the refresher's context, which nobody takes back.
LInv ==
    /\ ctxDone \in BOOLEAN
    /\ main \in {"off", "connect", "failed", "serve", "cancel", "close", "exit"}
    /\ main \in {"serve", "cancel", "close"} => open
    /\ main \in {"close", "exit"} => ctxDone

\* What the refresher does to the context it has been given: nothing.
LEMMA RefresherSteps ==
    ASSUME Refresher(RefreshStep)
    PROVE  UNCHANGED <<process, ctxDone>> /\ Next
<1>1. UNCHANGED process /\ RefreshStep
  BY DEF Refresher
<1>2. Next
  BY <1>1 DEF RefreshStep, Next
<1>3. FetchEventsNext \/ SeedNext \/ DispatchNext \/ StoreEventsNext => UNCHANGED ctxDone
  BY DEF FetchEventsNext, GetEvents, FetchEventsDone, SeedNext, GetActiveEvents, SeedDone,
         DispatchNext, RecvEvents, RecvActive, RecvClosed, DispatchDone, SendStoreEvents, Forward,
         StoreEventsNext, EventsUpsert, StoreEventsDone
<1>4. ASSUME NEW r \in Resources, FetchNext(r) \/ StoreNext(r) PROVE UNCHANGED ctxDone
  BY <1>4 DEF FetchNext, Get, Send, FetchDone, StoreNext, Upsert, MarkMatchesDeleted, StoreDone
<1> QED
  BY <1>1, <1>2, <1>3, <1>4 DEF RefreshStep

LEMMA LInvInit == LInit => LInv
BY DEF LInit, Init, LInv

LEMMA LInvStep == LInv /\ [LNext]_allVars => LInv'
<1> SUFFICES ASSUME LInv, [LNext]_allVars PROVE LInv'
  OBVIOUS
<1> USE DEF LInv
<1>1. CASE Boot \/ Connect \/ StopServing \/ CloseStore \/ ListenFails
  <2>1. ctxDone' = ctxDone
    BY <1>1 DEF Boot, Connect, StopServing, CloseStore, ListenFails, vars
  <2> QED
    BY <1>1, <2>1 DEF Boot, Connect, StopServing, CloseStore, ListenFails
<1>2. CASE Signal
  <2>1. ctxDone' = ctxDone \/ ctxDone' = TRUE
    BY <1>2 DEF Signal, Shutdown, vars
  <2> QED
    BY <1>2, <2>1 DEF Signal
<1>3. CASE CancelUpdates
  BY <1>3 DEF CancelUpdates
<1>4. CASE End
  BY <1>4 DEF End, Restart
<1>5. CASE Refresher(RefreshStep)
  BY <1>5, RefresherSteps DEF process
<1>6. CASE UNCHANGED allVars
  BY <1>6 DEF allVars, process, vars
<1> QED
  BY <1>1, <1>2, <1>3, <1>4, <1>5, <1>6 DEF LNext, MainNext

LEMMA LInvCorrect == LSpec => []LInv
BY LInvInit, LInvStep, PTL DEF LSpec

\* Whenever the signal comes and whichever way the server ends, the refresher never
\* works on a closed store without having been told to stop (main.go:70-91).
THEOREM StoreOpenForUpdatesCorrect == LSpec => []StoreOpenForUpdates
<1>1. LInv => StoreOpenForUpdates
  BY DEF LInv, StoreOpenForUpdates, Running, Starting
<1> QED
  BY <1>1, LInvCorrect, PTL

-----------------------------------------------------------------------------
(* The process as an environment of the refresher.                         *)

\* Every step of the process is one that Refresh knows of, or none of its business:
\* a signal and the deferred cancellation are Shutdown, the end of the process is
\* Restart.
LEMMA ProcessStep ==
    ASSUME CanShutdown, LInv, [LNext]_allVars PROVE [Next]_vars
<1>1. CASE Boot \/ Connect \/ StopServing \/ CloseStore \/ ListenFails
  BY <1>1 DEF Boot, Connect, StopServing, CloseStore, ListenFails
<1>2. CASE Signal
  BY <1>2 DEF Signal, Next, Environment
<1>3. CASE CancelUpdates
  <2>1. CASE ctxDone
    <3>1. ctxDone' = ctxDone
      BY <1>3, <2>1 DEF CancelUpdates, LInv
    <3> QED
      BY <1>3, <3>1 DEF CancelUpdates, vars, counters
  <2>2. CASE ~ctxDone
    <3>1. Shutdown
      BY <1>3, <2>2 DEF CancelUpdates, Shutdown
    <3> QED
      BY <3>1 DEF Next, Environment
  <2> QED
    BY <2>1, <2>2
<1>4. CASE End
  BY <1>4 DEF End, Next, Environment
<1>5. CASE Refresher(RefreshStep)
  BY <1>5, RefresherSteps
<1>6. CASE UNCHANGED allVars
  BY <1>6 DEF allVars
<1> QED
  BY <1>1, <1>2, <1>3, <1>4, <1>5, <1>6 DEF LNext, MainNext

\* The refresher in its process, over any number of starts, signals and failures of
\* the listener, behaves as Refresh says.  A process can be told to stop, by a signal
\* or by the end of its server: CanShutdown.
THEOREM ProcessRefinesRefresh == ASSUME CanShutdown PROVE LSpec => Safety
<1>1. LInit => Init
  BY DEF LInit
<1>2. LInv /\ [LNext]_allVars => [Next]_vars
  BY ProcessStep
<1> QED
  BY <1>1, <1>2, LInvCorrect, PTL DEF LSpec, Safety

\* So what is proved of Refresh holds in the process: through signals, crashes and
\* starts on one database, nothing that the refresher stores is invented or undone
\* (main.go:58-99, refresh.go:242-349).
THEOREM ProcessMirrors == ASSUME CanShutdown PROVE LSpec => ImplementsMirror
BY ProcessRefinesRefresh, MirrorImplemented, PTL

\* And no etag of the process hides a version that is neither stored nor on its way,
\* until something fails or the process is told to stop (tba.go:149-151).
THEOREM ProcessLosesNoUpdate == ASSUME CanShutdown PROVE LSpec => []NoUpdateLost
BY ProcessRefinesRefresh, NoUpdateLostCorrect, PTL
=============================================================================
