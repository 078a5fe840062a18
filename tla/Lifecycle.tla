------------------------------ MODULE Lifecycle ------------------------------
(***************************************************************************)
(* The life of the process: main and run of src/cmd/peregrine/main.go and  *)
(* Server.Run of src/internal/server/server.go around the refresher of     *)
(* module Refresh, over several starts on one database.                    *)
(*                                                                         *)
(* main cancels its context at a signal.  The refresher has a context      *)
(* derived from it, ctxDone of Refresh, and nobody waits for it; Shutdown  *)
(* is given the context that has just been cancelled, so that it waits for *)
(* no request.  What is deferred runs in the reverse order: first the      *)
(* refresher's context is cancelled, then the store is closed.             *)
(*                                                                         *)
(* restarts counts the processes that have ended, MaxRestarts bounds them. *)
(***************************************************************************)
EXTENDS Refresh

VARIABLES
    main,       \* where main has got to, "off" before it is started
    ctx,        \* the context of main is cancelled
    listener,   \* the goroutine of Server.Run: "off", "listens", or "failed"
    open        \* the store is open

process == <<main, ctx, listener, open>>
allVars == <<vars, process>>

Starting == {"off", "connect", "failed"}
Running == main \notin Starting

LInit ==
    /\ Init
    /\ main = "off"
    /\ ctx = FALSE
    /\ listener = "off"
    /\ open = FALSE

-----------------------------------------------------------------------------
(* main and run.                                                           *)

Boot ==
    /\ main = "off" /\ restarts < MaxRestarts
    /\ main' = "connect"
    /\ UNCHANGED <<vars, ctx, listener, open>>

\* store.New opens and pings, with the context; then the refresher and the
\* server are started, or the program exits with status 1.
Connect ==
    /\ main = "connect"
    /\ \/ ~ctx /\ main' = "serve" /\ open' = TRUE /\ listener' = "listens"
       \/ main' = "failed" /\ UNCHANGED <<open, listener>>
    /\ UNCHANGED <<vars, ctx>>

\* SIGINT or SIGTERM: the context is cancelled, and what is derived from it.
Signal ==
    /\ main # "off" /\ ~ctx
    /\ ctx' = TRUE
    /\ IF Running /\ ~ctxDone THEN Shutdown ELSE CanShutdown /\ UNCHANGED vars
    /\ UNCHANGED <<main, listener, open>>

\* Mutant: nobody selects on ctx.Done(), the server stops only when it fails.
StopOnFailure ==
    /\ main = "serve"
    /\ listener = "failed"
    /\ main' = "cancel" /\ listener' = "off"
    /\ UNCHANGED <<vars, ctx, open>>

\* Mutant: the store is closed before the refresher's context is cancelled.
StopAndClose ==
    /\ main = "serve"
    /\ listener = "failed" \/ ctx
    /\ main' = "cancel" /\ listener' = "off" /\ open' = FALSE
    /\ UNCHANGED <<vars, ctx>>

\* Server.Run returns, with the listener's error or out of Shutdown, which waits
\* for nobody as its context is cancelled.
StopServing ==
    /\ main = "serve"
    /\ listener = "failed" \/ ctx
    /\ main' = "cancel" /\ listener' = "off"
    /\ UNCHANGED <<vars, ctx, open>>

\* Deferred: updateCancel.
CancelUpdates ==
    /\ main = "cancel"
    /\ main' = "close"
    /\ ctxDone' = TRUE
    /\ UNCHANGED <<tbaVars, etags, goroutines, dbVars, counters, ctx, listener, open>>

\* Deferred: sto.Close.  run returns, with status 0.
CloseStore ==
    /\ main = "close"
    /\ main' = "exit"
    /\ open' = FALSE
    /\ UNCHANGED <<vars, ctx, listener>>

\* The process is gone, after its end or by a crash at any time, and with it
\* whatever its goroutines were doing.
End ==
    /\ main # "off"
    /\ Restart
    /\ main' = "off" /\ ctx' = FALSE /\ listener' = "off" /\ open' = FALSE

-----------------------------------------------------------------------------
(* The goroutines around main.                                             *)

\* ListenAndServe fails, on an address in use for instance.
ListenFails ==
    /\ listener = "listens"
    /\ listener' = "failed"
    /\ UNCHANGED <<vars, main, ctx, open>>

\* The refresher works from its start to the end of the process.
Refresher(A) == Running /\ A /\ UNCHANGED process

RefreshStep ==
    \/ FetchEventsNext \/ SeedNext \/ DispatchNext \/ StoreEventsNext
    \/ \E r \in Resources : FetchNext(r) \/ StoreNext(r)

MainNext == Connect \/ StopServing \/ CancelUpdates \/ CloseStore

LNext ==
    \/ Boot \/ MainNext \/ Signal \/ End
    \/ ListenFails
    \/ Refresher(RefreshStep)

\* main and the refresher's goroutines run, as in Refresh.  How long the process
\* takes to go once main has returned is left open, and whether it is started
\* again.
LFairness ==
    /\ WF_allVars(MainNext)
    /\ WF_allVars(Refresher(GetEvents)) /\ WF_allVars(Refresher(FetchEventsDone))
    /\ WF_allVars(Refresher(GetActiveEvents)) /\ WF_allVars(Refresher(SeedDone))
    /\ SF_allVars(Refresher(RecvEvents)) /\ SF_allVars(Refresher(RecvActive))
    /\ SF_allVars(Refresher(DispatchDone)) /\ WF_allVars(Refresher(SendStoreEvents))
    /\ WF_allVars(Refresher(StoreEventsNext))
    /\ \A r \in Resources :
          /\ WF_allVars(Refresher(Forward(r)))
          /\ WF_allVars(Refresher(FetchNext(r))) /\ WF_allVars(Refresher(StoreNext(r)))

LSpec == LInit /\ [][LNext]_allVars /\ LFairness

-----------------------------------------------------------------------------
(* Properties.                                                             *)

\* The refresher never works on a closed store: whichever way the server ends,
\* it is told to stop before (main.go:70-91, the order of the defers; a request
\* that was answered just then has its etag stored and its page nowhere).
StoreOpenForUpdates == Running /\ ~open => ctxDone

\* A signal, or a server that cannot listen, brings run to its end, whatever the
\* refresher is doing; the process is not left running without its server (server.go:56-67, main.go:95-99).
RunReturns == (ctx \/ listener = "failed") ~> main \in {"exit", "failed", "off"}
=============================================================================
