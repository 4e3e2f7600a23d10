----------------------------- MODULE HTTPServer -----------------------------
(***************************************************************************)
(* The graceful-shutdown wrapper of src/share/http_server.go.  A starter  *)
(* goroutine calls GoListenAndServe and then Wait; the serve goroutine    *)
(* runs Serve and, when it returns, closeWith(err); a shutdown goroutine  *)
(* calls Close, which runs closeWith(nil) and closes the listener.        *)
(*                                                                         *)
(* closeWith reads and writes the unsynchronised isRunning flag and then  *)
(* sends on `running`, a channel of capacity 1.  Its check, its write and *)
(* its send are separate steps, so every interleaving the data race on    *)
(* isRunning permits is a behaviour.  Close is called once, after         *)
(* GoListenAndServe has returned.                                         *)
(***************************************************************************)
EXTENDS Naturals

CONSTANTS
  ServeMayFail   \* Serve may return an error while the listener is open

VARIABLES
  isRunning,   \* h.isRunning
  listener,    \* h.listener: "nil" | "open" | "closed"
  running,     \* values buffered in h.running (capacity 1)
  ctxDone,     \* h.ctx is cancelled
  pc           \* actor -> its position

vars == <<isRunning, listener, running, ctxDone, pc>>

\* Where an actor continues once its closeWith returns.
AfterCloseWith(a) == IF a = "serve" THEN "done" ELSE "closeListener"

\* NewHTTPServer: the struct's zero values and a `running` of capacity 1.
Init ==
  /\ isRunning = FALSE
  /\ listener = "nil"
  /\ running = 0
  /\ ctxDone = FALSE
  /\ pc = [serve |-> "idle", close |-> "idle", wait |-> "idle"]

-----------------------------------------------------------------------------
(* GoListenAndServe: a failing net.Listen returns the error and starts    *)
(* nothing; otherwise isRunning and the listener are set and the serve    *)
(* goroutine started.  The starter goes on to Wait.                       *)
GoListenAndServe ==
  /\ pc.wait = "idle"
  /\ \/ pc' = [pc EXCEPT !.wait = "done"]
        /\ UNCHANGED <<isRunning, listener>>
     \/ /\ isRunning' = TRUE
        /\ listener' = "open"
        /\ pc' = [pc EXCEPT !.serve = "serving", !.wait = "check"]
  /\ UNCHANGED <<running, ctxDone>>

\* Serve returns once the listener is closed; with ServeMayFail it may also
\* return an error (a failing Accept, a bad certificate for ServeTLS).
ServeReturns ==
  /\ pc.serve = "serving"
  /\ listener = "closed"
  /\ pc' = [pc EXCEPT !.serve = "cwCheck"]
  /\ UNCHANGED <<isRunning, listener, running, ctxDone>>

ServeFails ==
  /\ ServeMayFail
  /\ pc.serve = "serving"
  /\ listener = "open"
  /\ pc' = [pc EXCEPT !.serve = "cwCheck"]
  /\ UNCHANGED <<isRunning, listener, running, ctxDone>>

-----------------------------------------------------------------------------
(* closeWith(err): return if !isRunning; isRunning = false; running <- err *)
CloseWithCheck(a) ==
  /\ pc[a] = "cwCheck"
  /\ pc' = [pc EXCEPT ![a] = IF isRunning THEN "cwSet" ELSE AfterCloseWith(a)]
  /\ UNCHANGED <<isRunning, listener, running, ctxDone>>

\* Mutant: closeWith(nil) clears isRunning but sends nothing.
CloseWithSetNoNilSend(a) ==
  /\ pc[a] = "cwSet"
  /\ isRunning' = FALSE
  /\ pc' = [pc EXCEPT ![a] = IF a = "close" THEN AfterCloseWith(a) ELSE "cwSend"]
  /\ UNCHANGED <<listener, running, ctxDone>>

CloseWithSet(a) ==
  /\ pc[a] = "cwSet"
  /\ isRunning' = FALSE
  /\ pc' = [pc EXCEPT ![a] = "cwSend"]
  /\ UNCHANGED <<listener, running, ctxDone>>

\* Mutant: the channel holds two values.
CloseWithSendCap2(a) ==
  /\ pc[a] = "cwSend"
  /\ running <= 1
  /\ running' = running + 1
  /\ pc' = [pc EXCEPT ![a] = AfterCloseWith(a)]
  /\ UNCHANGED <<isRunning, listener, ctxDone>>

\* The send blocks while the buffer is full.
CloseWithSend(a) ==
  /\ pc[a] = "cwSend"
  /\ running < 1
  /\ running' = running + 1
  /\ pc' = [pc EXCEPT ![a] = AfterCloseWith(a)]
  /\ UNCHANGED <<isRunning, listener, ctxDone>>

-----------------------------------------------------------------------------
(* Close: closeWith(nil), then listener.Close() unless it is nil.         *)
Close ==
  /\ pc.close = "idle"
  /\ pc.wait # "idle"
  /\ pc' = [pc EXCEPT !.close = "cwCheck"]
  /\ UNCHANGED <<isRunning, listener, running, ctxDone>>

CloseListener ==
  /\ pc.close = "closeListener"
  /\ listener' = IF listener = "open" THEN "closed" ELSE listener
  /\ pc' = [pc EXCEPT !.close = "done"]
  /\ UNCHANGED <<isRunning, running, ctxDone>>

(* Wait: "Already closed" when !isRunning; else the first of a value on    *)
(* `running` and the context's cancellation.                              *)
WaitCheck ==
  /\ pc.wait = "check"
  /\ pc' = [pc EXCEPT !.wait = IF isRunning THEN "select" ELSE "done"]
  /\ UNCHANGED <<isRunning, listener, running, ctxDone>>

WaitReceive ==
  /\ pc.wait = "select"
  /\ running > 0
  /\ running' = running - 1
  /\ pc' = [pc EXCEPT !.wait = "done"]
  /\ UNCHANGED <<isRunning, listener, ctxDone>>

WaitCanceled ==
  /\ pc.wait = "select"
  /\ ctxDone
  /\ pc' = [pc EXCEPT !.wait = "done"]
  /\ UNCHANGED <<isRunning, listener, running, ctxDone>>

\* The context passed to GoListenAndServe is cancelled.
CancelCtx ==
  /\ ~ctxDone
  /\ ctxDone' = TRUE
  /\ UNCHANGED <<isRunning, listener, running, pc>>

-----------------------------------------------------------------------------
Next ==
  \/ GoListenAndServe \/ ServeReturns \/ ServeFails
  \/ \E a \in {"serve", "close"} :
       CloseWithCheck(a) \/ CloseWithSet(a) \/ CloseWithSend(a)
  \/ Close \/ CloseListener
  \/ WaitCheck \/ WaitReceive \/ WaitCanceled
  \/ CancelCtx

(* The goroutines' own steps are scheduled by the Go runtime; the call of  *)
(* Close, a failure of Serve and the cancellation come from outside.      *)
Fairness ==
  /\ WF_vars(GoListenAndServe) /\ WF_vars(ServeReturns)
  /\ \A a \in {"serve", "close"} :
       WF_vars(CloseWithCheck(a)) /\ WF_vars(CloseWithSet(a)) /\ WF_vars(CloseWithSend(a))
  /\ WF_vars(CloseListener)
  /\ WF_vars(WaitCheck) /\ WF_vars(WaitReceive) /\ WF_vars(WaitCanceled)

Spec == Init /\ [][Next]_vars /\ Fairness

-----------------------------------------------------------------------------
TypeOK ==
  /\ isRunning \in BOOLEAN
  /\ listener \in {"nil", "open", "closed"}
  /\ running \in 0..1
  /\ ctxDone \in BOOLEAN
  /\ pc.serve \in {"idle", "serving", "cwCheck", "cwSet", "cwSend", "done"}
  /\ pc.close \in {"idle", "cwCheck", "cwSet", "cwSend", "closeListener", "done"}
  /\ pc.wait \in {"idle", "check", "select", "done"}

(* A Wait blocked in its select returns once Close has been called: the   *)
(* closeWith that turns isRunning from true to false, Close's or the serve *)
(* goroutine's, puts a value in `running`.                                *)
WaitReturnsAfterClose ==
  (pc.wait = "select" /\ pc.close # "idle") ~> pc.wait = "done"

(* Close returns once called: its closeWith(nil) never blocks on the full *)
(* `running` channel.                                                     *)
CloseReturns == pc.close # "idle" ~> pc.close = "done"

=============================================================================
