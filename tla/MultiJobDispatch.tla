-------------------------- MODULE MultiJobDispatch --------------------------
(***************************************************************************)
(* What the multi-job coordinator promises (specification sections 3, 4.4 *)
(* and 8, properties P2-P4), stated without workers, sessions or the      *)
(* registry.  Each target slot i gets at most one job, whose first status *)
(* is the dispatch result (Running or Failed); a Running job later turns  *)
(* terminal once.  A dispatch is attempted, then resolves; one that fails *)
(* before any suspension does both in one step.  Sequential execution     *)
(* attempts target i+1 only after target i resolved, attempts nothing     *)
(* after a failed dispatch under abort-on-error and nothing new once the  *)
(* request is cancelled (an attempt in flight still resolves); concurrent *)
(* execution attempts every target in any order.  Dispatching closes only *)
(* when nothing is in flight and no further target may be attempted.     *)
(***************************************************************************)
EXTENDS Naturals, Sequences

CONSTANTS TargetLists

VARIABLES
  targets,       \* the resolved, ordered target list
  concurrent,    \* execute_concurrently
  abortOnError,  \* abort_on_error
  canceled,      \* the request context was cancelled
  started,       \* slot -> "none" | "attempted" | the result "Running" | "Failed"
  status,        \* slot -> the job's current status
  closed         \* no further target will be dispatched

vars == <<targets, concurrent, abortOnError, canceled, started, status, closed>>

Slots == 1..Len(targets)
Terminal == {"Successful", "Failed", "Unknown"}

Results == {"Running", "Failed"}

DispatchFailed == \E j \in Slots : started[j] = "Failed"

\* Target i may be attempted now.
MayAttempt(i) ==
  /\ ~closed
  /\ started[i] = "none"
  /\ ~concurrent =>
       /\ \A j \in 1..(i - 1) : started[j] \in Results
       /\ ~(abortOnError /\ DispatchFailed)
       /\ ~canceled

Init ==
  /\ targets \in TargetLists
  /\ concurrent \in BOOLEAN
  /\ abortOnError \in BOOLEAN
  /\ canceled = FALSE
  /\ started = [i \in Slots |-> "none"]
  /\ status = [i \in Slots |-> "none"]
  /\ closed = FALSE

Attempt(i) ==
  /\ MayAttempt(i)
  /\ started' = [started EXCEPT ![i] = "attempted"]
  /\ UNCHANGED <<targets, concurrent, abortOnError, canceled, status, closed>>

Resolve(i, r) ==
  /\ started[i] = "attempted"
  /\ started' = [started EXCEPT ![i] = r]
  /\ status' = [status EXCEPT ![i] = r]
  /\ UNCHANGED <<targets, concurrent, abortOnError, canceled, closed>>

\* A dispatch that resolves without suspending: Attempt then Resolve.
Start(i, r) ==
  /\ MayAttempt(i)
  /\ started' = [started EXCEPT ![i] = r]
  /\ status' = [status EXCEPT ![i] = r]
  /\ UNCHANGED <<targets, concurrent, abortOnError, canceled, closed>>

Finish(i, t) ==
  /\ status[i] = "Running"
  /\ status' = [status EXCEPT ![i] = t]
  /\ UNCHANGED <<targets, concurrent, abortOnError, canceled, started, closed>>

Cancel ==
  /\ ~canceled
  /\ canceled' = TRUE
  /\ UNCHANGED <<targets, concurrent, abortOnError, started, status, closed>>

Close ==
  /\ ~closed
  /\ \A i \in Slots : started[i] # "attempted" /\ ~MayAttempt(i)
  /\ closed' = TRUE
  /\ UNCHANGED <<targets, concurrent, abortOnError, canceled, started, status>>

Next ==
  \/ \E i \in Slots : Attempt(i)
  \/ \E i \in Slots, r \in Results : Resolve(i, r) \/ Start(i, r)
  \/ \E i \in Slots, t \in Terminal : Finish(i, t)
  \/ Cancel
  \/ Close

Spec == Init /\ [][Next]_vars

=============================================================================
