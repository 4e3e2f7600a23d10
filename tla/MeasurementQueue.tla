-------------------------- MODULE MeasurementQueue --------------------------
(***************************************************************************)
(* The measurement queue of src/server/monitoring/measurement_queuing.go: *)
(* client sessions call Notify, a `process` goroutine saves what it       *)
(* receives and, once the context is cancelled, drains the channel with a *)
(* non-blocking receive; a `logQueueLength` goroutine exits on the same   *)
(* cancellation; Close cancels the context and waits on the WaitGroup of  *)
(* the two goroutines.                                                    *)
(*                                                                         *)
(* A measurement is identified with the producer that notifies it; each   *)
(* producer notifies once.  A receive and the SaveMeasurement call that   *)
(* follows it are one step: nothing else reads the received value.  The  *)
(* ticker case of logQueueLength only logs and is left out.  Go's select  *)
(* picks any ready case; a goroutine parked in a select is woken by one   *)
(* case only, so an unbuffered send is received only by `process` parked *)
(* in its select before the context is cancelled.                         *)
(***************************************************************************)
EXTENDS Naturals, Sequences

CONSTANTS
  Producers,   \* goroutines that call Notify, one measurement each
  QueueSizes   \* the capacities (queueSize) NewMeasurementQueuing may be given

VARIABLES
  queueSize, \* the channel's capacity, fixed at construction
  ctxDone,   \* q.ctx has been cancelled
  queue,     \* the buffered measurements, oldest first
  proc,      \* process: "select" | "draining" | "exited"
  logger,    \* logQueueLength: "running" | "exited"
  wg,        \* the WaitGroup's counter
  closer,    \* the caller of Close: "idle" | "waiting" | "returned"
  notified,  \* producer -> "idle" | "calling" (blocked in Notify's select)
             \*   | the value Notify returned: "true" | "false"
  saved      \* measurements passed to saver.SaveMeasurement

vars == <<queueSize, ctxDone, queue, proc, logger, wg, closer, notified, saved>>

\* saver.SaveMeasurement(q.ctx, &m)
Save(m) == saved' = saved \cup {m}

-----------------------------------------------------------------------------
\* NewMeasurementQueuing: wg.Add(2), then both goroutines started.
Init ==
  /\ queueSize \in QueueSizes
  /\ ctxDone = FALSE
  /\ queue = <<>>
  /\ proc = "select"
  /\ logger = "running"
  /\ wg = 2
  /\ closer = "idle"
  /\ notified = [p \in Producers |-> "idle"]
  /\ saved = {}

-----------------------------------------------------------------------------
(* Notify: a session calls it, and its select blocks until a case is     *)
(* ready: the ctx.Done case returns false, the send case true.            *)
CallNotify(p) ==
  /\ notified[p] = "idle"
  /\ notified' = [notified EXCEPT ![p] = "calling"]
  /\ UNCHANGED <<queueSize, ctxDone, queue, proc, logger, wg, closer, saved>>

\* Mutant: the select has no ctx.Done case; only a send ends it.
NotifyNoDoneCase(p) ==
  /\ notified[p] = "calling"
  /\ FALSE
  /\ UNCHANGED vars

NotifyCancelled(p) ==
  /\ notified[p] = "calling"
  /\ ctxDone
  /\ notified' = [notified EXCEPT ![p] = "false"]
  /\ UNCHANGED <<queueSize, ctxDone, queue, proc, logger, wg, closer, saved>>

\* Mutant: the channel takes one value more than its capacity.
NotifyEnqueueOffByOne(p) ==
  /\ notified[p] = "calling"
  /\ queueSize > 0
  /\ Len(queue) <= queueSize
  /\ queue' = Append(queue, p)
  /\ notified' = [notified EXCEPT ![p] = "true"]
  /\ UNCHANGED <<queueSize, ctxDone, proc, logger, wg, closer, saved>>

\* A buffered send with room in the buffer, cancelled context or not.
NotifyEnqueue(p) ==
  /\ notified[p] = "calling"
  /\ queueSize > 0
  /\ Len(queue) < queueSize
  /\ queue' = Append(queue, p)
  /\ notified' = [notified EXCEPT ![p] = "true"]
  /\ UNCHANGED <<queueSize, ctxDone, proc, logger, wg, closer, saved>>

\* An unbuffered send meets `process` parked in its select, which saves it.
NotifyHandoff(p) ==
  /\ notified[p] = "calling"
  /\ queueSize = 0
  /\ proc = "select"
  /\ ~ctxDone
  /\ notified' = [notified EXCEPT ![p] = "true"]
  /\ Save(p)
  /\ UNCHANGED <<queueSize, ctxDone, queue, proc, logger, wg, closer>>

-----------------------------------------------------------------------------
(* process: the select's receive case saves the measurement; its          *)
(* ctx.Done case starts saveAllEnqueuedMeasurements, whose receive saves  *)
(* with the cancelled context and whose default case returns, after which *)
(* the deferred wg.Done runs.                                             *)
ProcessReceive ==
  /\ proc = "select"
  /\ queue # <<>>
  /\ queue' = Tail(queue)
  /\ Save(Head(queue))
  /\ UNCHANGED <<queueSize, ctxDone, proc, logger, wg, closer, notified>>

ProcessCancelled ==
  /\ proc = "select"
  /\ ctxDone
  /\ proc' = "draining"
  /\ UNCHANGED <<queueSize, ctxDone, queue, logger, wg, closer, notified, saved>>

DrainReceive ==
  /\ proc = "draining"
  /\ queue # <<>>
  /\ queue' = Tail(queue)
  /\ Save(Head(queue))
  /\ UNCHANGED <<queueSize, ctxDone, proc, logger, wg, closer, notified>>

DrainDefault ==
  /\ proc = "draining"
  /\ queue = <<>>
  /\ proc' = "exited"
  /\ wg' = wg - 1
  /\ UNCHANGED <<queueSize, ctxDone, queue, logger, closer, notified, saved>>

\* logQueueLength: the ctx.Done case returns; the deferred wg.Done runs.
LoggerExit ==
  /\ logger = "running"
  /\ ctxDone
  /\ logger' = "exited"
  /\ wg' = wg - 1
  /\ UNCHANGED <<queueSize, ctxDone, queue, proc, closer, notified, saved>>

-----------------------------------------------------------------------------
\* Mutant: Close forgets q.cancelFn() and only waits.
CloseWithoutCancel ==
  /\ closer = "idle"
  /\ closer' = "waiting"
  /\ UNCHANGED <<queueSize, ctxDone, queue, proc, logger, wg, notified, saved>>

\* Close: q.cancelFn(), then q.wg.Wait().
Close ==
  /\ closer = "idle"
  /\ ctxDone' = TRUE
  /\ closer' = "waiting"
  /\ UNCHANGED <<queueSize, queue, proc, logger, wg, notified, saved>>

\* Mutant: wg.Wait returns with one goroutine still running.
CloseReturnEarly ==
  /\ closer = "waiting"
  /\ wg <= 1
  /\ closer' = "returned"
  /\ UNCHANGED <<queueSize, ctxDone, queue, proc, logger, wg, notified, saved>>

\* wg.Wait returns once the counter is zero.
CloseReturn ==
  /\ closer = "waiting"
  /\ wg = 0
  /\ closer' = "returned"
  /\ UNCHANGED <<queueSize, ctxDone, queue, proc, logger, wg, notified, saved>>

-----------------------------------------------------------------------------
\* Notify's select, whichever case it takes.
NotifyStep(p) == NotifyCancelled(p) \/ NotifyEnqueue(p) \/ NotifyHandoff(p)

Next ==
  \/ \E p \in Producers : CallNotify(p) \/ NotifyStep(p)
  \/ ProcessReceive \/ ProcessCancelled \/ DrainReceive \/ DrainDefault
  \/ LoggerExit
  \/ Close \/ CloseReturn

(* The two goroutines, a session blocked in Notify's select and the      *)
(* goroutine blocked in Close are scheduled by the Go runtime; the calls  *)
(* of Notify and of Close are the callers'.                               *)
Fairness ==
  /\ \A p \in Producers : WF_vars(NotifyStep(p))
  /\ WF_vars(ProcessReceive) /\ WF_vars(ProcessCancelled)
  /\ WF_vars(DrainReceive) /\ WF_vars(DrainDefault)
  /\ WF_vars(LoggerExit)
  /\ WF_vars(CloseReturn)

Spec == Init /\ [][Next]_vars /\ Fairness

-----------------------------------------------------------------------------
TypeOK ==
  /\ queueSize \in QueueSizes
  /\ ctxDone \in BOOLEAN
  /\ queue \in Seq(Producers) /\ Len(queue) <= queueSize
  /\ proc \in {"select", "draining", "exited"}
  /\ logger \in {"running", "exited"}
  /\ wg \in 0..2
  /\ closer \in {"idle", "waiting", "returned"}
  /\ notified \in [Producers -> {"idle", "calling", "true", "false"}]
  /\ saved \subseteq Producers

(* A measurement for which Notify returned true is eventually passed to    *)
(* SaveMeasurement, whether Close runs before, during or after the send:   *)
(* the `process` loop or its drain of the channel gets every accepted one. *)
AcceptedEventuallySaved ==
  \A p \in Producers : notified[p] = "true" ~> p \in saved

(* Close returns: the cancelled context ends both goroutines, the drain   *)
(* ends at its default case, and wg.Wait sees both deferred wg.Done calls. *)
CloseTerminates == closer = "waiting" ~> closer = "returned"

(* No SaveMeasurement call happens after Close has returned: wg.Wait does *)
(* not return before `process` has finished draining.                     *)
NoSaveAfterClose == [][closer = "returned" => saved' = saved]_vars

(* A session that calls Notify gets an answer, whatever the buffer holds  *)
(* and whenever Close runs: a full buffer empties while `process` runs,   *)
(* and once the context is cancelled the select's ctx.Done case is ready, *)
(* even after `process` has exited and nobody receives any more.          *)
NotifyReturns ==
  \A p \in Producers : notified[p] = "calling" ~> notified[p] \in {"true", "false"}

=============================================================================
