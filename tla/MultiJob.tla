------------------------------ MODULE MultiJob ------------------------------
(***************************************************************************)
(* One multi-job request through the core of the specification: the      *)
(* ClientRegistry's connection states under connect, disconnect and pause *)
(* events (section 4.1), the JobDispatcher's check of the target followed *)
(* by the send over its session (4.3), the MultiJobCoordinator's          *)
(* sequential or concurrent fan-out with abort-on-error and cancellation  *)
(* (4.4, 5), the out-of-band completion events that update the JobStore   *)
(* and then notify the ResultCorrelator, and the correlator's pending     *)
(* count and one-shot done channel (4.5).  The request's policy comes     *)
(* from MultiJobRequest (src/server/api/jobs/model.go).                   *)
(*                                                                         *)
(* A job is identified by its target slot; the JobStore holds its current *)
(* status, the MultiJob aggregate the dispatch result of each slot.       *)
(***************************************************************************)
EXTENDS Naturals, Sequences, FiniteSets

CONSTANTS
  Clients,            \* client IDs
  TargetLists,        \* resolved, de-duplicated, ordered target lists
  MaxRegistryEvents   \* bound on connect/disconnect/pause events

VARIABLES
  clientState,    \* ClientRegistry: client -> "Connected" | "Disconnected" | "Paused"
  registryEvents, \* registry events so far (bounded)
  targets,        \* the resolved target list of the request
  concurrent,     \* MultiJobRequest.ExecuteConcurrently
  abortOnError,   \* MultiJobRequest.AbortOnError
  canceled,       \* the request context was cancelled
  worker,         \* slot -> "idle" | "sending" | "done": its dispatch
  next,           \* the sequential loop's index
  multiJob,       \* slot -> "none" | the dispatch result "Running" | "Failed"
  jobStatus,      \* JobStore: slot -> "none" | Running | a terminal status
  phase,          \* "dispatching" | "returned": Execute has returned
  registered,     \* the correlator holds an entry for the multi-job
  pending,        \* the entry's pending count
  notifyQ,        \* slots whose terminal transition is not yet notified
  doneSends       \* values sent on the done channel

vars == <<clientState, registryEvents, targets, concurrent, abortOnError,
          canceled, worker, next, multiJob, jobStatus, phase, registered,
          pending, notifyQ, doneSends>>

registryVars   == <<clientState, registryEvents>>
correlatorVars == <<registered, pending, notifyQ, doneSends>>

ConnStates == {"Connected", "Disconnected", "Paused"}
Terminal   == {"Successful", "Failed", "Unknown"}
Slots      == 1..Len(targets)
AllSlots   == UNION {DOMAIN t : t \in TargetLists}

-----------------------------------------------------------------------------
(* Initial state: any registry state, any resolved target list and any    *)
(* policy a request can carry (AbortOnError is true when absent).         *)
Init ==
  /\ clientState \in [Clients -> ConnStates]
  /\ registryEvents = 0
  /\ targets \in TargetLists
  /\ concurrent \in BOOLEAN
  /\ abortOnError \in BOOLEAN
  /\ canceled = FALSE
  /\ worker = [i \in Slots |-> "idle"]
  /\ next = 1
  /\ multiJob = [i \in Slots |-> "none"]
  /\ jobStatus = [i \in Slots |-> "none"]
  /\ phase = "dispatching"
  /\ registered = FALSE
  /\ pending = 0
  /\ notifyQ = {}
  /\ doneSends = 0

-----------------------------------------------------------------------------
(* ClientRegistry events: SetDisconnected, a reconnect, SetPaused.        *)
RegistryEvent(c, s) ==
  /\ registryEvents < MaxRegistryEvents
  /\ <<clientState[c], s>> \in {<<"Connected", "Disconnected">>,
                                <<"Paused", "Disconnected">>,
                                <<"Disconnected", "Connected">>,
                                <<"Connected", "Paused">>,
                                <<"Paused", "Connected">>}
  /\ clientState' = [clientState EXCEPT ![c] = s]
  /\ registryEvents' = registryEvents + 1
  /\ UNCHANGED <<targets, concurrent, abortOnError, canceled, worker, next,
                 multiJob, jobStatus, phase, correlatorVars>>

\* The upstream request context is cancelled.
Cancel ==
  /\ ~canceled
  /\ phase = "dispatching"
  /\ canceled' = TRUE
  /\ UNCHANGED <<registryVars, targets, concurrent, abortOnError, worker, next,
                 multiJob, jobStatus, phase, correlatorVars>>

-----------------------------------------------------------------------------
(* Dispatch of slot i, as the coordinator's policy allows it to begin:    *)
(* every goroutine at once when concurrent, else the loop's current index *)
(* while the context is live.                                             *)
MayDispatch(i) ==
  /\ i \in Slots
  /\ phase = "dispatching"
  /\ worker[i] = "idle"
  /\ concurrent \/ (i = next /\ ~canceled)

\* Mutant: the sequential loop does not break on a failed dispatch.
ResolveNoAbort(i, r) ==
  /\ worker' = [worker EXCEPT ![i] = "done"]
  /\ multiJob' = [multiJob EXCEPT ![i] = r]
  /\ jobStatus' = [jobStatus EXCEPT ![i] = r]
  /\ next' = IF concurrent THEN next ELSE i + 1

\* The dispatch of slot i returns result r: the Job is persisted and put in
\* its slot, and the sequential loop moves on or breaks on abort-on-error.
Resolve(i, r) ==
  /\ worker' = [worker EXCEPT ![i] = "done"]
  /\ multiJob' = [multiJob EXCEPT ![i] = r]
  /\ jobStatus' = [jobStatus EXCEPT ![i] = r]
  /\ next' = IF concurrent THEN next
             ELSE IF r = "Failed" /\ abortOnError THEN Len(targets) + 1
             ELSE i + 1

(* JobDispatcher.Dispatch, first step: GetActiveByID.  A client that is   *)
(* not Connected gets a Failed job ("client is not connected" or "client  *)
(* is paused"); a Connected one has its session taken for the send.       *)
DispatchCheck(i) ==
  /\ MayDispatch(i)
  /\ IF clientState[targets[i]] = "Connected"
     THEN /\ worker' = [worker EXCEPT ![i] = "sending"]
          /\ UNCHANGED <<next, multiJob, jobStatus>>
     ELSE Resolve(i, "Failed")
  /\ UNCHANGED <<registryVars, targets, concurrent, abortOnError, canceled,
                 phase, correlatorVars>>

(* Second step: the request goes over the session taken in the check.     *)
(* A session closed since then fails the send; otherwise the client may  *)
(* accept (Running) or the send, the decoding of the response or the     *)
(* client may fail (Failed).                                              *)
DispatchSend(i) ==
  /\ i \in Slots
  /\ worker[i] = "sending"
  /\ \E r \in IF clientState[targets[i]] = "Disconnected"
              THEN {"Failed"} ELSE {"Running", "Failed"} :
       Resolve(i, r)
  /\ UNCHANGED <<registryVars, targets, concurrent, abortOnError, canceled,
                 phase, correlatorVars>>

-----------------------------------------------------------------------------
(* Execute, after the fan-out: the sequential loop has run out of targets, *)
(* broken or seen the cancelled context, or the concurrent WaitGroup has   *)
(* been waited for.  The MultiJob is persisted and registered with the    *)
(* correlator with the number of its children that are Running now; with *)
(* none, done is resolved at once and no entry is kept.                   *)
DispatchOver ==
  /\ \A i \in Slots : worker[i] # "sending"
  /\ \/ concurrent /\ \A i \in Slots : worker[i] = "done"
     \/ ~concurrent /\ (next > Len(targets) \/ canceled)

\* Mutant: the pending count is the number of children, not of Running ones.
RegisterCountingAll ==
  /\ phase = "dispatching"
  /\ DispatchOver
  /\ phase' = "returned"
  /\ LET running == Cardinality({i \in Slots : multiJob[i] # "none"})
     IN  IF running = 0
         THEN /\ doneSends' = doneSends + 1
              /\ UNCHANGED <<registered, pending>>
         ELSE /\ registered' = TRUE
              /\ pending' = running
              /\ UNCHANGED doneSends
  /\ UNCHANGED <<registryVars, targets, concurrent, abortOnError, canceled,
                 worker, next, multiJob, jobStatus, notifyQ>>

Register ==
  /\ phase = "dispatching"
  /\ DispatchOver
  /\ phase' = "returned"
  /\ LET running == Cardinality({i \in Slots : jobStatus[i] = "Running"})
     IN  IF running = 0
         THEN /\ doneSends' = doneSends + 1
              /\ UNCHANGED <<registered, pending>>
         ELSE /\ registered' = TRUE
              /\ pending' = running
              /\ UNCHANGED doneSends
  /\ UNCHANGED <<registryVars, targets, concurrent, abortOnError, canceled,
                 worker, next, multiJob, jobStatus, notifyQ>>

-----------------------------------------------------------------------------
(* A completion event from the client's session: the JobStore moves the   *)
(* Running job to its terminal status; the handler then notifies.         *)
Complete(i, t) ==
  /\ jobStatus[i] = "Running"
  /\ jobStatus' = [jobStatus EXCEPT ![i] = t]
  /\ notifyQ' = notifyQ \cup {i}
  /\ UNCHANGED <<registryVars, targets, concurrent, abortOnError, canceled,
                 worker, next, multiJob, phase, registered, pending, doneSends>>

\* Mutant: the entry is kept after done has been sent.
NotifyJobTerminalKeepsEntry(i) ==
  /\ i \in notifyQ
  /\ notifyQ' = notifyQ \ {i}
  /\ IF ~registered
     THEN UNCHANGED <<registered, pending, doneSends>>
     ELSE /\ pending' = pending - 1
          /\ doneSends' = IF pending - 1 = 0 THEN doneSends + 1 ELSE doneSends
          /\ UNCHANGED registered
  /\ UNCHANGED <<registryVars, targets, concurrent, abortOnError, canceled,
                 worker, next, multiJob, jobStatus, phase>>

(* ResultCorrelator.NotifyJobTerminal: a no-op without an entry; else the *)
(* pending count drops, and at zero done is sent and the entry removed.   *)
NotifyJobTerminal(i) ==
  /\ i \in notifyQ
  /\ notifyQ' = notifyQ \ {i}
  /\ IF ~registered
     THEN UNCHANGED <<registered, pending, doneSends>>
     ELSE /\ pending' = pending - 1
          /\ IF pending - 1 = 0
             THEN /\ doneSends' = doneSends + 1
                  /\ registered' = FALSE
             ELSE UNCHANGED <<registered, doneSends>>
  /\ UNCHANGED <<registryVars, targets, concurrent, abortOnError, canceled,
                 worker, next, multiJob, jobStatus, phase>>

-----------------------------------------------------------------------------
Next ==
  \/ \E c \in Clients, s \in ConnStates : RegistryEvent(c, s)
  \/ Cancel
  \/ \E i \in Slots : DispatchCheck(i) \/ DispatchSend(i) \/ NotifyJobTerminal(i)
  \/ Register
  \/ \E i \in Slots, t \in Terminal : Complete(i, t)

(* The dispatch goroutines, Execute and the completion handler's notify   *)
(* are server code that runs once it can; the registry events, the        *)
(* cancellation and the clients' completion events come from outside and *)
(* need not happen.                                                       *)
Fairness ==
  /\ \A i \in AllSlots : WF_vars(DispatchCheck(i)) /\ WF_vars(DispatchSend(i))
  /\ WF_vars(Register)
  /\ \A i \in AllSlots : WF_vars(NotifyJobTerminal(i))

Spec == Init /\ [][Next]_vars /\ Fairness

-----------------------------------------------------------------------------
TypeOK ==
  /\ clientState \in [Clients -> ConnStates]
  /\ registryEvents \in 0..MaxRegistryEvents
  /\ worker \in [Slots -> {"idle", "sending", "done"}]
  /\ next \in 1..(Len(targets) + 1)
  /\ multiJob \in [Slots -> {"none", "Running", "Failed"}]
  /\ jobStatus \in [Slots -> {"none", "Running"} \cup Terminal]
  /\ phase \in {"dispatching", "returned"}
  /\ registered \in BOOLEAN
  /\ pending \in 0..Len(targets)
  /\ notifyQ \subseteq Slots
  /\ doneSends \in 0..1

(* The coordinator implements what section 4.4 promises (MultiJobDispatch): *)
(* each job sits in its target's slot whatever order the concurrent       *)
(* dispatches finish in, the sequential loop attempts target i+1 only after *)
(* target i resolved, breaks after a failed dispatch under abort-on-error  *)
(* and attempts nothing new once cancelled, Execute returns only when no   *)
(* target may still be attempted, and a job's status, once terminal, never *)
(* changes (P2, P3, P4).  A slot whose dispatch is sending is "attempted". *)
Abstract == INSTANCE MultiJobDispatch
  WITH started <- [i \in Slots |-> IF worker[i] = "sending" THEN "attempted"
                                   ELSE multiJob[i]],
       status  <- jobStatus,
       closed  <- phase = "returned"

ImplementsMultiJobDispatch == Abstract!Spec

(* Once Execute has returned and no child job is Running any more, the     *)
(* correlator eventually sends on the done channel: the pending count set  *)
(* at Register reaches zero through the completion handler's notifies.     *)
AllTerminalLeadsToDone ==
  (phase = "returned" /\ \A i \in Slots : jobStatus[i] # "Running")
    ~> doneSends > 0

=============================================================================
