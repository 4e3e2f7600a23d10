---------------------------- MODULE UploadFanout ----------------------------
(***************************************************************************)
(* File upload of src/server/upload.go.  handleFileUploads reads and     *)
(* checks the request, stores the file in the upload directory, starts   *)
(* sendFileToClients in a goroutine and answers 200.  sendFileToClients   *)
(* starts one sendFileToClient goroutine per target client, each sending  *)
(* one result on the buffered resChan and then calling wg.Done; a closer  *)
(* goroutine closes resChan after wg.Wait; consumeUploadResults ranges    *)
(* over resChan, audit-logs and notifies each result; then the temp file  *)
(* is removed.  Each result is also written by notifyUploadEventListeners *)
(* to every websocket handleUploadsWS has stored in uploadWebSockets.     *)
(*                                                                         *)
(* One request.  The client fetches the file from the server while its    *)
(* SendRequestAndGetResponse runs, so a send succeeds only while the temp *)
(* file is present.  A destination path is a sequence of its components. *)
(***************************************************************************)
EXTENDS Naturals, Sequences, FiniteSets

CONSTANTS
  Clients,        \* clients that may be targeted
  Destinations,   \* destination paths the request may carry
  DeniedDirs,     \* the first components validateRemoteDestination denies
  Listeners       \* upload websocket connections the UI may open

VARIABLES
  targets,       \* uploadRequest.Clients
  receptionOff,  \* targets whose file reception config is disabled
  dest,          \* uploadRequest.DestinationPath
  hpc,           \* handleFileUploads' position
  responses,     \* responses written to the ResponseWriter
  tempFile,      \* the file at SourceFilePath: "absent" | "present" | "removed"
  fan,           \* sendFileToClients: "idle" | "spawned" | "consuming" | "done"
  sender,        \* target -> sendFileToClient: "idle" | "start" | "sent" | "done"
  wg,            \* the WaitGroup's counter
  resChan,       \* results buffered in resChan, oldest first
  chanClosed,    \* resChan has been closed by the closer goroutine
  reported,      \* target -> the result consumeUploadResults logged
  ws,            \* listener -> "none" | "stored" | "closed" | "gone"
  notice,        \* the result being notified, or NoNotice
  unvisited,     \* listeners the notification's Range has not visited
  delivered,     \* listener -> targets whose result was written to it
  subscribed     \* listeners stored when sendFileToClients started

vars == <<targets, receptionOff, dest, hpc, responses, tempFile, fan, sender,
          wg, resChan, chanClosed, reported, ws, notice, unvisited, delivered,
          subscribed>>

wsVars == <<ws, notice, unvisited, delivered, subscribed>>

fanVars == <<fan, sender, wg, resChan, chanClosed, reported>>

NoNotice == [client |-> "none", result |-> "none"]

Results == {"ok", "error", "disabled"}

\* validateRemoteDestination: the path starts with "/proc/", "/sys/",
\* "/dev/" or "/run/".
DestinationDenied(d) == Len(d) > 1 /\ d[1] \in DeniedDirs

\* The checks of handleFileUploads after uploadRequestFromRequest, in order;
\* each may end the request with an error response.  "destination" fails exactly on a denied path.
Checks == <<"user", "mkdir", "validate", "destination", "groups",
            "access", "store", "open", "checksum">>

\* The position that follows check k.
After(k) == IF k < Len(Checks) THEN Checks[k + 1] ELSE "start"

Init ==
  /\ targets \in SUBSET Clients \ {{}}
  /\ receptionOff \in SUBSET targets
  /\ dest \in Destinations
  /\ hpc = "read"
  /\ responses = 0
  /\ tempFile = "absent"
  /\ fan = "idle"
  /\ sender = [c \in Clients |-> "idle"]
  /\ wg = 0
  /\ resChan = <<>>
  /\ chanClosed = FALSE
  /\ reported = [c \in Clients |-> "none"]
  /\ ws = [w \in Listeners |-> "none"]
  /\ notice = NoNotice
  /\ unvisited = {}
  /\ delivered = [w \in Listeners |-> {}]
  /\ subscribed = {}

-----------------------------------------------------------------------------
(* handleFileUploads.  uploadRequestFromRequest: ParseMultipartForm, the *)
(* tags form value (more than one, or bad JSON), the ordered clients, the  *)
(* form fields and the form file each return an error, which the handler  *)
(* writes before returning.                                               *)
ReadRequest ==
  /\ hpc = "read"
  /\ \/ responses' = responses + 1 /\ hpc' = "done"
     \/ hpc' = Checks[1] /\ UNCHANGED responses
  /\ UNCHANGED <<targets, receptionOff, dest, tempFile, fanVars, wsVars>>

(* getUserModelForAuth, CreateDirIfNotExists, Validate,                   *)
(* validateRemoteDestination, CheckClientsAccess, Open and the checksum   *)
(* each return after writing an error response.                           *)
Reject(k) ==
  /\ hpc = Checks[k]
  /\ hpc \notin {"groups", "store"}
  /\ hpc = "destination" => DestinationDenied(dest)
  /\ responses' = responses + 1
  /\ hpc' = "done"
  /\ UNCHANGED <<targets, receptionOff, dest, tempFile, fanVars, wsVars>>

Pass(k) ==
  /\ hpc = Checks[k]
  /\ hpc \notin {"groups", "store"}
  /\ hpc = "destination" => ~DestinationDenied(dest)
  /\ hpc' = After(k)
  /\ UNCHANGED <<targets, receptionOff, dest, responses, tempFile, fanVars, wsVars>>

\* clientGroupProvider.GetAll: an error is written, and the handler goes on.
LoadGroups ==
  /\ hpc = "groups"
  /\ \/ responses' = responses + 1
     \/ UNCHANGED responses
  /\ hpc' = "access"
  /\ UNCHANGED <<targets, receptionOff, dest, tempFile, fanVars, wsVars>>

\* filesAPI.CreateFile copies the upload to SourceFilePath.
StoreFile ==
  /\ hpc = "store"
  /\ \/ tempFile' = "present" /\ hpc' = "open" /\ UNCHANGED responses
     \/ responses' = responses + 1 /\ hpc' = "done" /\ UNCHANGED tempFile
  /\ UNCHANGED <<targets, receptionOff, dest, fanVars, wsVars>>

\* The audit entry, `go al.sendFileToClients(...)` and the 200 response.
StartUpload ==
  /\ hpc = "start"
  /\ fan' = "spawned"
  /\ responses' = responses + 1
  /\ hpc' = "done"
  /\ UNCHANGED <<targets, receptionOff, dest, tempFile, sender, wg, resChan,
                 chanClosed, reported, wsVars>>

\* Mutant: wg.Add counts one goroutine more than it starts.
FanOutAddOneMore ==
  /\ fan = "spawned"
  /\ wg' = Cardinality(targets) + 1
  /\ sender' = [c \in Clients |-> IF c \in targets THEN "start" ELSE "idle"]
  /\ fan' = "consuming"
  /\ subscribed' = {w \in Listeners : ws[w] = "stored"}
  /\ UNCHANGED <<targets, receptionOff, dest, hpc, responses, tempFile,
                 resChan, chanClosed, reported, ws, notice, unvisited, delivered>>

-----------------------------------------------------------------------------
(* sendFileToClients: wg.Add(len(Clients)), one sender per target and the *)
(* closer goroutine are started before the results are consumed.          *)
(* subscribed records the websockets stored at that moment.               *)
FanOut ==
  /\ fan = "spawned"
  /\ wg' = Cardinality(targets)
  /\ sender' = [c \in Clients |-> IF c \in targets THEN "start" ELSE "idle"]
  /\ fan' = "consuming"
  /\ subscribed' = {w \in Listeners : ws[w] = "stored"}
  /\ UNCHANGED <<targets, receptionOff, dest, hpc, responses, tempFile,
                 resChan, chanClosed, reported, ws, notice, unvisited, delivered>>

\* Mutant: the disabled path returns without sending its result.
SenderSendSkipDisabled(c) ==
  /\ sender[c] = "start"
  /\ \E r \in Results :
       /\ r = "disabled" <=> c \in receptionOff
       /\ r = "ok" => tempFile = "present"
       /\ resChan' = IF r = "disabled" THEN resChan
                     ELSE Append(resChan, [client |-> c, result |-> r])
  /\ sender' = [sender EXCEPT ![c] = "sent"]
  /\ UNCHANGED <<targets, receptionOff, dest, hpc, responses, tempFile, fan,
                 wg, chanClosed, reported, wsVars>>

\* sendFileToClient: a disabled reception config gives ErrUploadsDisabled;
\* otherwise the request either succeeds, which needs the temp file, or
\* fails.  The result goes to the buffered resChan.
SenderSend(c) ==
  /\ sender[c] = "start"
  /\ \E r \in Results :
       /\ r = "disabled" <=> c \in receptionOff
       /\ r = "ok" => tempFile = "present"
       /\ resChan' = Append(resChan, [client |-> c, result |-> r])
  /\ sender' = [sender EXCEPT ![c] = "sent"]
  /\ UNCHANGED <<targets, receptionOff, dest, hpc, responses, tempFile, fan,
                 wg, chanClosed, reported, wsVars>>

\* The deferred wg.Done.
SenderDone(c) ==
  /\ sender[c] = "sent"
  /\ sender' = [sender EXCEPT ![c] = "done"]
  /\ wg' = wg - 1
  /\ UNCHANGED <<targets, receptionOff, dest, hpc, responses, tempFile, fan,
                 resChan, chanClosed, reported, wsVars>>

\* Mutant: the closer closes resChan without wg.Wait.
CloserCloseNoWait ==
  /\ fan \in {"consuming", "done"}
  /\ ~chanClosed
  /\ chanClosed' = TRUE
  /\ UNCHANGED <<targets, receptionOff, dest, hpc, responses, tempFile, fan,
                 sender, wg, resChan, reported, wsVars>>

\* The closer goroutine: wg.Wait(), then close(resChan).
CloserClose ==
  /\ fan \in {"consuming", "done"}
  /\ ~chanClosed
  /\ wg = 0
  /\ chanClosed' = TRUE
  /\ UNCHANGED <<targets, receptionOff, dest, hpc, responses, tempFile, fan,
                 sender, wg, resChan, reported, wsVars>>

\* consumeUploadResults: one iteration of the range loop audit-logs the
\* result and calls notifyUploadEventListeners, whose Range starts here.
ConsumeResult ==
  /\ fan = "consuming"
  /\ notice = NoNotice
  /\ resChan # <<>>
  /\ reported' = [reported EXCEPT ![Head(resChan).client] = Head(resChan).result]
  /\ notice' = Head(resChan)
  /\ unvisited' = Listeners
  /\ resChan' = Tail(resChan)
  /\ UNCHANGED <<targets, receptionOff, dest, hpc, responses, tempFile, fan,
                 sender, wg, chanClosed, ws, delivered, subscribed>>

\* Mutant: the Range callback returns false after a failed write.
NotifyVisitStopOnError(w) ==
  /\ notice # NoNotice
  /\ w \in unvisited
  /\ delivered' = [delivered EXCEPT ![w] =
                     IF ws[w] = "stored" THEN @ \cup {notice.client} ELSE @]
  /\ unvisited' = IF ws[w] = "closed" THEN {} ELSE unvisited \ {w}
  /\ UNCHANGED <<targets, receptionOff, dest, hpc, responses, tempFile,
                 fanVars, ws, notice, subscribed>>

(* notifyUploadEventListeners: sync.Map.Range visits the stored keys once *)
(* each, in any order; a key stored or deleted during the Range may or   *)
(* may not be seen.  WriteJSON succeeds on an open connection; on a closed *)
(* one its error is logged and the callback returns true.                 *)
NotifyVisit(w) ==
  /\ notice # NoNotice
  /\ w \in unvisited
  /\ delivered' = [delivered EXCEPT ![w] =
                     IF ws[w] = "stored" THEN @ \cup {notice.client} ELSE @]
  /\ unvisited' = unvisited \ {w}
  /\ UNCHANGED <<targets, receptionOff, dest, hpc, responses, tempFile,
                 fanVars, ws, notice, subscribed>>

NotifyDone ==
  /\ notice # NoNotice
  /\ unvisited = {}
  /\ notice' = NoNotice
  /\ UNCHANGED <<targets, receptionOff, dest, hpc, responses, tempFile,
                 fanVars, ws, unvisited, delivered, subscribed>>

\* The range ends on the closed, empty channel; filesAPI.Remove deletes the
\* temp file, or fails and only logs.
ConsumeEnd ==
  /\ fan = "consuming"
  /\ notice = NoNotice
  /\ resChan = <<>>
  /\ chanClosed
  /\ tempFile' \in {"removed", tempFile}
  /\ fan' = "done"
  /\ UNCHANGED <<targets, receptionOff, dest, hpc, responses, sender, wg,
                 resChan, chanClosed, reported, wsVars>>

-----------------------------------------------------------------------------
(* handleUploadsWS.  Upgrade and uuid.NewUUID either fail, and nothing is *)
(* stored, or the connection is stored in uploadWebSockets.  The read    *)
(* loop ends when the UI goes away; the deferred Close runs, then the     *)
(* deferred Delete.                                                       *)
WSOpen(w) ==
  /\ ws[w] = "none"
  /\ ws' \in {[ws EXCEPT ![w] = "stored"], [ws EXCEPT ![w] = "gone"]}
  /\ UNCHANGED <<targets, receptionOff, dest, hpc, responses, tempFile,
                 fanVars, notice, unvisited, delivered, subscribed>>

WSClose(w) ==
  /\ ws[w] = "stored"
  /\ ws' = [ws EXCEPT ![w] = "closed"]
  /\ UNCHANGED <<targets, receptionOff, dest, hpc, responses, tempFile,
                 fanVars, notice, unvisited, delivered, subscribed>>

WSDelete(w) ==
  /\ ws[w] = "closed"
  /\ ws' = [ws EXCEPT ![w] = "gone"]
  /\ UNCHANGED <<targets, receptionOff, dest, hpc, responses, tempFile,
                 fanVars, notice, unvisited, delivered, subscribed>>

-----------------------------------------------------------------------------
HandlerStep ==
  \/ \E k \in 1..Len(Checks) : Reject(k) \/ Pass(k)
  \/ ReadRequest \/ LoadGroups \/ StoreFile \/ StartUpload

ConsumerStep ==
  ConsumeResult \/ (\E w \in Listeners : NotifyVisit(w)) \/ NotifyDone \/ ConsumeEnd

Next ==
  \/ HandlerStep
  \/ FanOut \/ CloserClose \/ ConsumerStep
  \/ \E c \in Clients : SenderSend(c) \/ SenderDone(c)
  \/ \E w \in Listeners : WSOpen(w) \/ WSClose(w) \/ WSDelete(w)

(* Every step is taken by a goroutine of the server: the request's own,   *)
(* sendFileToClients and its consumer loop, the senders, the closer and   *)
(* a websocket handler running its defers.  The UI opening and closing a  *)
(* websocket comes from outside.                                          *)
Fairness ==
  /\ WF_vars(HandlerStep)
  /\ WF_vars(FanOut) /\ WF_vars(CloserClose) /\ WF_vars(ConsumerStep)
  /\ \A c \in Clients : WF_vars(SenderSend(c)) /\ WF_vars(SenderDone(c))
  /\ \A w \in Listeners : WF_vars(WSDelete(w))

Spec == Init /\ [][Next]_vars /\ Fairness

-----------------------------------------------------------------------------
TypeOK ==
  /\ targets \subseteq Clients /\ receptionOff \subseteq targets
  /\ responses \in 0..2
  /\ tempFile \in {"absent", "present", "removed"}
  /\ fan \in {"idle", "spawned", "consuming", "done"}
  /\ sender \in [Clients -> {"idle", "start", "sent", "done"}]
  /\ wg \in 0..Cardinality(Clients)
  /\ resChan \in Seq([client : Clients, result : Results])
  /\ reported \in [Clients -> Results \cup {"none"}]
  /\ ws \in [Listeners -> {"none", "stored", "closed", "gone"}]
  /\ delivered \in [Listeners -> SUBSET Clients]

(* The temp file is removed only after every sendFileToClient goroutine   *)
(* has finished: the range over resChan ends only when the closer has     *)
(* closed it, which it does only after wg.Wait saw every wg.Done.         *)
TempFileOutlivesSenders ==
  tempFile = "removed" => \A c \in targets : sender[c] = "done"

(* Once sendFileToClients has started, it finishes, and every target's    *)
(* result has then been audit-logged and notified, the disabled ones      *)
(* included.  This assumes that the request to a client and each          *)
(* WriteJSON to a websocket return: the code sets no deadline on either.  *)
UploadReportsEveryTarget ==
  fan = "spawned" ~> (fan = "done" /\ \A c \in targets : reported[c] # "none")

(* handleFileUploads writes exactly one response: every error path        *)
(* returns after writing its error.                                       *)
SingleResponse == responses <= 1

(* A websocket that was stored before sendFileToClients started and is   *)
(* still open when the upload is over has been sent every target's       *)
(* result: notifyUploadEventListeners' Range reaches every stored        *)
(* connection even after a write to a closed one has failed.             *)
ListenersSeeEveryResult ==
  fan = "done" =>
    \A w \in subscribed : ws[w] = "stored" => delivered[w] = targets

=============================================================================
