-------------------------- MODULE ClientAttributes --------------------------
(***************************************************************************)
(* Reading and updating a client's attributes,                            *)
(* src/server/api_handler_client_attributes.go.  withActiveClient looks   *)
(* the client up and refuses an inactive or paused one, then puts it in    *)
(* the request context.  handleGetClientAttributes answers the in-memory  *)
(* attributes; handleUpdateClientAttributes reads the body, sends them    *)
(* to the client over its SSH connection and waits for the answer, then   *)
(* sets them on the in-memory client and saves the whole client to the    *)
(* clients repository.  Nothing orders two updates of the same client.    *)
(*                                                                         *)
(* A request is a get or an update; an update carries one value, val[r]. *)
(* The client applies the updates it accepts in the order they reach it; *)
(* a send and the client's answer are one step.  The client may be       *)
(* paused or disconnect at any time.                                      *)
(***************************************************************************)
EXTENDS Naturals

CONSTANTS
  Requests,     \* concurrent requests for the one client
  Values,       \* attribute values a request may carry
  Initial,      \* the attributes the client reported when it connected
  SaveMayFail   \* clientService.GetRepo().Save may fail

VARIABLES
  kind,         \* request -> "get" | "update"
  val,          \* request -> the attributes in its body
  pc,           \* request -> its position in the handler
  responses,    \* request -> responses written to its ResponseWriter
  connected,    \* the client's SSH connection is open
  paused,       \* the client is paused
  clientAttr,   \* the attributes the client itself holds
  accepted,     \* every value the client has held
  serverAttr,   \* the in-memory client's attributes
  stored,       \* the attributes in the clients repository
  saveFailed,   \* some Save has failed
  shown         \* attributes some get has answered

vars == <<kind, val, pc, responses, connected, paused, clientAttr, accepted,
          serverAttr, stored, saveFailed, shown>>

Init ==
  /\ kind \in [Requests -> {"get", "update"}]
  /\ val \in [Requests -> Values]
  /\ pc = [r \in Requests |-> "lookup"]
  /\ responses = [r \in Requests |-> 0]
  /\ connected = TRUE
  /\ paused \in BOOLEAN
  /\ clientAttr = Initial
  /\ accepted = {Initial}
  /\ serverAttr = Initial
  /\ stored = Initial
  /\ saveFailed = FALSE
  /\ shown = {}

-----------------------------------------------------------------------------
\* The handler writes n responses and returns.
Respond(r, n) ==
  /\ responses' = [responses EXCEPT ![r] = @ + n]
  /\ pc' = [pc EXCEPT ![r] = "done"]

(* withActiveClient: a failing GetActiveByID (500), no active client (404) *)
(* and a paused client (404) end the request; otherwise the handler runs  *)
(* with the client in its context.                                        *)
Lookup(r) ==
  /\ pc[r] = "lookup"
  /\ \/ Respond(r, 1)
     \/ ~connected /\ Respond(r, 1)
     \/ connected /\ paused /\ Respond(r, 1)
     \/ connected /\ ~paused /\ UNCHANGED responses
        /\ pc' = [pc EXCEPT ![r] = IF kind[r] = "get" THEN "show" ELSE "read"]
  /\ UNCHANGED <<kind, val, shown, connected, paused, clientAttr, accepted, serverAttr, stored, saveFailed>>

(* handleGetClientAttributes: getClientFromContext finds the client      *)
(* withActiveClient stored, and client.GetAttributes() is answered.       *)
Show(r) ==
  /\ pc[r] = "show"
  /\ shown' = shown \cup {serverAttr}
  /\ Respond(r, 1)
  /\ UNCHANGED <<kind, val, connected, paused, clientAttr, accepted, serverAttr, stored, saveFailed>>

\* io.ReadAll or json.Unmarshal failing answers 400.
ReadBody(r) ==
  /\ pc[r] = "read"
  /\ \/ Respond(r, 1)
     \/ pc' = [pc EXCEPT ![r] = "send"] /\ UNCHANGED responses
  /\ UNCHANGED <<kind, val, shown, connected, paused, clientAttr, accepted, serverAttr, stored, saveFailed>>

\* Mutant: the attributes are set on the client before the answer is known.
SendSetsFirst(r) ==
  /\ pc[r] = "send"
  /\ serverAttr' = val[r]
  /\ \/ ~connected /\ Respond(r, 1) /\ UNCHANGED <<clientAttr, accepted>>
     \/ connected /\ Respond(r, 1) /\ UNCHANGED <<clientAttr, accepted>>
     \/ connected /\ clientAttr' = val[r] /\ accepted' = accepted \cup {val[r]}
        /\ pc' = [pc EXCEPT ![r] = "set"] /\ UNCHANGED responses
  /\ UNCHANGED <<kind, val, shown, connected, paused, stored, saveFailed>>

(* SendRequestAndGetResponse: a closed connection fails (500); the client  *)
(* refuses with a ClientError (409) or applies the attributes and answers. *)
Send(r) ==
  /\ pc[r] = "send"
  /\ \/ ~connected /\ Respond(r, 1) /\ UNCHANGED <<clientAttr, accepted>>
     \/ connected /\ Respond(r, 1) /\ UNCHANGED <<clientAttr, accepted>>
     \/ connected /\ clientAttr' = val[r] /\ accepted' = accepted \cup {val[r]}
        /\ pc' = [pc EXCEPT ![r] = "set"] /\ UNCHANGED responses
  /\ UNCHANGED <<kind, val, shown, connected, paused, serverAttr, stored, saveFailed>>

\* client.SetAttributes(attributes)
SetAttributes(r) ==
  /\ pc[r] = "set"
  /\ serverAttr' = val[r]
  /\ pc' = [pc EXCEPT ![r] = "save"]
  /\ UNCHANGED <<kind, val, shown, responses, connected, paused, clientAttr, accepted, stored, saveFailed>>

\* Mutant: Save stores the attributes of this request, not the client's.
SaveClientOwnValue(r) ==
  /\ pc[r] = "save"
  /\ \/ stored' = val[r] /\ Respond(r, 1) /\ UNCHANGED saveFailed
     \/ SaveMayFail /\ saveFailed' = TRUE /\ Respond(r, 2) /\ UNCHANGED stored
  /\ UNCHANGED <<kind, val, shown, connected, paused, clientAttr, accepted, serverAttr>>

(* Save(client) stores the in-memory client as it is now.  When it fails  *)
(* the handler writes its warning and then, not returning, the "ok".      *)
SaveClient(r) ==
  /\ pc[r] = "save"
  /\ \/ stored' = serverAttr /\ Respond(r, 1) /\ UNCHANGED saveFailed
     \/ SaveMayFail /\ saveFailed' = TRUE /\ Respond(r, 2) /\ UNCHANGED stored
  /\ UNCHANGED <<kind, val, shown, connected, paused, clientAttr, accepted, serverAttr>>

-----------------------------------------------------------------------------
(* The rest of the server: the client is paused or resumed, or its        *)
(* connection closes.                                                     *)
SetPaused ==
  /\ paused' = ~paused
  /\ UNCHANGED <<kind, val, shown, pc, responses, connected, clientAttr, accepted, serverAttr, stored, saveFailed>>

Disconnect ==
  /\ connected
  /\ connected' = FALSE
  /\ UNCHANGED <<kind, val, shown, pc, responses, paused, clientAttr, accepted, serverAttr, stored, saveFailed>>

RequestStep(r) ==
  Lookup(r) \/ Show(r) \/ ReadBody(r) \/ Send(r) \/ SetAttributes(r) \/ SaveClient(r)

Next ==
  \/ \E r \in Requests : RequestStep(r)
  \/ SetPaused \/ Disconnect

(* Each request is served by its own goroutine.                           *)
Fairness == \A r \in Requests : WF_vars(RequestStep(r))

Spec == Init /\ [][Next]_vars /\ Fairness

-----------------------------------------------------------------------------
(* The server never answers a get with, or stores, attributes the client *)
(* has not held:                                                          *)
(* the handler sets them on the in-memory client only after the client   *)
(* answered the update, and Save copies the in-memory client.            *)
AttributesAccepted ==
  shown \cup {serverAttr, stored} \subseteq accepted

(* Once every update has returned and no Save has failed, the repository *)
(* holds the in-memory attributes, however the updates interleaved: each *)
(* Save stores the client as it is when the Save runs, so the last Save   *)
(* follows the last SetAttributes.  The repository's Save, outside src/,  *)
(* is taken to store the client atomically.                               *)
StoredMatchesMemory ==
  (\A r \in Requests : pc[r] = "done") /\ ~saveFailed => stored = serverAttr

=============================================================================
