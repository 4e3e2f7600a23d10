# TLA+ models of the riport server

This directory holds TLA+ models of the riport server (`src/`) and of the
core that `spec.md` specifies. It also holds the TLC configurations that check
those models. `PROJECT.json` is the machine-readable index of the project:
- its components;
- its runs and the mutants that show each property can fail;
- the map from every modelling definition to the source lines it translates;
- the findings and the hazards.

## 1. The system and its parts

The server keeps sessions with remote clients. Operators target one client,
several clients, a group of clients or a tag expression with a command, a
script or a file, and the results come back later, asynchronously.

| Part | Source | State | Operations | Interacts with |
|---|---|---|---|---|
| Client group selectors | `server/cgroups/group.go` | none (pure) | `Param.matches`, `ParamValues.MatchesOneOf`, `ParseTag`, `allowedOperator`, `MatchesRawTags`, `UserGroupIsAllowed`, `OneOfUserGroupsIsAllowed` | target resolution, upload and job ACL checks |
| ClientRegistry | spec 4.1 (not in `src/`) | client → Connected/Disconnected/Paused, pause reason, disconnect time | `GetActiveByID`, `SetPaused`, `SetDisconnected`, `Save` | dispatcher reads it; sessions change it |
| TargetResolver | spec 4.2 (selectors in `src/`) | none | resolve client IDs, groups or tags; exclusivity | uses the selectors |
| JobDispatcher | spec 4.3 | JobStore rows | `Dispatch`: registry check, send, persist | registry, transport, JobStore |
| MultiJobCoordinator | spec 4.4, `api/jobs/model.go` | Jobs slots, loop index | `Execute` under `{concurrent, abortOnError}` with cancellation | dispatcher, correlator |
| ResultCorrelator | spec 4.5 | multi-job → pending count, done channel | `Register`, `NotifyJobTerminal` | completion-event handler, waiter |
| Measurement queue | `server/monitoring/measurement_queuing.go` | channel, context, WaitGroup | `Notify`, `process`, drain, `logQueueLength`, `Close` | client sessions produce; saver consumes |
| Audit log rotation | `server/auditlog/rotation.go` | sqlite handle, ticker, RWMutex | `rotate`, `rotateIfNeeded`, `Save/List/Count`, `Close`; `Entry.Save`, `SaveForMultipleClients` (`entry.go`) | API handlers write audit entries |
| HTTP server wrapper | `share/http_server.go` | `isRunning`, `running` chan(1) | `GoListenAndServe`, `closeWith`, `Close`, `Wait` | server start-up and shutdown |
| File upload fan-out | `server/upload.go` | per-request WaitGroup, result channel, temp file | `handleFileUploads`, `sendFileToClients`, `consumeUploadResults`, `sendFileToClient` | client sessions, ACL, files API |
| Client attributes handlers | `server/api_handler_client_attributes.go` | client attributes | get, update (send to client, then save), `withActiveClient` | client session, client repo |
| Script/command libraries | `server/script/manager.go`, `api/command/manager.go` | DB rows (UNIQUE name) | `Create`, `Update`, `Delete`, `List`, `GetOne` | sqlite |
| User file adapter | `api/users/file_adapter.go` | users JSON file, cached list | `Add`, `Update`, `Delete` (read–modify–write, then load) | auth |
| Alert problem sorting | `server/alerts/alerts.go` | none (pure) | `SortProblemsFunc`, `SortProblemsBy*` with `sort.Slice` | problem list API |
| Others | notifications, status, plus, stores, migrations, client exec | I/O or generated | – | – |

### Hard behaviours

- **Check-then-act on the registry.** The dispatcher checks a client and
  then sends to it. The client can be paused or disconnected between the two.
- **Out-of-order completion.** A completion event can update a job before the
  multi-job is registered and notify the correlator after it.
- **Fan-out policy.** Concurrent dispatch writes each result into its slot.
  Sequential dispatch stops at the first failure under abort-on-error, and
  stops issuing new dispatches on cancellation.
- **Shutdown races.** Go's `select` picks at random among ready cases:
  - the measurement queue's `Notify` races `Close`;
  - the HTTP wrapper's `closeWith` is run by both `Close` and the serve goroutine;
  - the audit log's ticker can fire after `Close`.
- **Read-modify-write without a transaction.** The library managers check
  for a name with one statement and save with another. The users file is
  read, changed and written under a mutex, and the reload goroutine loads it
  without that mutex.
- **Partial failure of multi-step operations.** The audit log's rotate is
  close, then rename, then reopen. The attributes update is send, then save.
  The multi-job is persisted as a header and, separately, its children.
- **Selector edge cases.** The matchers must handle:
  - wildcard patterns with several `*`;
  - duplicate operands in a tag expression;
  - operator case;
  - an empty pattern list compared with an absent one.
- **Comparators handed to `sort.Slice`.** A descending sort negates `less`,
  so equal keys compare less both ways; the state comparator is `==`.

### Properties each part needs

- **Selectors.** Agreement with the specified semantics (4.2, P5, P6).
- **Coordinator.** Order preservation (P2), abort truncation (P3),
  terminal-once (P4), sequential causal order and cancellation. Together these
  are the abstract spec `MultiJobDispatch`.
- **Correlator.**
  - done is sent only when all children are terminal;
  - done is eventually sent once they are;
  - done is sent at most once.
- **Dispatcher.** A paused client never gets a Running job.
- **Queue.**
  - every accepted measurement is saved;
  - `Close` terminates;
  - no save runs after `Close` returns;
  - a session blocked in `Notify` gets an answer.
- **Rotation.** No use of a nil provider; a Save fails only after a
  logged rotation error; every Save returns.
- **HTTP wrapper.** `Wait` returns once `Close` has been called; `Close`
  never blocks in `closeWith`.
- **Uploads.** The temp file is removed only after all senders finish; every
  target's result is reported; one response per request; a websocket that
  listened for the whole upload is sent every target's result.
- **Users file.** The file changes only by whole, serialised Add, Update or
  Delete calls (the abstract `UsersStore`); a call returns with the cache
  holding its own write.
- **Client attributes.** The server never shows or stores attributes the
  client has not accepted; the stored attributes match the in-memory ones
  once the updates are over.
- **Libraries.** A name conflict is answered 409.
- **Problem sorting.** The problems come back reordered, none lost, in the
  requested order; every advertised sort column has a sort function.
## 2. Modules

| Module | Models | Kind |
|---|---|---|
| `GroupMatching` | the selectors of `group.go` as operators (`RECURSIVE` where the code loops) | pure algorithms |
| `ProblemSorting` | `SortProblemsFunc`, the five comparators, and `sort.Slice` as the insertion sort it runs on slices of at most 12 elements (`RECURSIVE`) | pure algorithms |
| `MC_GroupMatching` | a one-step driver: `input` ranges over bounded strings, pattern sets, raw tag shapes and problem lists with sort options, and `Call` evaluates the matcher or the sort; reference definitions (`Glob`, `FieldRef`, `TagRef`, `OrderedBy`) state the expected results | checks against references |
| `MultiJobDispatch` | the abstract promise of the coordinator: slots, attempt/resolve, order, abort, cancel, close, terminal-once | abstract spec |
| `MultiJob` | registry events, the two-step dispatch, fan-out policy, cancellation, completion events, correlator; `Abstract == INSTANCE MultiJobDispatch WITH …` | composition + refinement |
| `MC_MultiJob` | three client model values, target lists `<<c1,c2,c3>>` and `<<c2>>` | instance |
| `MeasurementQueue`, `MC_MeasurementQueue` | `Notify`, `process` and its drain, `logQueueLength`'s exit, `Close` and the WaitGroup; three producers | component + instance |
| `HTTPServer` | `GoListenAndServe`, the serve goroutine, `closeWith` as check/write/send steps, `Close`, `Wait`, the context | component |
| `AuditLogRotation` | `rotationLoop`/`rotate` (close, rename, reopen under the write lock, each able to fail), `Save` under the read lock, `Close`, and `Entry.SaveForMultipleClients` calling it once per client | composition |
| `UploadFanout`, `MC_UploadFanout` | `handleFileUploads`' checks and early returns, `sendFileToClients`' senders, WaitGroup and closer, `consumeUploadResults` and its `notifyUploadEventListeners`, `handleUploadsWS`, the temp file | component + instance |
| `UsersStore` | what a writable users provider promises: each Add, Update or Delete applied whole to the current users; unique usernames | abstract spec |
| `UsersFileAdapter`, `MC_UsersFileAdapter` | `Add`, `Update`, `Delete` of `file_adapter.go` (lock, read, check, write, load) and the reload goroutine's `load`; `Store == INSTANCE UsersStore WITH users <- ToSet(file)` | component + refinement |
| `ClientAttributes` | `withActiveClient`, `handleGetClientAttributes` and `handleUpdateClientAttributes` for concurrent requests on one client, with pause and disconnect from the rest of the server | component |
| `LibraryManager`, `MC_LibraryManager` | `Create`, `Update`, `Delete`, `GetOne`, `List` of `script/manager.go` and `api/command/manager.go`, each db call its own step, each library against its own table with a UNIQUE name index | component + instance |

### How the state corresponds to the code

**`GroupMatching`**
- A string is a sequence of characters. `LowerChar` is `strings.ToLower` on one character.
- `Index`, `Split` and `ScanParts` are `strings.Index`, `strings.Split` and the loop at `group.go:97-105`.
- `MatchesRawTags` keeps the code's `matches` map as the set of matched operand strings.

**`ProblemSorting`**
- A problem is a record of its ids, `Active` and its two times. `KeyRank`
  is the order of `strings.ToLower` of an id; times are naturals, and an
  unresolved problem's `ResolvedAt` is the zero time, 0.
- `SortSlice(Less, s)` is `sort.Slice`: for fewer than 13 elements Go's
  `pdqsort` is `insertionSortLessFunc`, which swaps element `j` left while
  `less(data[j], data[j-1])`. `Directed` is the `if desc { return !less }`
  every comparator ends with.
- `SortProblemsFunc` returns the switch's column, or `NoSort` (the nil
  `sortFunc`) for a column the switch does not name.

**`MultiJob`**

The core is not under `src/`, so this module is written from `spec.md`, except
that the policy comes from `MultiJobRequest`. Its variables:
- `clientState`: the registry.
- `worker[i]`: the dispatch goroutine of slot `i`. It is `"sending"` between
  `GetActiveByID` and the send over the session.
- `multiJob`: the Jobs slots, holding each dispatch result.
- `jobStatus`: the JobStore.
- `next`: the sequential loop's index. A break sets it past the end.
- `registered`, `pending`: the correlator's entry.
- `notifyQ`: jobs whose terminal transition is stored but not yet notified.
- `doneSends`: values sent on the done channel.

**`MeasurementQueue`**
- `proc` is the `process` goroutine: in its select, draining, or exited.
- `queueSize` is the capacity `NewMeasurementQueuing` was given, chosen in
  `Init` and never changed. `wg` is the WaitGroup counter.
- A receive and its `SaveMeasurement` call are one step, because nothing else
  reads the received value. The ticker case of `logQueueLength` only logs.
- `selectgo` lets only one case of a parked select win. So an unbuffered send
  is received only by `process` parked before the cancellation (`NotifyHandoff`).
  A buffered send may win after it (`NotifyEnqueue`).
- `CallNotify` is a session calling `Notify`; `notified[p] = "calling"` is
  the session parked in the select until `NotifyStep` takes one case.

**`HTTPServer`**
- `pc` holds the position of the serve goroutine, of the goroutine calling
  `Close` and of the starter that calls `GoListenAndServe` and then `Wait`.
- `closeWith` is three actions, `CloseWithCheck`, `CloseWithSet` and
  `CloseWithSend`. `isRunning` is read and written without a lock, so the
  model lets the other goroutines run between them: every outcome the data
  race permits on the built program.
- `running` counts the values buffered in the capacity-1 channel.
- `ServeFails` is `Serve` (or `ServeTLS`) returning an error while the
  listener is still open; it is allowed when `ServeMayFail`.

**`AuditLogRotation`**
- `db` is `r.sqlite`: `"open"`, `"closed"` or `"nil"` after a failed
  `newSQLiteProvider`. A method call on `"nil"` sets `panicked`, which stops
  every action: the process is gone.
- `writer`/`readers` are `r.mtx`. `rot` is `rotationLoop`'s position inside
  `rotate`; `RotateReturn(err)` is a return, whose deferred `Unlock` runs.
- `logged` turns true when `rotate` returns an error to `rotationLoop`.
- `sawClose[c]` records whether `Close` had returned when caller `c` took the
  read lock. `List` and `Count` have `Save`'s shape and are not separate actions.
- A caller is `Entry.SaveForMultipleClients` over `ClientsPerEntry` clients:
  `CallSave` starts it, and `EntrySaved` is one `Entry.Save` returning (its
  error logged), after which the loop calls `Save` again, taking the read
  lock anew, until `left` is zero. `Entry.Save` reaches the provider
  synchronously, as `auditlog_test.go`'s mock provider shows.

**`UploadFanout`**
- `hpc` is the handler's position: `ReadRequest` is `uploadRequestFromRequest`,
  `Checks` the later checks in their order, each a `Reject(k)` or `Pass(k)`.
  `LoadGroups` writes its error and goes on, as the code does.
- `fan`, `sender`, `wg`, `resChan` and `chanClosed` are `sendFileToClients`,
  its sender goroutines, the WaitGroup and the result channel; `reported` is
  what `consumeUploadResults` logged per client.
- A send needs the temp file (the client fetches it while the request runs),
  so removing it early would turn a success into an error.
- `ws[w]` is a websocket's life in `handleUploadsWS`: `WSOpen` is the upgrade
  and `uploadWebsocketConnections.Store` (or a failed upgrade), `WSClose` the
  end of the read loop and the deferred `Close`, `WSDelete` the deferred
  `Delete`, which runs after `Close` (defers are LIFO).
- `ConsumeResult` takes one result and sets `notice`; `NotifyVisit(w)` is one
  step of the `sync.Map.Range` over `unvisited`, writing the result only to
  a connection that is still open (a write to a closed one fails, is logged
  and the Range goes on); `NotifyDone` ends the Range. `subscribed` is the
  set of connections stored when `sendFileToClients` started, `delivered[w]`
  the targets whose result reached `w`.

**`UsersFileAdapter`**
- `file` is the users file in file order, `cache` the `UserCache`; `mtx` the
  holder of `fa.mtx`. `Add`, `Update`, `Delete` and `Decide` are the checks
  and changes each method makes to the users it read, including Update's
  scan, which stops at the first user holding the new name and changes the
  last user holding the old one.
- A caller's steps are `Lock`, `ReadAndDecide`, `SaveUsers`, `LoadRead`,
  `LoadApply`; every return runs the deferred unlock (`Return`).
- `ReloadReadFile`/`ReloadApply` are `load` run by the reload goroutine
  without `fa.mtx`, bounded by `MaxReloads`.

**`ClientAttributes`**
- `clientAttr`/`accepted` are the client's own attributes and every value it
  has held; `serverAttr` is the in-memory client; `stored` the repository.
- A request is a get or an update (`kind`). `Show` is
  `handleGetClientAttributes`: `getClientFromContext` and the in-memory
  attributes answered; `shown` is every value a get has answered.
- `Send` is `SendRequestAndGetResponse` together with the client's answer.
  `SaveClient` stores `serverAttr` as it is when Save runs; a failed Save
  writes its error and then, the handler not returning, the "ok" too.

**`LibraryManager`**
- `table[l]` is library `l`'s set of rows `[id, name]`; the script text
  matters only to `Validate`. `pc[c]` is the caller's position in `Create`,
  `Update`, `Delete`, `GetOne` or `List`, one step per db call; `result[c]`
  the status its call ends with.
- `OptionsStep` is `ValidateRetrieveOptions` or `ValidateListOptions`.
  `ListEntries` is `List`'s one `db.List` and the in-memory tag filter,
  whose error on an entry is returned as it is.
- `ScriptManager(c)` and `CommandManager(c)` are the two managers' methods:
  the same steps (`LibraryCall`) on their own table. The command manager's
  `Validate` is not in the repository, so a command may pass or fail it.
  Database errors other than the UNIQUE index are not modelled.
- `CreateSave`/`UpdateSave` fail (500) when the UNIQUE name index refuses
  the row, which happens only if another caller saved the name since the check.
  The index is `CREATE UNIQUE INDEX "unique_name"` on `scripts(name)` and
  `"commands__unique_name"` on `commands(name)`, in the gzip-compressed
  migrations of `db/migration/library/bindata.go` (lines 98 and 138).

## 3. Runs

| Run | cfg | Expect | Checks | Bounds |
|---|---|---|---|---|
| groupmatching | `MC_GroupMatching.cfg` | pass | `WildcardMatchesReference`, `FieldMatchesReference`, `TagsMatchReference`, `SortMatchesReference` | letters a, b, A; patterns and values up to 5 characters; tag lists of up to 3 distinct operands; keys and, or, xor; up to 3 problems, ids a, A, b, times 0 and 1, every column the switch orders by |
| selector_divergence | `MC_GroupMatching_Divergence.cfg` | violation | `SelectionMatchesReference` | empty field lists, repeated operands, key `AND` |
| multijob | `MC_MultiJob.cfg` | pass | `TypeOK`, refinement `ImplementsMultiJobDispatch`, `AllTerminalLeadsToDone` | 3 clients, 2 registry events, both policies, 1 or 3 targets |
| measurement | `MC_MeasurementQueue.cfg` | pass | `TypeOK`, `CloseTerminates`, `NoSaveAfterClose`, `NotifyReturns` | 3 producers, queueSize 0 or 2 |
| measurement_lost_after_close | `MC_MeasurementQueue_LostAfterClose.cfg` | violation | `AcceptedEventuallySaved` | 3 producers, queueSize 0 or 1 |
| httpserver | `HTTPServer.cfg` | pass | `TypeOK`, `WaitReturnsAfterClose` | one server, `Serve` may fail |
| rotation | `AuditLogRotation.cfg` | pass | `SaveFailsOnlyAfterLoggedError`, `SaveReturns` | 2 callers each saving an entry for 2 clients, 2 ticks, every step of `rotate` may fail |
| rotation_reopen_fails | `AuditLogRotation_ReopenFails.cfg` | violation | `NoNilProvider` | reopen may fail |
| upload | `MC_UploadFanout.cfg` | pass | `TypeOK`, `TempFileOutlivesSenders`, `ListenersSeeEveryResult`, `UploadReportsEveryTarget` | 2 clients, either disabled; an allowed, a denied and the bare `/proc` destination; 2 websockets opening, failing and closing at any time |
| users | `MC_UsersFileAdapter.cfg` | pass | refinement `ImplementsUsersStore`, `ReturnsWithOwnWrite` | 2 callers, every add/update/delete of 2 names and 2 values, 3 initial files, reads and writes may fail, 1 reload |
| attributes | `ClientAttributes.cfg` | pass | `AttributesAccepted`, `StoredMatchesMemory` | 2 requests, each a get or an update, 2 values, Save may fail, pause and disconnect at any time |
| library_name_race | `MC_LibraryManager_NameRace.cfg` | violation | `NameConflictIs409` | 2 callers, each in the script or the command library; create, rename of the existing entry, delete, get and list, with 2 names or an empty one |

### Why the bounds are enough

- **Selectors.** Five characters allow two `*` with parts between and around
  them; the candidate sets contain case variants, leading and trailing `*`,
  and overlapping parts.
- **Problem sorting.** Three problems are the fewest where insertion sort
  moves an element past two others, and where a comparator that is no
  ordering leaves a group split; ids `a` and `A` are equal keys that differ,
  and two values per key give ties in every column.
- **Multi-job.** Three targets let the first failed dispatch fall before, at
  or after the middle target. Two registry events pause or disconnect a
  target between check and send, and undo it.
- **Measurement queue.** Three producers: one notifies before `Close`, one
  races it, one comes after. Size 0 is what the unit test uses; size 2 lets
  the buffer hold values when `Close` cancels.
- **HTTP server, client attributes.** Every goroutine of the interaction is
  modelled (three, and two requests plus the rest of the server); TLC
  enumerates all their interleavings.
- **Audit log rotation.** Two ticks let a rotation fail and the next one run
  on what it left; two callers let a Save wait on a rotation while another
  holds the read lock; two clients per entry let a rotation fall between
  the Saves of one entry.
- **Upload.** Two targets let a disabled one finish before or after the
  other races the closer. Two websockets let one close (and its write fail)
  while the Range still has the other to visit, in either visiting order,
  and let one be stored after the fan-out started. Three clients with the
  websockets exceed what TLC finishes in minutes (two give 770k states).
- **Users, libraries.** Two callers are what a lost update or a name race
  needs. Two names let an Update rename onto a taken name; the three initial
  files cover an empty file, a missing user and a present one.

### Fairness

Weak fairness is assumed only for goroutines the Go runtime schedules once
they exist: the dispatch goroutines, `Execute`'s `Register` and the
completion handler's notify; the queue's `process`, logger and the goroutine
blocked in `Close`; a session parked in `Notify`'s select; the serve goroutine and the steps of `closeWith`,
`Close` and `Wait`; `rotate`'s steps after a tick and a Save's steps; the
upload handler, senders, closer and consumer, and the deferred `Delete` of a
closed websocket; each users caller (the mutex
hands the lock on) and a started reload; each attributes request.

Two liveness properties also rest on calls that set no deadline:
`UploadReportsEveryTarget` assumes that the request to a client and each
`WriteJSON` to a websocket return (`upload.go:282,294`), and the
attributes runs take the repository's `Save`, outside `src/`, to store a
client atomically.

No fairness is assumed for what comes from outside: registry events,
cancellation, completion events, `Notify`, the calls of `Close` and `Save`,
a `Serve` error, the context's cancellation, a tick, a reload signal, a
pause or a disconnect, a websocket opening or closing.

Deadlock checking is off where the program really stops: every job finished,
`Close` returned, the ticks used up, every call returned. It stays on for
`attributes`, where pause and resume can always happen.

### What the runs show

Findings (`PROJECT.json`) from the violation runs:

1. **`selector_divergence`** (three findings).
   - A field given as `[]` excludes every client that has values
     (`group.go:74`); the specification says an empty field does not
     constrain.
   - `{"and":["a","a"]}` never matches, because operands are counted through
     a map (`group.go:134`).
   - `{"AND":[…]}` passes `ParseTag` but matches no client
     (`group.go:132,154`).
2. **`measurement_lost_after_close`.** With a buffer, `Notify` can return true
   after the drain has finished, and the measurement is never saved. With
   size 0, as in the unit test, it cannot happen.
3. **`rotation_reopen_fails`.** A failed reopen stores a nil provider; the next
   Save, rotate or Close panics (`rotation.go:81-83`).
4. **`library_name_race`.** Two Creates of one name both pass the `db.List`
   check; the second `db.Save` fails on the UNIQUE index and the caller gets
   the database error (500), not the 409 the check is written to give
   (`script/manager.go:138-173`). TLC prints the first trace it finds, in
   the script library; the command manager runs the same steps
   (`CommandManager` and `ScriptManager` are both `LibraryCall`), so the
   same race holds for it, and for an Update renaming onto a name being
   created.

What the passing runs show:
- sorting problems by rule, client, creation or resolution time, ascending,
  descending (despite the non-strict `!less`) or by default, returns the
  same problems in the requested order, and two sort options give 400;
- the multi-job coordinator implements `MultiJobDispatch`, and done follows
  once every child is terminal;
- the queue's `Close` returns and no save runs after it;
- a `Wait` parked in its select returns once `Close` has been called;
- a Save before `Close` fails only after `rotationLoop` logged an error, also
  between two Saves of one multi-client entry, and every return path of
  `rotate` releases the lock;
- every `Notify` returns, on a full buffer and after `process` has exited;
- the upload's temp file outlives every sender, and every target is reported;
  a websocket stored before the fan-out and still open at its end has been
  sent every result, even after a write to another, closed, one failed;
- `fa.mtx` makes the users file a `UsersStore`: no lost update, no duplicate
  username, even with failing reads and writes and a concurrent reload; a
  call that returns nil leaves the cache holding its own write;
- the attributes handlers never answer a get with, keep in memory or store
  attributes the client refused,
  and the repository ends equal to memory when no Save failed.

Properties stated in the modules that no run checks (the project keeps to
twelve runs; TLC finds each violated when run on its module):
- `HTTPServer!CloseReturns`: when `Serve` fails while `Close` runs, both
  `closeWith` calls pass the unsynchronised `isRunning` check and `Close`'s
  send blocks forever (`http_server.go:88-92`);
- `AuditLogRotation!NothingReopenedAfterClose`: `Close` stops the ticker but
  not `rotationLoop`, so a tick taken before `Close` reopens `auditlog.db`
  after it (`rotation.go:57,123`);
- `UploadFanout!SingleResponse`: a failing `clientGroupProvider.GetAll` writes
  an error and the handler goes on to write a second response
  (`upload.go:91-95`);
- `MC_GroupMatching!StateSortGroups`: sorting by state leaves active and
  resolved problems interleaved, since `SortProblemsByState` compares with
  `==` (`alerts.go:83`);
- `MC_GroupMatching!SupportedSortHasFunc`: `active` and `client_name` are
  supported sort columns with no case in `SortProblemsFunc`'s switch, which
  returns a nil `sortFunc` and no error (`alerts.go:25-33,122-133`).

Every property of a passing run is broken by a mutant of the mapped code
(the `mutants` list): a rule comparator that ignores the direction, a loop that does not break on abort, a pending count
over all children, a `Close` that does not cancel, an early `wg.Wait`, a
`closeWith` that sends nothing, a `Notify` select without its ctx.Done case, a Save that ignores the write lock, a failed
rename that keeps the lock, a `wg.Add` one too high, a closer that does not
wait, a disabled sender that reports nothing, a notification Range that stops at
the first failed write, a users call without the mutex
or without the load, an attributes update set before the client answered,
and a Save that stores the request's own value.

## 4. Plan for the remaining parts

1. **Target resolution.** Exclusivity of the targeting parameters (P1) and
   group membership composed from the `GroupMatching` operators.
2. **MultiJob persistence.** Crash and restart between the header and child
   writes, and done-at-most-once with a waiter.
3. **Users cache staleness.** A property that the cache eventually equals the
   file, which the unlocked reload can break (`file_adapter.go:35-47`).
4. **Concurrent uploads.** Two uploads' consumers writing to one websocket at
   once (`upload.go:295`); gorilla's `WriteJSON` allows one writer. A second
   request multiplies the upload model past what TLC finishes.

## 5. Not modelled

- Generated migrations (`bindata.go`).
- Single-statement sqlite stores (stored tunnels, client auth), whose
  atomicity the database provides.
- The single-user static provider: its writes all return an error and its
  reads use the cache, so no state of it changes.
- Service management and client-side process listing and exec (OS I/O).
- The plus capability registration, the status mock, notifications and
  status handlers: calls into code that is not in the repository.
- The alerts `Supported*` tables other than the sorts: validation data for
  callers outside the repository.
- The audit log entry builder's `With*` setters: field formatting.
- Pointer helpers and test builders.

`ClientParams.Scan`/`Value` are JSON conversions that no property needs. An
empty `json.RawMessage` (`group.go:112`) cannot come from JSON decoding, so it
is not among the enumerated tag inputs.
