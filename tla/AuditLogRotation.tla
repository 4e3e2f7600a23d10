-------------------------- MODULE AuditLogRotation --------------------------
(***************************************************************************)
(* The rotating audit log provider of src/server/auditlog/rotation.go.    *)
(* rotationLoop runs rotate on every tick: under the write lock it closes *)
(* the sqlite provider, renames auditlog.db to a dated file and opens a   *)
(* new provider, returning at the first error.  Save, List and Count      *)
(* forward to the provider under the read lock.  Close stops the ticker   *)
(* and closes the provider under the write lock; it does not end          *)
(* rotationLoop, which may already hold a tick.                           *)
(*                                                                         *)
(* A caller is Entry.SaveForMultipleClients of src/server/auditlog/      *)
(* entry.go over ClientsPerEntry clients (Entry.Save is the case of one): *)
(* each Entry.Save reaches the provider's Save synchronously, as the mock *)
(* provider of auditlog_test.go shows, and takes the read lock anew, so   *)
(* a rotation can run between two Saves of one entry.  List and Count     *)
(* behave like Save.  The provider                                        *)
(* is "open", "closed" (sql.DB.Close is idempotent) or "nil" after a      *)
(* failed reopen; a method call on a nil provider panics and ends the     *)
(* process.                                                               *)
(***************************************************************************)
EXTENDS Naturals

CONSTANTS
  Callers,        \* goroutines saving an audit entry
  ClientsPerEntry, \* clients SaveForMultipleClients saves the entry for
  MaxTicks,       \* ticks delivered by r.ticker
  CloseMayFail,   \* r.sqlite.Close() may return an error
  RenameMayFail,  \* os.Rename may fail
  ReopenMayFail   \* newSQLiteProvider may fail

VARIABLES
  db,            \* r.sqlite: "open" | "closed" | "nil"
  writer,        \* holder of r.mtx for writing: "none" | "rotate"
  readers,       \* callers holding r.mtx for reading
  rot,           \* rotationLoop: "idle" | "ticked" | "closeDb" | "rename" | "reopen"
  ticks,         \* ticks delivered so far
  tickerStopped, \* r.ticker.Stop() has run
  closer,        \* the caller of Close: "idle" | "done"
  caller,        \* caller -> "idle" | "waiting" | "holding" | "done"
  left,          \* caller -> Saves its SaveForMultipleClients has still to make
  outcome,       \* caller -> "none" | "ok" | "err": what its Save returned
  sawClose,      \* caller -> Close had returned when it took the read lock
  panicked,      \* a nil provider was dereferenced
  logged         \* rotationLoop has logged an error returned by rotate

vars == <<db, writer, readers, rot, ticks, tickerStopped, closer, caller,
          left, outcome, sawClose, panicked, logged>>

\* The parts of the state rotationLoop leaves alone.
callerVars == <<readers, caller, left, outcome, sawClose>>

\* newRotationProvider: the provider is open, rotateIfNeeded has run
\* without error and rotationLoop has started.
Init ==
  /\ db = "open"
  /\ writer = "none"
  /\ readers = {}
  /\ rot = "idle"
  /\ ticks = 0
  /\ tickerStopped = FALSE
  /\ closer = "idle"
  /\ caller = [c \in Callers |-> "idle"]
  /\ left = [c \in Callers |-> 0]
  /\ outcome = [c \in Callers |-> "none"]
  /\ sawClose = [c \in Callers |-> FALSE]
  /\ panicked = FALSE
  /\ logged = FALSE

-----------------------------------------------------------------------------
(* rotationLoop and rotate.  Every return runs the deferred Unlock.       *)
Tick ==
  /\ ~panicked
  /\ rot = "idle"
  /\ ~tickerStopped
  /\ ticks < MaxTicks
  /\ rot' = "ticked"
  /\ ticks' = ticks + 1
  /\ UNCHANGED <<db, writer, tickerStopped, closer, callerVars, panicked, logged>>

RotateLock ==
  /\ ~panicked
  /\ rot = "ticked"
  /\ writer = "none" /\ readers = {}
  /\ writer' = "rotate"
  /\ rot' = "closeDb"
  /\ UNCHANGED <<db, ticks, tickerStopped, closer, callerVars, panicked, logged>>

\* rotate returns, releasing the lock; rotationLoop logs an error.
RotateReturn(err) ==
  /\ writer' = "none" /\ rot' = "idle"
  /\ logged' = (logged \/ err)

RotateCloseDb ==
  /\ ~panicked
  /\ rot = "closeDb"
  /\ \/ db = "nil" /\ panicked' = TRUE /\ UNCHANGED <<db, writer, rot, logged>>
     \/ db # "nil" /\ db' = "closed" /\ rot' = "rename"
        /\ UNCHANGED <<writer, panicked, logged>>
     \/ CloseMayFail /\ db = "open" /\ RotateReturn(TRUE) /\ UNCHANGED <<db, panicked>>
  /\ UNCHANGED <<ticks, tickerStopped, closer, callerVars>>

\* Mutant: a failed rename returns without releasing the lock.
RotateRenameKeepsLock ==
  /\ ~panicked
  /\ rot = "rename"
  /\ \/ rot' = "reopen" /\ UNCHANGED <<writer, logged>>
     \/ RenameMayFail /\ rot' = "stuck" /\ logged' = TRUE /\ UNCHANGED writer
  /\ UNCHANGED <<db, ticks, tickerStopped, closer, callerVars, panicked>>

RotateRename ==
  /\ ~panicked
  /\ rot = "rename"
  /\ \/ rot' = "reopen" /\ UNCHANGED <<writer, logged>>
     \/ RenameMayFail /\ RotateReturn(TRUE)
  /\ UNCHANGED <<db, ticks, tickerStopped, closer, callerVars, panicked>>

\* r.sqlite, err = newSQLiteProvider(...): nil on error.
RotateReopen ==
  /\ ~panicked
  /\ rot = "reopen"
  /\ \/ db' = "open" /\ RotateReturn(FALSE)
     \/ ReopenMayFail /\ db' = "nil" /\ RotateReturn(TRUE)
  /\ UNCHANGED <<ticks, tickerStopped, closer, callerVars, panicked>>

-----------------------------------------------------------------------------
(* SaveForMultipleClients is called: its first Entry.Save calls Save,    *)
(* which is RLock, r.sqlite.Save(e), RUnlock.                             *)
CallSave(c) ==
  /\ ~panicked
  /\ caller[c] = "idle"
  /\ caller' = [caller EXCEPT ![c] = "waiting"]
  /\ left' = [left EXCEPT ![c] = ClientsPerEntry]
  /\ UNCHANGED <<db, writer, readers, rot, ticks, tickerStopped, closer,
                 outcome, sawClose, panicked, logged>>

(* Entry.Save returns, logging an error; the loop of                      *)
(* SaveForMultipleClients goes on to the next client's Save, whatever the *)
(* outcome, or returns after the last.                                    *)
EntrySaved(c) ==
  /\ caller' = [caller EXCEPT ![c] = IF left[c] > 1 THEN "waiting" ELSE "done"]
  /\ left' = [left EXCEPT ![c] = @ - 1]

\* Mutant: Save reads r.sqlite without taking the read lock.
SaveRLockIgnoringWriter(c) ==
  /\ ~panicked
  /\ caller[c] = "waiting"
  /\ readers' = readers \cup {c}
  /\ caller' = [caller EXCEPT ![c] = "holding"]
  /\ sawClose' = [sawClose EXCEPT ![c] = closer = "done"]
  /\ UNCHANGED <<db, writer, rot, ticks, tickerStopped, closer, left, outcome, panicked, logged>>

SaveRLock(c) ==
  /\ ~panicked
  /\ caller[c] = "waiting"
  /\ writer = "none"
  /\ readers' = readers \cup {c}
  /\ caller' = [caller EXCEPT ![c] = "holding"]
  /\ sawClose' = [sawClose EXCEPT ![c] = closer = "done"]
  /\ UNCHANGED <<db, writer, rot, ticks, tickerStopped, closer, left, outcome, panicked, logged>>

SaveDo(c) ==
  /\ ~panicked
  /\ caller[c] = "holding"
  /\ \/ db = "nil" /\ panicked' = TRUE /\ UNCHANGED <<readers, caller, left, outcome>>
     \/ db # "nil" /\ UNCHANGED panicked
        /\ outcome' = [outcome EXCEPT ![c] = IF db = "open" THEN "ok" ELSE "err"]
        /\ readers' = readers \ {c}
        /\ EntrySaved(c)
  /\ UNCHANGED <<db, writer, rot, ticks, tickerStopped, closer, sawClose, logged>>

(* Close: Lock, ticker.Stop(), r.sqlite.Close(), Unlock.                  *)
Close ==
  /\ ~panicked
  /\ closer = "idle"
  /\ writer = "none" /\ readers = {}
  /\ tickerStopped' = TRUE
  /\ closer' = "done"
  /\ \/ db = "nil" /\ panicked' = TRUE /\ UNCHANGED db
     \/ db # "nil" /\ db' = "closed" /\ UNCHANGED panicked
  /\ UNCHANGED <<writer, rot, ticks, callerVars, logged>>

-----------------------------------------------------------------------------
Next ==
  \/ Tick \/ RotateLock \/ RotateCloseDb \/ RotateRename \/ RotateReopen
  \/ \E c \in Callers : CallSave(c) \/ SaveRLock(c) \/ SaveDo(c)
  \/ Close

(* rotationLoop and a caller inside Save are goroutines the Go runtime    *)
(* schedules; the ticks, the calls of Save and the call of Close come     *)
(* from outside.                                                          *)
Fairness ==
  /\ WF_vars(RotateLock) /\ WF_vars(RotateCloseDb)
  /\ WF_vars(RotateRename) /\ WF_vars(RotateReopen)
  /\ \A c \in Callers : WF_vars(SaveRLock(c)) /\ WF_vars(SaveDo(c))

Spec == Init /\ [][Next]_vars /\ Fairness

-----------------------------------------------------------------------------
(* A Save that takes the read lock before Close has run fails only after   *)
(* rotationLoop has logged an error of rotate: the write lock hides        *)
(* rotate's closed-then-reopened window, and a rotate that returns without *)
(* error leaves the provider open.                                         *)
SaveFailsOnlyAfterLoggedError ==
  \A c \in Callers :
    outcome[c] = "err" /\ ~sawClose[c] => logged

(* No goroutine dereferences a nil provider (rotate, Save or Close after  *)
(* a failed reopen), which would panic the server.                        *)
NoNilProvider == ~panicked

(* Once Close has returned no provider is open again: no rotation runs    *)
(* after Close.                                                           *)
NothingReopenedAfterClose == closer = "done" => db # "open"

(* Every SaveForMultipleClients returns, each of its Saves included,     *)
(* unless the process has panicked: each of rotate's return paths         *)
(* releases the write lock.                                               *)
SaveReturns ==
  \A c \in Callers : caller[c] = "waiting" ~> (caller[c] = "done" \/ panicked)

=============================================================================
