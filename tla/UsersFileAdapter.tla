-------------------------- MODULE UsersFileAdapter --------------------------
(***************************************************************************)
(* The JSON-file users backend of src/server/api/users/file_adapter.go.   *)
(* Add, Update and Delete each take fa.mtx, read the whole file, check    *)
(* and change the users in memory, write the whole file back and call     *)
(* load, which reads the file again into the UserCache; the deferred      *)
(* Unlock runs on every return.  load is also run, without fa.mtx, by the *)
(* reload goroutine started in NewFileAdapter when a reload signal comes. *)
(*                                                                         *)
(* Each caller makes one call, req[c].  A user is a record of its name    *)
(* and its changeable data (pw).  Reading and writing the file are atomic *)
(* steps of the FileProvider; UserCache.Load replaces the cache at once.  *)
(***************************************************************************)
EXTENDS Naturals, Sequences, SequencesExt

CONSTANTS
  Callers,       \* goroutines calling Add, Update or Delete
  Names,         \* usernames
  Passwords,     \* values of a user's changeable data
  Requests,      \* the calls a caller may make
  InitialFiles,  \* contents the users file may have at start
  ReadMayFail,   \* ReadUsersFromFile may return an error
  SaveMayFail,   \* SaveUsersToFile may return an error
  MaxReloads     \* reload signals handled

VARIABLES
  file,        \* the users in the file, in file order
  cache,       \* the users in the UserCache
  mtx,         \* the holder of fa.mtx, or NoHolder
  pc,          \* caller -> "lock" | "read" | "save" | "loadRead" | "loadApply" | "done"
  req,         \* caller -> its call
  pending,     \* caller -> the users it is about to write
  loaded,      \* caller -> the users its load read
  result,      \* caller -> what its call returned
  reloader,    \* the reload goroutine's load: "idle" | "apply"
  reloadRead,  \* the users the reload goroutine's load read
  reloads      \* reload signals handled so far

vars == <<file, cache, mtx, pc, req, pending, loaded, result, reloader,
          reloadRead, reloads>>

NoHolder == "none"
NoValue == ""

User(n, p) == [name |-> n, pw |-> p]

\* The index of the first user called n, or 0.
FirstNamed(us, n) == SelectInSeq(us, LAMBDA u : u.name = n)

\* What a call decides from the users it read: an error, or the users to write.
Failed(us, e) == [err |-> e, users |-> us]
Written(us) == [err |-> "none", users |-> us]

Add(us, r) ==
  IF FirstNamed(us, r.name) # 0 THEN Failed(us, "exists")
  ELSE Written(Append(us, User(r.name, r.pw)))

\* The scan returns at the first user holding the new name; the user to
\* change is the last one holding the old name.
Update(us, r) ==
  LET found == SelectLastInSeq(us, LAMBDA u : u.name = r.find)
      changed(u) == User(IF r.name = NoValue THEN u.name ELSE r.name,
                         IF r.pw = NoValue THEN u.pw ELSE r.pw)
  IN CASE r.name # NoValue /\ r.name # r.find /\ FirstNamed(us, r.name) # 0
            -> Failed(us, "exists")
       [] found = 0 -> Failed(us, "notfound")
       [] OTHER -> Written([us EXCEPT ![found] = changed(us[found])])

Delete(us, r) ==
  LET i == FirstNamed(us, r.name)
  IN IF i = 0 THEN Failed(us, "notfound") ELSE Written(RemoveAt(us, i))

Decide(us, r) ==
  CASE r.op = "add" -> Add(us, r)
    [] r.op = "update" -> Update(us, r)
    [] r.op = "delete" -> Delete(us, r)

\* NewFileAdapter: load fills the cache from the file (an error fails the
\* constructor) and the reload goroutine starts.
Init ==
  /\ file \in InitialFiles
  /\ cache = file
  /\ mtx = NoHolder
  /\ pc = [c \in Callers |-> "lock"]
  /\ req \in [Callers -> Requests]
  /\ pending = [c \in Callers |-> <<>>]
  /\ loaded = [c \in Callers |-> <<>>]
  /\ result = [c \in Callers |-> "none"]
  /\ reloader = "idle"
  /\ reloadRead = <<>>
  /\ reloads = 0

-----------------------------------------------------------------------------
\* The call returns r; the deferred fa.mtx.Unlock runs.
Return(c, r) ==
  /\ mtx' = NoHolder
  /\ pc' = [pc EXCEPT ![c] = "done"]
  /\ result' = [result EXCEPT ![c] = r]

\* Mutant: the call does not take fa.mtx.
LockIgnoringHolder(c) ==
  /\ pc[c] = "lock"
  /\ pc' = [pc EXCEPT ![c] = "read"]
  /\ UNCHANGED <<file, cache, mtx, req, pending, loaded, result, reloader, reloadRead, reloads>>

Lock(c) ==
  /\ pc[c] = "lock"
  /\ mtx = NoHolder
  /\ mtx' = c
  /\ pc' = [pc EXCEPT ![c] = "read"]
  /\ UNCHANGED <<file, cache, req, pending, loaded, result, reloader, reloadRead, reloads>>

\* ReadUsersFromFile, then the checks and the change in memory.
ReadAndDecide(c) ==
  /\ pc[c] = "read"
  /\ LET d == Decide(file, req[c]) IN
       \/ ReadMayFail /\ Return(c, "ioerr") /\ UNCHANGED pending
       \/ d.err # "none" /\ Return(c, d.err) /\ UNCHANGED pending
       \/ d.err = "none" /\ pending' = [pending EXCEPT ![c] = d.users]
          /\ pc' = [pc EXCEPT ![c] = "save"] /\ UNCHANGED <<mtx, result>>
  /\ UNCHANGED <<file, cache, req, loaded, reloader, reloadRead, reloads>>

\* Mutant: the call returns after the write without calling load.
SaveUsersSkipLoad(c) ==
  /\ pc[c] = "save"
  /\ \/ file' = pending[c] /\ Return(c, "ok")
     \/ SaveMayFail /\ Return(c, "ioerr") /\ UNCHANGED file
  /\ UNCHANGED <<cache, req, pending, loaded, reloader, reloadRead, reloads>>

SaveUsers(c) ==
  /\ pc[c] = "save"
  /\ \/ file' = pending[c] /\ pc' = [pc EXCEPT ![c] = "loadRead"]
        /\ UNCHANGED <<mtx, result>>
     \/ SaveMayFail /\ Return(c, "ioerr") /\ UNCHANGED file
  /\ UNCHANGED <<cache, req, pending, loaded, reloader, reloadRead, reloads>>

\* load: ReadUsersFromFile, returning its error ...
LoadRead(c) ==
  /\ pc[c] = "loadRead"
  /\ \/ loaded' = [loaded EXCEPT ![c] = file] /\ pc' = [pc EXCEPT ![c] = "loadApply"]
        /\ UNCHANGED <<mtx, result>>
     \/ ReadMayFail /\ Return(c, "ioerr") /\ UNCHANGED loaded
  /\ UNCHANGED <<file, cache, req, pending, reloader, reloadRead, reloads>>

\* ... then UserCache.Load.
LoadApply(c) ==
  /\ pc[c] = "loadApply"
  /\ cache' = loaded[c]
  /\ Return(c, "ok")
  /\ UNCHANGED <<file, req, pending, loaded, reloader, reloadRead, reloads>>

-----------------------------------------------------------------------------
(* The reload goroutine's load, outside fa.mtx; a failed read is logged.  *)
ReloadReadFile ==
  /\ reloader = "idle"
  /\ reloads < MaxReloads
  /\ reloads' = reloads + 1
  /\ \/ reloadRead' = file /\ reloader' = "apply"
     \/ ReadMayFail /\ UNCHANGED <<reloadRead, reloader>>
  /\ UNCHANGED <<file, cache, mtx, pc, req, pending, loaded, result>>

ReloadApply ==
  /\ reloader = "apply"
  /\ cache' = reloadRead
  /\ reloader' = "idle"
  /\ UNCHANGED <<file, mtx, pc, req, pending, loaded, result, reloadRead, reloads>>

-----------------------------------------------------------------------------
CallerStep(c) ==
  Lock(c) \/ ReadAndDecide(c) \/ SaveUsers(c) \/ LoadRead(c) \/ LoadApply(c)

Next ==
  \/ \E c \in Callers : CallerStep(c)
  \/ ReloadReadFile \/ ReloadApply

(* Every caller is a goroutine the runtime schedules; sync.Mutex hands    *)
(* the lock on, so with finitely many callers weak fairness suffices.     *)
(* Reload signals come from outside; a started load is finished.          *)
Fairness ==
  /\ \A c \in Callers : WF_vars(CallerStep(c))
  /\ WF_vars(ReloadApply)

Spec == Init /\ [][Next]_vars /\ Fairness

-----------------------------------------------------------------------------
(* The file adapter implements the users store: the file changes only by  *)
(* one whole Add, Update or Delete applied to its current content, so no  *)
(* call's write is lost to a concurrent one and no username appears twice. *)
(* It rests on fa.mtx covering the read, the check and the write.          *)
Store == INSTANCE UsersStore WITH users <- ToSet(file)

ImplementsUsersStore == Store!Spec

(* A call that returns nil returns with the cache holding the file as it  *)
(* left it, its own change included: the load after the write runs under  *)
(* fa.mtx, and the file cannot change between its read and Load.          *)
ReturnsWithOwnWrite ==
  [][\A c \in Callers :
       pc[c] # "done" /\ pc'[c] = "done" /\ result'[c] = "ok" => cache' = file']_vars

=============================================================================
