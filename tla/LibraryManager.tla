--------------------------- MODULE LibraryManager ---------------------------
(***************************************************************************)
(* The script library manager of src/server/script/manager.go and the     *)
(* command library manager of src/server/api/command/manager.go.  Both    *)
(* run the same steps on their own table: Create and Update validate the  *)
(* input, look for another entry with the same name with db.List and then *)
(* call db.Save; Update and Delete first look the entry up with           *)
(* db.GetByID; GetOne checks the requested fields and calls db.GetByID;  *)
(* List checks its options, calls db.List and filters the entries by tag *)
(* in memory.                                                             *)
(* Each db call is its own statement; each table has a UNIQUE index on    *)
(* name.                                                                  *)
(*                                                                         *)
(* Each caller makes one call, req[c], to one library, req[c].lib.  An     *)
(* entry is its id and its name; the script or command text only matters *)
(* to Validate.                                                           *)
(***************************************************************************)
EXTENDS Naturals, FiniteSets

CONSTANTS
  Callers,    \* goroutines serving library requests
  Ids,        \* entry ids, existing and fresh
  Requests,   \* the calls a caller may make
  InitialTable \* the entries each library holds at start

VARIABLES
  table,      \* library -> the set of its entries [id, name]
  pc,         \* caller -> its position
  req,        \* caller -> its call
  result      \* caller -> the HTTP status its call ends with

vars == <<table, pc, req, result>>

NoValue == ""

Libraries == {"scripts", "commands"}

NamesIn(t) == {e.name : e \in t}
IdsIn(t) == {e.id : e \in t}

\* The table of the library caller c calls.
Tab(c) == table[req[c].lib]

\* Validate (script/validate.go): name and script are required.
Validate(r) == r.name # NoValue /\ r.script # NoValue

\* The UNIQUE index on name refuses an entry whose name another id holds.
NameTakenByOther(t, id, n) == \E e \in t : e.name = n /\ e.id # id

\* NewManager of each library over a table holding InitialTable.
Init ==
  /\ table = [l \in Libraries |-> InitialTable]
  /\ req \in [Callers -> Requests]
  /\ pc = [c \in Callers |-> CASE req[c].op = "delete" -> "get"
                                [] req[c].op \in {"getone", "list"} -> "fields"
                                [] OTHER -> "validate"]
  /\ result = [c \in Callers |-> 0]

-----------------------------------------------------------------------------
Finish(c, status) ==
  /\ pc' = [pc EXCEPT ![c] = "done"]
  /\ result' = [result EXCEPT ![c] = status]

Goto(c, p) == pc' = [pc EXCEPT ![c] = p] /\ UNCHANGED result

SetTab(c, t) == table' = [table EXCEPT ![req[c].lib] = t]

(* Validate's errors are answered 400.  The command library's Validate is *)
(* not in the repository: a command may pass or fail it.                  *)
ValidateStep(c, next) ==
  /\ pc[c] = "validate"
  /\ \/ (req[c].lib = "commands" \/ ~Validate(req[c])) /\ Finish(c, 400)
     \/ (req[c].lib = "commands" \/ Validate(req[c])) /\ Goto(c, next)
  /\ UNCHANGED <<table, req>>

\* db.GetByID: no entry is answered 404.
GetByIDStep(c, next) ==
  /\ pc[c] = "get"
  /\ \/ req[c].id \notin IdsIn(Tab(c)) /\ Finish(c, 404)
     \/ req[c].id \in IdsIn(Tab(c)) /\ Goto(c, next)
  /\ UNCHANGED <<table, req>>

(* Create.  db.List by name: any entry with the name is answered 409.     *)
(* db.Save inserts under a fresh id; a name taken since the check fails   *)
(* on the UNIQUE index and that error is returned as it is (500).         *)
CreateValidate(c) == req[c].op = "create" /\ ValidateStep(c, "list")

CreateList(c) ==
  /\ req[c].op = "create" /\ pc[c] = "list"
  /\ \/ req[c].name \in NamesIn(Tab(c)) /\ Finish(c, 409)
     \/ req[c].name \notin NamesIn(Tab(c)) /\ Goto(c, "save")
  /\ UNCHANGED <<table, req>>

CreateSave(c) ==
  /\ req[c].op = "create" /\ pc[c] = "save"
  /\ \/ req[c].name \in NamesIn(Tab(c)) /\ Finish(c, 500) /\ UNCHANGED table
     \/ req[c].name \notin NamesIn(Tab(c)) /\ Finish(c, 200)
        /\ \E id \in Ids \ IdsIn(Tab(c)) :
             SetTab(c, Tab(c) \cup {[id |-> id, name |-> req[c].name]})
  /\ UNCHANGED req

(* Update.  db.GetByID; db.List by name, where an entry with another id   *)
(* is answered 409; db.Save of the entry under its id.  For an id deleted *)
(* since GetByID the provider, which is not part of the repository, may   *)
(* insert the entry again or change nothing.                              *)
UpdateValidate(c) == req[c].op = "update" /\ ValidateStep(c, "get")

UpdateGetByID(c) == req[c].op = "update" /\ GetByIDStep(c, "list")

UpdateList(c) ==
  /\ req[c].op = "update" /\ pc[c] = "list"
  /\ \/ NameTakenByOther(Tab(c), req[c].id, req[c].name) /\ Finish(c, 409)
     \/ ~NameTakenByOther(Tab(c), req[c].id, req[c].name) /\ Goto(c, "save")
  /\ UNCHANGED <<table, req>>

UpdateSave(c) ==
  /\ req[c].op = "update" /\ pc[c] = "save"
  /\ LET r == req[c] IN
       \/ NameTakenByOther(Tab(c), r.id, r.name) /\ Finish(c, 500) /\ UNCHANGED table
       \/ ~NameTakenByOther(Tab(c), r.id, r.name) /\ Finish(c, 200)
          /\ \/ SetTab(c, {e \in Tab(c) : e.id # r.id} \cup {[id |-> r.id, name |-> r.name]})
             \/ r.id \notin IdsIn(Tab(c)) /\ UNCHANGED table
  /\ UNCHANGED req

(* Delete.  db.GetByID, then db.Delete, which removes the entry if it is  *)
(* still there; Delete returns nil.                                       *)
DeleteGetByID(c) == req[c].op = "delete" /\ GetByIDStep(c, "delete")

DeleteEntry(c) ==
  /\ pc[c] = "delete"
  /\ SetTab(c, {e \in Tab(c) : e.id # req[c].id})
  /\ Finish(c, 200)
  /\ UNCHANGED req

(* GetOne's ValidateRetrieveOptions and List's ValidateListOptions       *)
(* refuse unsupported fields, sorts or filters (400).                     *)
OptionsStep(c, next) ==
  /\ pc[c] = "fields"
  /\ \/ req[c].fields = "unsupported" /\ Finish(c, 400)
     \/ req[c].fields = "supported" /\ Goto(c, next)
  /\ UNCHANGED <<table, req>>

(* GetOne.  The options, then db.GetByID finds the entry or not (404).    *)
GetOneFields(c) == req[c].op = "getone" /\ OptionsStep(c, "getone")

GetOneGetByID(c) ==
  /\ pc[c] = "getone"
  /\ Finish(c, IF req[c].id \in IdsIn(Tab(c)) THEN 200 ELSE 404)
  /\ UNCHANGED <<table, req>>

(* List.  The options, then db.List of every entry (the pagination is    *)
(* applied after filtering); query.MatchesFilters on an entry may fail,  *)
(* and its error is returned as it is (500).                              *)
ListOptions(c) == req[c].op = "list" /\ OptionsStep(c, "list")

ListEntries(c) ==
  /\ req[c].op = "list" /\ pc[c] = "list"
  /\ \/ Tab(c) # {} /\ Finish(c, 500)
     \/ Finish(c, 200)
  /\ UNCHANGED <<table, req>>

-----------------------------------------------------------------------------
\* A call's steps, whichever of its methods it is.
LibraryCall(c) ==
  \/ CreateValidate(c) \/ CreateList(c) \/ CreateSave(c)
  \/ UpdateValidate(c) \/ UpdateGetByID(c) \/ UpdateList(c) \/ UpdateSave(c)
  \/ DeleteGetByID(c) \/ DeleteEntry(c)
  \/ GetOneFields(c) \/ GetOneGetByID(c)
  \/ ListOptions(c) \/ ListEntries(c)

\* script.Manager's Create, Update, Delete, GetOne and List.
ScriptManager(c) == req[c].lib = "scripts" /\ LibraryCall(c)

\* command.Manager's Create, Update, Delete, GetOne and List: the same steps.
CommandManager(c) == req[c].lib = "commands" /\ LibraryCall(c)

Next == \E c \in Callers : ScriptManager(c) \/ CommandManager(c)

Spec == Init /\ [][Next]_vars

-----------------------------------------------------------------------------
(* A Create or Update whose name another entry holds is refused with the *)
(* 409 conflict the manager's db.List check produces, never with the      *)
(* database's constraint error.                                           *)
NameConflictIs409 ==
  \A c \in Callers : req[c].op \in {"create", "update"} => result[c] # 500

=============================================================================
