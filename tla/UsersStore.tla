----------------------------- MODULE UsersStore -----------------------------
(***************************************************************************)
(* What a writable users provider promises its callers: every Add, Update *)
(* and Delete is applied as one step to the users as they are at that     *)
(* moment, and no two users share a username.  A user is its username and *)
(* the data an Update may change (password, expiry, groups, TOTP secret), *)
(* abstracted to one field.                                               *)
(***************************************************************************)
CONSTANTS
  Names,       \* usernames
  Passwords    \* values of a user's changeable data

VARIABLE users   \* the set of users

NoValue == ""    \* an Update field left empty: keep the old value

UsernamesOf(us) == {u.name : u \in us}

UniqueUsernames(us) == \A u, v \in us : u.name = v.name => u = v

Init ==
  /\ users \in SUBSET [name : Names, pw : Passwords]
  /\ UniqueUsernames(users)

AddUser(n, p) ==
  /\ n \notin UsernamesOf(users)
  /\ users' = users \cup {[name |-> n, pw |-> p]}

UpdateUser(find, n, p) ==
  \E u \in users :
    /\ u.name = find
    /\ n \in {NoValue, find} \/ n \notin UsernamesOf(users)
    /\ users' = (users \ {u}) \cup
                {[name |-> IF n = NoValue THEN u.name ELSE n,
                  pw   |-> IF p = NoValue THEN u.pw ELSE p]}

DeleteUser(n) ==
  \E u \in users : u.name = n /\ users' = users \ {u}

Next ==
  \/ \E n \in Names, p \in Passwords : AddUser(n, p)
  \/ \E find \in Names, n \in Names \cup {NoValue}, p \in Passwords \cup {NoValue} :
       UpdateUser(find, n, p)
  \/ \E n \in Names : DeleteUser(n)

Spec == Init /\ [][Next]_users

=============================================================================
