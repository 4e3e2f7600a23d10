------------------------- MODULE MC_UsersFileAdapter -------------------------
(* Two callers, two usernames and two data values; the file starts empty,  *)
(* with one user, or with both.                                            *)
EXTENDS UsersFileAdapter

CONSTANTS c1, c2

MCCallers == {c1, c2}
MCNames == {"alice", "bob"}
MCPasswords == {"p1", "p2"}

MCRequests ==
  [op : {"add"}, name : MCNames, pw : MCPasswords]
    \cup [op : {"update"}, find : MCNames, name : MCNames \cup {NoValue},
          pw : MCPasswords \cup {NoValue}]
    \cup [op : {"delete"}, name : MCNames]

MCInitialFiles ==
  {<<>>, <<User("alice", "p1")>>, <<User("alice", "p1"), User("bob", "p2")>>}

=============================================================================
