------------------------- MODULE MC_LibraryManager -------------------------
(* Two callers, and one existing entry in each library; a call creates,   *)
(* renames, deletes, reads or lists with one of two names, or an empty one,*)
(* in the script or the command library.                                  *)
EXTENDS LibraryManager

CONSTANTS c1, c2

MCCallers == {c1, c2}
MCIds == {"id1", "id2", "id3"}
MCNames == {"backup", "cleanup"}

MCRequests ==
  [lib : Libraries, op : {"create"}, id : {NoValue}, name : MCNames \cup {NoValue},
   script : {"s"}, fields : {"supported"}]
    \cup [lib : Libraries, op : {"update"}, id : {"id1"}, name : MCNames,
          script : {"s"}, fields : {"supported"}]
    \cup [lib : Libraries, op : {"delete"}, id : {"id1"}, name : {NoValue},
          script : {NoValue}, fields : {"supported"}]
    \cup [lib : Libraries, op : {"getone"}, id : {"id1"}, name : {NoValue},
          script : {NoValue}, fields : {"supported", "unsupported"}]
    \cup [lib : Libraries, op : {"list"}, id : {NoValue}, name : {NoValue},
          script : {NoValue}, fields : {"supported", "unsupported"}]

MCInitialTable == {[id |-> "id1", name |-> "backup"]}

=============================================================================
