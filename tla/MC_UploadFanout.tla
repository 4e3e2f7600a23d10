--------------------------- MODULE MC_UploadFanout ---------------------------
(***************************************************************************)
(* Model-checking instance of UploadFanout: two clients, so that a       *)
(* disabled target and another race the closer; a destination that is    *)
(* allowed, one that is denied and "/proc" itself, which                  *)
(* validateRemoteDestination lets through; two upload websockets, so     *)
(* that a notification meets a closed one next to an open one.            *)
(***************************************************************************)
EXTENDS UploadFanout

CONSTANTS c1, c2, w1, w2

MCClients == {c1, c2}

MCDestinations == {<<"tmp", "f">>, <<"proc", "f">>, <<"proc">>}

MCDeniedDirs == {"proc", "sys", "dev", "run"}

MCListeners == {w1, w2}

=============================================================================
