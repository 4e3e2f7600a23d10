---------------------------- MODULE MC_MultiJob -----------------------------
(***************************************************************************)
(* Model-checking instance of MultiJob: three clients, a request that      *)
(* resolves to all three (so a failure can fall before, at or after the    *)
(* middle target) or to one, and two registry events, enough to pause or   *)
(* disconnect a target between its dispatch's check and its send.          *)
(***************************************************************************)
EXTENDS MultiJob

CONSTANTS c1, c2, c3

MCClients     == {c1, c2, c3}
MCTargetLists == {<<c1, c2, c3>>, <<c2>>}

=============================================================================
