------------------------- MODULE MC_MeasurementQueue ------------------------
(***************************************************************************)
(* Model-checking instance of MeasurementQueue: three producers, so that *)
(* one can notify before Close, one race with it and one come after.      *)
(***************************************************************************)
EXTENDS MeasurementQueue

CONSTANTS p1, p2, p3

MCProducers == {p1, p2, p3}

=============================================================================
