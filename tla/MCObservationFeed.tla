--------------------------- MODULE MCObservationFeed ---------------------------
(* Instances of ObservationFeed for TLC: the bounds are in the .cfg files. *)
EXTENDS ObservationFeed
=============================================================================
