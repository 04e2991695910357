------------------------------ MODULE MCUnitTable ------------------------------
(* Instances of UnitTable for TLC: the bounds are in the .cfg files.  Units *)
(* that carry nothing are alike.                                           *)
EXTENDS UnitTable, TLC

Alike == Permutations(Units \ Transports)
=============================================================================
