-------------------------------- MODULE MCVmm --------------------------------
(***************************************************************************)
(* MCLoader with frames above the heap, an instance of the arrangement for   *)
(* which the properties are proved.                                         *)
(***************************************************************************)
EXTENDS MCLoader

ASSUME ArrangedAssumption == Arranged
=============================================================================
