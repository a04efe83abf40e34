--------------------------- MODULE MCSendParallel ---------------------------
(***************************************************************************)
(* Instances of SendParallel for TLC.                                      *)
(***************************************************************************)
EXTENDS SendParallel

CONSTANTS c1, c2, r1, r2
=============================================================================
