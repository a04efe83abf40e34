---------------------------- MODULE MCSendQueue ----------------------------
(***************************************************************************)
(* Instances of SendQueue for TLC.                                         *)
(***************************************************************************)
EXTENDS SendQueue, TLC

CONSTANTS m1, m2, c1, r1

MsgSymmetry == Permutations({m1, m2})
=============================================================================
