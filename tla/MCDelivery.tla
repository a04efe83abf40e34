----------------------------- MODULE MCDelivery -----------------------------
(***************************************************************************)
(* Instances of Delivery for TLC.                                          *)
(***************************************************************************)
EXTENDS Delivery

CONSTANTS m1, s1, p1, r1

MCSentBy == [m \in Msgs |-> s1]
=============================================================================
