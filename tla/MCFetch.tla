------------------------------- MODULE MCFetch -------------------------------
(***************************************************************************)
(* Instances of Fetch for TLC.                                             *)
(***************************************************************************)
EXTENDS Fetch

CONSTANTS i1, s1, p1, p2, r1, r2

MCFrom == [i \in Ids |-> s1]
=============================================================================
