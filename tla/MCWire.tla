------------------------------- MODULE MCWire -------------------------------
(***************************************************************************)
(* Instance of Wire for TLC: with Width = 2 four chunks wrap to 0.         *)
(***************************************************************************)
EXTENDS Wire

MCMessage(n) == [i \in 1 .. n |-> (37 * i + n) % 256]
MCMsgID == <<0, 255, 1, 128, 7, 64, 32, 9>>
MCHash == [i \in 1 .. 32 |-> 8 * i - 1]
MCNoise ==
    {[label |-> 6, digit |-> 1, as |-> 31], [label |-> 6, digit |-> 52, as |-> 1],
     [label |-> 7, digit |-> 3, as |-> 0]}
=============================================================================
