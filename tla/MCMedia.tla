------------------------------ MODULE MCMedia ------------------------------
(***************************************************************************)
(* Instances of Media for TLC.                                             *)
(***************************************************************************)
EXTENDS Media

CONSTANTS t1, r1, r2, p1, p2

\* One daemon at a time.
MCFocus == {{"sender"}, {"recipient"}}

\* It does not matter which of the two relays the sender begins with, nor what
\* the lists of a recipient are that does nothing.
MCInit ==
    /\ MediaInit
    /\ first["sender"] # r2
    /\ "recipient" \notin focus => knows /\ first["recipient"] = r1

MCSpec == MCInit /\ [][MediaNext]_mediaVars /\ MediaFairness
=============================================================================
