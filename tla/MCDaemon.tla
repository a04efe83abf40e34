---------------------------- MODULE MCDaemon -----------------------------
(* An instance of Daemon for TLC.                                           *)
EXTENDS Daemon

MCMaxMishaps ==
    [t \in Topics |-> CASE t = "start" -> 5 [] t = "groups" -> 1 [] OTHER -> 2]
==========================================================================
