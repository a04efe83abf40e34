------------------------------- MODULE Outbox -------------------------------
(***************************************************************************)
(* What the daemon promises the user of SendMessage: a message it takes on *)
(* stays owed, over any number of restarts, until every part of it has     *)
(* been handed to relays, or until the first attempt and MaxRetries        *)
(* further attempts have failed.                                           *)
(***************************************************************************)
EXTENDS Naturals

CONSTANTS Msgs, MaxRetries

VARIABLES
    status,   \* [Msgs -> "new", "owed", "handed", "dropped" or "refused"]
    failures  \* [Msgs -> attempts that have failed]

vars == <<status, failures>>

Init ==
    /\ status = [m \in Msgs |-> "new"]
    /\ failures = [m \in Msgs |-> 0]

\* A message is taken on after a failed attempt, handed over at once, or refused.
Take(m) ==
    /\ status[m] = "new"
    /\ \/ /\ status' = [status EXCEPT ![m] = "owed"]
          /\ failures' = [failures EXCEPT ![m] = @ + 1]
       \/ /\ status' = [status EXCEPT ![m] = "handed"]
          /\ UNCHANGED failures
       \/ /\ status' = [status EXCEPT ![m] = "refused"]
          /\ failures' = [failures EXCEPT ![m] = @ + 1]

\* A crash refuses the messages that were not yet taken on.
Refuse(S) ==
    /\ \A m \in S : status[m] = "new"
    /\ status' = [m \in Msgs |-> IF m \in S THEN "refused" ELSE status[m]]
    /\ UNCHANGED failures

Hand(m) ==
    /\ status[m] = "owed"
    /\ status' = [status EXCEPT ![m] = "handed"]
    /\ UNCHANGED failures

Fail(m) ==
    /\ status[m] \in {"owed", "handed"}
    /\ failures' = [failures EXCEPT ![m] = @ + 1]
    /\ UNCHANGED status

Drop(m) ==
    /\ status[m] = "owed"
    /\ failures[m] > MaxRetries
    /\ status' = [status EXCEPT ![m] = "dropped"]
    /\ UNCHANGED failures

Next ==
    \/ \E m \in Msgs : Take(m) \/ Hand(m) \/ Fail(m) \/ Drop(m)
    \/ \E S \in SUBSET Msgs : Refuse(S)

Spec == Init /\ [][Next]_vars

\* What is owed is eventually handed over or dropped.
Settles == \A m \in Msgs : status[m] = "owed" ~> status[m] \in {"handed", "dropped"}
=============================================================================
