------------------------------ MODULE Delivery ------------------------------
(***************************************************************************)
(* From the sender's SendMessage to the recipient's chat: the sending      *)
(* daemon of SendQueue and the polling daemon of Fetch, joined at the      *)
(* relays.  A copy of a message (one call of the engine, one message id)   *)
(* is <<message, copy>>; the step in which a relay stores a chunk belongs  *)
(* to both sides.                                                          *)
(***************************************************************************)
EXTENDS Integers

CONSTANTS Msgs, NoMsg, Relays, NoRelay, Total, Senders, SentBy, Pollers, NoId,
          MaxRetries, MaxCopies, MaxCrashes, DBOutcomes,
          MaxFails, MaxForgets, MaxRestarts, MaxRemovals, MaxLosses, MaxMishaps

ASSUME DeliveryAssumption ==
    /\ NoMsg \notin Msgs /\ NoId \notin Msgs \X (1 .. MaxCopies)
    /\ NoRelay \notin Relays /\ Relays # {}
    /\ Total \in Nat \ {0}
    /\ SentBy \in [Msgs -> Senders]
    /\ MaxRetries \in Nat /\ MaxCopies \in Nat /\ MaxCrashes \in Nat
    /\ DBOutcomes \subseteq BOOLEAN
    /\ MaxFails \in Nat /\ MaxForgets \in Nat /\ MaxRestarts \in Nat
    /\ MaxRemovals \in Nat /\ MaxLosses \in Nat /\ MaxMishaps \in Nat

VARIABLES
    rpc, queue, retries, batch, seen, worker, current, copies, accepted, failures, handed, crashes,
    holds, fetched, peers, pc, toList, ids, cur, toTry, relay, got, hand, out,
    shown, dropped, lost, returned, fails, forgets, restarts, removals, losses

Copies == Msgs \X (1 .. MaxCopies)

Sender == INSTANCE SendQueue WITH Chunks <- 0 .. Total - 1

Receiver == INSTANCE Fetch WITH
    PolledRelays <- Relays, Ids <- Copies, From <- [i \in Copies |-> SentBy[i[1]]]

senderVars == <<rpc, queue, retries, batch, seen, worker, current, copies, accepted,
                failures, handed, crashes>>
receiverVars == <<holds, fetched, peers, pc, toList, ids, cur, toTry, relay, got, hand, out,
                  shown, dropped, lost, returned, fails, forgets, restarts, removals, losses>>
vars == <<senderVars, receiverVars>>

Init == Sender!Init /\ Receiver!FetchInit

\* Mutant: the relay acknowledges the chunk and does not keep it.
RelayStores_OnlyAcks(m, k, c, r) ==
    /\ Sender!RelayStores(m, k, c, r)
    /\ UNCHANGED receiverVars

\* The handler of a chunk at a relay.
RelayStores(m, k, c, r) ==
    /\ Sender!RelayStores(m, k, c, r)
    /\ Receiver!RelayReceives(<<m, k>>, c, r)

SenderNext ==
    \/ \E m \in Msgs : Sender!SendMessage(m) \/ Sender!SendSucceeds(m) \/ Sender!SendFails(m)
    \/ Sender!WorkerStep
    \/ Sender!Crash

Next ==
    \/ SenderNext /\ UNCHANGED receiverVars
    \/ Receiver!ReceiverNext /\ UNCHANGED senderVars
    \/ \E m \in Msgs, k \in 1 .. MaxCopies, c \in 0 .. Total - 1, r \in Relays : RelayStores(m, k, c, r)

Spec == Init /\ [][Next]_vars

\* The sender's queue loop and the recipient's polls go on.
FairSpec ==
    /\ Spec
    /\ WF_senderVars(Sender!WorkerStep)
    /\ \A p \in Pollers : WF_receiverVars(Receiver!PollStep(p))

-----------------------------------------------------------------------------
Arrived(m) == \E k \in 1 .. MaxCopies : <<m, k>> \in shown

\* With a single relay that keeps what it stores, a message the sender's app was
\* told is sent or queued reaches the app of a recipient who knows the sender,
\* unless the first call of the engine and all retries have failed.  Crashes
\* of either daemon do not change that.
TakenOnArrives ==
    \A m \in Msgs :
        (rpc[m] \in {"sent", "queued"} /\ SentBy[m] \in peers /\ \A k \in 1 .. MaxCopies : <<m, k>> \notin dropped)
        ~> (Arrived(m) \/ failures[m] > MaxRetries)

\* Every message the sending daemon has taken on is settled in the end: its
\* chunks are on the relay, or all retries have failed.
Settles == Sender!Settles

\* One poll at a time hands out a copy at most once in the life of the daemon.
OncePerLife == Receiver!OncePerLife

\* What arrives was sent: the copy belongs to a call of the engine, and all its
\* chunks were stored by one relay.
ArrivedWasSent ==
    \A i \in shown :
        /\ i[2] <= copies[i[1]]
        /\ \E r \in Relays : \A c \in 0 .. Total - 1 : <<i[1], i[2], c, r>> \in accepted
=============================================================================
