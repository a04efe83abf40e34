--------------------------- MODULE DeliveryProofs ---------------------------
(***************************************************************************)
(* Proofs about Delivery, for any messages, relays, number of chunks,      *)
(* pollers, retry limit and faults.                                        *)
(*                                                                         *)
(* Every step of the whole is a step of the sending daemon or leaves it    *)
(* alone, and the same for the polling daemon.  So the whole implements    *)
(* both, and what EndpointProofs shows of each holds of the whole.  What   *)
(* neither can say alone, that whatever arrives was sent, follows from     *)
(* ArriveInv, which carries "the relay has stored it" along the path of a  *)
(* chunk: in the relay, in a fetch under way, in the hands of a poll, in   *)
(* the app.                                                                *)
(***************************************************************************)
EXTENDS Delivery, TLAPS

\* The two sides with their theorems.
Parts == INSTANCE EndpointProofs WITH
    Chunks <- 0 .. Total - 1, PolledRelays <- Relays,
    Ids <- Copies, From <- [i \in Copies |-> SentBy[i[1]]]

\* A relay has stored chunk c of copy i at some time.
Stored(i, c, r) == <<i[1], i[2], c, r>> \in accepted

Whole(i) == \E r \in Relays : \A c \in 0 .. Total - 1 : Stored(i, c, r)

HoldInv ==
    /\ \A a \in accepted : a[2] <= copies[a[1]]
    /\ \A i \in Copies, c \in 0 .. Total - 1, r \in Relays : <<i, c, r>> \in holds => Stored(i, c, r)

\* A fetch has a relay while it runs, and what it got that relay has stored.
FetchInv ==
    \A p \in Pollers :
        /\ relay[p] # NoRelay =>
              pc[p] = "fetch" /\ \A c \in 0 .. got[p] - 1 : Stored(cur[p], c, relay[p])
        /\ relay[p] = NoRelay => got[p] # Total

HandInv ==
    /\ \A p \in Pollers : \A i \in hand[p] \cup out[p] : Whole(i)
    /\ \A i \in shown : Whole(i)

ArriveInv == HoldInv /\ FetchInv /\ HandInv

-----------------------------------------------------------------------------
(***************************************************************************)
(* The whole implements its parts.                                         *)
(***************************************************************************)
\* The constants are as each side assumes.
LEMMA Assumptions == Parts!ConstantsAssumption /\ Parts!FetchAssumption
<1>1. Parts!ConstantsAssumption
  BY DeliveryAssumption, Zenon DEF Parts!ConstantsAssumption
<1>2. [i \in Copies |-> SentBy[i[1]]] \in [Copies -> Senders]
  BY DeliveryAssumption, Zenon DEF Copies
<1>3. Parts!FetchAssumption
  BY <1>2, DeliveryAssumption, Zenon DEF Parts!FetchAssumption, Copies
<1> QED
  BY <1>1, <1>3, Zenon

LEMMA SenderStep ==
    ASSUME [Next]_vars
    PROVE  [Sender!Next]_(Sender!vars)
<1>1. ASSUME UNCHANGED senderVars PROVE UNCHANGED Sender!vars
  BY <1>1, Zenon DEF senderVars, Sender!vars, Sender!row, Sender!loop
<1>2. CASE SenderNext
  BY <1>2, Zenon DEF SenderNext, Sender!Next
<1>3. ASSUME NEW m \in Msgs, NEW k \in 1 .. MaxCopies, NEW c \in 0 .. Total - 1, NEW r \in Relays,
             RelayStores(m, k, c, r)
      PROVE  Sender!Next
  BY <1>3, Zenon DEF RelayStores, Sender!Next
<1>4. ASSUME UNCHANGED vars PROVE UNCHANGED senderVars
  BY <1>4, Zenon DEF vars
<1> QED
  BY <1>1, <1>2, <1>3, <1>4, Zenon DEF Next

LEMMA ReceiverStep ==
    ASSUME [Next]_vars
    PROVE  [Receiver!FetchNext]_(Receiver!fetchVars)
<1>1. ASSUME UNCHANGED receiverVars PROVE UNCHANGED Receiver!fetchVars
  BY <1>1, Zenon DEF receiverVars, Receiver!fetchVars, Receiver!engine, Receiver!results, Receiver!fates, Receiver!counts
<1>2. CASE Receiver!ReceiverNext
  BY <1>2, Zenon DEF Receiver!FetchNext
<1>3. ASSUME NEW m \in Msgs, NEW k \in 1 .. MaxCopies, NEW c \in 0 .. Total - 1, NEW r \in Relays,
             RelayStores(m, k, c, r)
      PROVE  Receiver!FetchNext
  <2>1. Receiver!RelayReceives(<<m, k>>, c, r) /\ <<m, k>> \in Copies /\ c \in Receiver!Chunk
    BY <1>3, Zenon DEF RelayStores, Copies, Receiver!Chunk
  <2> QED
    BY <2>1, Zenon DEF Receiver!FetchNext
<1>4. ASSUME UNCHANGED vars PROVE UNCHANGED receiverVars
  BY <1>4, Zenon DEF vars
<1> QED
  BY <1>1, <1>2, <1>3, <1>4, Zenon DEF Next

\* Between its relays and the recipient, the sending daemon behaves as
\* SendQueue says: nothing the receiving side does disturbs it.
THEOREM ImplementsSender == Spec => Sender!Spec
<1>1. Init => Sender!Init
  BY Zenon DEF Init
<1> QED
  BY <1>1, SenderStep, PTL DEF Spec, Sender!Spec

\* And the polling daemon behaves as Fetch says.
THEOREM ImplementsReceiver == Spec => Receiver!FetchSpec
<1>1. Init => Receiver!FetchInit
  BY Zenon DEF Init
<1> QED
  BY <1>1, ReceiverStep, PTL DEF Spec, Receiver!FetchSpec

-----------------------------------------------------------------------------
(***************************************************************************)
(* What is proved of the parts holds of the whole.                         *)
(***************************************************************************)
LEMMA SameSender ==
    /\ Sender!Init => Parts!Init
    /\ [Sender!Next]_(Sender!vars) => [Parts!Next]_(Parts!vars)
<1>1. Sender!Init => Parts!Init
  BY Zenon DEF Sender!Init, Parts!Init
<1>2. [Sender!Next]_(Sender!vars) => [Parts!Next]_(Parts!vars)
  BY Zenon
     DEF Sender!Next, Parts!Next, Sender!RelayStores, Parts!RelayStores, Sender!SendMessage, Parts!SendMessage,
          Sender!SendSucceeds, Parts!SendSucceeds, Sender!SendFails, Parts!SendFails,
          Sender!ReadPending, Parts!ReadPending, Sender!GiveUp, Parts!GiveUp, Sender!Retry,
          Parts!Retry, Sender!RetryFails, Parts!RetryFails, Sender!RetrySucceeds,
          Parts!RetrySucceeds, Sender!RemoveSent, Parts!RemoveSent, Sender!Crash,
          Parts!Crash, Sender!WorkerStep, Parts!WorkerStep, Sender!EngineCall,
          Parts!EngineCall, Sender!EngineError, Parts!EngineError, Sender!Covered,
          Parts!Covered, Sender!Remove, Parts!Remove, Sender!TooOften, Parts!TooOften,
          Sender!row, Parts!row, Sender!loop, Parts!loop, Sender!vars, Parts!vars
<1> QED
  BY <1>1, <1>2, Zenon

LEMMA SameReceiver ==
    /\ Receiver!FetchInit => Parts!FetchInit
    /\ [Receiver!FetchNext]_(Receiver!fetchVars) => [Parts!FetchNext]_(Parts!fetchVars)
<1>1. Receiver!FetchInit => Parts!FetchInit
  BY ZenonT(30) DEF Receiver!FetchInit, Parts!FetchInit
<1>2. [Receiver!FetchNext]_(Receiver!fetchVars) => [Parts!FetchNext]_(Parts!fetchVars)
  BY Zenon
     DEF Receiver!FetchNext, Parts!FetchNext, Receiver!StartPoll, Parts!StartPoll, Receiver!QueryLost, Parts!QueryLost,
          Receiver!Mishap, Parts!Mishap,
          Receiver!ListRelay, Parts!ListRelay, Receiver!Skip, Parts!Skip, Receiver!Pick,
          Parts!Pick, Receiver!TryRelay, Parts!TryRelay, Receiver!Asked, Parts!Asked,
          Receiver!QueryChunk, Parts!QueryChunk, Receiver!QueryFails, Parts!QueryFails,
          Receiver!FetchFails, Parts!FetchFails, Receiver!Mark, Parts!Mark,
          Receiver!AllReceived, Parts!AllReceived, Receiver!FetchSucceeds,
          Parts!FetchSucceeds, Receiver!EngineReturns, Parts!EngineReturns,
          Receiver!Decrypt, Parts!Decrypt, Receiver!Respond, Parts!Respond,
          Receiver!LoseAnswer, Parts!LoseAnswer, Receiver!RelayReceives, Parts!RelayReceives,
          Receiver!RelayForgets, Parts!RelayForgets, Receiver!AddPeer, Parts!AddPeer,
          Receiver!RemovePeer, Parts!RemovePeer, Receiver!Restart, Parts!Restart,
          Receiver!PollStep, Parts!PollStep, Receiver!ReceiverNext, Parts!ReceiverNext,
          Receiver!Lists, Parts!Lists, Receiver!Chunk, Parts!Chunk, Receiver!engine,
          Parts!engine, Receiver!results, Parts!results, Receiver!fates, Parts!fates,
          Receiver!counts, Parts!counts, Receiver!fetchVars, Parts!fetchVars
<1> QED
  BY <1>1, <1>2, Zenon

LEMMA SenderHolds == Spec => Parts!Spec
<1>1. Init => Parts!Init
  BY SameSender, Zenon DEF Init
<1>2. [Next]_vars => [Parts!Next]_(Parts!vars)
  BY SameSender, SenderStep, Zenon
<1> QED
  BY <1>1, <1>2, PTL DEF Spec, Parts!Spec

LEMMA ReceiverHolds == Spec => Parts!FetchSpec
<1>1. Init => Parts!FetchInit
  BY SameReceiver, Zenon DEF Init
<1>2. [Next]_vars => [Parts!FetchNext]_(Parts!fetchVars)
  BY SameReceiver, ReceiverStep, Zenon
<1> QED
  BY <1>1, <1>2, PTL DEF Spec, Parts!FetchSpec

\* The states of both sides are well typed.
LEMMA PartsTyped == Spec => [](Parts!TypeOK /\ Parts!FetchTypeOK)
<1>1. Parts!Spec => []Parts!TypeOK
  BY Assumptions, Parts!TypeCorrect, Zenon
<1>2. Parts!FetchSpec => []Parts!FetchTypeOK
  BY Assumptions, Parts!FetchTypeCorrect, Zenon
<1> QED
  BY <1>1, <1>2, SenderHolds, ReceiverHolds, PTL

\* To the user of SendMessage the whole is the outbox of Outbox: a message that
\* was taken on is handed to the relays or stays owed until all retries have
\* failed, whatever crashes come between (SendMessage and processQueue).
THEOREM ImplementsOutbox == Spec => Parts!OutboxPromise
<1>1. Parts!Spec => Parts!OutboxPromise
  BY Assumptions, Parts!ImplementsOutbox, Zenon
<1> QED
  BY <1>1, SenderHolds, PTL

\* With one poll at a time, as in the app's poll loop, the recipient's daemon
\* hands out a copy at most once in its life, also when the sender sends a
\* message again (PollMessages and the fetched marks of the engine).
THEOREM OncePerLifeAlways == ASSUME Parts!SinglePoller PROVE Spec => []OncePerLife
<1>1. Parts!FetchSpec => []Parts!OncePerLife
  BY Assumptions, Parts!OncePerLifeAlways, Zenon
<1>2. Parts!OncePerLife => OncePerLife
  BY Zenon DEF OncePerLife, Receiver!OncePerLife, Parts!OncePerLife, Receiver!InHand,
               Parts!InHand, Receiver!Settled, Parts!Settled
<1> QED
  BY <1>1, <1>2, ReceiverHolds, PTL

-----------------------------------------------------------------------------
(***************************************************************************)
(* What arrives was sent.                                                  *)
(***************************************************************************)
LEMMA ArriveInit == Init => ArriveInv
<1> SUFFICES ASSUME Init PROVE ArriveInv
  BY Zenon
<1>1. accepted = {} /\ holds = {} /\ shown = {}
  BY Zenon DEF Init, Sender!Init, Receiver!FetchInit
<1>2. ASSUME NEW p \in Pollers
      PROVE  relay[p] = NoRelay /\ got[p] = 0 /\ hand[p] = {} /\ out[p] = {}
  BY Zenon DEF Init, Receiver!FetchInit
<1>3. 0 # Total
  BY DeliveryAssumption, Zenon
<1>4. HoldInv
  BY <1>1, Zenon DEF HoldInv
<1>5. FetchInv
  BY <1>2, <1>3, Zenon DEF FetchInv
<1>6. HandInv
  BY <1>1, <1>2, Zenon DEF HandInv
<1> QED
  BY <1>4, <1>5, <1>6, Zenon DEF ArriveInv

\* The sending side only adds to what was stored and what was called.
LEMMA SenderAdds ==
    ASSUME Parts!TypeOK, [Next]_vars
    PROVE  /\ accepted \subseteq accepted'
           /\ copies' \in [Msgs -> Nat]
           /\ \A m \in Msgs : copies[m] <= copies'[m]
<1>1. copies \in [Msgs -> Nat]
  BY Zenon DEF Parts!TypeOK
<1>2. CASE UNCHANGED senderVars
  BY <1>1, <1>2, SMTT(30) DEF senderVars
<1>3. CASE UNCHANGED accepted /\ UNCHANGED copies
  BY <1>1, <1>3, SMTT(30)
<1>4. ASSUME NEW m \in Msgs, UNCHANGED accepted, Sender!EngineCall(m)
      PROVE  /\ accepted \subseteq accepted'
             /\ copies' \in [Msgs -> Nat]
             /\ \A n \in Msgs : copies[n] <= copies'[n]
  BY <1>1, <1>4, SMTT(30) DEF Sender!EngineCall
<1>5. ASSUME NEW m \in Msgs, NEW k, NEW c, NEW r, RelayStores(m, k, c, r)
      PROVE  /\ accepted \subseteq accepted'
             /\ copies' \in [Msgs -> Nat]
             /\ \A n \in Msgs : copies[n] <= copies'[n]
  BY <1>1, <1>5, SMTT(30) DEF RelayStores, Sender!RelayStores
<1>6. ASSUME SenderNext
      PROVE  \/ UNCHANGED accepted /\ UNCHANGED copies
             \/ \E m \in Msgs : UNCHANGED accepted /\ Sender!EngineCall(m)
  BY <1>6, Zenon DEF SenderNext, Sender!SendMessage, Sender!SendSucceeds, Sender!SendFails,
        Sender!WorkerStep, Sender!ReadPending, Sender!GiveUp, Sender!Retry, Sender!RetryFails,
        Sender!RetrySucceeds, Sender!RemoveSent, Sender!Crash
<1>7. ASSUME UNCHANGED vars PROVE UNCHANGED senderVars
  BY <1>7, Zenon DEF vars
<1> QED
  BY <1>2, <1>3, <1>4, <1>5, <1>6, <1>7, Zenon DEF Next

\* A step of the receiving side, a chunk that a relay stores, or neither.
LEMMA ReceiverCases ==
    ASSUME [Next]_vars
    PROVE  \/ UNCHANGED receiverVars
           \/ Receiver!ReceiverNext /\ UNCHANGED senderVars
           \/ \E m \in Msgs, k \in 1 .. MaxCopies, c \in 0 .. Total - 1, r \in Relays : RelayStores(m, k, c, r)
<1>1. ASSUME UNCHANGED vars PROVE UNCHANGED receiverVars
  BY <1>1, Zenon DEF vars
<1> QED
  BY <1>1, Zenon DEF Next

LEMMA StoredStays ==
    ASSUME Parts!TypeOK, [Next]_vars
    PROVE  /\ \A i, c, r : Stored(i, c, r) => Stored(i, c, r)'
           /\ \A i : Whole(i) => Whole(i)'
<1>1. \A i, c, r : Stored(i, c, r) => <<i[1], i[2], c, r>> \in accepted'
  BY SenderAdds, Zenon DEF Stored
<1> QED
  BY <1>1, Zenon DEF Stored, Whole

\* Only a relay adds to accepted: a chunk of a copy that the engine has begun.
LEMMA AcceptedStep ==
    ASSUME Parts!TypeOK, HoldInv, [Next]_vars
    PROVE  \A a \in accepted' : a[2] <= copies'[a[1]]
<1>1. ASSUME NEW a \in accepted PROVE a[2] <= copies'[a[1]]
  <2>1. a \in Msgs \X Nat \X (0 .. Total - 1) \X Relays
    BY Zenon DEF Parts!TypeOK
  <2>2. a[1] \in Msgs /\ a[2] \in Nat
    BY <2>1, Zenon
  <2>3. a[2] <= copies[a[1]] /\ copies[a[1]] <= copies'[a[1]]
    BY <2>2, SenderAdds, Zenon DEF HoldInv
  <2>4. copies[a[1]] \in Nat
    BY <2>2, Zenon DEF Parts!TypeOK
  <2>5. copies'[a[1]] \in Nat
    BY <2>2, SenderAdds, Zenon
  <2> QED
    BY <2>2, <2>3, <2>4, <2>5, SMTT(30)
<1>2. CASE accepted' = accepted
  BY <1>1, <1>2, Zenon
<1>3. ASSUME NEW m \in Msgs, NEW k \in 1 .. MaxCopies, NEW c \in 0 .. Total - 1, NEW r \in Relays,
             RelayStores(m, k, c, r)
      PROVE  \A a \in accepted' : a[2] <= copies'[a[1]]
  <2>1. /\ k <= copies[m] /\ copies' = copies
        /\ accepted' = accepted \cup {<<m, k, c, r>>}
    BY <1>3, Zenon DEF RelayStores, Sender!RelayStores
  <2>2. <<m, k, c, r>>[1] = m /\ <<m, k, c, r>>[2] = k
    BY Zenon
  <2> QED
    BY <1>1, <2>1, <2>2, Zenon
<1>4. ASSUME SenderNext \/ UNCHANGED senderVars PROVE accepted' = accepted
  <2>1. ASSUME UNCHANGED senderVars PROVE accepted' = accepted
    BY <2>1, Zenon DEF senderVars
  <2>2. ASSUME SenderNext PROVE accepted' = accepted
    BY <2>2, Zenon DEF SenderNext, Sender!SendMessage, Sender!SendSucceeds, Sender!SendFails,
        Sender!WorkerStep, Sender!ReadPending, Sender!GiveUp, Sender!Retry, Sender!RetryFails,
        Sender!RetrySucceeds, Sender!RemoveSent, Sender!Crash
  <2> QED
    BY <1>4, <2>1, <2>2, Zenon
<1>5. ASSUME UNCHANGED vars PROVE UNCHANGED senderVars
  BY <1>5, Zenon DEF vars
<1> QED
  BY <1>2, <1>3, <1>4, <1>5, Zenon DEF Next

\* A relay holds what it has stored at some time.
LEMMA HoldStep ==
    ASSUME Parts!TypeOK, HoldInv, [Next]_vars
    PROVE  HoldInv'
<1> DEFINE Held == \A i \in Copies, c \in 0 .. Total - 1, r \in Relays :
                      <<i, c, r>> \in holds' => Stored(i, c, r)'
<1>1. ASSUME holds' \subseteq holds PROVE Held
  BY <1>1, StoredStays, Zenon DEF HoldInv
<1>2. ASSUME UNCHANGED receiverVars PROVE holds' \subseteq holds
  BY <1>2, Zenon DEF receiverVars
<1>3. ASSUME Receiver!ReceiverNext PROVE holds' \subseteq holds
  <2>1. ASSUME NEW r, NEW S, Receiver!RelayForgets(r, S) PROVE holds' \subseteq holds
    BY <2>1, Zenon DEF Receiver!RelayForgets
  <2>2. ASSUME NEW p \in Pollers,
               Receiver!PollStep(p) \/ \E S \in SUBSET Copies : Receiver!LoseAnswer(p, S)
        PROVE  holds' = holds
    BY <2>2, Zenon
       DEF Receiver!PollStep, Receiver!StartPoll, Receiver!EngineReturns, Receiver!Respond,
           Receiver!ListRelay, Receiver!TryRelay, Receiver!Skip, Receiver!Pick, Receiver!Decrypt,
           Receiver!QueryChunk, Receiver!QueryFails, Receiver!FetchFails, Receiver!FetchSucceeds,
           Receiver!LoseAnswer
  <2>3. ASSUME Receiver!Restart \/ \E q \in Senders : Receiver!AddPeer(q) \/ Receiver!RemovePeer(q)
        PROVE  holds' = holds
    BY <2>3, Zenon DEF Receiver!Restart, Receiver!AddPeer, Receiver!RemovePeer
  <2> QED
    BY <1>3, <2>1, <2>2, <2>3, Zenon DEF Receiver!ReceiverNext
<1>4. ASSUME NEW m \in Msgs, NEW k \in 1 .. MaxCopies, NEW c \in 0 .. Total - 1, NEW r \in Relays,
             RelayStores(m, k, c, r)
      PROVE  Held
  <2>1. /\ holds' = holds \cup {<<<<m, k>>, c, r>>}
        /\ <<m, k, c, r>> \in accepted'
    BY <1>4, Zenon DEF RelayStores, Sender!RelayStores, Receiver!RelayReceives
  <2>2. ASSUME NEW i \in Copies, NEW d \in 0 .. Total - 1, NEW q \in Relays, <<i, d, q>> \in holds'
        PROVE  Stored(i, d, q)'
    <3>1. CASE <<i, d, q>> \in holds
      BY <3>1, StoredStays, Zenon DEF HoldInv
    <3>2. CASE <<i, d, q>> = <<<<m, k>>, c, r>>
      <4>1. i[1] = m /\ i[2] = k /\ d = c /\ q = r
        BY <3>2
      <4> QED
        BY <2>1, <4>1, Zenon DEF Stored
    <3> QED
      BY <2>1, <2>2, <3>1, <3>2, Zenon
  <2> QED
    BY <2>2, Zenon
<1>5. Held
  <2> HIDE DEF Held
  <2> QED
    BY <1>1, <1>2, <1>3, <1>4, ReceiverCases, Zenon
<1> QED
  BY <1>5, AcceptedStep, Zenon DEF HoldInv

\* What a step does to the fetch of p: nothing, end it, begin it, or add a chunk.
FetchSame(p) ==
    pc'[p] = pc[p] /\ relay'[p] = relay[p] /\ got'[p] = got[p] /\ cur'[p] = cur[p]

FetchOff(p) == relay'[p] = NoRelay /\ got'[p] # Total

FetchBegins(p) == pc'[p] = "fetch" /\ relay'[p] \in Relays /\ got'[p] = 0

FetchAdds(p) ==
    /\ pc[p] = "fetch" /\ pc' = pc /\ relay' = relay /\ cur' = cur
    /\ relay[p] # NoRelay /\ got[p] < Total
    /\ <<cur[p], got[p], relay[p]>> \in holds /\ got'[p] = got[p] + 1

LEMMA FetchCases ==
    ASSUME Parts!FetchTypeOK, FetchInv, NEW q \in Pollers, NEW p \in Pollers,
           Receiver!PollStep(q) \/ \E S \in SUBSET Copies : Receiver!LoseAnswer(q, S)
    PROVE  FetchSame(p) \/ FetchOff(p) \/ FetchBegins(p) \/ FetchAdds(p)
<1>1. /\ DOMAIN pc = Pollers /\ DOMAIN relay = Pollers /\ DOMAIN got = Pollers /\ DOMAIN cur = Pollers
      /\ got[p] \in 0 .. Total
  BY Zenon DEF Parts!FetchTypeOK
<1>2. pc[p] # "fetch" => relay[p] = NoRelay /\ got[p] # Total
  BY Zenon DEF FetchInv
<1>3. 0 # Total /\ Total \in Nat
  BY DeliveryAssumption, Zenon
<1>4. CASE q # p
  <2>1. FetchSame(p)
    BY <1>1, <1>4, ZenonT(30)
       DEF FetchSame, Receiver!PollStep, Receiver!StartPoll, Receiver!EngineReturns,
           Receiver!Respond, Receiver!ListRelay, Receiver!TryRelay, Receiver!Skip,
           Receiver!Pick, Receiver!Decrypt, Receiver!QueryChunk, Receiver!QueryFails,
           Receiver!FetchFails, Receiver!FetchSucceeds, Receiver!LoseAnswer, Receiver!engine
  <2> QED
    BY <2>1, Zenon
<1>5. CASE q = p
  <2>1. ASSUME Receiver!StartPoll(p) \/ Receiver!EngineReturns(p) \/ Receiver!Respond(p)
        PROVE  FetchOff(p)
    BY <1>1, <1>2, <2>1, Zenon
       DEF FetchOff, Receiver!StartPoll, Receiver!EngineReturns, Receiver!Respond
  <2>2. ASSUME NEW r \in Relays, Receiver!ListRelay(p, r) PROVE FetchOff(p)
    BY <1>1, <1>2, <2>2, Zenon DEF FetchOff, Receiver!ListRelay
  <2>3. ASSUME NEW r \in Relays, Receiver!TryRelay(p, r) PROVE FetchBegins(p)
    BY <1>1, <2>3, Zenon DEF FetchBegins, Receiver!TryRelay
  <2>4. ASSUME NEW i \in Copies, Receiver!Skip(p, i) \/ Receiver!Decrypt(p, i) PROVE FetchSame(p)
    BY <2>4, Zenon DEF FetchSame, Receiver!Skip, Receiver!Decrypt, Receiver!engine
  <2>5. ASSUME NEW i \in Copies, Receiver!Pick(p, i) PROVE FetchOff(p)
    BY <1>2, <2>5, Zenon DEF FetchOff, Receiver!Pick
  <2>6. ASSUME Receiver!QueryChunk(p) PROVE FetchAdds(p)
    BY <1>1, <2>6, Zenon DEF FetchAdds, Receiver!QueryChunk, Receiver!Asked
  <2>7. ASSUME Receiver!QueryFails(p) PROVE FetchOff(p)
    BY <1>1, <1>3, <2>7, SMTT(30) DEF FetchOff, Receiver!QueryFails
  <2>8. ASSUME Receiver!FetchFails(p) \/ Receiver!FetchSucceeds(p) PROVE FetchOff(p)
    BY <1>1, <1>3, <2>8, Zenon DEF FetchOff, Receiver!FetchFails, Receiver!FetchSucceeds
  <2>9. ASSUME NEW S \in SUBSET Copies, Receiver!LoseAnswer(p, S) PROVE FetchOff(p)
    BY <1>1, <1>2, <2>9, Zenon DEF FetchOff, Receiver!LoseAnswer
  <2> QED
    BY <1>5, <2>1, <2>2, <2>3, <2>4, <2>5, <2>6, <2>7, <2>8, <2>9, Zenon DEF Receiver!PollStep
<1> QED
  BY <1>4, <1>5, Zenon

LEMMA FetchStep ==
    ASSUME Parts!TypeOK, Parts!FetchTypeOK, HoldInv, FetchInv, [Next]_vars
    PROVE  FetchInv'
<1> SUFFICES ASSUME NEW p \in Pollers
             PROVE  /\ relay'[p] # NoRelay =>
                          /\ pc'[p] = "fetch"
                          /\ \A c \in 0 .. got'[p] - 1 : Stored(cur[p], c, relay[p])'
                    /\ relay'[p] = NoRelay => got'[p] # Total
  BY Zenon DEF FetchInv
<1> DEFINE G == /\ relay'[p] # NoRelay =>
                      /\ pc'[p] = "fetch"
                      /\ \A c \in 0 .. got'[p] - 1 : Stored(cur[p], c, relay[p])'
                /\ relay'[p] = NoRelay => got'[p] # Total
<1>1. /\ relay[p] # NoRelay => pc[p] = "fetch" /\ \A c \in 0 .. got[p] - 1 : Stored(cur[p], c, relay[p])
      /\ relay[p] = NoRelay => got[p] # Total
  BY Zenon DEF FetchInv
<1>2. accepted \subseteq accepted'
  BY SenderAdds, Zenon
<1>3. Total \in Nat \ {0} /\ NoRelay \notin Relays
  BY DeliveryAssumption, Zenon
<1>4. ASSUME FetchSame(p) PROVE G
  BY <1>1, <1>2, <1>4, Zenon DEF FetchSame, Stored
<1>5. ASSUME FetchOff(p) PROVE G
  BY <1>5, Zenon DEF FetchOff
<1>6. ASSUME FetchBegins(p) PROVE G
  <2>1. \A c : c \notin 0 .. got'[p] - 1
    BY <1>6 DEF FetchBegins
  <2> QED
    BY <1>3, <1>6, <2>1, Zenon DEF FetchBegins
<1>7. ASSUME FetchAdds(p) PROVE G
  <2>1. /\ pc'[p] = "fetch" /\ relay' = relay /\ cur' = cur /\ got'[p] = got[p] + 1
        /\ relay[p] # NoRelay /\ got[p] < Total /\ <<cur[p], got[p], relay[p]>> \in holds
    BY <1>7, Zenon DEF FetchAdds
  <2>2. got[p] \in 0 .. Total - 1 /\ relay[p] \in Relays
    BY <1>3, <2>1, SMTT(30) DEF Parts!FetchTypeOK
  <2>3. cur[p] \in Copies
    <3>1. pc[p] = "fetch"
      BY <1>7, Zenon DEF FetchAdds
    <3> QED
      BY <3>1, Zenon DEF Parts!FetchTypeOK
  <2>4. Stored(cur[p], got[p], relay[p])
    BY <2>1, <2>2, <2>3, ZenonT(30) DEF HoldInv
  <2>5. \A c \in 0 .. got'[p] - 1 : c \in 0 .. got[p] - 1 \/ c = got[p]
    BY <2>1, <2>2, SMTT(30)
  <2>6. \A c \in 0 .. got'[p] - 1 : Stored(cur[p], c, relay[p])
    BY <1>1, <2>1, <2>4, <2>5, Zenon
  <2> QED
    BY <1>2, <2>1, <2>6, Zenon DEF Stored
<1>8. ASSUME UNCHANGED receiverVars PROVE FetchSame(p)
  BY <1>8, Zenon DEF receiverVars, FetchSame
<1>9. ASSUME Receiver!ReceiverNext PROVE G
  <2>1. ASSUME NEW r, NEW S, Receiver!RelayForgets(r, S) PROVE FetchSame(p)
    BY <2>1, Zenon DEF FetchSame, Receiver!RelayForgets, Receiver!engine
  <2>2. ASSUME NEW q, Receiver!AddPeer(q) \/ Receiver!RemovePeer(q) PROVE FetchSame(p)
    BY <2>2, Zenon DEF FetchSame, Receiver!AddPeer, Receiver!RemovePeer, Receiver!engine
  <2>3. ASSUME Receiver!Restart PROVE FetchOff(p)
    BY <1>3, <2>3, Zenon DEF FetchOff, Receiver!Restart
  <2> HIDE DEF G
  <2> QED
    BY <1>4, <1>5, <1>6, <1>7, <1>9, <2>1, <2>2, <2>3, FetchCases, Zenon DEF Receiver!ReceiverNext
<1>10. ASSUME NEW m, NEW k, NEW c, NEW r, RelayStores(m, k, c, r) PROVE FetchSame(p)
  BY <1>10, Zenon DEF FetchSame, RelayStores, Receiver!RelayReceives, Receiver!engine
<1> HIDE DEF G
<1>11. G
  BY <1>4, <1>8, <1>9, <1>10, ReceiverCases, Zenon
<1> QED
  BY <1>11, Zenon DEF G

\* What a step brings into the hands of a poll, or to the app, was there before
\* or has just been fetched whole.
LEMMA HandStep ==
    ASSUME Parts!TypeOK, Parts!FetchTypeOK, FetchInv, HandInv, [Next]_vars
    PROVE  HandInv'
<1> DEFINE G == /\ \A p \in Pollers : \A i \in hand'[p] \cup out'[p] : Whole(i)
                /\ \A i \in shown' : Whole(i)
<1>1. /\ \A p \in Pollers : \A i \in hand[p] \cup out[p] : Whole(i)
      /\ \A i \in shown : Whole(i)
  BY Zenon DEF HandInv
<1>2. DOMAIN hand = Pollers /\ DOMAIN out = Pollers
  BY Zenon DEF Parts!FetchTypeOK
<1>3. ASSUME hand' = hand, out' = out, shown' = shown PROVE G
  BY <1>1, <1>3, Zenon
<1>4. ASSUME NEW p \in Pollers, Receiver!FetchSucceeds(p) PROVE G
  <2>1. /\ got[p] = Total /\ out' = out /\ shown' = shown
        /\ hand' = [hand EXCEPT ![p] = hand[p] \cup {cur[p]}]
    BY <1>4, Zenon DEF Receiver!FetchSucceeds, Receiver!AllReceived, Receiver!fates
  <2>2. relay[p] # NoRelay
    BY <2>1, Zenon DEF FetchInv
  <2>3. relay[p] \in Relays
    BY <2>2, Zenon DEF Parts!FetchTypeOK
  <2>4. \A c \in 0 .. Total - 1 : Stored(cur[p], c, relay[p])
    BY <2>1, <2>2, Zenon DEF FetchInv
  <2>5. Whole(cur[p])
    BY <2>3, <2>4, Zenon DEF Whole
  <2>6. \A q \in Pollers : hand'[q] = IF q = p THEN hand[p] \cup {cur[p]} ELSE hand[q]
    BY <1>2, <2>1, Zenon
  <2>7. \A q \in Pollers : \A i \in hand'[q] \cup out'[q] : i \in hand[q] \cup out[q] \/ i = cur[p]
    BY <2>1, <2>6
  <2> QED
    BY <1>1, <2>1, <2>5, <2>7, Zenon
<1>5. ASSUME NEW p \in Pollers, NEW i \in Copies, Receiver!Decrypt(p, i) PROVE G
  <2>1. /\ i \in hand[p] /\ shown' = shown
        /\ hand' = [hand EXCEPT ![p] = hand[p] \ {i}]
        /\ out' = out \/ out' = [out EXCEPT ![p] = out[p] \cup {i}]
    BY <1>5, Zenon DEF Receiver!Decrypt
  <2>2. \A q \in Pollers : hand'[q] \cup out'[q] \subseteq hand[q] \cup out[q]
    BY <1>2, <2>1, ZenonT(30)
  <2> QED
    BY <1>1, <2>1, <2>2, Zenon
<1>6. ASSUME NEW p \in Pollers,
             Receiver!Respond(p) \/ \E S \in SUBSET Copies : Receiver!LoseAnswer(p, S)
      PROVE  G
  <2>1. /\ shown' \subseteq shown \cup out[p] /\ hand' = hand
        /\ out' = [out EXCEPT ![p] = {}]
    BY <1>6, Zenon DEF Receiver!Respond, Receiver!LoseAnswer
  <2>2. \A q \in Pollers : hand'[q] \cup out'[q] \subseteq hand[q] \cup out[q]
    BY <1>2, <2>1, Zenon
  <2> QED
    BY <1>1, <2>1, <2>2, Zenon
<1>7. ASSUME Receiver!Restart PROVE G
  <2>1. /\ shown' = shown
        /\ \A p \in Pollers : hand'[p] = {} /\ out'[p] = {}
    BY <1>7, Zenon DEF Receiver!Restart
  <2> QED
    BY <1>1, <2>1, Zenon
<1>8. ASSUME NEW p \in Pollers, Receiver!PollStep(p)
      PROVE  \/ hand' = hand /\ out' = out /\ shown' = shown
             \/ Receiver!FetchSucceeds(p) \/ Receiver!Respond(p)
             \/ \E i \in Copies : Receiver!Decrypt(p, i)
  BY <1>8, Zenon
     DEF Receiver!PollStep, Receiver!StartPoll, Receiver!EngineReturns, Receiver!ListRelay,
         Receiver!TryRelay, Receiver!Skip, Receiver!Pick, Receiver!QueryChunk, Receiver!QueryFails,
         Receiver!FetchFails, Receiver!results, Receiver!fates
<1>9. ASSUME NEW r, NEW S, Receiver!RelayForgets(r, S)
      PROVE  hand' = hand /\ out' = out /\ shown' = shown
  BY <1>9, Zenon DEF Receiver!RelayForgets, Receiver!results, Receiver!fates
<1>10. ASSUME NEW q, Receiver!AddPeer(q) \/ Receiver!RemovePeer(q)
       PROVE  hand' = hand /\ out' = out /\ shown' = shown
  BY <1>10, Zenon DEF Receiver!AddPeer, Receiver!RemovePeer, Receiver!results, Receiver!fates
<1>11. ASSUME NEW m, NEW k, NEW c, NEW r, RelayStores(m, k, c, r)
       PROVE  hand' = hand /\ out' = out /\ shown' = shown
  BY <1>11, Zenon DEF RelayStores, Receiver!RelayReceives, Receiver!results, Receiver!fates
<1>12. ASSUME UNCHANGED receiverVars PROVE hand' = hand /\ out' = out /\ shown' = shown
  BY <1>12, Zenon DEF receiverVars
<1>13. G
  <2> HIDE DEF G
  <2>1. ASSUME Receiver!ReceiverNext PROVE G
    BY <1>3, <1>4, <1>5, <1>6, <1>7, <1>8, <1>9, <1>10, <2>1, Zenon DEF Receiver!ReceiverNext
  <2> QED
    BY <1>3, <1>11, <1>12, <2>1, ReceiverCases, Zenon
<1> QED
  BY <1>13, StoredStays, Zenon DEF HandInv

\* What arrives was sent: a message in the app is a copy the sender's engine
\* began, and all its chunks were stored by one relay, whatever relays forget,
\* answers are lost and daemons are restarted (SendMessage of the daemon to
\* PollMessages of the other).
THEOREM AlwaysArrivedWasSent == Spec => []ArrivedWasSent
<1>1. Parts!TypeOK /\ Parts!FetchTypeOK /\ ArriveInv /\ [Next]_vars => ArriveInv'
  BY HoldStep, FetchStep, HandStep, Zenon DEF ArriveInv
<1>2. Parts!FetchTypeOK /\ ArriveInv => ArrivedWasSent
  <2> SUFFICES ASSUME Parts!FetchTypeOK, ArriveInv, NEW i \in shown
               PROVE  /\ i[2] <= copies[i[1]]
                      /\ \E r \in Relays : \A c \in 0 .. Total - 1 : <<i[1], i[2], c, r>> \in accepted
    BY Zenon DEF ArrivedWasSent
  <2>1. PICK r \in Relays : \A c \in 0 .. Total - 1 : <<i[1], i[2], c, r>> \in accepted
    BY Zenon DEF ArriveInv, HandInv, Whole, Stored
  <2>2. 0 \in 0 .. Total - 1
    BY DeliveryAssumption
  <2> DEFINE a == <<i[1], i[2], 0, r>>
  <2>3. a \in accepted
    BY <2>1, <2>2, Zenon
  <2>4. a[1] = i[1] /\ a[2] = i[2]
    BY Zenon
  <2> HIDE DEF a
  <2>5. a[2] <= copies[a[1]]
    BY <2>3, Zenon DEF ArriveInv, HoldInv
  <2> QED
    BY <2>1, <2>4, <2>5
<1> QED
  BY <1>1, <1>2, ArriveInit, PartsTyped, PTL DEF Spec
=============================================================================
