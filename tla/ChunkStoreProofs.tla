-------------------------- MODULE ChunkStoreProofs --------------------------
(***************************************************************************)
(* Proofs about ChunkStore, for every set of messages, peers, counter keys *)
(* and handlers, every TTL and every bound: types, the per-peer counts and *)
(* the stability of a buffer, then the order of the counter (SeqInv), then *)
(* the timing of the index (TimeInv).                                      *)
(***************************************************************************)
EXTENDS ChunkStore, FiniteSetTheorems, TLAPS

\* What an action changes, by group of variables.
USE DEF store, index, counter, handler

-----------------------------------------------------------------------------
\* Every reachable state of the store is well typed; in particular a buffer
\* only ever holds chunk indexes below its total.
THEOREM TypeCorrect == Spec => []TypeOK
<1> USE ConstantsAssumption
<1>1. Init => TypeOK
  BY DEF Init, TypeOK, NotSent
<1>2. TypeOK /\ [Next]_vars => TypeOK'
  <2> SUFFICES ASSUME TypeOK, [Next]_vars PROVE TypeOK'
    BY Zenon
  <2> USE DEF TypeOK
  <2>1. ASSUME NEW m \in Msgs, BeginSend(m) PROVE TypeOK'
    BY <2>1, Zenon DEF BeginSend
  <2>2. ASSUME NEW h \in Handlers, NEW m \in Msgs, NEW i \in 0 .. Total[m] - 1,
               HandleStore(h, m, i)
        PROVE TypeOK'
    <3>1. Recipient[m] # NoPeer => Key(m) \in Keys
      BY Zenon DEF Key
    <3>2. /\ createdAt' \in [Msgs -> Nat]
          /\ sequenceNumber' \in [Msgs -> Nat]
          /\ sequences' \in [Keys -> Nat]
          /\ issued' \in [Keys -> Seq(Nat)]
      <4>1. StampFirst(m)
        BY <2>2, Zenon DEF HandleStore, Store
      <4>2. CASE UNCHANGED counter
        BY <4>1, <4>2, <3>1, SMTT(30) DEF StampFirst, NextSeq
      <4>3. CASE NextSeq(Key(m)) /\ Recipient[m] # NoPeer
        <5>1. sequences[Key(m)] + 1 \in Nat
          BY <3>1, <4>3, SMTT(30)
        <5>2. Append(issued[Key(m)], sequences[Key(m)] + 1) \in Seq(Nat)
          BY <5>1, <3>1, <4>3
        <5>3. sequences' \in [Keys -> Nat]
          BY <4>3, <3>1, <5>1, Zenon DEF NextSeq
        <5>4. issued' \in [Keys -> Seq(Nat)]
          BY <4>3, <3>1, <5>2, Zenon DEF NextSeq
        <5>5. createdAt' \in [Msgs -> Nat] /\ sequenceNumber' \in [Msgs -> Nat]
          <6>1. CASE UNCHANGED createdAt /\ UNCHANGED sequenceNumber
            BY <6>1, Zenon
          <6>2. CASE createdAt' = [createdAt EXCEPT ![m] = now] /\ UNCHANGED sequenceNumber
            BY <6>2, Zenon
          <6>3. CASE /\ createdAt' = [createdAt EXCEPT ![m] = now]
                     /\ sequenceNumber' = [sequenceNumber EXCEPT ![m] = sequences[Key(m)] + 1]
            BY <6>3, <5>1, Zenon
          <6> QED
            BY <4>1, <6>1, <6>2, <6>3, Zenon DEF StampFirst
        <5> QED
          BY <5>3, <5>4, <5>5, Zenon
      <4> QED
        BY <4>1, <4>2, <4>3, Zenon DEF StampFirst
    <3>3. chunks' \in [Msgs -> SUBSET Nat] /\ \A n \in Msgs : chunks'[n] \subseteq 0 .. Total[n] - 1
      BY <2>2, SMTT(60) DEF HandleStore, Store
    <3>4. /\ pc' \in [Handlers -> {"idle", "own", "poll"}]
          /\ request' \in [Handlers -> Msgs \cup {NoMsg}]
          /\ since' \in [Handlers -> Nat]
          /\ \A g \in Handlers : pc'[g] = "own" => request'[g] \in Msgs /\ Recipient[request'[g]] \in Peers
      <4>1. CASE UNCHANGED handler
        BY <4>1, Zenon
      <4>2. CASE /\ Recipient[m] # NoPeer
                 /\ pc' = [pc EXCEPT ![h] = "own"]
                 /\ request' = [request EXCEPT ![h] = m]
                 /\ since' = [since EXCEPT ![h] = now]
        BY <4>2, Zenon
      <4> QED
        BY <2>2, <4>1, <4>2, Zenon DEF HandleStore
    <3>5. UNCHANGED <<index, gcTodo, now, sentAt, todo, bare>>
      BY <2>2, Zenon DEF HandleStore
    <3> QED
      BY <3>2, <3>3, <3>4, <3>5, Zenon
  <2>3. ASSUME NEW h \in Handlers, SetMessageOwner(h) PROVE TypeOK'
    <3>1. messageOwner' \in [Msgs -> Peers \cup {NoPeer}] /\ peerMessages' \in [Peers -> Nat]
      <4> DEFINE m == request[h]
      <4>1. m \in Msgs /\ Recipient[m] \in Peers
        BY <2>3, Zenon DEF SetMessageOwner
      <4>2. CASE UNCHANGED index
        BY <4>2, Zenon
      <4>3. CASE /\ messageOwner' = [messageOwner EXCEPT ![m] = Recipient[m]]
                 /\ peerMessages' = [peerMessages EXCEPT ![Recipient[m]] = @ + 1]
        BY <4>1, <4>3
      <4> QED
        BY <2>3, <4>2, <4>3, Zenon DEF SetMessageOwner, Index
    <3>2. /\ pc' = [pc EXCEPT ![h] = "idle"]
          /\ request' = [request EXCEPT ![h] = NoMsg]
          /\ since' = [since EXCEPT ![h] = 0]
          /\ UNCHANGED <<store, counter, gcTodo, now, sentAt, todo, bare>>
      BY <2>3, Zenon DEF SetMessageOwner
    <3> QED
      BY <3>1, <3>2, Zenon
  <2>4. ASSUME NEW h \in Handlers, NEW p \in Peers, ListPeerMessages(h, p) PROVE TypeOK'
    BY <2>4, Zenon DEF ListPeerMessages, Owned
  <2>5. ASSUME NEW h \in Handlers, NEW m \in Msgs, GetMessageMeta(h, m) PROVE TypeOK'
    BY <2>5, ZenonT(30) DEF GetMessageMeta
  <2>6. ASSUME NEW h \in Handlers, AnswerPoll(h) PROVE TypeOK'
    BY <2>6, Zenon DEF AnswerPoll
  <2>7. ASSUME GCBegin PROVE TypeOK'
    BY <2>7, Zenon DEF GCBegin
  <2>8. ASSUME NEW m \in Msgs, GCDelete(m) PROVE TypeOK'
    <3>1. messageOwner' \in [Msgs -> Peers \cup {NoPeer}] /\ peerMessages' \in [Peers -> Nat]
      <4>1. CASE UNCHANGED index
        BY <4>1, Zenon
      <4>2. CASE /\ messageOwner[m] # NoPeer
                 /\ peerMessages' = [peerMessages EXCEPT ![messageOwner[m]] =
                                        IF @ - 1 <= 0 THEN 0 ELSE @ - 1]
                 /\ messageOwner' = [messageOwner EXCEPT ![m] = NoPeer]
        BY <4>2, SMTT(30)
      <4> QED
        BY <2>8, <4>1, <4>2, Zenon DEF GCDelete, Unindex
    <3> QED
      BY <2>8, <3>1, Zenon DEF GCDelete
  <2>9. ASSUME Restart PROVE TypeOK'
    BY <2>9, Zenon DEF Restart, Reopen
  <2>10. ASSUME Tick PROVE TypeOK'
    BY <2>10 DEF Tick
  <2>11. CASE UNCHANGED vars
    BY <2>11, Zenon DEF vars
  <2> QED
    BY <2>1, <2>2, <2>3, <2>4, <2>5, <2>6, <2>7, <2>8, <2>9, <2>10, <2>11, Zenon DEF Next
<1> QED
  BY <1>1, <1>2, PTL DEF Spec

-----------------------------------------------------------------------------
(***************************************************************************)
(* The per-peer counts.                                                    *)
(***************************************************************************)
\* The messages listed for a peer are finitely many.
LEMMA OwnedFinite ==
    ASSUME NEW p PROVE IsFiniteSet(Owned(p))
<1>1. Owned(p) \subseteq Msgs
  BY Zenon DEF Owned
<1> QED
  BY <1>1, FS_Subset, ConstantsAssumption, Zenon

\* Counting stays exact when a message is indexed or forgotten.
LEMMA CountsStep ==
    ASSUME TypeOK, TypeOK', CountsMatchOwners, [Next]_vars
    PROVE  CountsMatchOwners'
<1> USE ConstantsAssumption
<1>0. messageOwner \in [Msgs -> Peers \cup {NoPeer}] /\ peerMessages \in [Peers -> Nat]
  BY Zenon DEF TypeOK
<1>1. ASSUME NEW h \in Handlers, SetMessageOwner(h) PROVE CountsMatchOwners'
  <2>0. PICK m \in Msgs : m = request[h] /\ Recipient[m] \in Peers
    BY <1>1, Zenon DEF SetMessageOwner, TypeOK
  <2> DEFINE p == Recipient[m]
  <2>1. p \in Peers /\ p # NoPeer
    BY <2>0, Zenon
  <2>2. CASE UNCHANGED index
    BY <2>2, Zenon DEF CountsMatchOwners, Owned
  <2>3. CASE /\ messageOwner[m] = NoPeer
             /\ messageOwner' = [messageOwner EXCEPT ![m] = p]
             /\ peerMessages' = [peerMessages EXCEPT ![p] = @ + 1]
    <3>1. Owned(p)' = Owned(p) \cup {m} /\ m \notin Owned(p)
      BY <1>0, <2>1, <2>3 DEF Owned
    <3>2. Cardinality(Owned(p)') = Cardinality(Owned(p)) + 1
      BY <3>1, OwnedFinite, FS_AddElement, Zenon
    <3>3. ASSUME NEW q \in Peers \ {p} PROVE Owned(q)' = Owned(q)
      <4>1. \A n \in Msgs : messageOwner'[n] = q <=> messageOwner[n] = q
        BY <1>0, <2>1, <2>3, Zenon
      <4> QED
        BY <4>1, Zenon DEF Owned
    <3>4. ASSUME NEW q \in Peers PROVE peerMessages'[q] = Cardinality(Owned(q)')
      <4>1. CASE q = p
        BY <1>0, <2>1, <2>3, <3>2, <4>1, Zenon DEF CountsMatchOwners
      <4>2. CASE q # p
        BY <1>0, <2>1, <2>3, <3>3, <4>2 DEF CountsMatchOwners
      <4> QED
        BY <4>1, <4>2, Zenon
    <3>5. \A n \in Msgs : messageOwner'[n] \in {NoPeer, Recipient[n]}
      BY <1>0, <2>1, <2>3, Zenon DEF CountsMatchOwners
    <3> QED
      BY <3>4, <3>5, Zenon DEF CountsMatchOwners
  <2> QED
    BY <1>1, <2>0, <2>2, <2>3, Zenon DEF SetMessageOwner, Index
<1>2. ASSUME NEW m \in Msgs, GCDelete(m) PROVE CountsMatchOwners'
  <2>0. PICK p \in Peers \cup {NoPeer} : p = messageOwner[m]
    BY Zenon DEF TypeOK
  <2>1. CASE UNCHANGED index
    BY <2>1, Zenon DEF CountsMatchOwners, Owned
  <2>2. CASE /\ p # NoPeer
             /\ peerMessages' = [peerMessages EXCEPT ![p] = IF @ - 1 <= 0 THEN 0 ELSE @ - 1]
             /\ messageOwner' = [messageOwner EXCEPT ![m] = NoPeer]
    <3>1. p \in Peers /\ m \in Owned(p) /\ Owned(p)' = Owned(p) \ {m}
      BY <1>0, <2>0, <2>2, Zenon DEF Owned
    <3>2. /\ Cardinality(Owned(p)') = Cardinality(Owned(p)) - 1
          /\ Cardinality(Owned(p)') \in Nat /\ Cardinality(Owned(p)) \in Nat
      <4>1. IsFiniteSet(Owned(p)) /\ IsFiniteSet(Owned(p) \ {m})
        BY OwnedFinite, FS_RemoveElement, Zenon
      <4> QED
        BY <3>1, <4>1, FS_RemoveElement, FS_CardinalityType, ZenonT(30)
    <3>3. ASSUME NEW q \in Peers \ {p} PROVE Owned(q)' = Owned(q)
      <4>1. \A n \in Msgs : messageOwner'[n] = q <=> messageOwner[n] = q
        BY <1>0, <2>0, <2>2, <3>1, Zenon
      <4> QED
        BY <4>1, Zenon DEF Owned
    <3>4. ASSUME NEW q \in Peers PROVE peerMessages'[q] = Cardinality(Owned(q)')
      <4>1. CASE q = p
        <5>1. peerMessages[p] = Cardinality(Owned(p))
          BY <3>1, Zenon DEF CountsMatchOwners
        <5>2. peerMessages'[p] = IF peerMessages[p] - 1 <= 0 THEN 0 ELSE peerMessages[p] - 1
          BY <1>0, <2>2, <3>1, Zenon
        <5> QED
          BY <3>2, <4>1, <5>1, <5>2
      <4>2. CASE q # p
        BY <1>0, <2>2, <3>1, <3>3, <4>2, Zenon DEF CountsMatchOwners
      <4> QED
        BY <4>1, <4>2, Zenon
    <3>5. \A n \in Msgs : messageOwner'[n] \in {NoPeer, Recipient[n]}
      BY <1>0, <2>2, Zenon DEF CountsMatchOwners
    <3> QED
      BY <3>4, <3>5, Zenon DEF CountsMatchOwners
  <2> QED
    BY <1>2, <2>0, <2>1, <2>2, Zenon DEF GCDelete, Unindex
<1>3. ASSUME Restart PROVE CountsMatchOwners'
  <2>1. \A p \in Peers : Owned(p)' = {} /\ peerMessages'[p] = 0
    BY <1>3, Zenon DEF Restart, Owned
  <2> QED
    BY <1>3, <2>1, FS_EmptySet, Zenon DEF Restart, CountsMatchOwners
<1>4. ASSUME UNCHANGED index PROVE CountsMatchOwners'
  BY <1>4, Zenon DEF CountsMatchOwners, Owned
<1> QED
  BY <1>1, <1>2, <1>3, <1>4, Zenon
  DEF Next, vars, BeginSend, HandleStore, ListPeerMessages, GetMessageMeta, AnswerPoll, GCBegin, Tick

\* peerMessages is always the number of messages the index lists per peer.
THEOREM CountsAlwaysMatch == Spec => []CountsMatchOwners
<1>1. Init => CountsMatchOwners
  <2> SUFFICES ASSUME Init PROVE CountsMatchOwners
    BY Zenon
  <2>1. \A p \in Peers : Owned(p) = {} /\ peerMessages[p] = 0
    BY ConstantsAssumption, Zenon DEF Init, Owned
  <2> QED
    BY <2>1, FS_EmptySet, Zenon DEF Init, CountsMatchOwners
<1>2. TypeOK /\ TypeOK' /\ CountsMatchOwners /\ [Next]_vars => CountsMatchOwners'
  BY CountsStep, Zenon
<1> QED
  BY <1>1, <1>2, TypeCorrect, PTL DEF Spec

\* No step changes the stamp or the date of a message that stays stored, or
\* loses one of its chunks.
THEOREM BufferAlwaysStable == Spec => BufferIsStable
<1> DEFINE Stable == \A m \in Msgs : Stored(m) /\ Stored(m)' =>
                        /\ chunks[m] \subseteq chunks'[m]
                        /\ createdAt'[m] = createdAt[m]
                        /\ sequenceNumber'[m] = sequenceNumber[m]
<1>1. TypeOK /\ [Next]_vars => [Stable]_vars
  <2> SUFFICES ASSUME TypeOK, Next PROVE Stable
    BY Zenon
  <2>1. ASSUME NEW h \in Handlers, NEW m \in Msgs, NEW i \in 0 .. Total[m] - 1,
               HandleStore(h, m, i)
        PROVE Stable
    <3>1. chunks' = [chunks EXCEPT ![m] = @ \cup {i}] /\ StampFirst(m)
      BY <2>1, Zenon DEF HandleStore, Store
    <3>2. CASE Stored(m)
      BY <3>1, <3>2, Zenon DEF StampFirst, TypeOK
    <3>3. CASE ~Stored(m)
      BY <3>1, <3>3, ZenonT(30) DEF StampFirst, TypeOK, Stored
    <3> QED
      BY <3>2, <3>3, Zenon
  <2>2. ASSUME NEW m \in Msgs, GCDelete(m) PROVE Stable
    BY <2>2, Zenon DEF GCDelete, TypeOK, Stored
  <2>3. ASSUME Restart PROVE Stable
    BY <2>3, Zenon DEF Restart, Stored
  <2>4. ASSUME UNCHANGED store PROVE Stable
    BY <2>4, Zenon
  <2> QED
    BY <2>1, <2>2, <2>3, <2>4, Zenon
    DEF Next, BeginSend, SetMessageOwner, ListPeerMessages, GetMessageMeta, AnswerPoll, GCBegin, Tick
<1> QED
  BY <1>1, TypeCorrect, PTL DEF Spec, BufferIsStable
-----------------------------------------------------------------------------
(***************************************************************************)
(* The counter.  What makes the order of the numbers the order of arrival  *)
(* is that every number in use is at most the last one handed out.         *)
(***************************************************************************)
Bounded(k) == \A i \in DOMAIN issued[k] : issued[k][i] <= sequences[k]

Increasing(k) == \A i, j \in DOMAIN issued[k] : i < j => issued[k][i] < issued[k][j]

StampedInPast(m) ==
    /\ Stored(m) => createdAt[m] <= now
    /\ ~Stored(m) => sequenceNumber[m] = 0
    /\ sequenceNumber[m] > 0 => /\ Recipient[m] \in Peers
                                /\ sequenceNumber[m] <= sequences[Key(m)]

Ordered(m, n) ==
    m # n /\ Stamped(m) /\ Stamped(n) /\ Key(m) = Key(n)
    => /\ sequenceNumber[m] # sequenceNumber[n]
       /\ sequenceNumber[m] < sequenceNumber[n] => createdAt[m] <= createdAt[n]

SeqInv ==
    /\ \A k \in Keys : Bounded(k) /\ Increasing(k)
    /\ \A m \in Msgs : StampedInPast(m)
    /\ \A m, n \in Msgs : Ordered(m, n)

\* A number one above the last one keeps a counter's history increasing.
LEMMA NextSeqIncreases ==
    ASSUME TypeOK, SeqInv, NEW k \in Keys, NextSeq(k)
    PROVE  \A l \in Keys : Bounded(l)' /\ Increasing(l)'
<1> SUFFICES ASSUME NEW l \in Keys PROVE Bounded(l)' /\ Increasing(l)'
  BY Zenon
<1>1. /\ issued[k] \in Seq(Nat) /\ sequences[k] \in Nat
      /\ Bounded(k) /\ Increasing(k) /\ Bounded(l) /\ Increasing(l)
  BY Zenon DEF TypeOK, SeqInv
<1>2. CASE l # k
  BY <1>1, <1>2, Zenon DEF NextSeq, Bounded, Increasing, TypeOK
<1>3. CASE l = k
  <2>1. issued'[k] = Append(issued[k], sequences[k] + 1) /\ sequences'[k] = sequences[k] + 1
    BY Zenon DEF NextSeq, TypeOK
  <2>2. /\ DOMAIN issued'[k] = 1 .. Len(issued[k]) + 1
        /\ DOMAIN issued[k] = 1 .. Len(issued[k])
        /\ Len(issued[k]) \in Nat
        /\ issued'[k][Len(issued[k]) + 1] = sequences[k] + 1
        /\ \A i \in 1 .. Len(issued[k]) : issued'[k][i] = issued[k][i] /\ issued[k][i] \in Nat
    BY <1>1, <2>1, SMTT(30)
  <2>3. Bounded(k)'
    BY <1>1, <2>1, <2>2, SMTT(30) DEF Bounded
  <2>4. Increasing(k)'
    <3> DEFINE len == Len(issued[k])
    <3> SUFFICES ASSUME NEW i \in 1 .. len + 1, NEW j \in 1 .. len + 1, i < j
                 PROVE  issued'[k][i] < issued'[k][j]
      BY <2>2, Zenon DEF Increasing
    <3>1. i \in 1 .. len
      BY <2>2
    <3>2. issued'[k][i] = issued[k][i] /\ issued[k][i] \in Nat /\ issued[k][i] <= sequences[k]
      BY <1>1, <2>2, <3>1, Zenon DEF Bounded
    <3>3. CASE j = len + 1
      BY <1>1, <2>2, <3>2, <3>3, SMTT(30)
    <3>4. CASE j # len + 1
      <4>1. j \in 1 .. len
        BY <2>2, <3>4
      <4> QED
        BY <1>1, <2>2, <3>1, <4>1, Zenon DEF Increasing
    <3> QED
      BY <3>3, <3>4, Zenon
  <2> QED
    BY <1>3, <2>3, <2>4, Zenon
<1> QED
  BY <1>2, <1>3, Zenon

\* A message that a step leaves alone keeps what SeqInv says of it ...
LEMMA StampKept ==
    ASSUME NEW n \in Msgs, StampedInPast(n), Stored(n)' <=> Stored(n), now' = now,
           createdAt'[n] = createdAt[n], sequenceNumber'[n] = sequenceNumber[n],
           sequences' = sequences
    PROVE  StampedInPast(n)'
BY Zenon DEF StampedInPast, Key

LEMMA OrderKept ==
    ASSUME NEW n \in Msgs, NEW o \in Msgs, Ordered(n, o),
           Stored(n)' => Stored(n), Stored(o)' => Stored(o),
           createdAt'[n] = createdAt[n], sequenceNumber'[n] = sequenceNumber[n],
           createdAt'[o] = createdAt[o], sequenceNumber'[o] = sequenceNumber[o]
    PROVE  Ordered(n, o)'
BY Zenon DEF Ordered, Stamped, Key

\* ... and one without a number is in order with every other.
LEMMA UnstampedIsOrdered ==
    ASSUME NEW n \in Msgs, NEW o \in Msgs, sequenceNumber'[n] = 0 \/ sequenceNumber'[o] = 0
    PROVE  Ordered(n, o)'
<1>1. ~(0 > 0)
  OBVIOUS
<1> QED
  BY <1>1, Zenon DEF Ordered, Stamped

\* Storing a chunk, which stamps a message that has none yet, keeps the
\* counter invariant.
LEMMA StampStep ==
    ASSUME TypeOK, TypeOK', SeqInv, NEW m \in Msgs, StampFirst(m), now' = now, now \in Nat,
           \A n \in Msgs : Stored(n)' <=> Stored(n) \/ n = m
    PROVE  SeqInv'
<1>1. StampFirst(m) /\ now' = now /\ now \in Nat
  BY Zenon
<1>2. \A n \in Msgs : Stored(n)' <=> Stored(n) \/ n = m
  BY Zenon
<1>3. CASE Stored(m)
  <2>1. UNCHANGED <<createdAt, sequenceNumber, sequences, issued>>
    BY <1>1, <1>3, Zenon DEF StampFirst
  <2> QED
    BY <1>1, <1>2, <1>3, <2>1
    DEF SeqInv, Bounded, Increasing, StampedInPast, Ordered, Stamped, Key
<1>4. CASE ~Stored(m) /\ UNCHANGED <<sequences, issued, sequenceNumber>>
  <2>1. /\ sequenceNumber[m] = 0
        /\ createdAt'[m] = now /\ \A n \in Msgs \ {m} : createdAt'[n] = createdAt[n]
    BY <1>1, <1>4, Zenon DEF StampFirst, SeqInv, StampedInPast, TypeOK
  <2>2. \A k \in Keys : Bounded(k)' /\ Increasing(k)'
    BY <1>4, Zenon DEF SeqInv, Bounded, Increasing
  <2>3. ASSUME NEW n \in Msgs PROVE StampedInPast(n)'
    <3>1. CASE n = m
      <4>1. Stored(m)' /\ createdAt'[m] <= now' /\ sequenceNumber'[m] = 0 /\ ~(0 > 0)
        BY <1>1, <1>2, <1>4, <2>1
      <4> QED
        BY <3>1, <4>1, Zenon DEF StampedInPast
    <3>2. CASE n # m
      <4>1. StampedInPast(n)
        BY Zenon DEF SeqInv
      <4> QED
        BY <1>1, <1>2, <1>4, <2>1, <3>2, <4>1, StampKept, Zenon
    <3> QED
      BY <3>1, <3>2, Zenon
  <2>4. ASSUME NEW n \in Msgs, NEW o \in Msgs PROVE Ordered(n, o)'
    <3>1. CASE n = m \/ o = m
      BY <1>4, <2>1, <3>1, UnstampedIsOrdered, Zenon
    <3>2. CASE n # m /\ o # m
      <4>1. Ordered(n, o)
        BY Zenon DEF SeqInv
      <4> QED
        BY <1>2, <1>4, <2>1, <3>2, <4>1, OrderKept
    <3> QED
      BY <3>1, <3>2, Zenon
  <2> QED
    BY <2>2, <2>3, <2>4, Zenon DEF SeqInv
<1>5. CASE /\ ~Stored(m) /\ Recipient[m] # NoPeer /\ NextSeq(Key(m))
           /\ createdAt' = [createdAt EXCEPT ![m] = now]
           /\ sequenceNumber' = [sequenceNumber EXCEPT ![m] = sequences[Key(m)] + 1]
  <2> DEFINE k == Key(m)
  <2>1. Recipient[m] \in Peers /\ k \in Keys /\ sequences[k] \in Nat
    <3>1. Recipient[m] \in Peers
      BY <1>5, ConstantsAssumption, Zenon
    <3>2. k \in Keys
      BY <3>1, ConstantsAssumption, Zenon DEF Key
    <3> QED
      BY <3>1, <3>2, Zenon DEF TypeOK
  <2>2. /\ sequenceNumber'[m] = sequences[k] + 1 /\ createdAt'[m] = now
        /\ \A n \in Msgs \ {m} : /\ sequenceNumber'[n] = sequenceNumber[n]
                                   /\ createdAt'[n] = createdAt[n]
        /\ sequences'[k] = sequences[k] + 1
        /\ \A l \in Keys \ {k} : sequences'[l] = sequences[l]
    BY <1>5, <2>1, ZenonT(30) DEF NextSeq, TypeOK
  <2>3. \A l \in Keys : Bounded(l)' /\ Increasing(l)'
    BY <1>5, <2>1, NextSeqIncreases, Zenon
  <2>4. ASSUME NEW n \in Msgs PROVE StampedInPast(n)'
    <3>1. CASE n = m
      <4>1. Stored(m)' /\ createdAt'[m] <= now'
        BY <1>1, <1>2, <2>2
      <4>2. sequenceNumber'[m] <= sequences'[k]
        BY <2>1, <2>2, SMTT(30)
      <4> QED
        BY <2>1, <3>1, <4>1, <4>2, Zenon DEF StampedInPast, Key
    <3>2. CASE n # m
      <4>1. StampedInPast(n) /\ (Recipient[n] \in Peers => Key(n) \in Keys)
        BY ConstantsAssumption, Zenon DEF SeqInv, Key
      <4>2. ASSUME NEW l \in Keys PROVE sequences[l] <= sequences'[l]
        <5>1. sequences[l] \in Nat
          BY Zenon DEF TypeOK
        <5>2. CASE l = k
          BY <2>1, <2>2, <5>2
        <5>3. CASE l # k
          BY <2>2, <5>1, <5>3
        <5> QED
          BY <5>2, <5>3, Zenon
      <4>3. sequenceNumber[n] \in Nat /\ (Recipient[n] \in Peers => sequences[Key(n)] \in Nat /\ sequences'[Key(n)] \in Nat)
        BY <4>1, Zenon DEF TypeOK
      <4> QED
        BY <1>1, <1>2, <2>2, <3>2, <4>1, <4>2, <4>3 DEF StampedInPast, Key
    <3> QED
      BY <3>1, <3>2, Zenon
  <2>5. ASSUME NEW n \in Msgs, NEW o \in Msgs PROVE Ordered(n, o)'
    <3>1. CASE n # m /\ o # m
      <4>1. Ordered(n, o)
        BY Zenon DEF SeqInv
      <4> QED
        BY <1>2, <2>2, <3>1, <4>1, Zenon DEF Ordered, Stamped, Key
    <3>2. \A q \in Msgs \ {m} : Stamped(q)' /\ Key(q) = k
              => /\ sequenceNumber'[q] <= sequences[k] /\ createdAt'[q] <= now
                 /\ sequenceNumber'[q] \in Nat /\ createdAt'[q] \in Nat
      BY <1>2, <2>2, Zenon DEF SeqInv, StampedInPast, Stamped, Key, TypeOK
    <3>3. \A q \in Msgs \ {m} : Stamped(q)' /\ Key(q) = k
              => /\ sequenceNumber'[q] < sequenceNumber'[m] /\ createdAt'[q] <= createdAt'[m]
                 /\ sequenceNumber'[q] # sequenceNumber'[m]
                 /\ ~(sequenceNumber'[m] < sequenceNumber'[q])
      BY <2>1, <2>2, <3>2
    <3>4. CASE n = m
      BY <3>3, <3>4, Zenon DEF Ordered, Key
    <3>5. CASE o = m
      BY <3>3, <3>5, Zenon DEF Ordered, Key
    <3> QED
      BY <3>1, <3>4, <3>5, Zenon
  <2> QED
    BY <2>3, <2>4, <2>5, Zenon DEF SeqInv
<1> QED
  BY <1>1, <1>3, <1>4, <1>5, Zenon DEF StampFirst

\* The counter invariant is inductive.
LEMMA SeqInvStep ==
    ASSUME TypeOK, TypeOK', SeqInv, [Next]_vars
    PROVE  SeqInv'
<1>1. ASSUME NEW h \in Handlers, NEW m \in Msgs, NEW i \in 0 .. Total[m] - 1,
             HandleStore(h, m, i)
      PROVE SeqInv'
  <2>1. /\ chunks' = [chunks EXCEPT ![m] = @ \cup {i}]
        /\ StampFirst(m)
        /\ now' = now /\ now \in Nat
    BY <1>1, Zenon DEF HandleStore, Store, TypeOK
  <2>2. \A n \in Msgs : Stored(n)' <=> Stored(n) \/ n = m
    BY <2>1, Zenon DEF Stored, TypeOK
  <2> QED
    BY <2>1, <2>2, StampStep, Zenon
<1>2. ASSUME NEW m \in Msgs, GCDelete(m) PROVE SeqInv'
  <2>1. /\ UNCHANGED <<sequences, issued, now>>
        /\ \A n \in Msgs \ {m} : /\ chunks'[n] = chunks[n]
                                   /\ createdAt'[n] = createdAt[n]
                                   /\ sequenceNumber'[n] = sequenceNumber[n]
        /\ chunks'[m] = {} /\ sequenceNumber'[m] = 0
    BY <1>2, Zenon DEF GCDelete, TypeOK
  <2>2. ASSUME NEW n \in Msgs PROVE StampedInPast(n)'
    <3>1. CASE n = m
      <4>1. ~Stored(m)' /\ sequenceNumber'[m] = 0 /\ ~(0 > 0)
        BY <2>1 DEF Stored
      <4> QED
        BY <3>1, <4>1, Zenon DEF StampedInPast
    <3>2. CASE n # m
      <4>1. StampedInPast(n) /\ (Stored(n)' <=> Stored(n))
        BY <2>1, <3>2, Zenon DEF SeqInv, Stored
      <4> QED
        BY <2>1, <3>2, <4>1, StampKept, Zenon
    <3> QED
      BY <3>1, <3>2, Zenon
  <2>3. ASSUME NEW n \in Msgs, NEW o \in Msgs PROVE Ordered(n, o)'
    <3>1. CASE n = m \/ o = m
      BY <2>1, <3>1, UnstampedIsOrdered, Zenon
    <3>2. CASE n # m /\ o # m
      <4>1. Ordered(n, o) /\ (Stored(n)' => Stored(n)) /\ (Stored(o)' => Stored(o))
        BY <2>1, <3>2, Zenon DEF SeqInv, Stored
      <4> QED
        BY <2>1, <3>2, <4>1, OrderKept, Zenon
    <3> QED
      BY <3>1, <3>2, Zenon
  <2> QED
    BY <2>1, <2>2, <2>3, Zenon DEF SeqInv, Bounded, Increasing
<1>3. ASSUME Restart PROVE SeqInv'
  <2>1. /\ UNCHANGED counter /\ ~(0 > 0)
        /\ \A n \in Msgs : ~Stored(n)' /\ sequenceNumber'[n] = 0
    BY <1>3 DEF Restart, Reopen, Stored
  <2>2. \A k \in Keys : Bounded(k)' /\ Increasing(k)'
    BY <2>1, Zenon DEF SeqInv, Bounded, Increasing
  <2>3. \A n \in Msgs : StampedInPast(n)'
    BY <2>1, Zenon DEF StampedInPast
  <2>4. \A n, o \in Msgs : Ordered(n, o)'
    BY <2>1, UnstampedIsOrdered, Zenon
  <2> QED
    BY <2>2, <2>3, <2>4, Zenon DEF SeqInv
<1>4. ASSUME Tick PROVE SeqInv'
  <2>1. UNCHANGED <<store, counter>> /\ now \in Nat /\ now' = now + 1
    BY <1>4, Zenon DEF Tick, TypeOK
  <2>2. \A m \in Msgs : createdAt[m] \in Nat /\ StampedInPast(m)
    BY Zenon DEF SeqInv, TypeOK
  <2>3. ASSUME NEW m \in Msgs PROVE StampedInPast(m)'
    <3>1. createdAt[m] <= now => createdAt[m] <= now'
      BY <2>1, <2>2
    <3> QED
      BY <2>1, <2>2, <3>1, Zenon DEF StampedInPast, Stored, Key
  <2> QED
    BY <2>1, <2>3, Zenon DEF SeqInv, Bounded, Increasing, Ordered, Stamped, Stored, Key
<1>5. ASSUME UNCHANGED <<store, counter, now>> PROVE SeqInv'
  BY <1>5, Zenon DEF SeqInv, Bounded, Increasing, StampedInPast, Ordered, Stamped, Stored, Key
<1> QED
  BY <1>1, <1>2, <1>3, <1>4, <1>5, Zenon
  DEF Next, vars, BeginSend, SetMessageOwner, ListPeerMessages, GetMessageMeta, AnswerPoll, GCBegin

\* The numbers a counter hands out increase strictly, across gc, failed
\* transactions and restarts of the relay.
THEOREM SequencesIncreaseAlways == Spec => []SequencesIncrease
<1>1. Init => SeqInv
  BY ConstantsAssumption DEF Init, SeqInv, Bounded, Increasing, StampedInPast, Ordered, Stamped, Stored
<1>2. TypeOK /\ TypeOK' /\ SeqInv /\ [Next]_vars => SeqInv'
  BY SeqInvStep, Zenon
<1>3. SeqInv => SequencesIncrease
  BY Zenon DEF SeqInv, Increasing, SequencesIncrease
<1> QED
  BY <1>1, <1>2, <1>3, TypeCorrect, PTL DEF Spec

\* The numbers of the stored messages of a counter are distinct and ordered
\* as their first chunks arrived.
THEOREM SequenceIsArrivalOrderAlways == Spec => []SequenceIsArrivalOrder
<1>1. Init => SeqInv
  BY ConstantsAssumption DEF Init, SeqInv, Bounded, Increasing, StampedInPast, Ordered, Stamped, Stored
<1>2. TypeOK /\ TypeOK' /\ SeqInv /\ [Next]_vars => SeqInv'
  BY SeqInvStep, Zenon
<1>3. SeqInv => SequenceIsArrivalOrder
  BY Zenon DEF SeqInv, Ordered, SequenceIsArrivalOrder
<1> QED
  BY <1>1, <1>2, <1>3, TypeCorrect, PTL DEF Spec
-----------------------------------------------------------------------------
(***************************************************************************)
(* The race between Store, SetMessageOwner and gc.  OwnedIsStored is not   *)
(* inductive: SetMessageOwner indexes a message whose buffer was seen one  *)
(* critical section ago.  TimeInv adds that such a message cannot have     *)
(* expired yet, because its client still sent it at most SendWindow after  *)
(* its first chunk and the request has been here at most HandlerDelay.     *)
(***************************************************************************)
Dated(m) ==
    /\ sentAt[m] # NotSent => sentAt[m] <= now
    /\ Stored(m) => sentAt[m] # NotSent /\ sentAt[m] <= createdAt[m] /\ createdAt[m] <= now
    /\ messageOwner[m] # NoPeer => Stored(m)

InTime(h) ==
    pc[h] = "own" => /\ Stored(request[h])
                     /\ since[h] - sentAt[request[h]] <= SendWindow
                     /\ now - since[h] <= HandlerDelay

Listing(h) ==
    /\ \A m \in todo[h] : sentAt[m] # NotSent /\ (Stored(m) \/ now - sentAt[m] > SendWindow)
    /\ \A m \in bare[h] : sentAt[m] # NotSent /\ ~Stored(m) /\ now - sentAt[m] > SendWindow

TimeInv ==
    /\ \A m \in Msgs : Dated(m)
    /\ \A h \in Handlers : InTime(h) /\ Listing(h)
    /\ \A m \in gcTodo : Expired(m)

LEMMA TimeConstants == TTL \in Nat /\ SendWindow \in Nat /\ HandlerDelay \in Nat
BY ConstantsAssumption, Zenon

\* What is past stays past.
LEMMA TickKeepsOrder ==
    ASSUME NEW t \in Nat, NEW a \in Int, a <= t
    PROVE  a <= t + 1
OBVIOUS

\* What is younger than w is at most w old one tick later.
LEMMA TickAgesByOne ==
    ASSUME NEW t \in Nat, NEW a \in Nat, NEW w \in Nat, t - a < w
    PROVE  (t + 1) - a <= w
OBVIOUS

\* What is older than w stays older than w.
LEMMA TickKeepsAge ==
    ASSUME NEW t \in Nat, NEW a \in Nat, NEW w \in Nat, t - a > w
    PROVE  (t + 1) - a > w
OBVIOUS

\* The message a request is about to index is not being collected.
LEMMA OwningNotExpired ==
    ASSUME TypeOK, TimeInv, NEW h \in Handlers, pc[h] = "own"
    PROVE  request[h] \in Msgs /\ request[h] \notin gcTodo
<1> DEFINE m == request[h]
<1>1. m \in Msgs
  BY Zenon DEF TypeOK
<1>2. /\ sentAt[m] \in Nat /\ createdAt[m] \in Nat /\ now \in Nat /\ since[h] \in Nat
      /\ sentAt[m] <= createdAt[m]
      /\ since[h] - sentAt[m] <= SendWindow
      /\ now - since[h] <= HandlerDelay
  BY <1>1, Zenon DEF TypeOK, TimeInv, Dated, InTime
<1>3. ~(now - createdAt[m] > TTL)
  BY <1>2, TimingAssumption, ConstantsAssumption
<1> QED
  BY <1>1, <1>3, Zenon DEF TimeInv, Expired

\* A message that has expired is past its sending window.
LEMMA ExpiredNotSent ==
    ASSUME TypeOK, TimeInv, NEW m \in Msgs, Expired(m)
    PROVE  sentAt[m] # NotSent /\ now - sentAt[m] > SendWindow
<1>1. /\ sentAt[m] \in Nat /\ createdAt[m] \in Nat /\ now \in Nat
      /\ sentAt[m] # NotSent
      /\ sentAt[m] <= createdAt[m]
      /\ now - createdAt[m] > TTL
  BY Zenon DEF TypeOK, TimeInv, Dated, Expired
<1> QED
  BY <1>1, TimingAssumption, ConstantsAssumption

\* The timing invariant is inductive.
LEMMA TimeInvStep ==
    ASSUME TypeOK, TypeOK', TimeInv, [Next]_vars
    PROVE  TimeInv'
<1> USE TimeConstants
<1>1. ASSUME NEW m \in Msgs, BeginSend(m) PROVE TimeInv'
  <2>1. /\ UNCHANGED <<store, index, gcTodo, now, handler>>
        /\ sentAt[m] = NotSent /\ ~Stored(m)
        /\ \A n \in Msgs : n # m => sentAt'[n] = sentAt[n]
        /\ sentAt'[m] = now
    BY <1>1, Zenon DEF BeginSend, TimeInv, Dated, TypeOK
  <2>2. ASSUME NEW n \in Msgs PROVE Dated(n)'
    <3>1. now \in Nat /\ Dated(n)
      BY Zenon DEF TimeInv, TypeOK
    <3>2. CASE n = m
      BY <2>1, <3>1, <3>2 DEF Dated, Stored
    <3>3. CASE n # m
      BY <2>1, <3>1, <3>3, Zenon DEF Dated, Stored
    <3> QED
      BY <3>2, <3>3, Zenon
  <2>3. \A h \in Handlers : InTime(h)'
    BY <2>1, Zenon DEF TimeInv, InTime, Stored, TypeOK
  <2>4. \A h \in Handlers : Listing(h)'
    BY <2>1, Zenon DEF TimeInv, Listing, Stored, TypeOK
  <2> QED
    BY <2>1, <2>2, <2>3, <2>4, Zenon DEF TimeInv, Expired, Stored
<1>2. ASSUME NEW h \in Handlers, NEW m \in Msgs, NEW i \in 0 .. Total[m] - 1,
             HandleStore(h, m, i)
      PROVE TimeInv'
  <2>1. /\ gcTodo = {} /\ sentAt[m] # NotSent /\ now - sentAt[m] <= SendWindow
        /\ chunks' = [chunks EXCEPT ![m] = @ \cup {i}]
        /\ StampFirst(m)
        /\ UNCHANGED <<index, gcTodo, now, sentAt, todo, bare>>
    BY <1>2, Zenon DEF HandleStore, MuFree, Store
  <2>0. /\ chunks \in [Msgs -> SUBSET Nat] /\ createdAt \in [Msgs -> Nat]
        /\ pc \in [Handlers -> {"idle", "own", "poll"}] /\ since \in [Handlers -> Nat]
        /\ request \in [Handlers -> Msgs \cup {NoMsg}]
    BY Zenon DEF TypeOK
  <2>2. /\ \A n \in Msgs : Stored(n)' <=> Stored(n) \/ n = m
        /\ \A n \in Msgs \ {m} : createdAt'[n] = createdAt[n]
        /\ createdAt'[m] = IF Stored(m) THEN createdAt[m] ELSE now
    <3>1. CASE Stored(m)
      BY <2>0, <2>1, <3>1, Zenon DEF StampFirst, Stored
    <3>2. CASE ~Stored(m)
      BY <2>0, <2>1, <3>2, Zenon DEF StampFirst, Stored
    <3> QED
      BY <3>1, <3>2, Zenon
  <2>3. sentAt[m] \in Nat /\ sentAt[m] <= now /\ now \in Nat
    BY <2>1, Zenon DEF TimeInv, Dated, TypeOK
  <2>4. \A n \in Msgs : Dated(n)'
    BY <2>1, <2>2, <2>3 DEF TimeInv, Dated
  <2>5. ASSUME NEW g \in Handlers PROVE InTime(g)'
    <3>1. CASE pc'[g] = pc[g] /\ request'[g] = request[g] /\ since'[g] = since[g]
      <4>1. pc[g] = "own" => chunks'[request[g]] # {}
        BY <2>2, Zenon DEF TimeInv, InTime, Stored, TypeOK
      <4> QED
        BY <3>1, <2>1, <4>1, Zenon DEF TimeInv, InTime, Stored
    <3>2. CASE request'[g] = m /\ since'[g] = now
      <4>1. Stored(m)' /\ now' = now /\ sentAt' = sentAt
        BY <2>1, <2>2, Zenon
      <4>2. now - now <= HandlerDelay
        BY <2>3, ConstantsAssumption
      <4> QED
        BY <3>2, <2>1, <4>1, <4>2, Zenon DEF InTime, Stored
    <3>3. CASE UNCHANGED handler
      BY <3>3, <3>1, Zenon
    <3>4. CASE /\ pc' = [pc EXCEPT ![h] = "own"]
               /\ request' = [request EXCEPT ![h] = m]
               /\ since' = [since EXCEPT ![h] = now]
      <4>1. g = h => request'[g] = m /\ since'[g] = now
        BY <2>0, <3>4, Zenon
      <4>2. g # h => pc'[g] = pc[g] /\ request'[g] = request[g] /\ since'[g] = since[g]
        BY <2>0, <3>4, Zenon
      <4> QED
        BY <4>1, <4>2, <3>1, <3>2, Zenon
    <3> QED
      BY <1>2, <3>3, <3>4, Zenon DEF HandleStore
  <2>6. ASSUME NEW g \in Handlers PROVE Listing(g)'
    <3>1. Listing(g) /\ todo[g] \subseteq Msgs /\ bare[g] \subseteq Msgs
      BY Zenon DEF TimeInv, TypeOK
    <3>2. \A n \in todo[g] : sentAt[n] # NotSent /\ (Stored(n)' \/ now - sentAt[n] > SendWindow)
      BY <2>2, <3>1, Zenon DEF Listing
    <3>3. m \notin bare[g]
      BY <2>1, <2>3, <3>1, ConstantsAssumption DEF Listing
    <3>4. \A n \in bare[g] : sentAt[n] # NotSent /\ ~Stored(n)' /\ now - sentAt[n] > SendWindow
      BY <2>2, <3>1, <3>3, Zenon DEF Listing
    <3> QED
      BY <2>1, <3>2, <3>4, Zenon DEF Listing
  <2> QED
    BY <2>1, <2>4, <2>5, <2>6, Zenon DEF TimeInv
<1>3. ASSUME NEW h \in Handlers, SetMessageOwner(h) PROVE TimeInv'
  <2>1. request[h] \in Msgs /\ Stored(request[h])
    BY <1>3, OwningNotExpired, Zenon DEF SetMessageOwner, TimeInv, InTime
  <2>2. UNCHANGED <<store, gcTodo, now, sentAt, todo, bare>>
    BY <1>3, Zenon DEF SetMessageOwner
  <2>3. \A n \in Msgs : Dated(n)'
    <3>1. CASE UNCHANGED index
      BY <3>1, <2>2, Zenon DEF TimeInv, Dated, Stored
    <3>2. CASE messageOwner' = [messageOwner EXCEPT ![request[h]] = Recipient[request[h]]]
      BY <3>2, <2>1, <2>2, Zenon DEF TimeInv, Dated, Stored, TypeOK
    <3> QED
      BY <1>3, <3>1, <3>2, Zenon DEF SetMessageOwner, Index
  <2>4. \A g \in Handlers : pc'[g] = "own" =>
            g # h /\ pc[g] = "own" /\ request'[g] = request[g] /\ since'[g] = since[g]
    BY <1>3, ZenonT(30) DEF SetMessageOwner, TypeOK
  <2>5. \A g \in Handlers : InTime(g)' /\ Listing(g)'
    BY <2>2, <2>4 DEF TimeInv, InTime, Listing, Stored
  <2> QED
    BY <2>2, <2>3, <2>5, Zenon DEF TimeInv, Stored, Expired
<1>4. ASSUME NEW h \in Handlers, NEW p \in Peers, ListPeerMessages(h, p) PROVE TimeInv'
  <2>1. UNCHANGED <<store, index, gcTodo, now, sentAt, request, since, bare>>
    BY <1>4, Zenon DEF ListPeerMessages
  <2>2. \A g \in Handlers : InTime(g)'
    BY <1>4, <2>1, Zenon DEF ListPeerMessages, TimeInv, InTime, Stored, TypeOK
  <2>3. \A g \in Handlers : \A n \in todo'[g] : n \in todo[g] \/ (n \in Msgs /\ messageOwner[n] = p)
    BY <1>4, Zenon DEF ListPeerMessages, Owned, TypeOK
  <2>4. ASSUME NEW g \in Handlers PROVE Listing(g)'
    <3>1. \A n \in Msgs : messageOwner[n] = p => sentAt[n] # NotSent /\ Stored(n)
      <4>1. p # NoPeer
        BY ConstantsAssumption, Zenon
      <4> QED
        BY <4>1, Zenon DEF TimeInv, Dated
    <3>2. Listing(g)
      BY Zenon DEF TimeInv
    <3> QED
      BY <2>1, <2>3, <3>1, <3>2, Zenon DEF Listing, Stored
  <2>5. \A n \in Msgs : Dated(n)'
    BY <2>1, Zenon DEF TimeInv, Dated, Stored
  <2>6. \A n \in gcTodo' : Expired(n)'
    BY <2>1, Zenon DEF TimeInv, Expired, Stored
  <2> QED
    BY <2>2, <2>4, <2>5, <2>6, Zenon DEF TimeInv
<1>5. ASSUME NEW h \in Handlers, NEW m \in Msgs, GetMessageMeta(h, m) PROVE TimeInv'
  <2>1. UNCHANGED <<store, index, gcTodo, now, sentAt, pc, request, since>>
    BY <1>5, Zenon DEF GetMessageMeta
  <2>2. \A g \in Handlers : InTime(g)'
    BY <2>1, ZenonT(30) DEF TimeInv, InTime, Stored
  <2>3. \A g \in Handlers : Listing(g)'
    <3>1. /\ m \in todo[h]
          /\ todo \in [Handlers -> SUBSET Msgs] /\ bare \in [Handlers -> SUBSET Msgs]
          /\ todo' = [todo EXCEPT ![h] = @ \ {m}]
          /\ bare' = IF Stored(m) THEN bare ELSE [bare EXCEPT ![h] = @ \cup {m}]
      BY <1>5, Zenon DEF GetMessageMeta, MetaFound, TypeOK
    <3>2. \A n \in Msgs : Stored(n)' <=> Stored(n)
      BY <2>1, Zenon DEF Stored
    <3>3. UNCHANGED <<now, sentAt>> /\ \A g \in Handlers : Listing(g)
      BY <2>1, Zenon DEF TimeInv
    <3> QED
      BY <3>1, <3>2, <3>3, SMT DEF Listing
  <2>4. \A n \in Msgs : Dated(n)'
    BY <2>1, Zenon DEF TimeInv, Dated, Stored
  <2>5. \A n \in gcTodo' : Expired(n)'
    BY <2>1, Zenon DEF TimeInv, Expired, Stored
  <2> QED
    BY <2>2, <2>3, <2>4, <2>5, Zenon DEF TimeInv
<1>6. ASSUME NEW h \in Handlers, AnswerPoll(h) PROVE TimeInv'
  BY <1>6, ZenonT(30) DEF AnswerPoll, TimeInv, Dated, InTime, Listing, TypeOK, Stored, Expired
<1>7. ASSUME GCBegin PROVE TimeInv'
  BY <1>7, Zenon DEF GCBegin, TimeInv, Dated, InTime, Listing, Stored, Expired
<1>8. ASSUME NEW m \in Msgs, GCDelete(m) PROVE TimeInv'
  <2>1. /\ m \in gcTodo /\ Expired(m) /\ gcTodo' = gcTodo \ {m}
        /\ UNCHANGED <<now, sentAt, pc, request, since, todo, bare>>
    BY <1>8, Zenon DEF GCDelete, TimeInv
  <2>2. /\ \A n \in Msgs : Stored(n)' <=> Stored(n) /\ n # m
        /\ \A n \in Msgs \ {m} : createdAt'[n] = createdAt[n]
    BY <1>8, Zenon DEF GCDelete, Stored, TypeOK
  <2>3. \A h \in Handlers : pc[h] = "own" => request[h] \in Msgs \ {m}
    BY <2>1, OwningNotExpired, Zenon
  <2>4. sentAt[m] # NotSent /\ now - sentAt[m] > SendWindow
    BY <2>1, ExpiredNotSent, Zenon
  <2>5. \A n \in Msgs : Dated(n)'
    <3>1. messageOwner'[m] = NoPeer /\ \A n \in Msgs \ {m} : messageOwner'[n] = messageOwner[n]
      <4>1. CASE messageOwner[m] = NoPeer
        BY <1>8, <4>1, Zenon DEF GCDelete, Unindex
      <4>2. CASE messageOwner' = [messageOwner EXCEPT ![m] = NoPeer]
        BY <4>2, Zenon DEF TypeOK
      <4> QED
        BY <1>8, <4>1, <4>2, Zenon DEF GCDelete, Unindex
    <3> QED
      BY <2>1, <2>2, <3>1, Zenon DEF TimeInv, Dated
  <2>6. \A n \in gcTodo' : Expired(n)'
    BY <2>1, <2>2, Zenon DEF TimeInv, Expired, TypeOK
  <2>7. \A h \in Handlers : InTime(h)'
    BY <2>1, <2>2, <2>3, Zenon DEF TimeInv, InTime, Stored
  <2>8. \A h \in Handlers : Listing(h)'
    BY <2>1, <2>2, <2>4, Zenon DEF TimeInv, Listing, TypeOK
  <2> QED
    BY <2>5, <2>6, <2>7, <2>8, Zenon DEF TimeInv
<1>9. ASSUME Restart PROVE TimeInv'
  BY <1>9, Zenon DEF Restart, TimeInv, Dated, InTime, Listing, TypeOK, Stored
<1>10. ASSUME Tick PROVE TimeInv'
  <2>1. /\ now' = now + 1 /\ now \in Nat
        /\ \A h \in Handlers : pc[h] = "own" => now - since[h] < HandlerDelay
        /\ UNCHANGED <<store, index, gcTodo, sentAt, handler>>
    BY <1>10, Zenon DEF Tick, TypeOK
  <2>2. \A m \in Msgs : sentAt[m] \in Nat \cup {NotSent} /\ createdAt[m] \in Nat
    BY Zenon DEF TypeOK
  <2>3. \A m \in Msgs : Dated(m)'
    <3> SUFFICES ASSUME NEW m \in Msgs PROVE Dated(m)'
      BY Zenon
    <3>1. Dated(m) /\ sentAt[m] \in Int /\ createdAt[m] \in Int
      BY <2>2 DEF TimeInv, NotSent
    <3>2. /\ sentAt[m] <= now => sentAt[m] <= now'
          /\ createdAt[m] <= now => createdAt[m] <= now'
      BY <2>1, <3>1, TickKeepsOrder, Zenon
    <3> QED
      BY <2>1, <3>1, <3>2, Zenon DEF Dated, Stored
  <2>4. ASSUME NEW h \in Handlers PROVE InTime(h)'
    <3>1. since[h] \in Nat /\ InTime(h)
      BY Zenon DEF TimeInv, TypeOK
    <3>2. pc[h] = "own" => now' - since[h] <= HandlerDelay
      BY <2>1, <3>1, TickAgesByOne, Zenon
    <3> QED
      BY <2>1, <3>1, <3>2, Zenon DEF InTime, Stored
  <2>5. ASSUME NEW h \in Handlers PROVE Listing(h)'
    <3>1. Listing(h) /\ todo[h] \subseteq Msgs /\ bare[h] \subseteq Msgs
      BY Zenon DEF TimeInv, TypeOK
    <3>2. \A m \in Msgs : sentAt[m] # NotSent /\ now - sentAt[m] > SendWindow
                              => now' - sentAt[m] > SendWindow
      <4> SUFFICES ASSUME NEW m \in Msgs, sentAt[m] # NotSent, now - sentAt[m] > SendWindow
                   PROVE  now' - sentAt[m] > SendWindow
        BY Zenon
      <4>1. sentAt[m] \in Nat /\ SendWindow \in Nat
        BY <2>2, ConstantsAssumption, Zenon
      <4> QED
        BY <2>1, <4>1, TickKeepsAge, Zenon
    <3>3. \A m \in todo[h] : sentAt[m] # NotSent /\ (Stored(m) \/ now' - sentAt[m] > SendWindow)
      BY <3>1, <3>2, Zenon DEF Listing
    <3>4. \A m \in bare[h] : sentAt[m] # NotSent /\ ~Stored(m) /\ now' - sentAt[m] > SendWindow
      BY <3>1, <3>2, Zenon DEF Listing
    <3> QED
      BY <2>1, <3>3, <3>4, Zenon DEF Listing, Stored
  <2>6. ASSUME NEW m \in gcTodo PROVE Expired(m)'
    <3>1. Expired(m) /\ createdAt[m] \in Nat
      BY <2>2, Zenon DEF TimeInv, TypeOK
    <3>2. now' - createdAt[m] > TTL
      BY <2>1, <3>1, TickKeepsAge, Zenon DEF Expired
    <3> QED
      BY <2>1, <3>1, <3>2, Zenon DEF Expired, Stored
  <2> QED
    BY <2>1, <2>3, <2>4, <2>5, <2>6, Zenon DEF TimeInv
<1>11. CASE UNCHANGED vars
  BY <1>11, Zenon DEF vars, TimeInv, Dated, InTime, Listing, Stored, Expired
<1> QED
  BY <1>1, <1>2, <1>3, <1>4, <1>5, <1>6, <1>7, <1>8, <1>9, <1>10, <1>11, Zenon DEF Next

\* The index never lists a message that has no buffer, whatever the
\* interleaving of requests, gc and restarts.
THEOREM OwnedIsStoredAlways == Spec => []OwnedIsStored
<1>1. Init => TimeInv
  BY Zenon DEF Init, TimeInv, Dated, InTime, Listing, Stored
<1>2. TypeOK /\ TypeOK' /\ TimeInv /\ [Next]_vars => TimeInv'
  BY TimeInvStep, Zenon
<1>3. TimeInv => OwnedIsStored
  BY Zenon DEF TimeInv, Dated, OwnedIsStored
<1> QED
  BY <1>1, <1>2, <1>3, TypeCorrect, PTL DEF Spec

\* A POLL answers without metadata only what has been collected meanwhile.
THEOREM BareIsCollectedAlways == Spec => []BareIsCollected
<1>1. Init => TimeInv
  BY Zenon DEF Init, TimeInv, Dated, InTime, Listing, Stored
<1>2. TypeOK /\ TypeOK' /\ TimeInv /\ [Next]_vars => TimeInv'
  BY TimeInvStep, Zenon
<1>3. TypeOK /\ TimeInv => BareIsCollected
  BY Zenon DEF TypeOK, TimeInv, Dated, Listing, BareIsCollected
<1> QED
  BY <1>1, <1>2, <1>3, TypeCorrect, PTL DEF Spec
=============================================================================
