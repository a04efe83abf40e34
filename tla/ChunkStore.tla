----------------------------- MODULE ChunkStore -----------------------------
(***************************************************************************)
(* The relay's in-memory chunk store (internal/store/store.go), its        *)
(* persistent sequence counter (internal/store/sequence.go) and the part   *)
(* of the DNS handler (internal/relay/server.go) that calls them.          *)
(*                                                                         *)
(* Every DNS request runs in a goroutine of its own (a Handler).  The two  *)
(* locks of the store are mu (messages) and peerMu (messageOwner,          *)
(* peerMessages); each critical section is one action, so everything that  *)
(* can happen between two critical sections of one request is explored:    *)
(* Store and SetMessageOwner are two steps, POLL reads the owner index in  *)
(* one step and the metadata of each message in a step of its own, and gc  *)
(* holds mu for its whole run but takes peerMu once per message.           *)
(*                                                                         *)
(* A messageBuf is spread over one variable per field.  A buffer exists    *)
(* iff it has a chunk; a missing entry of a Go map is NoPeer or 0.         *)
(***************************************************************************)
EXTENDS Integers, FiniteSets, Sequences

CONSTANTS
    Msgs,          \* message ids
    Peers,         \* recipient hashes
    NoPeer,        \* "the chunk carries no recipient hash" / "no owner"
    NoMsg,         \* the request of a handler that is not between two sections
    Keys,          \* keys of the sequence counter
    Handlers,      \* request goroutines
    Recipient,     \* Msgs -> Peers or NoPeer: the hash every chunk of a message carries
    Total,         \* Msgs -> the number of chunks of a message
    PeerIDFromPubkey, \* Peers -> Keys: the first 8 bytes of the hash; need not be injective
    TTL,           \* age after which a buffer expires (7 days in relayd)
    SendWindow,    \* how long after its first chunk a client still sends a message (10 s)
    HandlerDelay,  \* how long a request may stay between Store and SetMessageOwner
    MaxNow,        \* bound on the clock
    MaxSeq         \* bound on the numbers one counter hands out

ASSUME ConstantsAssumption ==
    /\ IsFiniteSet(Msgs)
    /\ NoPeer \notin Peers
    /\ NoMsg \notin Msgs
    /\ Recipient \in [Msgs -> Peers \cup {NoPeer}]
    /\ Total \in [Msgs -> Nat \ {0}]
    /\ PeerIDFromPubkey \in [Peers -> Keys]
    /\ TTL \in Nat /\ SendWindow \in Nat /\ HandlerDelay \in Nat
    /\ MaxNow \in Nat /\ MaxSeq \in Nat

\* A sender gives up on a message (10 s deadline) and a request leaves its
\* handler long before the buffer the request touched can expire (7 days).
ASSUME TimingAssumption == SendWindow + HandlerDelay <= TTL

VARIABLES
    chunks,          \* [Msgs -> indexes of the chunks stored]
    createdAt,       \* [Msgs -> time of the first chunk]
    sequenceNumber,  \* [Msgs -> number stamped at the first chunk, 0 = none]
    messageOwner,    \* [Msgs -> recipient hash the index lists the message under]
    peerMessages,    \* [Peers -> number of messages counted for the peer]
    sequences,       \* [Keys -> last number handed out]: on disk, survives restarts
    gcTodo,          \* expired ids the running gc has still to delete; mu is held iff not empty
    now,             \* the clock
    sentAt,          \* [Msgs -> when the client began to send it, or NotSent]
    pc,              \* [Handlers -> "idle", "own" (after Store) or "poll" (after listing)]
    request,         \* [Handlers -> message of an "own" handler]
    since,           \* [Handlers -> time of Store of an "own" handler]
    todo,            \* [Handlers -> listed ids whose metadata a POLL has still to read]
    bare,            \* [Handlers -> ids a POLL answers without metadata]
    issued           \* history: [Keys -> the numbers stamped on buffers, in order]

store == <<chunks, createdAt, sequenceNumber>>
index == <<messageOwner, peerMessages>>
counter == <<sequences, issued>>
handler == <<pc, request, since, todo, bare>>
vars == <<store, index, counter, gcTodo, now, sentAt, handler>>

-----------------------------------------------------------------------------
NotSent == -1

Stored(m) == chunks[m] # {}

Owned(p) == {m \in Msgs : messageOwner[m] = p}

MuFree == gcTodo = {}

Key(m) == PeerIDFromPubkey[Recipient[m]]

\* Mutant: a buffer expires one tick early.
Expired_Early(m) == Stored(m) /\ now - createdAt[m] >= TTL

Expired(m) == Stored(m) /\ now - createdAt[m] > TTL

Init ==
    /\ chunks = [m \in Msgs |-> {}]
    /\ createdAt = [m \in Msgs |-> 0]
    /\ sequenceNumber = [m \in Msgs |-> 0]
    /\ messageOwner = [m \in Msgs |-> NoPeer]
    /\ peerMessages = [p \in Peers |-> 0]
    /\ sequences = [k \in Keys |-> 0]
    /\ issued = [k \in Keys |-> <<>>]
    /\ gcTodo = {}
    /\ now = 0
    /\ sentAt = [m \in Msgs |-> NotSent]
    /\ pc = [h \in Handlers |-> "idle"]
    /\ request = [h \in Handlers |-> NoMsg]
    /\ since = [h \in Handlers |-> 0]
    /\ todo = [h \in Handlers |-> {}]
    /\ bare = [h \in Handlers |-> {}]

-----------------------------------------------------------------------------
\* A client starts to send m.
BeginSend(m) ==
    /\ sentAt[m] = NotSent
    /\ sentAt' = [sentAt EXCEPT ![m] = now]
    /\ UNCHANGED <<store, index, counter, gcTodo, now, handler>>

\* SequenceCounter.Next: one transaction of the database, committed before it returns.
NextSeq(k) ==
    /\ sequences[k] < MaxSeq
    /\ sequences' = [sequences EXCEPT ![k] = @ + 1]
    /\ issued' = [issued EXCEPT ![k] = Append(@, sequences[k] + 1)]

\* Mutant: every chunk of a message stamps its buffer again.
StampFirst_EveryChunk(m) ==
    /\ createdAt' = IF Stored(m) THEN createdAt ELSE [createdAt EXCEPT ![m] = now]
    /\ \/ /\ Recipient[m] # NoPeer
          /\ NextSeq(Key(m))
          /\ sequenceNumber' = [sequenceNumber EXCEPT ![m] = sequences[Key(m)] + 1]
       \/ UNCHANGED <<counter, sequenceNumber>>

\* What Store does beside adding the chunk: only the first chunk creates the
\* buffer and stamps it, if it names a recipient.  A failed transaction, or a
\* relay without a counter, leaves the number 0.
StampFirst(m) ==
    \/ /\ Stored(m)
       /\ UNCHANGED <<createdAt, sequenceNumber, counter>>
    \/ /\ ~Stored(m)
       /\ createdAt' = [createdAt EXCEPT ![m] = now]
       /\ \/ /\ Recipient[m] # NoPeer
             /\ NextSeq(Key(m))
             /\ sequenceNumber' = [sequenceNumber EXCEPT ![m] = sequences[Key(m)] + 1]
          \/ UNCHANGED <<counter, sequenceNumber>>

\* ChunkStore.Store of chunk i of m.
Store(m, i) ==
    /\ StampFirst(m)
    /\ chunks' = [chunks EXCEPT ![m] = @ \cup {i}]

\* Mutant: only the last chunk of a message registers its owner.
HandleStore_LastOwns(h, m, i) ==
    /\ pc[h] = "idle"
    /\ sentAt[m] # NotSent
    /\ now - sentAt[m] <= SendWindow
    /\ MuFree
    /\ Store(m, i)
    /\ IF Recipient[m] = NoPeer \/ i + 1 < Total[m]
       THEN UNCHANGED handler
       ELSE /\ pc' = [pc EXCEPT ![h] = "own"]
            /\ request' = [request EXCEPT ![h] = m]
            /\ since' = [since EXCEPT ![h] = now]
            /\ UNCHANGED <<todo, bare>>
    /\ UNCHANGED <<index, gcTodo, now, sentAt>>

\* The store branch of the handler, up to the return of Store.  A chunk
\* without a recipient hash is acknowledged at once.
HandleStore(h, m, i) ==
    /\ pc[h] = "idle"
    /\ sentAt[m] # NotSent
    /\ now - sentAt[m] <= SendWindow
    /\ MuFree
    /\ Store(m, i)
    /\ IF Recipient[m] = NoPeer
       THEN UNCHANGED handler
       ELSE /\ pc' = [pc EXCEPT ![h] = "own"]
            /\ request' = [request EXCEPT ![h] = m]
            /\ since' = [since EXCEPT ![h] = now]
            /\ UNCHANGED <<todo, bare>>
    /\ UNCHANGED <<index, gcTodo, now, sentAt>>

\* ChunkStore.SetMessageOwner: the first call for m wins.
Index(m, p) ==
    IF messageOwner[m] = NoPeer
    THEN /\ messageOwner' = [messageOwner EXCEPT ![m] = p]
         /\ peerMessages' = [peerMessages EXCEPT ![p] = @ + 1]
    ELSE UNCHANGED index

\* The call of it, after which the handler acknowledges the chunk.
SetMessageOwner(h) ==
    /\ pc[h] = "own"
    /\ Index(request[h], Recipient[request[h]])
    /\ pc' = [pc EXCEPT ![h] = "idle"]
    /\ request' = [request EXCEPT ![h] = NoMsg]
    /\ since' = [since EXCEPT ![h] = 0]
    /\ UNCHANGED <<store, counter, gcTodo, now, sentAt, todo, bare>>

-----------------------------------------------------------------------------
\* The POLL branch: ListPeerMessages under peerMu ...
ListPeerMessages(h, p) ==
    /\ pc[h] = "idle"
    /\ pc' = [pc EXCEPT ![h] = "poll"]
    /\ todo' = [todo EXCEPT ![h] = Owned(p)]
    /\ UNCHANGED <<store, index, counter, gcTodo, now, sentAt, request, since, bare>>

\* ... then GetMessageMeta of each listed id under mu: a record with metadata
\* if the buffer is there, the bare id otherwise ...
MetaFound(m) == Stored(m)

GetMessageMeta(h, m) ==
    /\ pc[h] = "poll"
    /\ m \in todo[h]
    /\ MuFree
    /\ todo' = [todo EXCEPT ![h] = @ \ {m}]
    /\ bare' = IF MetaFound(m) THEN bare ELSE [bare EXCEPT ![h] = @ \cup {m}]
    /\ UNCHANGED <<store, index, counter, gcTodo, now, sentAt, pc, request, since>>

\* ... and the answer.
AnswerPoll(h) ==
    /\ pc[h] = "poll"
    /\ todo[h] = {}
    /\ pc' = [pc EXCEPT ![h] = "idle"]
    /\ bare' = [bare EXCEPT ![h] = {}]
    /\ UNCHANGED <<store, index, counter, gcTodo, now, sentAt, request, since, todo>>

-----------------------------------------------------------------------------
\* gc takes mu and reads the clock once; the ids it will delete are fixed then.
GCBegin ==
    /\ MuFree
    /\ gcTodo' = {m \in Msgs : Expired(m)}
    /\ gcTodo' # {}
    /\ UNCHANGED <<store, index, counter, now, sentAt, handler>>

\* Mutant: the owner entry outlives the buffer.
Unindex_Nothing(m) == UNCHANGED index

\* The owner of a deleted message is forgotten and the owner's count goes
\* down; a count that would reach zero is deleted.
Unindex(m) ==
    IF messageOwner[m] # NoPeer
    THEN /\ peerMessages' = [peerMessages EXCEPT ![messageOwner[m]] =
                                 IF @ - 1 <= 0 THEN 0 ELSE @ - 1]
         /\ messageOwner' = [messageOwner EXCEPT ![m] = NoPeer]
    ELSE UNCHANGED index

\* One iteration: the buffer, then under peerMu its owner.
GCDelete(m) ==
    /\ m \in gcTodo
    /\ chunks' = [chunks EXCEPT ![m] = {}]
    /\ createdAt' = [createdAt EXCEPT ![m] = 0]
    /\ sequenceNumber' = [sequenceNumber EXCEPT ![m] = 0]
    /\ Unindex(m)
    /\ gcTodo' = gcTodo \ {m}
    /\ UNCHANGED <<counter, now, sentAt, handler>>

\* NewSequenceCounter opens the database it finds.
Reopen == UNCHANGED counter

\* The relay process dies and starts again: only the sequence database is on disk.
Restart ==
    /\ chunks' = [m \in Msgs |-> {}]
    /\ createdAt' = [m \in Msgs |-> 0]
    /\ sequenceNumber' = [m \in Msgs |-> 0]
    /\ messageOwner' = [m \in Msgs |-> NoPeer]
    /\ peerMessages' = [p \in Peers |-> 0]
    /\ Reopen
    /\ gcTodo' = {}
    /\ pc' = [h \in Handlers |-> "idle"]
    /\ request' = [h \in Handlers |-> NoMsg]
    /\ since' = [h \in Handlers |-> 0]
    /\ todo' = [h \in Handlers |-> {}]
    /\ bare' = [h \in Handlers |-> {}]
    /\ UNCHANGED <<now, sentAt>>

\* Time passes, but a request does not stay in its handler for ever.
Tick ==
    /\ now < MaxNow
    /\ \A h \in Handlers : pc[h] = "own" => now - since[h] < HandlerDelay
    /\ now' = now + 1
    /\ UNCHANGED <<store, index, counter, gcTodo, sentAt, handler>>

Next ==
    \/ \E m \in Msgs : BeginSend(m)
    \/ \E h \in Handlers, m \in Msgs : \E i \in 0 .. Total[m] - 1 : HandleStore(h, m, i)
    \/ \E h \in Handlers : SetMessageOwner(h)
    \/ \E h \in Handlers, p \in Peers : ListPeerMessages(h, p)
    \/ \E h \in Handlers, m \in Msgs : GetMessageMeta(h, m)
    \/ \E h \in Handlers : AnswerPoll(h)
    \/ GCBegin
    \/ \E m \in Msgs : GCDelete(m)
    \/ Restart
    \/ Tick

Spec == Init /\ [][Next]_vars

\* The gc loop runs every gcInterval for the life of the relay, and a request
\* that stored a chunk goes on to SetMessageOwner without waiting for anything.
FairSpec ==
    /\ Spec
    /\ WF_vars(GCBegin)
    /\ \A m \in Msgs : WF_vars(GCDelete(m))
    /\ \A h \in Handlers : WF_vars(SetMessageOwner(h))

-----------------------------------------------------------------------------
\* The state has its shape: buffers hold chunk indexes of their message, and
\* a request that waits to register an owner has one to register.
TypeOK ==
    /\ chunks \in [Msgs -> SUBSET Nat]
    /\ \A m \in Msgs : chunks[m] \subseteq 0 .. Total[m] - 1
    /\ createdAt \in [Msgs -> Nat]
    /\ sequenceNumber \in [Msgs -> Nat]
    /\ messageOwner \in [Msgs -> Peers \cup {NoPeer}]
    /\ peerMessages \in [Peers -> Nat]
    /\ sequences \in [Keys -> Nat]
    /\ issued \in [Keys -> Seq(Nat)]
    /\ gcTodo \subseteq Msgs
    /\ now \in Nat
    /\ sentAt \in [Msgs -> Nat \cup {NotSent}]
    /\ pc \in [Handlers -> {"idle", "own", "poll"}]
    /\ request \in [Handlers -> Msgs \cup {NoMsg}]
    /\ since \in [Handlers -> Nat]
    /\ todo \in [Handlers -> SUBSET Msgs]
    /\ bare \in [Handlers -> SUBSET Msgs]
    /\ \A h \in Handlers : pc[h] = "own" => request[h] \in Msgs /\ Recipient[request[h]] \in Peers

\* peerMessages, maintained by SetMessageOwner and gc beside messageOwner, is
\* the number of messages the index lists for the peer, and the index lists a
\* message only under the recipient its chunks name.
CountsMatchOwners ==
    /\ \A p \in Peers : peerMessages[p] = Cardinality(Owned(p))
    /\ \A m \in Msgs : messageOwner[m] \in {NoPeer, Recipient[m]}

\* No message is listed by POLL whose buffer is gone: SetMessageOwner runs
\* after Store released mu, and gc in between would leave an entry that no
\* later gc removes, because gc iterates over the buffers.
OwnedIsStored == \A m \in Msgs : messageOwner[m] # NoPeer => Stored(m)

\* Next never hands out a number twice and never goes back, whatever is
\* collected, re-created, rolled back or restarted in between.
SequencesIncrease ==
    \A k \in Keys : \A i, j \in DOMAIN issued[k] : i < j => issued[k][i] < issued[k][j]

Stamped(m) == Stored(m) /\ sequenceNumber[m] > 0

\* Two stored messages that share a counter never share a number, and the
\* order of their numbers is the order in which their first chunks arrived.
SequenceIsArrivalOrder ==
    \A m, n \in Msgs :
        m # n /\ Stamped(m) /\ Stamped(n) /\ Key(m) = Key(n)
        => /\ sequenceNumber[m] # sequenceNumber[n]
           /\ sequenceNumber[m] < sequenceNumber[n] => createdAt[m] <= createdAt[n]

\* An id that a POLL answers without metadata is of a message that has been
\* collected since the owner index was read: it is neither stored nor listed.
BareIsCollected ==
    \A h \in Handlers : \A m \in bare[h] : ~Stored(m) /\ messageOwner[m] = NoPeer

\* While a message stays stored, a retransmitted or late chunk neither
\* restamps nor re-dates it, and no chunk is lost from it.
BufferIsStable ==
    [][\A m \in Msgs : Stored(m) /\ Stored(m)' =>
          /\ chunks[m] \subseteq chunks'[m]
          /\ createdAt'[m] = createdAt[m]
          /\ sequenceNumber'[m] = sequenceNumber[m]]_vars

\* A stored message that names a recipient becomes visible to the recipient's
\* POLL, unless it goes away first.
StoredIsListed ==
    \A m \in Msgs : Stored(m) /\ Recipient[m] # NoPeer
                      ~> messageOwner[m] # NoPeer \/ ~Stored(m)

\* gc eventually removes an expired message together with its owner entry.
ExpiredIsCollected ==
    \A m \in Msgs : Expired(m) ~> ~Stored(m) /\ messageOwner[m] = NoPeer
=============================================================================
