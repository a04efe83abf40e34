----------------------------- MODULE WireProofs -----------------------------
(***************************************************************************)
(* Proofs about Wire and its rate limiter, for every set of messages,      *)
(* chunk sizes and transport modes, every width of the index, any digit    *)
(* altered and any bound on the faults.                                    *)
(*                                                                         *)
(* The inductive invariant WireInv relates the calls of the sender, the    *)
(* store of the relay and the chunks the recipient has to the chunks of    *)
(* the message; the theorems of EncodingProofs lead from the labels to the *)
(* chunks, and from what is accepted to the message.                       *)
(*                                                                         *)
(* RateLimit, for any rate, burst, set of addresses and length of time: no *)
(* address gets more than burst + rate * elapsed requests through in any   *)
(* stretch of time.  What a bucket still holds counts against the bound:   *)
(* the inductive invariant LimiterInv says, as of the bucket's last check, *)
(* that requests allowed and tokens left together stay within it.          *)
(***************************************************************************)
EXTENDS Wire, EncodingProofs

-----------------------------------------------------------------------------
(***************************************************************************)
(* The invariant.                                                          *)
(***************************************************************************)
\* The chunks of the message of length n.
ChunksOf(n, size) == ChunkMessage(MsgID, Message(n), size, Hash)

\* Those of the message that is being sent.
Chunks == ChunksOf(length, chunkSize)

\* Before SendMessage nothing has been sent, stored or fetched.
Idle == sending = "idle" => calls = <<>> /\ store = <<>> /\ fetched = <<>>

\* A call for every chunk, whose labels arrive as the chunk or as a variant of
\* it.
Carried ==
    sending # "idle" =>
        /\ length \in Lengths
        /\ DOMAIN calls = DOMAIN Chunks
        /\ \A i \in DOMAIN calls :
              /\ arriving[i].sent = Chunks[i]
              /\ \A d \in arriving[i].altered : Variant(Chunks[i], d)

\* The relay keeps chunks of the message only; without an alteration, as they
\* were sent.
Kept ==
    \A k \in DOMAIN store :
        /\ store[k].TotalChunks # 0
        /\ \E i \in DOMAIN calls : /\ Variant(Chunks[i], store[k])
                                   /\ changes = 0 => store[k] = Chunks[i]

\* So does the recipient.
Collected ==
    /\ fetched \in Seq(Chunk)
    /\ \A m \in DOMAIN fetched :
          /\ fetched[m].TotalChunks # 0
          /\ \E i \in DOMAIN calls : Variant(Chunks[i], fetched[m])

\* A chunk whose call has succeeded is at the relay, unless its number of chunks
\* is 0, which the relay takes for a query.
Acknowledged ==
    /\ \A i \in DOMAIN calls :
          calls[i] = "ok" /\ Chunks[i].TotalChunks # 0 => Chunks[i].ChunkIdx \in DOMAIN store
    /\ sending = "sent" => \A i \in DOMAIN calls : calls[i] = "ok"

\* fetchAndReassemble returns what ReassembleMessage accepts.
Accepted == fetching = "got" => fetched # <<>> /\ Reassembles(fetched)

\* The types of the variables other than those of the limiter.
Shape ==
    /\ chunkSize \in 32 .. 200 /\ mode \in Modes
    /\ length \in Lengths \cup {0}
    /\ calls \in Seq(Transports \cup {"ok", "failed"})
    /\ sending \in {"idle", "busy", "sent", "failed"}
    /\ DOMAIN store \subseteq 0 .. 2^Width - 1
    /\ \A k \in DOMAIN store : store[k].ChunkIdx = k
    /\ query \in Transports \cup {"ok", "failed"}
    /\ fetching \in {"idle", "busy", "got", "failed"}
    /\ losses \in Nat /\ changes \in Nat /\ losses + changes <= MaxFaults

\* The inductive invariant.  What the recipient gets, and what is at the relay,
\* is known through the chunks that were sent, never through the labels: Carried
\* is established once, by the theorems about Encoding, when SendMessage makes
\* the labels.
WireInv == Shape /\ Idle /\ Carried /\ Kept /\ Collected /\ Acknowledged /\ Accepted

-----------------------------------------------------------------------------
(***************************************************************************)
(* The chunks of the message and what arrives of them.                     *)
(***************************************************************************)
\* The messages the daemon sends are cut as Split says ...
LEMMA MessageSplit ==
    ASSUME NEW n \in Lengths, NEW size \in 32 .. 200
    PROVE  Split(ChunksOf(n, size), MsgID, Message(n), size, Hash)
  <1>1. /\ MsgID \in Seq(Byte) /\ Len(MsgID) = 8 /\ Hash \in Seq(Byte) /\ Len(Hash) = 32
        /\ Message(n) \in Seq(Byte) /\ Len(Message(n)) = n
        /\ n \in Nat \ {0}
    BY WireAssumption, Zenon
  <1>2. Message(n) # <<>>
    <2>1. \A t : t = <<>> => Len(t) = 0
      OBVIOUS
    <2>2. n # 0
      BY <1>1, Zenon
    <2> QED  BY <1>1, <2>1, <2>2, Zenon
  <1>3. size \in Nat \ {0}
    OBVIOUS
  <1> QED  BY <1>1, <1>2, <1>3, ChunksSplit, Zenon DEF ChunksOf

\* ... from which this follows for their chunks.
LEMMA ChunkFacts ==
    ASSUME NEW n \in Lengths, NEW size \in 32 .. 200
    PROVE  /\ Len(ChunksOf(n, size)) \in Nat \ {0}
           /\ DOMAIN ChunksOf(n, size) = 1 .. Len(ChunksOf(n, size))
           /\ \A i \in DOMAIN ChunksOf(n, size) :
                 /\ Sendable(ChunksOf(n, size)[i])
                 /\ ChunksOf(n, size)[i].Checksum = crc16(ChunksOf(n, size)[i].Payload)
                 /\ ChunksOf(n, size)[i].ChunkIdx = Wrap(i - 1)
                 /\ ChunksOf(n, size)[i].TotalChunks = Wrap(Len(ChunksOf(n, size)))
  <1>1. Split(ChunksOf(n, size), MsgID, Message(n), size, Hash)
    BY MessageSplit, Zenon
  <1> QED  BY <1>1, Zenon DEF Split

\* What a digit that arrives as another one changes of the labels.
LEMMA AlteredLabels ==
    ASSUME NEW l \in Seq(Seq(Digit)), NEW a \in Alterations(l)
    PROVE  /\ Altered(l, a) \in Seq(Seq(Digit)) /\ Len(Altered(l, a)) = Len(l)
           /\ a.label \in idxStart(l) + 5 .. Len(l)
           /\ Near(l[a.label], Altered(l, a)[a.label])
           /\ \A i \in 1 .. Len(l) : i # a.label => Altered(l, a)[i] = l[i]
  <1> DEFINE p == a.label  q == a.digit  x == a.as
  <1>1. /\ a \in Noise /\ p \in idxStart(l) + 5 .. Len(l) /\ q \in DOMAIN l[p]
    BY Zenon DEF Alterations
  <1>2. x \in Digit
    BY <1>1, WireAssumption, ZenonT(30)
  <1>3. idxStart(l) \in 0 .. 1
    BY DEF idxStart
  <1>4. p \in 1 .. Len(l)
    BY <1>1, <1>3, SMTT(30)
  <1>5. l[p] \in Seq(Digit)
    BY <1>4
  <1> DEFINE m == Altered(l, a)
  <1>6. m = [l EXCEPT ![p] = [l[p] EXCEPT ![q] = x]]
    BY Zenon DEF Altered
  <1> HIDE DEF p, q, x, m
  <1>7. q \in 1 .. Len(l[p])
    BY <1>1, <1>5, SMTT(30)
  <1> DEFINE d == [l[p] EXCEPT ![q] = x]
  <1>8. /\ d \in Seq(Digit) /\ Len(d) = Len(l[p])
        /\ \A j \in 1 .. Len(l[p]) : j # q => d[j] = l[p][j]
    BY <1>2, <1>5, <1>7, SMTT(30)
  <1> HIDE DEF d
  <1>9. m = [l EXCEPT ![p] = d]
    BY <1>6, Zenon DEF d
  <1>10. /\ m \in Seq(Seq(Digit)) /\ Len(m) = Len(l) /\ m[p] = d
         /\ \A i \in 1 .. Len(l) : i # p => m[i] = l[i]
    BY <1>4, <1>8, <1>9, SMTT(30)
  <1>11. Near(l[p], m[p])
    BY <1>7, <1>8, <1>10, Zenon DEF Near
  <1> QED  BY <1>1, <1>10, <1>11, Zenon DEF p, m

\* The labels of a chunk arrive as the chunk or as a variant of it.
LEMMA ArrivingChunk ==
    ASSUME NEW c, Sendable(c), c.Checksum = crc16(c.Payload)
    PROVE  /\ Arriving(EncodeToLabels(c)).sent = c
           /\ \A d \in Arriving(EncodeToLabels(c)).altered : Variant(c, d)
  <1> DEFINE l == EncodeToLabels(c)
  <1>1. Arriving(l).sent = c
    BY LabelsDecode, Zenon DEF Arriving
  <1>2. l \in Seq(Seq(Digit))
    BY Labels, Zenon DEF Labelled
  <1>3. ASSUME NEW a \in Alterations(l)  PROVE Variant(c, DecodeChunkFromLabels(Altered(l, a)))
    <2> DEFINE m == Altered(l, a)  p == a.label
    <2>1. /\ m \in Seq(Seq(Digit)) /\ Len(m) = Len(l) /\ p \in idxStart(l) + 5 .. Len(l)
          /\ Near(l[p], m[p]) /\ \A i \in 1 .. Len(l) : i # p => m[i] = l[i]
      BY <1>2, AlteredLabels, Zenon
    <2>2. \A i \in 1 .. Len(m) : i # p => m[i] = l[i]
      BY <2>1, Zenon
    <2> HIDE DEF m, p
    <2>3. Variant(c, DecodeChunkFromLabels(m))
      BY <2>1, <2>2, AlteredIsDetected, Zenon
    <2> QED  BY <2>3, Zenon DEF m
  <1>4. \A d \in Arriving(l).altered : \E a \in Alterations(l) : d = DecodeChunkFromLabels(Altered(l, a))
    BY Zenon DEF Arriving
  <1> QED  BY <1>1, <1>3, <1>4, Zenon

-----------------------------------------------------------------------------
(***************************************************************************)
(* The invariant is kept: the settings, and the start of a message.        *)
(***************************************************************************)
\* The initial states satisfy the invariant.
LEMMA WireInit == Init => WireInv
  <1> SUFFICES ASSUME Init  PROVE WireInv
    BY Zenon
  <1>1. /\ chunkSize = 75 /\ mode \in Modes /\ length = 0 /\ calls = <<>> /\ sending = "idle"
        /\ store = <<>> /\ query = "failed" /\ fetching = "idle" /\ fetched = <<>>
        /\ losses = 0 /\ changes = 0
    BY Zenon DEF Init, defaultChunkSize
  <1>2. DOMAIN <<>> = {} /\ <<>> \in Seq(Transports \cup {"ok", "failed"}) /\ <<>> \in Seq(Chunk)
    OBVIOUS
  <1>3. MaxFaults \in Nat /\ 75 \in 32 .. 200 /\ 0 \in Nat /\ 0 + 0 <= MaxFaults
    BY WireAssumption
  <1>4. Shape
    BY <1>1, <1>2, <1>3, Zenon DEF Shape
  <1> QED
    BY <1>1, <1>2, <1>4, Zenon DEF WireInv, Idle, Carried, Kept, Collected, Acknowledged, Accepted

\* Steps of the limiter alone keep it.
LEMMA WireUnchanged ==
    ASSUME WireInv, UNCHANGED <<settings, sender, store, recipient, losses, changes>>
    PROVE  WireInv'
  <1>1. /\ chunkSize' = chunkSize /\ mode' = mode /\ length' = length /\ arriving' = arriving
        /\ calls' = calls /\ sending' = sending /\ store' = store /\ query' = query
        /\ fetching' = fetching /\ fetched' = fetched /\ losses' = losses /\ changes' = changes
    BY Zenon DEF settings, sender, recipient
  <1>2. Chunks' = Chunks
    BY <1>1, Zenon DEF Chunks
  <1>3. Shape'
    BY <1>1, Zenon DEF WireInv, Shape
  <1>4. Idle' /\ Carried'
    BY <1>1, <1>2, Zenon DEF WireInv, Idle, Carried
  <1>5. Kept'
    BY <1>1, <1>2, Zenon DEF WireInv, Kept
  <1>6. Collected'
    BY <1>1, <1>2, Zenon DEF WireInv, Collected
  <1>7. Acknowledged' /\ Accepted'
    BY <1>1, <1>2, Zenon DEF WireInv, Acknowledged, Accepted
  <1> QED  BY <1>3, <1>4, <1>5, <1>6, <1>7, Zenon DEF WireInv

\* SetChunkSize keeps the size between 32 and 200.
LEMMA ClampIn ==
    ASSUME NEW size \in Int
    PROVE  Clamp(size) \in 32 .. 200
  BY DEF Clamp

\* While nothing is being sent, the chunk size is free to change.
LEMMA SetChunkSizeInv ==
    ASSUME WireInv, NEW size \in Requests, SetChunkSize(size)
    PROVE  WireInv'
  <1>1. /\ mode' = mode /\ length' = length /\ arriving' = arriving
        /\ calls' = calls /\ sending' = sending /\ store' = store /\ query' = query
        /\ fetching' = fetching /\ fetched' = fetched /\ losses' = losses /\ changes' = changes
        /\ sending = "idle" /\ chunkSize' = Clamp(size)
    BY Zenon DEF SetChunkSize, sender, recipient
  <1>2. chunkSize' \in 32 .. 200
    BY <1>1, WireAssumption, ClampIn, Zenon
  <1>3. calls = <<>> /\ store = <<>> /\ fetched = <<>>
    BY <1>1, Zenon DEF WireInv, Idle
  <1>4. DOMAIN calls = {} /\ DOMAIN store = {} /\ DOMAIN fetched = {}
    BY <1>3
  <1>5. Shape'
    BY <1>1, <1>2, Zenon DEF WireInv, Shape
  <1>6. fetched \in Seq(Chunk) /\ Accepted
    BY Zenon DEF WireInv, Collected
  <1>7. Idle' /\ Carried' /\ Kept' /\ Collected' /\ Accepted'
    BY <1>1, <1>3, <1>4, <1>6, Zenon DEF Idle, Carried, Kept, Collected, Accepted
  <1>8. Acknowledged'
    <2>1. sending' # "sent"
      BY <1>1, Zenon
    <2> QED  BY <1>1, <1>4, <2>1, Zenon DEF Acknowledged
  <1> QED  BY <1>5, <1>7, <1>8, Zenon DEF WireInv

\* A call begins with a transport.
LEMMA FirstTransportIn ==
    ASSUME NEW m \in Modes
    PROVE  FirstTransport(m) \in Transports /\ FirstTransport(m) # "ok"
  BY WireAssumption, Zenon DEF FirstTransport, Transports

\* SendMessage establishes Carried: this is where the round trip through the
\* labels and the detection of an altered digit are used.
LEMMA SendMessageInv ==
    ASSUME WireInv, NEW n \in Lengths, SendMessage(n)
    PROVE  WireInv'
  <1> DEFINE chunks == ChunksOf(n, chunkSize)
  <1>1. /\ chunkSize' = chunkSize /\ mode' = mode /\ store' = store /\ query' = query
        /\ fetching' = fetching /\ fetched' = fetched /\ losses' = losses /\ changes' = changes
        /\ sending = "idle" /\ sending' = "busy" /\ length' = n
        /\ names' = [i \in DOMAIN chunks |-> EncodeToLabels(chunks[i])]
        /\ arriving' = [i \in DOMAIN chunks |-> Arriving(names'[i])]
        /\ calls' = [i \in DOMAIN chunks |-> FirstTransport(mode)]
    BY Zenon DEF SendMessage, settings, recipient, ChunksOf
  <1>2. store = <<>> /\ fetched = <<>>
    BY <1>1, Zenon DEF WireInv, Idle
  <1>3. DOMAIN store = {} /\ DOMAIN fetched = {}
    BY <1>2
  <1>4. chunkSize \in 32 .. 200 /\ mode \in Modes
    BY Zenon DEF WireInv, Shape
  <1>5. /\ Len(chunks) \in Nat \ {0} /\ DOMAIN chunks = 1 .. Len(chunks)
        /\ \A i \in DOMAIN chunks : Sendable(chunks[i]) /\ chunks[i].Checksum = crc16(chunks[i].Payload)
    BY <1>4, ChunkFacts, ZenonT(30)
  <1>6. Chunks' = chunks
    BY <1>1, Zenon DEF Chunks
  <1> HIDE DEF chunks
  <1>7. FirstTransport(mode) \in Transports /\ FirstTransport(mode) # "ok"
    BY <1>4, FirstTransportIn, Zenon
  <1>8. calls' \in Seq(Transports \cup {"ok", "failed"})
    <2>1. FirstTransport(mode) \in Transports \cup {"ok", "failed"}
      BY <1>7, Zenon
    <2> HIDE DEF Transports
    <2>2. calls' \in [1 .. Len(chunks) -> Transports \cup {"ok", "failed"}]
      BY <1>1, <1>5, <2>1, Zenon
    <2> QED  BY <1>5, <2>2, SMTT(30)
  <1>9. DOMAIN calls' = DOMAIN chunks /\ \A i \in DOMAIN chunks : calls'[i] = FirstTransport(mode)
    BY <1>1, Zenon
  <1>10. Shape'
    <2>1. n \in Lengths \cup {0} /\ "busy" \in {"idle", "busy", "sent", "failed"}
      BY Zenon
    <2> QED  BY <1>1, <1>8, <2>1, Zenon DEF WireInv, Shape
  <1>11. sending' # "idle" /\ sending' # "sent"
    BY <1>1, Zenon
  <1>12. Carried'
    <2>1. ASSUME NEW i \in DOMAIN chunks
          PROVE  /\ arriving'[i].sent = chunks[i]
                 /\ \A d \in arriving'[i].altered : Variant(chunks[i], d)
      <3>1. arriving'[i] = Arriving(EncodeToLabels(chunks[i]))
        BY <1>1, Zenon
      <3> QED  BY <1>5, <3>1, ArrivingChunk, Zenon
    <2> QED  BY <1>1, <1>6, <1>9, <2>1, Zenon DEF Carried
  <1>13. Idle' /\ Kept' /\ Acknowledged'
    BY <1>1, <1>3, <1>7, <1>9, <1>11, Zenon DEF Idle, Kept, Acknowledged
  <1>14. fetched \in Seq(Chunk) /\ Accepted
    BY Zenon DEF WireInv, Collected
  <1>15. Collected' /\ Accepted'
    BY <1>1, <1>3, <1>14, ZenonT(30) DEF Collected, Accepted
  <1> QED  BY <1>10, <1>12, <1>13, <1>15, Zenon DEF WireInv

-----------------------------------------------------------------------------
(***************************************************************************)
(* The calls of SendChunk and the store of the relay.                      *)
(***************************************************************************)
\* SendChunk goes on with a transport or ends, with success only if it was
\* answered.
LEMMA AfterSendIn ==
    ASSUME NEW t \in Transports, NEW o \in {"ok", "rcode", "err"}
    PROVE  /\ AfterSend(t, o) \in Transports \cup {"ok", "failed"}
           /\ AfterSend(t, o) = "ok" => o = "ok"
  BY Zenon DEF AfterSend, Transports

\* So does QueryChunk after a failure.
LEMMA AfterQueryIn ==
    ASSUME NEW t \in Transports \cup {"ok", "failed"}, NEW o \in {"rcode", "err"}
    PROVE  AfterQuery(t, o) \in Transports \cup {"ok", "failed"}
  BY Zenon DEF AfterQuery, Transports

\* What the end of an exchange changes: the call alone.
LEMMA ReturnStep ==
    ASSUME WireInv, NEW i \in DOMAIN calls, NEW o \in {"ok", "rcode", "err"}, Return(i, o)
    PROVE  /\ calls' \in Seq(Transports \cup {"ok", "failed"}) /\ DOMAIN calls' = DOMAIN calls
           /\ \A j \in DOMAIN calls : calls'[j] = "ok" => calls[j] = "ok" \/ (j = i /\ o = "ok")
           /\ chunkSize' = chunkSize /\ mode' = mode /\ length' = length /\ arriving' = arriving
           /\ sending = "busy" /\ sending' = sending /\ query' = query /\ fetching' = fetching
           /\ fetched' = fetched /\ Chunks' = Chunks
  <1>1. /\ chunkSize' = chunkSize /\ mode' = mode /\ length' = length /\ arriving' = arriving
        /\ sending = "busy" /\ sending' = sending /\ query' = query /\ fetching' = fetching
        /\ fetched' = fetched /\ calls[i] \in Transports
        /\ calls' = [calls EXCEPT ![i] = AfterSend(calls[i], o)]
    BY Zenon DEF Return, settings, recipient
  <1>2. Chunks' = Chunks
    BY <1>1, Zenon DEF Chunks
  <1> DEFINE T == Transports \cup {"ok", "failed"}  a == AfterSend(calls[i], o)
  <1>3. a \in T /\ (a = "ok" => o = "ok")
    BY <1>1, AfterSendIn, Zenon
  <1>4. calls \in Seq(T)
    BY Zenon DEF WireInv, Shape
  <1> HIDE DEF T, a
  <1>5. calls' = [calls EXCEPT ![i] = a]
    BY <1>1, Zenon DEF a
  <1>6. calls' \in Seq(T) /\ DOMAIN calls' = DOMAIN calls /\ calls'[i] = a
        /\ \A j \in DOMAIN calls : j # i => calls'[j] = calls[j]
    BY <1>3, <1>4, <1>5, SMTT(30)
  <1>7. \A j \in DOMAIN calls : calls'[j] = "ok" => calls[j] = "ok" \/ (j = i /\ o = "ok")
    BY <1>3, <1>6, Zenon
  <1> QED  BY <1>1, <1>2, <1>6, <1>7, Zenon DEF T

\* An exchange that was not answered with success, and changed nothing at the
\* relay.
LEMMA ReturnInv ==
    ASSUME WireInv, NEW i \in DOMAIN calls, NEW o \in {"rcode", "err"}, Return(i, o),
           UNCHANGED <<store, changes>>, losses' \in Nat, losses' + changes' <= MaxFaults
    PROVE  WireInv'
  <1>0. o \in {"ok", "rcode", "err"} /\ o # "ok"
    BY Zenon
  <1>1. /\ calls' \in Seq(Transports \cup {"ok", "failed"}) /\ DOMAIN calls' = DOMAIN calls
        /\ \A j \in DOMAIN calls : calls'[j] = "ok" => calls[j] = "ok"
        /\ chunkSize' = chunkSize /\ mode' = mode /\ length' = length /\ arriving' = arriving
        /\ sending = "busy" /\ sending' = sending /\ query' = query /\ fetching' = fetching
        /\ fetched' = fetched /\ Chunks' = Chunks /\ store' = store /\ changes' = changes
    BY <1>0, ReturnStep, Zenon
  <1>2. Shape'
    BY <1>1, Zenon DEF WireInv, Shape
  <1>3. sending' # "idle" /\ sending # "idle" /\ sending' # "sent"
    BY <1>1, Zenon
  <1>4. Idle' /\ Carried'
    BY <1>1, <1>3, Zenon DEF WireInv, Idle, Carried
  <1>5. Kept'
    <2>1. DOMAIN calls' = DOMAIN calls /\ Chunks' = Chunks /\ store' = store /\ changes' = changes
      BY <1>1, Zenon
    <2>2. Kept
      BY Zenon DEF WireInv
    <2> QED  BY <2>1, <2>2, Zenon DEF Kept
  <1>6. Collected' /\ Accepted'
    BY <1>1, Zenon DEF WireInv, Collected, Accepted
  <1>7. Acknowledged'
    BY <1>1, <1>3, Zenon DEF WireInv, Acknowledged
  <1> QED  BY <1>2, <1>4, <1>5, <1>6, <1>7, Zenon DEF WireInv

\* What the store of the relay becomes when c arrives for the i-th chunk.
Takes(i, c) ==
    /\ DOMAIN store \subseteq DOMAIN store'
    /\ DOMAIN store' \subseteq 0 .. 2^Width - 1
    /\ \A k \in DOMAIN store' : store'[k].ChunkIdx = k
    /\ \A k \in DOMAIN store' : \/ store'[k] = c /\ c.TotalChunks # 0
                                \/ k \in DOMAIN store /\ store'[k] = store[k]
    /\ Chunks[i].TotalChunks # 0 => Chunks[i].ChunkIdx \in DOMAIN store'

\* Stored adds a chunk that is not a query, under its index, and removes none.
LEMMA StoredStep ==
    ASSUME WireInv, sending # "idle", NEW i \in DOMAIN calls, NEW c, Variant(Chunks[i], c), store' = Stored(c)
    PROVE  Takes(i, c)
  <1>1. /\ length \in Lengths /\ chunkSize \in 32 .. 200 /\ i \in DOMAIN Chunks
    BY Zenon DEF WireInv, Shape, Carried
  <1>2. Sendable(Chunks[i]) /\ Chunks[i].ChunkIdx = Wrap(i - 1) /\ i - 1 \in Nat
    <2>1. Len(Chunks) \in Nat /\ DOMAIN Chunks = 1 .. Len(Chunks)
      BY <1>1, ChunkFacts, Zenon DEF Chunks
    <2>2. i - 1 \in Nat
      BY <1>1, <2>1, SMTT(30)
    <2> QED  BY <1>1, <2>2, ChunkFacts, Zenon DEF Chunks
  <1>3. c.ChunkIdx = Chunks[i].ChunkIdx /\ c.TotalChunks = Chunks[i].TotalChunks
    BY <1>2, VariantFields, Zenon
  <1>4. c.ChunkIdx \in 0 .. 2^Width - 1
    BY <1>2, <1>3, WrapIn, Zenon
  <1>5. DOMAIN store \subseteq 0 .. 2^Width - 1 /\ \A k \in DOMAIN store : store[k].ChunkIdx = k
    BY Zenon DEF WireInv, Shape
  <1>6. CASE c.TotalChunks = 0
    <2>1. store' = store
      BY <1>6, Zenon DEF Stored
    <2> QED  BY <1>3, <1>5, <1>6, <2>1, Zenon DEF Takes
  <1>7. CASE c.TotalChunks # 0
    <2>1. store' = [k \in DOMAIN store \cup {c.ChunkIdx} |-> IF k = c.ChunkIdx THEN c ELSE store[k]]
      BY <1>7, Zenon DEF Stored, Put
    <2>2. /\ DOMAIN store' = DOMAIN store \cup {c.ChunkIdx}
          /\ \A k \in DOMAIN store \cup {c.ChunkIdx} : store'[k] = IF k = c.ChunkIdx THEN c ELSE store[k]
      BY <2>1, Zenon
    <2> QED  BY <1>3, <1>4, <1>5, <1>7, <2>2, Zenon DEF Takes
  <1> QED  BY <1>6, <1>7, SMTT(30)

\* An exchange in which a chunk, or a variant of it, has arrived.
LEMMA ArrivesInv ==
    ASSUME WireInv, NEW i \in DOMAIN calls, NEW c, Variant(Chunks[i], c), NEW o \in {"ok", "rcode", "err"},
           Return(i, o), store' = Stored(c), changes' \in Nat,
           changes' = 0 => changes = 0 /\ c = Chunks[i],
           losses' \in Nat, losses' + changes' <= MaxFaults
    PROVE  WireInv'
  <1>1. /\ calls' \in Seq(Transports \cup {"ok", "failed"}) /\ DOMAIN calls' = DOMAIN calls
        /\ \A j \in DOMAIN calls : calls'[j] = "ok" => calls[j] = "ok" \/ (j = i /\ o = "ok")
        /\ chunkSize' = chunkSize /\ mode' = mode /\ length' = length /\ arriving' = arriving
        /\ sending = "busy" /\ sending' = sending /\ query' = query /\ fetching' = fetching
        /\ fetched' = fetched /\ Chunks' = Chunks
    BY ReturnStep, Zenon
  <1>2. sending' # "idle" /\ sending # "idle" /\ sending' # "sent"
    BY <1>1, Zenon
  <1>3. /\ DOMAIN store \subseteq DOMAIN store'
        /\ DOMAIN store' \subseteq 0 .. 2^Width - 1
        /\ \A k \in DOMAIN store' : store'[k].ChunkIdx = k
        /\ \A k \in DOMAIN store' : \/ store'[k] = c /\ c.TotalChunks # 0
                                    \/ k \in DOMAIN store /\ store'[k] = store[k]
        /\ Chunks[i].TotalChunks # 0 => Chunks[i].ChunkIdx \in DOMAIN store'
    <2>1. Takes(i, c)
      BY <1>2, StoredStep, Zenon
    <2> QED  BY <2>1, Zenon DEF Takes
  <1>4. Shape'
    BY <1>1, <1>3, Zenon DEF WireInv, Shape
  <1>5. Idle' /\ Carried'
    BY <1>1, <1>2, Zenon DEF WireInv, Idle, Carried
  <1>6. Kept'
    <2> SUFFICES ASSUME NEW k \in DOMAIN store'
                 PROVE  /\ store'[k].TotalChunks # 0
                        /\ \E j \in DOMAIN calls : /\ Variant(Chunks[j], store'[k])
                                                   /\ changes' = 0 => store'[k] = Chunks[j]
      BY <1>1, Zenon DEF Kept
    <2>1. CASE store'[k] = c /\ c.TotalChunks # 0
      BY <2>1, Zenon
    <2>2. CASE k \in DOMAIN store /\ store'[k] = store[k]
      BY <2>2, Zenon DEF WireInv, Kept
    <2> QED  BY <1>3, <2>1, <2>2, Zenon
  <1>7. Collected' /\ Accepted'
    BY <1>1, Zenon DEF WireInv, Collected, Accepted
  <1>8. Acknowledged'
    <2>1. \A j \in DOMAIN calls : calls'[j] = "ok" /\ Chunks[j].TotalChunks # 0
                                  => Chunks[j].ChunkIdx \in DOMAIN store'
      BY <1>1, <1>3, ZenonT(30) DEF WireInv, Acknowledged
    <2> QED  BY <1>1, <1>2, <2>1, Zenon DEF Acknowledged
  <1> QED  BY <1>4, <1>5, <1>6, <1>7, <1>8, Zenon DEF WireInv

\* An exchange that is answered, with what arrives as sent or altered.
LEMMA ExchangeInv ==
    ASSUME WireInv, NEW i \in DOMAIN calls, Exchange(i)
    PROVE  WireInv'
  <1>1. losses \in Nat /\ changes \in Nat /\ losses + changes <= MaxFaults /\ MaxFaults \in Nat
    BY WireAssumption, Zenon DEF WireInv, Shape
  <1>2. sending = "busy"
    BY Zenon DEF Exchange, Return
  <1>3. sending # "idle"
    BY <1>2, Zenon
  <1>4. /\ i \in DOMAIN Chunks /\ length \in Lengths /\ chunkSize \in 32 .. 200
        /\ arriving[i].sent = Chunks[i] /\ \A d \in arriving[i].altered : Variant(Chunks[i], d)
    BY <1>3, Zenon DEF WireInv, Shape, Carried
  <1>5. Variant(Chunks[i], Chunks[i])
    <2>1. Sendable(Chunks[i])
      BY <1>4, ChunkFacts, Zenon DEF Chunks
    <2> QED  BY <2>1, OwnVariant, Zenon
  <1>6. ASSUME NEW c  PROVE Reply(c) \in {"ok", "rcode", "err"}
    BY Zenon DEF Reply
  <1>7. CASE /\ store' = Stored(arriving[i].sent)
             /\ \/ Return(i, Reply(arriving[i].sent)) /\ UNCHANGED losses
                \/ Faulty /\ Return(i, "err") /\ Lose
             /\ UNCHANGED changes
    <2>1. PICK o \in {"ok", "rcode", "err"} :
             Return(i, o) /\ (losses' = losses \/ (Faulty /\ losses' = losses + 1))
      BY <1>6, <1>7, Zenon DEF Lose
    <2>2. losses' \in Nat /\ changes' \in Nat /\ losses' + changes' <= MaxFaults /\ changes' = changes
      BY <1>1, <1>7, <2>1, SMTT(30) DEF Faulty
    <2>3. store' = Stored(Chunks[i])
      BY <1>4, <1>7, Zenon
    <2> QED  BY <1>5, <2>1, <2>2, <2>3, ArrivesInv, Zenon
  <1>8. ASSUME NEW c \in arriving[i].altered, Faulty, store' = Stored(c), Return(i, Reply(c)),
               changes' = changes + 1, UNCHANGED losses
        PROVE  WireInv'
    <2>1. changes' \in Nat /\ changes' # 0 /\ losses' \in Nat /\ losses' + changes' <= MaxFaults
      BY <1>1, <1>8 DEF Faulty
    <2>2. Variant(Chunks[i], c) /\ Reply(c) \in {"ok", "rcode", "err"}
      BY <1>4, <1>6, Zenon
    <2> QED  BY <1>8, <2>1, <2>2, ArrivesInv, Zenon
  <1> QED  BY <1>7, <1>8, Zenon DEF Exchange

\* An exchange that the limiter refuses, or in which a request or an answer is
\* lost.
LEMMA FailsInv ==
    ASSUME WireInv, NEW i \in DOMAIN calls, ExchangeRefused(i) \/ ExchangeFails(i)
    PROVE  WireInv'
  <1>1. losses \in Nat /\ changes \in Nat /\ losses + changes <= MaxFaults /\ MaxFaults \in Nat
    BY WireAssumption, Zenon DEF WireInv, Shape
  <1>2. PICK o \in {"rcode", "err"} :
           Return(i, o) /\ UNCHANGED <<store, changes>> /\ (losses' = losses \/ (Faulty /\ losses' = losses + 1))
    BY Zenon DEF ExchangeRefused, ExchangeFails, Lose
  <1>3. losses' \in Nat /\ losses' + changes' <= MaxFaults
    BY <1>1, <1>2 DEF Faulty
  <1> QED  BY <1>2, <1>3, ReturnInv, Zenon

\* SendMessage returns success only when all calls have succeeded.
LEMMA SendReturnsInv ==
    ASSUME WireInv, SendReturns
    PROVE  WireInv'
  <1>1. /\ chunkSize' = chunkSize /\ mode' = mode /\ length' = length /\ arriving' = arriving
        /\ calls' = calls /\ store' = store /\ query' = query
        /\ fetching' = fetching /\ fetched' = fetched /\ losses' = losses /\ changes' = changes
        /\ sending = "busy"
        /\ sending' = IF \A i \in DOMAIN calls : calls[i] = "ok" THEN "sent" ELSE "failed"
    BY Zenon DEF SendReturns, settings, recipient
  <1>2. Chunks' = Chunks
    BY <1>1, Zenon DEF Chunks
  <1>3. sending' = "sent" \/ sending' = "failed"
    BY <1>1, Zenon
  <1>4. sending # "idle" /\ sending' # "idle" /\ (sending' = "sent" => \A i \in DOMAIN calls : calls[i] = "ok")
    BY <1>1, <1>3, Zenon
  <1>5. Shape'
    BY <1>1, <1>3, Zenon DEF WireInv, Shape
  <1>6. Idle' /\ Carried'
    BY <1>1, <1>2, <1>4, Zenon DEF WireInv, Idle, Carried
  <1>7. Kept'
    BY <1>1, <1>2, Zenon DEF WireInv, Kept
  <1>8. Collected' /\ Accepted'
    BY <1>1, <1>2, Zenon DEF WireInv, Collected, Accepted
  <1>9. Acknowledged'
    BY <1>1, <1>2, <1>4, Zenon DEF WireInv, Acknowledged
  <1> QED  BY <1>5, <1>6, <1>7, <1>8, <1>9, Zenon DEF WireInv

-----------------------------------------------------------------------------
(***************************************************************************)
(* The recipient.                                                          *)
(***************************************************************************)
\* A fetch begins.
LEMMA StartFetchInv ==
    ASSUME WireInv, StartFetch
    PROVE  WireInv'
  <1>1. /\ chunkSize' = chunkSize /\ mode' = mode /\ length' = length /\ arriving' = arriving
        /\ calls' = calls /\ sending' = sending /\ store' = store
        /\ fetched' = fetched /\ losses' = losses /\ changes' = changes
        /\ fetching' = "busy" /\ query' = FirstTransport(mode)
    BY Zenon DEF StartFetch, settings, sender
  <1>2. Chunks' = Chunks
    BY <1>1, Zenon DEF Chunks
  <1>3. query' \in Transports \cup {"ok", "failed"} /\ fetching' # "got"
    <2>1. mode \in Modes
      BY Zenon DEF WireInv, Shape
    <2>2. query' \in Transports
      BY <1>1, <2>1, FirstTransportIn, Zenon
    <2> QED  BY <1>1, <2>2
  <1>4. Shape'
    BY <1>1, <1>3, Zenon DEF WireInv, Shape
  <1>5. Idle' /\ Carried'
    BY <1>1, <1>2, Zenon DEF WireInv, Idle, Carried
  <1>6. Kept'
    BY <1>1, <1>2, Zenon DEF WireInv, Kept
  <1>7. Collected' /\ Accepted'
    BY <1>1, <1>2, <1>3, Zenon DEF WireInv, Collected, Accepted
  <1>8. Acknowledged'
    BY <1>1, <1>2, Zenon DEF WireInv, Acknowledged
  <1> QED  BY <1>4, <1>5, <1>6, <1>7, <1>8, Zenon DEF WireInv

\* A query goes on with the next transport, or gives up.
LEMMA QueryFailsInv ==
    ASSUME WireInv, QueryFails
    PROVE  WireInv'
  <1>1. /\ chunkSize' = chunkSize /\ mode' = mode /\ length' = length /\ arriving' = arriving
        /\ calls' = calls /\ sending' = sending /\ store' = store
        /\ fetched' = fetched /\ changes' = changes
        /\ fetching' = IF query' = "failed" THEN "failed" ELSE "busy"
    BY Zenon DEF QueryFails, settings, sender
  <1>2. Chunks' = Chunks
    BY <1>1, Zenon DEF Chunks
  <1>3. PICK o \in {"rcode", "err"} :
           query' = AfterQuery(query, o) /\ (losses' = losses \/ (Faulty /\ losses' = losses + 1))
    BY Zenon DEF QueryFails, Lose
  <1>4. query \in Transports \cup {"ok", "failed"}
    BY Zenon DEF WireInv, Shape
  <1>5. query' \in Transports \cup {"ok", "failed"}
    BY <1>3, <1>4, AfterQueryIn, Zenon
  <1>6. losses \in Nat /\ changes \in Nat /\ losses + changes <= MaxFaults /\ MaxFaults \in Nat
    BY WireAssumption, Zenon DEF WireInv, Shape
  <1>7. losses' \in Nat /\ losses' + changes' <= MaxFaults
    BY <1>1, <1>3, <1>6, SMTT(30) DEF Faulty
  <1>8. fetching' \in {"idle", "busy", "got", "failed"} /\ fetching' # "got"
    BY <1>1, Zenon
  <1>9. Shape'
    BY <1>1, <1>5, <1>7, <1>8, Zenon DEF WireInv, Shape
  <1>10. Idle' /\ Carried'
    BY <1>1, <1>2, Zenon DEF WireInv, Idle, Carried
  <1>11. Kept'
    BY <1>1, <1>2, Zenon DEF WireInv, Kept
  <1>12. Collected' /\ Accepted'
    BY <1>1, <1>2, <1>8, Zenon DEF WireInv, Collected, Accepted
  <1>13. Acknowledged'
    BY <1>1, <1>2, Zenon DEF WireInv, Acknowledged
  <1> QED  BY <1>9, <1>10, <1>11, <1>12, <1>13, Zenon DEF WireInv

\* The answer to a query is the chunk the relay has, after a second round trip
\* through the labels.
LEMMA AnswerIsStored ==
    ASSUME WireInv, NEW asked, NEW c \in Answers(asked)
    PROVE  \E k \in DOMAIN store : c = store[k] /\ Sendable(store[k])
  <1>1. PICK k \in DOMAIN store : c = DecodeChunkFromLabels(EncodeToLabels(store[k]))
    BY Zenon DEF Answers
  <1>2. PICK i \in DOMAIN calls : Variant(Chunks[i], store[k])
    BY Zenon DEF WireInv, Kept
  <1>3. sending # "idle"
    <2>1. sending = "idle" => store = <<>>
      BY Zenon DEF WireInv, Idle
    <2>2. store = <<>> => DOMAIN store = {}
      OBVIOUS
    <2> QED  BY <2>1, <2>2, Zenon
  <1>4. i \in DOMAIN Chunks /\ length \in Lengths /\ chunkSize \in 32 .. 200
    BY <1>3, Zenon DEF WireInv, Shape, Carried
  <1>5. Sendable(Chunks[i])
    BY <1>4, ChunkFacts, Zenon DEF Chunks
  <1>6. Sendable(store[k])
    BY <1>2, <1>5, VariantFields, Zenon
  <1> QED  BY <1>1, <1>6, LabelsDecode, Zenon

\* A chunk more is collected; with the last, ReassembleMessage decides.
LEMMA QueryChunkInv ==
    ASSUME WireInv, QueryChunk
    PROVE  WireInv'
  <1>1. PICK c \in Answers(DecodeChunkFromLabels(QueryName(Len(fetched)))) :
           /\ fetched' = Append(fetched, c)
           /\ LET done == Len(Append(fetched, c)) >= Head(Append(fetched, c)).TotalChunks
              IN  /\ query' = IF done THEN "ok" ELSE FirstTransport(mode)
                  /\ fetching' = IF ~done THEN "busy"
                                 ELSE IF Reassembles(Append(fetched, c)) THEN "got" ELSE "failed"
    BY Zenon DEF QueryChunk
  <1>2. /\ chunkSize' = chunkSize /\ mode' = mode /\ length' = length /\ arriving' = arriving
        /\ calls' = calls /\ sending' = sending /\ store' = store
        /\ losses' = losses /\ changes' = changes
    BY Zenon DEF QueryChunk, settings, sender
  <1>3. Chunks' = Chunks
    BY <1>2, Zenon DEF Chunks
  <1>4. PICK k \in DOMAIN store : c = store[k] /\ Sendable(store[k])
    BY AnswerIsStored, Zenon
  <1>5. c \in Chunk /\ c.TotalChunks # 0 /\ \E i \in DOMAIN calls : Variant(Chunks[i], c)
    BY <1>4, Zenon DEF WireInv, Kept, Sendable
  <1>6. query' \in Transports \cup {"ok", "failed"}
    <2>1. mode \in Modes
      BY Zenon DEF WireInv, Shape
    <2>2. FirstTransport(mode) \in Transports
      BY <2>1, FirstTransportIn, Zenon
    <2> QED  BY <1>1, <2>2, Zenon
  <1>7. fetching' \in {"idle", "busy", "got", "failed"} /\ (fetching' = "got" => Reassembles(fetched'))
    <2> DEFINE R == Reassembles(Append(fetched, c))
               D == Len(Append(fetched, c)) >= Head(Append(fetched, c)).TotalChunks
    <2>1. fetching' = IF ~D THEN "busy" ELSE IF R THEN "got" ELSE "failed"
      BY <1>1, Zenon
    <2>2. R <=> Reassembles(fetched')
      BY <1>1, Zenon
    <2> HIDE DEF R, D
    <2>3. fetching' = "busy" \/ (fetching' = "got" /\ R) \/ fetching' = "failed"
      BY <2>1, Zenon
    <2> QED  BY <2>2, <2>3
  <1>8. Shape'
    BY <1>2, <1>6, <1>7, Zenon DEF WireInv, Shape
  <1>9. sending # "idle"
    <2>1. sending = "idle" => store = <<>>
      BY Zenon DEF WireInv, Idle
    <2>2. store = <<>> => DOMAIN store = {}
      OBVIOUS
    <2> QED  BY <1>4, <2>1, <2>2, Zenon
  <1>10. Idle' /\ Carried'
    BY <1>2, <1>3, <1>9, Zenon DEF WireInv, Idle, Carried
  <1>11. Kept'
    BY <1>2, <1>3, Zenon DEF WireInv, Kept
  <1>12. Acknowledged'
    BY <1>2, <1>3, Zenon DEF WireInv, Acknowledged
  <1>13. fetched \in Seq(Chunk)
    BY Zenon DEF WireInv, Collected
  <1>14. /\ fetched' \in Seq(Chunk) /\ fetched' # <<>>
         /\ \A m \in DOMAIN fetched' : fetched'[m] = c \/ (m \in DOMAIN fetched /\ fetched'[m] = fetched[m])
    <2>1. fetched' = Append(fetched, c) /\ c \in Chunk
      BY <1>1, <1>5, Zenon
    <2> HIDE DEF Chunk
    <2> QED  BY <1>13, <2>1
  <1>15. Collected'
    <2> SUFFICES ASSUME NEW m \in DOMAIN fetched'
                 PROVE  /\ fetched'[m].TotalChunks # 0
                        /\ \E i \in DOMAIN calls : Variant(Chunks[i], fetched'[m])
      BY <1>2, <1>3, <1>14, Zenon DEF Collected
    <2>1. CASE fetched'[m] = c
      BY <1>5, <2>1, Zenon
    <2>2. CASE m \in DOMAIN fetched /\ fetched'[m] = fetched[m]
      BY <2>2, Zenon DEF WireInv, Collected
    <2> QED  BY <1>14, <2>1, <2>2, Zenon
  <1>16. Accepted'
    BY <1>7, <1>14, Zenon DEF Accepted
  <1> QED  BY <1>8, <1>10, <1>11, <1>12, <1>15, <1>16, Zenon DEF WireInv

\* Every step keeps the invariant.
LEMMA WireStep == WireInv /\ [Next]_vars => WireInv'
  <1> SUFFICES ASSUME WireInv, [Next]_vars  PROVE WireInv'
    BY Zenon
  <1>1. ASSUME NEW size \in Requests, SetChunkSize(size)  PROVE WireInv'
    BY <1>1, SetChunkSizeInv, Zenon
  <1>2. ASSUME NEW n \in Lengths, SendMessage(n)  PROVE WireInv'
    BY <1>2, SendMessageInv, Zenon
  <1>3. ASSUME NEW i \in DOMAIN calls, Exchange(i)  PROVE WireInv'
    BY <1>3, ExchangeInv, Zenon
  <1>4. ASSUME NEW i \in DOMAIN calls, ExchangeRefused(i) \/ ExchangeFails(i)  PROVE WireInv'
    BY <1>4, FailsInv, Zenon
  <1>5. CASE SendReturns
    BY <1>5, SendReturnsInv, Zenon
  <1>6. CASE StartFetch
    BY <1>6, StartFetchInv, Zenon
  <1>7. CASE QueryChunk
    BY <1>7, QueryChunkInv, Zenon
  <1>8. CASE QueryFails
    BY <1>8, QueryFailsInv, Zenon
  <1>9. CASE UNCHANGED <<settings, sender, store, recipient, losses, changes>>
    BY <1>9, WireUnchanged, Zenon
  <1>10. CASE UNCHANGED vars
    <2>1. UNCHANGED <<settings, sender, store, recipient, losses, changes>>
      BY <1>10, Zenon DEF vars
    <2> QED  BY <2>1, WireUnchanged, Zenon
  <1> QED  BY <1>1, <1>2, <1>3, <1>4, <1>5, <1>6, <1>7, <1>8, <1>9, <1>10, Zenon DEF Next

\* Every reachable state satisfies it.
LEMMA WireInvariant == Spec => []WireInv
  BY WireInit, WireStep, PTL DEF Spec

-----------------------------------------------------------------------------
(***************************************************************************)
(* What the invariant gives.                                               *)
(***************************************************************************)
\* The chunks of the message under way, where their number has not wrapped.
LEMMA ChunksNow ==
    ASSUME WireInv, sending # "idle", Counted
    PROVE  /\ Split(Chunks, MsgID, Message(length), chunkSize, Hash) /\ Len(Chunks) < 2^Width
           /\ length \in Lengths /\ chunkSize \in Nat \ {0} /\ Message(length) \in Seq(Byte)
           /\ DOMAIN calls = DOMAIN Chunks /\ Len(calls) = Len(Chunks)
  <1>1. length \in Lengths /\ chunkSize \in 32 .. 200 /\ DOMAIN calls = DOMAIN Chunks
        /\ calls \in Seq(Transports \cup {"ok", "failed"})
    BY Zenon DEF WireInv, Shape, Carried
  <1>2. Split(Chunks, MsgID, Message(length), chunkSize, Hash)
    BY <1>1, MessageSplit, Zenon DEF Chunks
  <1>3. Len(Chunks) \in Nat /\ DOMAIN Chunks = 1 .. Len(Chunks)
    BY <1>2, Zenon DEF Split
  <1>4. Len(calls) = Len(Chunks)
    <2>1. Len(calls) \in Nat /\ DOMAIN calls = 1 .. Len(calls)
      BY <1>1
    <2>2. 1 .. Len(calls) = 1 .. Len(Chunks)
      BY <1>1, <1>3, <2>1, Zenon
    <2>3. \A a, b \in Nat : 1 .. a = 1 .. b => a = b
      <3> TAKE a \in Nat, b \in Nat
      <3> HAVE 1 .. a = 1 .. b
      <3>1. a >= 1 => a \in 1 .. b
        OBVIOUS
      <3>2. b >= 1 => b \in 1 .. a
        OBVIOUS
      <3> QED  BY <3>1, <3>2
    <2> QED  BY <1>3, <2>1, <2>2, <2>3, Zenon
  <1>5. Len(Chunks) < 2^Width
    BY <1>4, Zenon DEF Counted
  <1>6. chunkSize \in Nat \ {0} /\ Message(length) \in Seq(Byte)
    BY <1>1, WireAssumption
  <1> QED  BY <1>1, <1>2, <1>4, <1>5, <1>6, Zenon

\* What is accepted is the message: this is where AcceptedIsTheMessage is used.
LEMMA InvReceived == WireInv => ReceivedIsSent
  <1> SUFFICES ASSUME WireInv, fetching = "got", Counted  PROVE ReassembleMessage(fetched) = Message(length)
    BY Zenon DEF ReceivedIsSent
  <1>1. fetched # <<>> /\ Reassembles(fetched) /\ fetched \in Seq(Chunk)
    BY Zenon DEF WireInv, Accepted, Collected
  <1>2. sending # "idle"
    BY <1>1, Zenon DEF WireInv, Idle
  <1>3. DOMAIN fetched = 1 .. Len(fetched) /\ 1 \in DOMAIN fetched
    <2>1. fetched # <<>> /\ fetched \in Seq(Chunk)
      BY <1>1, Zenon
    <2> QED  BY <2>1
  <1>4. /\ Split(Chunks, MsgID, Message(length), chunkSize, Hash) /\ Len(Chunks) < 2^Width
        /\ chunkSize \in Nat \ {0} /\ Message(length) \in Seq(Byte) /\ DOMAIN calls = DOMAIN Chunks
    BY <1>2, ChunksNow, Zenon
  <1>5. \A m \in DOMAIN fetched : \E i \in DOMAIN Chunks : Variant(Chunks[i], fetched[m])
    BY <1>4, Zenon DEF WireInv, Collected
  <1> DEFINE plain == Message(length)  chunks == Chunks
  <1> HIDE DEF plain, chunks
  <1>6. ReassembleMessage(fetched) = plain
    BY <1>1, <1>3, <1>4, <1>5, AcceptedIsTheMessage, Zenon DEF plain
  <1> QED  BY <1>6 DEF plain

\* What is acknowledged is stored.
LEMMA InvStored == WireInv => SentIsStored
  <1> SUFFICES ASSUME WireInv, sending = "sent", Counted
               PROVE  /\ DOMAIN store = 0 .. Len(calls) - 1
                      /\ LET stored == [k \in 1 .. Len(calls) |-> store[k - 1]]
                         IN  changes = 0 => Reassembles(stored) /\ ReassembleMessage(stored) = Message(length)
    BY Zenon DEF SentIsStored
  <1>1. sending # "idle" /\ \A i \in DOMAIN calls : calls[i] = "ok"
    <2>1. \A i \in DOMAIN calls : calls[i] = "ok"
      BY Zenon DEF WireInv, Acknowledged
    <2> QED  BY <2>1
  <1>2. /\ Split(Chunks, MsgID, Message(length), chunkSize, Hash) /\ Len(Chunks) < 2^Width
        /\ chunkSize \in Nat \ {0} /\ Message(length) \in Seq(Byte) /\ DOMAIN calls = DOMAIN Chunks
        /\ Len(calls) = Len(Chunks)
    BY <1>1, ChunksNow, Zenon
  <1> DEFINE chunks == Chunks  n == Len(chunks)
  <1>3. /\ n \in Nat \ {0} /\ DOMAIN chunks = 1 .. n /\ chunks = [i \in 1 .. n |-> chunks[i]]
        /\ \A i \in 1 .. n : /\ Sendable(chunks[i]) /\ chunks[i].ChunkIdx = Wrap(i - 1)
                             /\ chunks[i].TotalChunks = Wrap(n)
    BY <1>2, Zenon DEF Split
  <1>4. n < 2^Width /\ Len(calls) = n /\ DOMAIN calls = 1 .. n
    BY <1>2, <1>3, Zenon
  <1>5. /\ \A i \in DOMAIN calls : chunks[i].TotalChunks # 0 => chunks[i].ChunkIdx \in DOMAIN store
        /\ \A k \in DOMAIN store : /\ store[k].ChunkIdx = k
                                   /\ \E i \in DOMAIN calls : /\ Variant(chunks[i], store[k])
                                                              /\ changes = 0 => store[k] = chunks[i]
    <2>1. Acknowledged /\ Kept /\ Shape
      BY Zenon DEF WireInv
    <2> QED  BY <1>1, <2>1, Zenon DEF Acknowledged, Kept, Shape
  <1> HIDE DEF chunks, n
  <1>6. Wrap(n) = n /\ n # 0
    <2>1. n \in Nat /\ n # 0
      BY <1>3, Zenon
    <2> QED  BY <2>1, <1>4, WrapIn, Zenon
  <1>7. \A i \in 1 .. n : i - 1 \in 0 .. n - 1 /\ Wrap(i - 1) = i - 1
    <2> TAKE i \in 1 .. n
    <2>1. i - 1 \in Nat /\ i - 1 \in 0 .. n - 1 /\ i - 1 < 2^Width
      <3> DEFINE m == 2^Width
      <3>1. m \in Nat /\ n < m /\ n \in Nat
        BY <1>3, <1>4, EncodingAssumption, SMTT(20)
      <3> HIDE DEF m
      <3>2. i - 1 \in Nat /\ i - 1 \in 0 .. n - 1 /\ i - 1 < m
        BY <3>1
      <3> QED  BY <3>2, SMTT(20) DEF m
    <2> QED  BY <2>1, WrapIn, Zenon
  <1>8. \A k \in 0 .. n - 1 : k + 1 \in 1 .. n /\ (k + 1) - 1 = k
    BY <1>3
  <1>9. \A k \in 0 .. n - 1 : k \in DOMAIN store
    <2> TAKE k \in 0 .. n - 1
    <2>1. k + 1 \in 1 .. n /\ (k + 1) - 1 = k
      BY <1>8, Zenon
    <2>2. chunks[k + 1].ChunkIdx = k /\ chunks[k + 1].TotalChunks # 0
      BY <1>3, <1>6, <1>7, <2>1, Zenon
    <2>3. chunks[k + 1].ChunkIdx \in DOMAIN store
      <3>1. k + 1 \in DOMAIN calls
        BY <1>4, <2>1, Zenon
      <3> QED  BY <3>1, <1>5, <2>2, Zenon
    <2> QED  BY <2>2, <2>3, Zenon
  <1>10. \A k \in DOMAIN store : \E i \in 1 .. n : k = i - 1 /\ (changes = 0 => store[k] = chunks[i])
    <2> TAKE k \in DOMAIN store
    <2>1. PICK i \in 1 .. n : Variant(chunks[i], store[k]) /\ (changes = 0 => store[k] = chunks[i])
      BY <1>4, <1>5, Zenon
    <2>2. store[k].ChunkIdx = chunks[i].ChunkIdx
      BY <1>3, <2>1, VariantFields, Zenon
    <2>3. store[k].ChunkIdx = k /\ chunks[i].ChunkIdx = i - 1
      BY <1>3, <1>5, <1>7, Zenon
    <2> QED  BY <2>1, <2>2, <2>3, Zenon
  <1>11. DOMAIN store = 0 .. n - 1
    BY <1>7, <1>9, <1>10, Zenon
  <1>12. ASSUME changes = 0
         PROVE  [k \in 1 .. n |-> store[k - 1]] = chunks
    <2>1. ASSUME NEW k \in 1 .. n  PROVE store[k - 1] = chunks[k]
      <3>1. k - 1 \in DOMAIN store
        BY <1>7, <1>9, Zenon
      <3>2. PICK i \in 1 .. n : k - 1 = i - 1 /\ store[k - 1] = chunks[i]
        BY <1>10, <1>12, <3>1, Zenon
      <3>3. i = k
        BY <1>3, <3>2
      <3> QED  BY <3>2, <3>3, Zenon
    <2> QED  BY <1>3, <2>1, Zenon
  <1>13. Reassembles(chunks) /\ ReassembleMessage(chunks) = Message(length)
    <2>1. Reassembles(chunks)
      BY <1>2, ChunksReassemble, Zenon DEF chunks
    <2>2. DOMAIN chunks = 1 .. Len(chunks) /\ 1 \in DOMAIN chunks
      <3>1. 1 \in 1 .. n
        BY <1>3
      <3> QED  BY <1>3, <3>1, Zenon DEF n
    <2>3. \A i \in DOMAIN chunks : \E j \in DOMAIN chunks : Variant(chunks[j], chunks[i])
      BY <1>3, OwnVariant, Zenon
    <2> DEFINE plain == Message(length)
    <2> HIDE DEF plain
    <2>4. Split(chunks, MsgID, plain, chunkSize, Hash) /\ Len(chunks) < 2^Width /\ plain \in Seq(Byte)
      BY <1>2, Zenon DEF chunks, plain
    <2>5. ReassembleMessage(chunks) = plain
      BY <1>2, <2>1, <2>2, <2>3, <2>4, AcceptedIsTheMessage, Zenon
    <2> QED  BY <2>1, <2>5, Zenon DEF plain
  <1> QED  BY <1>4, <1>11, <1>12, <1>13, Zenon

\* A recipient collects no chunk whose number of chunks is 0.
LEMMA InvRoom == WireInv => FirstHasRoom
  <1> SUFFICES ASSUME WireInv, fetched # <<>>  PROVE Head(fetched).TotalChunks > 0
    BY Zenon DEF FirstHasRoom
  <1>1. fetched \in Seq(Chunk) /\ \A m \in DOMAIN fetched : fetched[m].TotalChunks # 0
    BY Zenon DEF WireInv, Collected
  <1>2. 1 \in DOMAIN fetched /\ Head(fetched) = fetched[1] /\ fetched[1] \in Chunk
    <2> HIDE DEF Chunk
    <2> QED  BY <1>1
  <1>3. fetched[1].TotalChunks \in Word
    BY <1>2 DEF Chunk
  <1>4. fetched[1].TotalChunks # 0
    BY <1>1, <1>2, Zenon
  <1>5. \A w \in Word : w # 0 => w > 0
    BY DEF Word
  <1> QED  BY <1>2, <1>3, <1>4, <1>5, Zenon

-----------------------------------------------------------------------------
(***************************************************************************)
(* The rate limiter.                                                       *)
(***************************************************************************)
\* Allowed requests and tokens left, as of the last check; an address without a
\* request in this stretch of time has nothing to account for.
Accounted(ip) ==
    \/ allowed[ip] = before[ip]
    \/ /\ ip \in buckets
       /\ start <= lastCheck[ip]
       /\ (allowed[ip] - before[ip]) * Ticks + tokens[ip]
             <= Full + Rate * (lastCheck[ip] - start)

\* The inductive invariant of the limiter.
LimiterInv == LimiterTypeOK /\ \A ip \in IPs : Accounted(ip)

\* Tokens for two adjoining times are the tokens for both together.
LEMMA Adjoin ==
  ASSUME NEW r \in Int, NEW a \in Int, NEW b \in Int, NEW c \in Int
  PROVE  r * (b - a) + (c - b) * r = r * (c - a)
OBVIOUS

\* A product of natural numbers is one, and more time gives no fewer tokens.
LEMMA MoreTime ==
  ASSUME NEW r \in Nat, NEW d \in Nat, NEW e \in Nat, d <= e
  PROVE  r * d \in Nat /\ r * d <= r * e
OBVIOUS

\* One more request costs one request's tokens.
LEMMA OneMore ==
  ASSUME NEW a \in Int, NEW b \in Int, NEW t \in Int
  PROVE  (a + 1 - b) * t = (a - b) * t + t
OBVIOUS

\* The burst in units is a natural number.
LEMMA FullIsNat == Full \in Nat
BY RateAssumption DEF Full

\* Refill gives at most the burst, at least nothing, and for a bucket that
\* exists at most its tokens and those of the time since its last check.
LEMMA RefillBounds ==
  ASSUME LimiterTypeOK, NEW ip \in IPs
  PROVE  /\ Refill(ip) \in 0 .. Full
         /\ ip \in buckets => Refill(ip) <= tokens[ip] + (clock - lastCheck[ip]) * Rate
<1>1. tokens[ip] \in 0 .. Full /\ clock - lastCheck[ip] \in Nat
  BY FullIsNat DEF LimiterTypeOK
<1>2. (clock - lastCheck[ip]) * Rate \in Nat
  BY <1>1, RateAssumption
<1> QED
  BY <1>1, <1>2, FullIsNat DEF Refill

\* After a check, what Refill found and what was allowed before it are within
\* the bound as of now.
LEMMA CheckAccounts ==
  ASSUME LimiterInv, NEW ip \in IPs
  PROVE  (allowed[ip] - before[ip]) * Ticks + Refill(ip) <= Full + Rate * (clock - start)
<1> DEFINE used == (allowed[ip] - before[ip]) * Ticks
<1>1. /\ Refill(ip) \in 0 .. Full
      /\ ip \in buckets => Refill(ip) <= tokens[ip] + (clock - lastCheck[ip]) * Rate
  BY RefillBounds DEF LimiterInv
<1>2. /\ clock \in Nat /\ start \in 0 .. clock /\ lastCheck[ip] \in 0 .. clock
      /\ tokens[ip] \in 0 .. Full /\ allowed[ip] \in Nat /\ before[ip] \in Nat
      /\ Rate \in Nat /\ Ticks \in Nat /\ Full \in Nat
  BY FullIsNat, RateAssumption DEF LimiterInv, LimiterTypeOK
<1>3. CASE allowed[ip] = before[ip]
  <2>1. used = 0
    BY <1>2, <1>3
  <2>2. Rate * (clock - start) \in Nat
    BY <1>2, MoreTime
  <2> QED
    BY <1>1, <1>2, <2>1, <2>2, SMTT(20)
<1>4. CASE /\ ip \in buckets
           /\ start <= lastCheck[ip]
           /\ used + tokens[ip] <= Full + Rate * (lastCheck[ip] - start)
  <2>1. Rate * (lastCheck[ip] - start) + (clock - lastCheck[ip]) * Rate = Rate * (clock - start)
    BY <1>2, Adjoin
  <2>2. /\ used \in Int /\ Rate * (lastCheck[ip] - start) \in Int
        /\ (clock - lastCheck[ip]) * Rate \in Int /\ Rate * (clock - start) \in Int
    BY <1>2
  <2>3. used + Refill(ip) <= Full + Rate * (clock - start)
    <3> HIDE DEF used
    <3> QED
      BY <1>1, <1>2, <1>4, <2>1, <2>2, SMTT(20)
  <2> QED
    BY <2>3, Zenon
<1> QED
  BY <1>3, <1>4 DEF LimiterInv, Accounted

\* The initial state satisfies the invariant.
LEMMA InitInv == LimiterInit => LimiterInv
BY FullIsNat DEF LimiterInit, LimiterInv, LimiterTypeOK, Accounted

\* Time that passes changes no bucket; a stretch that begins starts from nothing.
LEMMA TickInv ==
  ASSUME LimiterInv, ClockTick
  PROVE  LimiterInv'
<1>1. LimiterTypeOK'
  BY DEF LimiterInv, LimiterTypeOK, ClockTick, clients, window, Full
<1>2. ASSUME NEW ip \in IPs
      PROVE  Accounted(ip)'
  <2>1. CASE UNCHANGED window
    BY <2>1 DEF LimiterInv, Accounted, ClockTick, clients, window, Full
  <2>2. CASE start' = clock + 1 /\ before' = allowed
    BY <2>2 DEF LimiterInv, Accounted, ClockTick, clients
  <2> QED
    BY <2>1, <2>2, SMTT(20) DEF ClockTick
<1> QED
  BY <1>1, <1>2, Zenon DEF LimiterInv

\* A request that is let through pays for itself with what Refill found.
LEMMA AllowInv ==
  ASSUME LimiterInv, NEW ip \in IPs, Allow(ip)
  PROVE  LimiterInv'
<1>1. Refill(ip) \in 0 .. Full /\ Refill(ip) - Ticks \in 0 .. Full
  BY RefillBounds, FullIsNat, RateAssumption, SMTT(20) DEF LimiterInv, Allow
<1>2. LimiterTypeOK'
  BY <1>1 DEF LimiterInv, LimiterTypeOK, Allow, window, Full
<1>3. ASSUME NEW j \in IPs
      PROVE  Accounted(j)'
  <2>1. CASE j = ip
    <3>1. (allowed[ip] - before[ip]) * Ticks + Refill(ip) <= Full + Rate * (clock - start)
      BY CheckAccounts
    <3>2. /\ allowed'[ip] = allowed[ip] + 1 /\ before' = before /\ start' = start
          /\ tokens'[ip] = Refill(ip) - Ticks /\ lastCheck'[ip] = clock
          /\ ip \in buckets' /\ start <= clock
      BY DEF LimiterInv, LimiterTypeOK, Allow, window
    <3>3. /\ allowed[ip] \in Nat /\ before[ip] \in Nat /\ Ticks \in Nat
          /\ Rate * (clock - start) \in Int /\ Full \in Nat
      BY FullIsNat, RateAssumption DEF LimiterInv, LimiterTypeOK
    <3>4. (allowed[ip] + 1 - before[ip]) * Ticks = (allowed[ip] - before[ip]) * Ticks + Ticks
      <4>1. allowed[ip] \in Int /\ before[ip] \in Int /\ Ticks \in Int
        BY <3>3
      <4> QED
        BY <4>1, OneMore, Zenon
    <3>5. (allowed[ip] - before[ip]) * Ticks \in Int
      BY <3>3
    <3>6. (allowed[ip] + 1 - before[ip]) * Ticks + (Refill(ip) - Ticks)
             <= Full + Rate * (clock - start)
      BY <1>1, <3>1, <3>3, <3>4, <3>5, SMTT(20)
    <3>7. (allowed'[ip] - before'[ip]) * Ticks + tokens'[ip]
             <= Full + Rate * (lastCheck'[ip] - start')
      BY <1>1, <3>2, <3>3, <3>6, SMTT(20)
    <3>8. start' <= lastCheck'[ip]
      BY <3>2, SMTT(20)
    <3> QED
      BY <2>1, <3>2, <3>7, <3>8, Zenon DEF Accounted, Full
  <2>2. CASE j # ip
    BY <2>2 DEF LimiterInv, LimiterTypeOK, Accounted, Allow, window, Full
  <2> QED
    BY <2>1, <2>2, Zenon
<1> QED
  BY <1>2, <1>3 DEF LimiterInv

\* A request that is refused leaves what Refill found.
LEMMA RefuseInv ==
  ASSUME LimiterInv, NEW ip \in IPs, Refuse(ip)
  PROVE  LimiterInv'
<1>1. Refill(ip) \in 0 .. Full
  BY RefillBounds DEF LimiterInv
<1>2. LimiterTypeOK'
  BY <1>1, SMTT(20) DEF LimiterInv, LimiterTypeOK, Refuse, window, Full
<1>3. ASSUME NEW j \in IPs
      PROVE  Accounted(j)'
  <2>1. CASE j = ip
    <3>1. (allowed[ip] - before[ip]) * Ticks + Refill(ip) <= Full + Rate * (clock - start)
      BY CheckAccounts, Zenon
    <3>2. /\ allowed' = allowed /\ before' = before /\ start' = start
          /\ tokens'[ip] = Refill(ip) /\ lastCheck'[ip] = clock
          /\ ip \in buckets' /\ start <= clock
      BY DEF LimiterInv, LimiterTypeOK, Refuse, window
    <3> QED
      BY <2>1, <3>1, <3>2, Zenon DEF Accounted, Full
  <2>2. CASE j # ip
    BY <2>2 DEF LimiterInv, LimiterTypeOK, Accounted, Refuse, window, Full
  <2> QED
    BY <2>1, <2>2, Zenon
<1> QED
  BY <1>2, <1>3, Zenon DEF LimiterInv

\* The invariant gives the bound: a bucket holds no less than nothing.
LEMMA InvBounds == LimiterInv => AllowedIsBounded
<1> SUFFICES ASSUME LimiterInv, NEW ip \in IPs
             PROVE  (allowed[ip] - before[ip]) * Ticks <= Full + Rate * (clock - start)
  BY DEF AllowedIsBounded
<1>1. (allowed[ip] - before[ip]) * Ticks + Refill(ip) <= Full + Rate * (clock - start)
  BY CheckAccounts
<1>2. Refill(ip) \in 0 .. Full
  BY RefillBounds DEF LimiterInv
<1>3. (allowed[ip] - before[ip]) * Ticks \in Int /\ Full + Rate * (clock - start) \in Int
  BY FullIsNat, RateAssumption DEF LimiterInv, LimiterTypeOK
<1> QED
  BY <1>1, <1>2, <1>3, FullIsNat, SMTT(20)

\* The rate limiter of ratelimit.go keeps its promise: in any stretch of time an
\* address gets at most burst + rate * elapsed requests through, whatever the
\* rate, the burst and the addresses, and buckets stay between empty and full.
THEOREM RateIsKept == LimiterSpec => [](LimiterTypeOK /\ AllowedIsBounded)
<1>1. LimiterInit => LimiterInv
  BY InitInv
<1>2. LimiterInv /\ [LimiterNext]_limiterVars => LimiterInv'
  <2> SUFFICES ASSUME LimiterInv, [LimiterNext]_limiterVars
               PROVE  LimiterInv'
    BY Zenon
  <2>1. CASE ClockTick
    BY <2>1, TickInv, Zenon
  <2>2. ASSUME NEW ip \in IPs, Allow(ip)
        PROVE  LimiterInv'
    BY <2>2, AllowInv, Zenon
  <2>3. ASSUME NEW ip \in IPs, Refuse(ip)
        PROVE  LimiterInv'
    BY <2>3, RefuseInv, Zenon
  <2>4. CASE UNCHANGED limiterVars
    BY <2>4 DEF LimiterInv, LimiterTypeOK, Accounted, limiterVars, clients, window, Full
  <2> QED
    BY <2>1, <2>2, <2>3, <2>4, SMTT(20) DEF LimiterNext
<1>3. LimiterInv => LimiterTypeOK /\ AllowedIsBounded
  BY InvBounds DEF LimiterInv
<1> QED
  BY <1>1, <1>2, <1>3, PTL DEF LimiterSpec

-----------------------------------------------------------------------------
(***************************************************************************)
(* The theorems about the system.                                          *)
(***************************************************************************)
\* The handler in front of the relay is the rate limiter of ratelimit.go: seen
\* through its variables alone, every behaviour of the system is one of the
\* limiter, whose requests and refusals the exchanges and queries are.
THEOREM LimiterImplemented == Spec => LimiterSpec
<1>1. Init => LimiterInit
  BY Zenon DEF Init
<1>2. [Next]_vars => [LimiterNext]_limiterVars
  <2> SUFFICES ASSUME [Next]_vars  PROVE LimiterNext \/ UNCHANGED limiterVars
    BY Zenon
  <2>0. SenderIP \in IPs /\ RecipientIP \in IPs
    BY WireAssumption, Zenon
  <2>1. ASSUME NEW size \in Requests, SetChunkSize(size)  PROVE UNCHANGED limiterVars
    BY <2>1, Zenon DEF SetChunkSize
  <2>2. ASSUME NEW n \in Lengths, SendMessage(n)  PROVE UNCHANGED limiterVars
    BY <2>2, Zenon DEF SendMessage
  <2>3. ASSUME NEW i \in DOMAIN calls, Exchange(i) \/ ExchangeRefused(i) \/ ExchangeFails(i)
        PROVE  LimiterNext \/ UNCHANGED limiterVars
    BY <2>0, <2>3, Zenon DEF Exchange, ExchangeRefused, ExchangeFails, LimiterNext
  <2>4. ASSUME SendReturns \/ StartFetch  PROVE UNCHANGED limiterVars
    BY <2>4, Zenon DEF SendReturns, StartFetch
  <2>5. ASSUME QueryChunk \/ QueryFails  PROVE LimiterNext \/ UNCHANGED limiterVars
    BY <2>0, <2>5, Zenon DEF QueryChunk, QueryFails, LimiterNext
  <2>6. ASSUME ClockTick  PROVE LimiterNext
    BY <2>6, Zenon DEF LimiterNext
  <2>7. ASSUME UNCHANGED vars  PROVE UNCHANGED limiterVars
    BY <2>7, Zenon DEF vars
  <2> QED  BY <2>1, <2>2, <2>3, <2>4, <2>5, <2>6, <2>7, Zenon DEF Next
<1> QED  BY <1>1, <1>2, PTL DEF Spec, LimiterSpec

\* So its bound holds for the requests of the sender and the recipient, whatever
\* else they do: no address gets more than burst + rate * elapsed of them
\* through.
THEOREM BoundOnTheWire == Spec => []AllowedIsBounded
BY LimiterImplemented, RateIsKept, PTL

\* The chunk size stays within the limits of SetChunkSize, an index at the relay
\* within 16 bits, and every variable in its type.
THEOREM TypeCorrect == Spec => []TypeOK
<1>1. LimiterTypeOK /\ WireInv => TypeOK
  BY Zenon DEF WireInv, Shape, TypeOK
<1>2. Spec => []LimiterTypeOK
  BY LimiterImplemented, RateIsKept, PTL
<1> QED  BY <1>1, <1>2, WireInvariant, PTL

\* A message that fetchAndReassemble returns is the message that SendMessage was
\* called with, for every message of fewer than 2^Width chunks, every chunk
\* size, id and recipient, whatever the network loses or which digit of each
\* payload it alters.
THEOREM Received == Spec => []ReceivedIsSent
BY WireInvariant, InvReceived, PTL

\* When SendMessage returns success, every chunk is at the relay, and where the
\* network has altered nothing, the chunks there are accepted by
\* ReassembleMessage and give the message.
THEOREM SentStays == Spec => []SentIsStored
BY WireInvariant, InvStored, PTL

\* The slice that fetchAndReassemble makes for as many chunks as the first one
\* announces has room for it: the relay takes a chunk whose number of chunks has
\* wrapped to 0 for a query, and never keeps it.
THEOREM Room == Spec => []FirstHasRoom
BY WireInvariant, InvRoom, PTL
=============================================================================
