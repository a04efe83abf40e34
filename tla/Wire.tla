-------------------------------- MODULE Wire --------------------------------
(***************************************************************************)
(* One message through one relay, down to the labels of the DNS names: the *)
(* chunk size and transport mode of the engine (client/dns_engine.go),     *)
(* SendChunk and QueryChunk with their fall back from one transport to the *)
(* next (dns/dns.go), and the relay's handler of a request behind its rate *)
(* limiter (relay/server.go).                                              *)
(*                                                                         *)
(* The chunks are sent concurrently, one call of SendChunk for each (the   *)
(* retries of SendParallel and SendQueue are left to those modules).  The  *)
(* network loses requests and answers and may alter a digit of a payload.  *)
(* Meanwhile the recipient fetches.                                        *)
(***************************************************************************)
EXTENDS Encoding, RateLimit

CONSTANTS
    Lengths,      \* lengths of the messages the daemon may send
    Message(_),   \* the message of a length
    Requests,     \* chunk sizes SetChunkSize is called with
    MsgID,
    Hash,         \* of the recipient
    SenderIP, RecipientIP,
    Modes,        \* transport modes in use, of "tcp", "udp" and "auto"
    Noise,        \* how the network may alter a digit: a record of the label, the
                  \* digit in it and what it arrives as
    MaxFaults     \* bound on lost requests and answers and on altered digits

ASSUME WireAssumption ==
    /\ {SenderIP, RecipientIP} \subseteq IPs
    /\ Modes \subseteq {"tcp", "udp", "auto"}
    /\ Requests \subseteq Int
    /\ Lengths \subseteq Nat \ {0}
    /\ \A n \in Lengths : Message(n) \in Seq(Byte) /\ Len(Message(n)) = n
    /\ MsgID \in Seq(Byte) /\ Len(MsgID) = 8
    /\ Hash \in Seq(Byte) /\ Len(Hash) = 32
    /\ Noise \subseteq [label : Nat, digit : Nat, as : Digit]
    /\ MaxFaults \in Nat

VARIABLES
    chunkSize,   \* of the engine
    mode,        \* transport mode of the engine
    length,      \* of the message being sent
    names,       \* the labels of its chunks
    arriving,    \* the chunks the relay may make of them
    calls,       \* where each call of SendChunk is: see Transports
    sending,     \* "idle", "busy", "sent" or "failed": SendMessage
    store,       \* the chunks of the message at the relay, by index
    query,       \* where the call of QueryChunk is
    fetching,    \* "idle", "busy", "got" or "failed": fetchAndReassemble
    fetched,     \* the chunks it has
    losses, changes

settings == <<chunkSize, mode>>
sender == <<length, names, arriving, calls, sending>>
recipient == <<query, fetching, fetched>>
vars == <<limiterVars, settings, sender, store, recipient, losses, changes>>

-----------------------------------------------------------------------------
\* Mutant: the minimum is not kept.
Clamp_NoMinimum(size) == IF size > 200 THEN 200 ELSE size

Clamp(size) == IF size < 32 THEN 32 ELSE IF size > 200 THEN 200 ELSE size

defaultChunkSize == 75

\* The labels QueryChunk asks with.
QueryName(k) == EncodeToLabels(NewChunk(MsgID, k, 0, <<>>, <<>>))

\* A call tries its transport, in mode "auto" up to three times.
Transports == {"tcp", "udp", "tcp1", "udp2", "tcp3"}

FirstTransport(m) == IF m = "auto" THEN "tcp1" ELSE m

\* Mutant: any answer is taken for an acknowledgement.
AfterSend_AnyAnswer(t, outcome) ==
    CASE outcome # "err" -> "ok"
      [] outcome = "err" /\ t = "tcp1" -> "udp2"
      [] outcome = "err" /\ t = "udp2" -> "tcp3"
      [] OTHER -> "failed"

\* SendChunk after an exchange that was answered ("ok"), refused ("rcode") or
\* not answered ("err") ...
AfterSend(t, outcome) ==
    CASE outcome = "ok" -> "ok"
      [] outcome # "ok" /\ t = "tcp1" -> "udp2"
      [] outcome = "err" /\ t = "udp2" -> "tcp3"
      [] OTHER -> "failed"

\* ... and QueryChunk, which falls back on any failure.
AfterQuery(t, outcome) ==
    CASE outcome = "ok" -> "ok"
      [] outcome # "ok" /\ t = "tcp1" -> "udp2"
      [] outcome # "ok" /\ t = "udp2" -> "tcp3"
      [] OTHER -> "failed"

Init ==
    /\ LimiterInit
    /\ chunkSize = defaultChunkSize /\ mode \in Modes
    /\ length = 0 /\ names = <<>> /\ arriving = <<>> /\ calls = <<>> /\ sending = "idle"
    /\ store = <<>>
    /\ query = "failed" /\ fetching = "idle" /\ fetched = <<>>
    /\ losses = 0 /\ changes = 0

SetChunkSize(size) ==
    /\ sending = "idle"
    /\ chunkSize' = Clamp(size)
    /\ UNCHANGED <<limiterVars, mode, sender, store, recipient, losses, changes>>

\* A digit of the payload may arrive as another one.
Altered(labels, a) == [labels EXCEPT ![a.label][a.digit] = a.as]

Alterations(labels) ==
    {a \in Noise : /\ a.label \in idxStart(labels) + 5 .. Len(labels)
                   /\ a.digit \in DOMAIN labels[a.label]}

Arriving(labels) ==
    [sent |-> DecodeChunkFromLabels(labels),
     altered |-> {DecodeChunkFromLabels(Altered(labels, a)) : a \in Alterations(labels)}]

\* SendMessage splits the message and starts a call for each chunk.
SendMessage(n) ==
    LET chunks == ChunkMessage(MsgID, Message(n), chunkSize, Hash)
    IN  /\ sending = "idle"
        /\ length' = n
        /\ names' = [i \in DOMAIN chunks |-> EncodeToLabels(chunks[i])]
        /\ arriving' = [i \in DOMAIN chunks |-> Arriving(names'[i])]
        /\ calls' = [i \in DOMAIN chunks |-> FirstTransport(mode)]
        /\ sending' = "busy"
        /\ UNCHANGED <<limiterVars, settings, store, recipient, losses, changes>>

-----------------------------------------------------------------------------
Put(chunk) ==
    [k \in DOMAIN store \cup {chunk.ChunkIdx} |-> IF k = chunk.ChunkIdx THEN chunk ELSE store[k]]

\* Mutant: a chunk is stored whatever its number of chunks.
Stored_Always(chunk) == Put(chunk)

\* The handler of a request with a chunk: the store after it, where a chunk
\* without a number of chunks is a query, ...
Stored(chunk) == IF chunk.TotalChunks = 0 THEN store ELSE Put(chunk)

\* ... and the answer.
Reply(chunk) ==
    IF chunk.TotalChunks = 0 /\ chunk.ChunkIdx \notin DOMAIN store THEN "rcode" ELSE "ok"

Faulty == losses + changes < MaxFaults
Lose == losses' = losses + 1

\* A DNS name has at most 255 octets.
Fits(i) == NameLength(names[i]) <= 255

Return(i, outcome) ==
    /\ sending = "busy"
    /\ calls[i] \in Transports
    /\ calls' = [calls EXCEPT ![i] = AfterSend(@, outcome)]
    /\ UNCHANGED <<settings, length, names, arriving, sending, recipient>>

\* An exchange of SendChunk: the request arrives, perhaps altered, and so does
\* the answer, unless it is lost;
Exchange(i) ==
    /\ Fits(i)
    /\ Allow(SenderIP)
    /\ \/ /\ store' = Stored(arriving[i].sent)
          /\ \/ Return(i, Reply(arriving[i].sent)) /\ UNCHANGED losses
             \/ Faulty /\ Return(i, "err") /\ Lose
          /\ UNCHANGED changes
       \/ \E chunk \in arriving[i].altered :
             /\ Faulty
             /\ store' = Stored(chunk)
             /\ Return(i, Reply(chunk))
             /\ changes' = changes + 1
             /\ UNCHANGED losses

\* the relay's limiter refuses it;
ExchangeRefused(i) ==
    /\ Fits(i)
    /\ Refuse(SenderIP)
    /\ Return(i, "rcode")
    /\ UNCHANGED <<store, losses, changes>>

\* the request is lost, or its name is too long to be sent.
ExchangeFails(i) ==
    /\ Return(i, "err")
    /\ IF Fits(i) THEN Faulty /\ Lose ELSE UNCHANGED losses
    /\ UNCHANGED <<limiterVars, store, changes>>

SendReturns ==
    /\ sending = "busy"
    /\ \A i \in DOMAIN calls : calls[i] \in {"ok", "failed"}
    /\ sending' = IF \A i \in DOMAIN calls : calls[i] = "ok" THEN "sent" ELSE "failed"
    /\ UNCHANGED <<limiterVars, settings, length, names, arriving, calls, store, recipient, losses, changes>>

-----------------------------------------------------------------------------
\* A poll has listed the message; Fetch is about the polls that follow.
StartFetch ==
    /\ fetching = "idle"
    /\ store # <<>>
    /\ fetching' = "busy"
    /\ query' = FirstTransport(mode)
    /\ UNCHANGED <<limiterVars, settings, sender, store, fetched, losses, changes>>

\* The next chunk comes, as the relay makes it labels again: the first one tells
\* how many there are.
Answers(asked) ==
    {DecodeChunkFromLabels(labels) :
        labels \in {EncodeToLabels(store[k]) : k \in {asked.ChunkIdx} \cap DOMAIN store}}

QueryChunk ==
    /\ fetching = "busy"
    /\ Allow(RecipientIP)
    /\ \E chunk \in Answers(DecodeChunkFromLabels(QueryName(Len(fetched)))) :
          LET all == Append(fetched, chunk)
              done == Len(all) >= Head(all).TotalChunks
          IN  /\ fetched' = all
              /\ query' = IF done THEN "ok" ELSE FirstTransport(mode)
              /\ fetching' = IF ~done THEN "busy" ELSE IF Reassembles(all) THEN "got" ELSE "failed"
    /\ UNCHANGED <<settings, sender, store, losses, changes>>

\* The exchange fails: NXDOMAIN, REFUSED, or no answer.
QueryFails ==
    /\ fetching = "busy"
    /\ \/ /\ Reply(DecodeChunkFromLabels(QueryName(Len(fetched)))) = "rcode"
          /\ Allow(RecipientIP)
          /\ query' = AfterQuery(query, "rcode")
          /\ UNCHANGED losses
       \/ /\ Refuse(RecipientIP)
          /\ query' = AfterQuery(query, "rcode")
          /\ UNCHANGED losses
       \/ /\ Faulty
          /\ Lose
          /\ query' = AfterQuery(query, "err")
          /\ UNCHANGED limiterVars
    /\ fetching' = IF query' = "failed" THEN "failed" ELSE "busy"
    /\ UNCHANGED <<settings, sender, store, fetched, changes>>

Next ==
    \/ \E s \in Requests : SetChunkSize(s)
    \/ \E n \in Lengths : SendMessage(n)
    \/ \E i \in DOMAIN calls : Exchange(i) \/ ExchangeRefused(i) \/ ExchangeFails(i)
    \/ SendReturns
    \/ StartFetch \/ QueryChunk \/ QueryFails
    \/ ClockTick /\ UNCHANGED <<settings, sender, store, recipient, losses, changes>>

Spec == Init /\ [][Next]_vars

-----------------------------------------------------------------------------
\* The number of chunks of the message is one that 16 bits hold.
Counted == sending # "idle" => Len(calls) < 2^Width

\* What the recipient reassembles is the message that was sent, whatever is
\* lost, repeated by a fall back or altered, and whichever chunks were stored
\* when: for every length and chunk size whose chunks can be counted.
ReceivedIsSent ==
    fetching = "got" /\ Counted => ReassembleMessage(fetched) = Message(length)

\* A message the sender counts as sent can be read at the relay: every chunk is
\* there, and together they are the message unless a digit was altered.
SentIsStored ==
    sending = "sent" /\ Counted
    => /\ DOMAIN store = 0 .. Len(calls) - 1
       /\ LET stored == [k \in 1 .. Len(calls) |-> store[k - 1]]
          IN  changes = 0 => Reassembles(stored) /\ ReassembleMessage(stored) = Message(length)

\* The first chunk a recipient gets announces a chunk at least: the slice
\* fetchAndReassemble makes for that number has room for it, even when the
\* number of chunks has wrapped around to 0.
FirstHasRoom == fetched # <<>> => Head(fetched).TotalChunks > 0

\* A message is never split into chunks whose names cannot be sent: the cap of
\* SetChunkSize is there to prevent excessively large DNS names.
NamesFit == sending = "busy" => \A i \in DOMAIN calls : Fits(i)

\* The state has its shape; the chunk size stays between its limits.
TypeOK ==
    /\ LimiterTypeOK
    /\ chunkSize \in 32 .. 200 /\ mode \in Modes
    /\ length \in Lengths \cup {0}
    /\ calls \in Seq(Transports \cup {"ok", "failed"})
    /\ sending \in {"idle", "busy", "sent", "failed"}
    /\ DOMAIN store \subseteq 0 .. 2^Width - 1
    /\ \A k \in DOMAIN store : store[k].ChunkIdx = k
    /\ query \in Transports \cup {"ok", "failed"}
    /\ fetching \in {"idle", "busy", "got", "failed"}
    /\ losses \in Nat /\ changes \in Nat /\ losses + changes <= MaxFaults
=============================================================================
