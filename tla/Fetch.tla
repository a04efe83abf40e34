------------------------------- MODULE Fetch -------------------------------
(***************************************************************************)
(* The receiving side of the client: PollRelays, PollMessages and          *)
(* fetchAndReassemble of the DNS engine (internal/client/dns_engine.go),   *)
(* the decryption loop of Daemon.PollMessages (internal/client/daemon.go)  *)
(* and the app's poll loop that takes the answer                           *)
(* (features/chat/providers/message_list_provider.dart).                   *)
(*                                                                         *)
(* A poll asks every relay which messages it lists, then fetches each one  *)
(* that is not yet marked fetched from one relay after the other: all its  *)
(* chunks have to come from the same relay.  The relays of the list are    *)
(* asked in any order.  A DNS query sees the relay at the moment of the    *)
(* query, so a message may change between two queries.  The relay sets the *)
(* owner, which makes POLL list the id, right after storing the chunk; the *)
(* model has the two in one step, since a poll lists before it queries.    *)
(* Messages are chat messages: what the daemon consumes itself (group      *)
(* keys, profiles, media metadata, hellos) is left out.                    *)
(***************************************************************************)
EXTENDS Integers

CONSTANTS
    Ids,            \* message ids
    NoId,
    PolledRelays,
    NoRelay,
    Total,          \* chunks of a message
    Senders,
    From,           \* [Ids -> Senders]
    Pollers,        \* PollMessages calls that may overlap
    MaxFails,       \* bound on queries that fail although the relay has the answer
    MaxForgets,     \* bound on losses at a relay
    MaxRestarts,    \* bound on restarts of the daemon
    MaxRemovals,    \* bound on peers the user removes
    MaxLosses,      \* bound on answers that do not reach the app
    MaxMishaps      \* bound on losses, restarts and removals together

ASSUME FetchAssumption ==
    /\ NoId \notin Ids /\ NoRelay \notin PolledRelays /\ PolledRelays # {}
    /\ Total \in Nat \ {0}
    /\ From \in [Ids -> Senders]
    /\ MaxFails \in Nat
    /\ MaxForgets \in Nat /\ MaxRestarts \in Nat
    /\ MaxRemovals \in Nat /\ MaxLosses \in Nat /\ MaxMishaps \in Nat

VARIABLES
    holds,      \* <<id, chunk, relay>> for every chunk a relay has stored
    fetched,    \* ids the engine has marked as downloaded (in memory)
    peers,      \* senders the daemon knows
    pc,         \* [Pollers -> "idle", "list", "pick", "fetch" or "answer"]
    toList,     \* [Pollers -> relays still to be asked for their list]
    ids,        \* [Pollers -> listed ids still to be looked at]
    cur,        \* [Pollers -> the id being fetched]
    toTry,      \* [Pollers -> relays it has not been tried from]
    relay,      \* [Pollers -> the relay it is being fetched from]
    got,        \* [Pollers -> number of its chunks received from that relay]
    hand,       \* [Pollers -> reassembled messages not yet decrypted]
    out,        \* [Pollers -> messages of the answer]
    shown,      \* messages the app has got
    dropped,    \* messages no known key decrypts, since the daemon started
    lost,       \* messages of answers that never arrived, since the daemon started
    returned,   \* messages of answers that arrived, since the daemon started
    fails, forgets, restarts, removals, losses

engine == <<pc, toList, ids, cur, toTry, relay, got>>
results == <<hand, out>>
fates == <<shown, dropped, lost, returned>>
counts == <<fails, forgets, restarts, removals, losses>>
fetchVars == <<holds, fetched, peers, engine, results, fates, counts>>

-----------------------------------------------------------------------------
Chunk == 0 .. Total - 1

\* The ids a relay answers to POLL.
Lists(r) == {i \in Ids : \E c \in Chunk : <<i, c, r>> \in holds}

FetchInit ==
    /\ holds = {}
    /\ fetched = {}
    /\ peers \in SUBSET Senders
    /\ pc = [p \in Pollers |-> "idle"]
    /\ toList = [p \in Pollers |-> {}]
    /\ ids = [p \in Pollers |-> {}]
    /\ cur = [p \in Pollers |-> NoId]
    /\ toTry = [p \in Pollers |-> {}]
    /\ relay = [p \in Pollers |-> NoRelay]
    /\ got = [p \in Pollers |-> 0]
    /\ hand = [p \in Pollers |-> {}]
    /\ out = [p \in Pollers |-> {}]
    /\ shown = {}
    /\ dropped = {}
    /\ lost = {}
    /\ returned = {}
    /\ fails = 0 /\ forgets = 0 /\ restarts = 0 /\ removals = 0 /\ losses = 0

-----------------------------------------------------------------------------
\* The app calls PollMessages.
StartPoll(p) ==
    /\ pc[p] = "idle"
    /\ pc' = [pc EXCEPT ![p] = "list"]
    /\ toList' = [toList EXCEPT ![p] = PolledRelays]
    /\ UNCHANGED <<holds, fetched, peers, ids, cur, toTry, relay, got, results, fates, counts>>

\* Another loss, restart or removal is within the bounds.
Mishap == forgets + restarts + removals + losses < MaxMishaps

\* A query or its answer is lost.
QueryLost == fails < MaxFails /\ fails' = fails + 1

\* pollRelayWithMeta: the relay's list, or nothing if the query fails.
ListRelay(p, r) ==
    /\ pc[p] = "list"
    /\ r \in toList[p]
    /\ toList' = [toList EXCEPT ![p] = @ \ {r}]
    /\ \/ ids' = [ids EXCEPT ![p] = @ \cup Lists(r)] /\ UNCHANGED fails
       \/ QueryLost /\ UNCHANGED ids
    /\ pc' = [pc EXCEPT ![p] = IF toList[p] = {r} THEN "pick" ELSE "list"]
    /\ UNCHANGED <<holds, fetched, peers, cur, toTry, relay, got, results, fates,
                   forgets, restarts, removals, losses>>

\* The loop of PollMessages: an id that is already fetched is skipped ...
Skip(p, i) ==
    /\ pc[p] = "pick"
    /\ i \in ids[p]
    /\ i \in fetched
    /\ ids' = [ids EXCEPT ![p] = @ \ {i}]
    /\ UNCHANGED <<holds, fetched, peers, pc, toList, cur, toTry, relay, got, results, fates, counts>>

\* Mutant: the id is marked before it has been fetched.
Pick_Marks(p, i) ==
    /\ pc[p] = "pick"
    /\ i \in ids[p]
    /\ i \notin fetched
    /\ fetched' = fetched \cup {i}
    /\ pc' = [pc EXCEPT ![p] = "fetch"]
    /\ ids' = [ids EXCEPT ![p] = @ \ {i}]
    /\ cur' = [cur EXCEPT ![p] = i]
    /\ toTry' = [toTry EXCEPT ![p] = PolledRelays]
    /\ UNCHANGED <<holds, peers, toList, relay, got, results, fates, counts>>

\* ... and any other is fetched from the first relay that has all of it.
Pick(p, i) ==
    /\ pc[p] = "pick"
    /\ i \in ids[p]
    /\ i \notin fetched
    /\ pc' = [pc EXCEPT ![p] = "fetch"]
    /\ ids' = [ids EXCEPT ![p] = @ \ {i}]
    /\ cur' = [cur EXCEPT ![p] = i]
    /\ toTry' = [toTry EXCEPT ![p] = PolledRelays]
    /\ UNCHANGED <<holds, fetched, peers, toList, relay, got, results, fates, counts>>

\* fetchAndReassemble begins with a relay ...
TryRelay(p, r) ==
    /\ pc[p] = "fetch"
    /\ relay[p] = NoRelay
    /\ r \in toTry[p]
    /\ relay' = [relay EXCEPT ![p] = r]
    /\ toTry' = [toTry EXCEPT ![p] = @ \ {r}]
    /\ got' = [got EXCEPT ![p] = 0]
    /\ UNCHANGED <<holds, fetched, peers, pc, toList, ids, cur, results, fates, counts>>

Asked(p) == <<cur[p], got[p], relay[p]>>

\* ... asks for one chunk after the other ...
QueryChunk(p) ==
    /\ pc[p] = "fetch"
    /\ relay[p] # NoRelay
    /\ got[p] < Total
    /\ Asked(p) \in holds
    /\ got' = [got EXCEPT ![p] = @ + 1]
    /\ UNCHANGED <<holds, fetched, peers, pc, toList, ids, cur, toTry, relay, results, fates, counts>>

\* Mutant: an error ends the search instead of moving to the next relay.
QueryFails_GivesUp(p) ==
    /\ pc[p] = "fetch"
    /\ relay[p] # NoRelay
    /\ got[p] < Total
    /\ IF Asked(p) \in holds THEN QueryLost ELSE UNCHANGED fails
    /\ relay' = [relay EXCEPT ![p] = NoRelay]
    /\ toTry' = [toTry EXCEPT ![p] = {}]
    /\ UNCHANGED <<holds, fetched, peers, pc, toList, ids, cur, got, results, fates,
                   forgets, restarts, removals, losses>>

\* ... and leaves the relay at the first one that does not come.
QueryFails(p) ==
    /\ pc[p] = "fetch"
    /\ relay[p] # NoRelay
    /\ got[p] < Total
    /\ IF Asked(p) \in holds THEN QueryLost ELSE UNCHANGED fails
    /\ relay' = [relay EXCEPT ![p] = NoRelay]
    /\ UNCHANGED <<holds, fetched, peers, pc, toList, ids, cur, toTry, got, results, fates,
                   forgets, restarts, removals, losses>>

\* No relay is left: the message stays for the next poll.
FetchFails(p) ==
    /\ pc[p] = "fetch"
    /\ relay[p] = NoRelay
    /\ toTry[p] = {}
    /\ pc' = [pc EXCEPT ![p] = "pick"]
    /\ cur' = [cur EXCEPT ![p] = NoId]
    /\ got' = [got EXCEPT ![p] = 0]
    /\ UNCHANGED <<holds, fetched, peers, toList, ids, toTry, relay, results, fates, counts>>

\* Mutant: the mark is forgotten.
Mark_Nothing(i) == UNCHANGED fetched

\* e.fetched[msgID] = true
Mark(i) == fetched' = fetched \cup {i}

\* Mutant: the loop over the chunks ends one short.
AllReceived_OneShort(p) == got[p] + 1 >= Total

\* The loop over the chunks has ended.
AllReceived(p) == got[p] = Total

\* All chunks are there: the message is marked and kept.
FetchSucceeds(p) ==
    /\ pc[p] = "fetch"
    /\ AllReceived(p)
    /\ Mark(cur[p])
    /\ hand' = [hand EXCEPT ![p] = @ \cup {cur[p]}]
    /\ pc' = [pc EXCEPT ![p] = "pick"]
    /\ cur' = [cur EXCEPT ![p] = NoId]
    /\ toTry' = [toTry EXCEPT ![p] = {}]
    /\ relay' = [relay EXCEPT ![p] = NoRelay]
    /\ got' = [got EXCEPT ![p] = 0]
    /\ UNCHANGED <<holds, peers, toList, ids, out, fates, counts>>

\* The engine returns; the daemon decrypts what it got, one by one.
EngineReturns(p) ==
    /\ pc[p] = "pick"
    /\ ids[p] = {}
    /\ pc' = [pc EXCEPT ![p] = "answer"]
    /\ UNCHANGED <<holds, fetched, peers, toList, ids, cur, toTry, relay, got, results, fates, counts>>

\* A message that no known peer's key decrypts is left out of the answer.
Decrypt(p, i) ==
    /\ pc[p] = "answer"
    /\ i \in hand[p]
    /\ hand' = [hand EXCEPT ![p] = @ \ {i}]
    /\ IF From[i] \in peers
       THEN out' = [out EXCEPT ![p] = @ \cup {i}] /\ UNCHANGED dropped
       ELSE dropped' = dropped \cup {i} /\ UNCHANGED out
    /\ UNCHANGED <<holds, fetched, peers, engine, shown, lost, returned, counts>>

\* The answer reaches the app, whose chat keeps one message per id ...
Respond(p) ==
    /\ pc[p] = "answer"
    /\ hand[p] = {}
    /\ shown' = shown \cup out[p]
    /\ returned' = returned \cup out[p]
    /\ out' = [out EXCEPT ![p] = {}]
    /\ pc' = [pc EXCEPT ![p] = "idle"]
    /\ UNCHANGED <<holds, fetched, peers, toList, ids, cur, toTry, relay, got, hand, dropped, lost, counts>>

\* ... or an error, of the call or at one of the messages, ends the app's loop
\* and the rest of the answer is lost.
LoseAnswer(p, S) ==
    /\ losses < MaxLosses /\ Mishap
    /\ pc[p] = "answer"
    /\ hand[p] = {}
    /\ S # {} /\ S \subseteq out[p]
    /\ losses' = losses + 1
    /\ lost' = lost \cup S
    /\ shown' = shown \cup (out[p] \ S)
    /\ returned' = returned \cup (out[p] \ S)
    /\ out' = [out EXCEPT ![p] = {}]
    /\ pc' = [pc EXCEPT ![p] = "idle"]
    /\ UNCHANGED <<holds, fetched, peers, toList, ids, cur, toTry, relay, got, hand, dropped,
                   fails, forgets, restarts, removals>>

-----------------------------------------------------------------------------
\* A relay stores a chunk.
RelayReceives(i, c, r) ==
    /\ holds' = holds \cup {<<i, c, r>>}
    /\ UNCHANGED <<fetched, peers, engine, results, fates, counts>>

\* A relay restarts, or the messages of S expire there.
RelayForgets(r, S) ==
    /\ forgets < MaxForgets /\ Mishap
    /\ forgets' = forgets + 1
    /\ \E h \in holds : h[1] \in S /\ h[3] = r
    /\ holds' = {h \in holds : h[1] \notin S \/ h[3] # r}
    /\ UNCHANGED <<fetched, peers, engine, results, fates, fails, restarts, removals, losses>>

\* AddPeer, or a hello that was answered.
AddPeer(s) ==
    /\ s \notin peers
    /\ peers' = peers \cup {s}
    /\ UNCHANGED <<holds, fetched, engine, results, fates, counts>>

RemovePeer(s) ==
    /\ removals < MaxRemovals /\ Mishap
    /\ s \in peers
    /\ removals' = removals + 1
    /\ peers' = peers \ {s}
    /\ UNCHANGED <<holds, fetched, engine, results, fates, fails, forgets, restarts, losses>>

\* The daemon is started again: the marks and the calls under way are gone.
Restart ==
    /\ restarts < MaxRestarts /\ Mishap
    /\ restarts' = restarts + 1
    /\ fetched' = {}
    /\ pc' = [p \in Pollers |-> "idle"]
    /\ toList' = [p \in Pollers |-> {}]
    /\ ids' = [p \in Pollers |-> {}]
    /\ cur' = [p \in Pollers |-> NoId]
    /\ toTry' = [p \in Pollers |-> {}]
    /\ relay' = [p \in Pollers |-> NoRelay]
    /\ got' = [p \in Pollers |-> 0]
    /\ hand' = [p \in Pollers |-> {}]
    /\ out' = [p \in Pollers |-> {}]
    /\ dropped' = {} /\ lost' = {} /\ returned' = {}
    /\ UNCHANGED <<holds, peers, shown, fails, forgets, removals, losses>>

PollStep(p) ==
    \/ StartPoll(p) \/ EngineReturns(p) \/ Respond(p)
    \/ \E r \in PolledRelays : ListRelay(p, r) \/ TryRelay(p, r)
    \/ \E i \in Ids : Skip(p, i) \/ Pick(p, i) \/ Decrypt(p, i)
    \/ QueryChunk(p) \/ QueryFails(p) \/ FetchFails(p) \/ FetchSucceeds(p)

ReceiverNext ==
    \/ \E p \in Pollers : PollStep(p) \/ \E S \in SUBSET Ids : LoseAnswer(p, S)
    \/ \E r \in PolledRelays, S \in SUBSET Ids : RelayForgets(r, S)
    \/ \E s \in Senders : AddPeer(s) \/ RemovePeer(s)
    \/ Restart

FetchNext == ReceiverNext \/ \E i \in Ids, c \in Chunk, r \in PolledRelays : RelayReceives(i, c, r)

FetchSpec == FetchInit /\ [][FetchNext]_fetchVars

\* The app polls for as long as it runs, and a poll goes on.
PollFairness == \A p \in Pollers : WF_fetchVars(PollStep(p))

FetchFairSpec == FetchSpec /\ PollFairness

-----------------------------------------------------------------------------
\* The state has its shape; a poll that fetches has an id, and has received
\* chunks only from a relay it is asking.
FetchTypeOK ==
    /\ holds \subseteq Ids \X Chunk \X PolledRelays
    /\ fetched \subseteq Ids
    /\ peers \subseteq Senders
    /\ pc \in [Pollers -> {"idle", "list", "pick", "fetch", "answer"}]
    /\ toList \in [Pollers -> SUBSET PolledRelays]
    /\ ids \in [Pollers -> SUBSET Ids]
    /\ cur \in [Pollers -> Ids \cup {NoId}]
    /\ toTry \in [Pollers -> SUBSET PolledRelays]
    /\ relay \in [Pollers -> PolledRelays \cup {NoRelay}]
    /\ got \in [Pollers -> 0 .. Total]
    /\ hand \in [Pollers -> SUBSET Ids]
    /\ out \in [Pollers -> SUBSET Ids]
    /\ shown \subseteq Ids /\ dropped \subseteq Ids /\ lost \subseteq Ids /\ returned \subseteq Ids
    /\ fails \in Nat /\ forgets \in Nat /\ restarts \in Nat /\ removals \in Nat /\ losses \in Nat
    /\ \A p \in Pollers : pc[p] = "fetch" <=> cur[p] # NoId

InHand(p) == hand[p] \cup out[p]

Settled == returned \cup dropped \cup lost

\* A message the engine will not fetch again is in the hands of a poll, or has
\* reached the app, or was dropped for want of a key, or went down with an
\* answer: there is no other way to lose it.
FetchedIsAccounted ==
    \A i \in fetched : i \in Settled \/ \E p \in Pollers : i \in InHand(p)

\* A message is handed out at most once in the life of the daemon.
OncePerLife ==
    \A p \in Pollers :
        /\ InHand(p) \cap Settled = {}
        /\ hand[p] \cap out[p] = {}
        /\ \A q \in Pollers \ {p} : InHand(p) \cap InHand(q) = {}

\* The message can be fetched and read, and no answer with it has been lost.
Readable(i) ==
    /\ From[i] \in peers
    /\ \E r \in PolledRelays : \A c \in Chunk : <<i, c, r>> \in holds
    /\ i \notin dropped \cup lost

\* Queries may be lost, other relays may hold parts of it, and the daemon may be
\* started again: a message that stays readable reaches the app.
ReadableIsShown == \A i \in Ids : Readable(i) ~> i \in shown \/ ~Readable(i)

\* Every chunk of the message is on some relay.
Pending(i) == \A c \in Chunk : \E r \in PolledRelays : <<i, c, r>> \in holds

\* "fetches and reassembles all pending messages for a recipient", the comment
\* of PollMessages in dns_engine.go, while no relay fails.
PendingIsFetched == \A i \in Ids : Pending(i) ~> i \in fetched

\* "Log error for debugging; will retry on next poll" (the app's poll loop in
\* the timing and ordering plan): a message whose answer was lost is in a later
\* one.
LostIsRetried == \A i \in Ids : i \in lost ~> i \in shown
=============================================================================
