---------------------------- MODULE Contacts -----------------------------
(* Contacts of the client daemons: invite codes and the hello that answers
   one, adding and removing a peer, profile updates, the peers and profile
   files, and restarts (internal/client/daemon.go, daemon_state.go and
   internal/crypto/invite.go).

   A daemon is a node.  Its gRPC handlers run concurrently: each changes the
   map under its lock and then saves it in the steps of StateFile.  A
   message that was sent stays at the relay, is fetched by its recipient once
   in a life of the daemon, and again after a restart, which forgets what was
   fetched.  Messages arrive in any order.

   A public key is the name of its node.  Encryption is by what opens it: a
   profile update opens with the key shared by sender and recipient, which the
   recipient tries for its peers only; a hello opens with the key derived from
   the nonce of the invite code.                                            *)
EXTENDS StateFile

CONSTANTS
    Nodes,          \* the daemons
    Uses,           \* pairs <<n, op>>: the calls the user of n makes
    Friends,        \* pairs <<n, p>>: p is a contact of n from the start
    Names,          \* nicknames users take for themselves
    Labels,         \* nicknames users give to those they add
    InHello,        \* what json.Unmarshal makes of a nickname in a hello, where
                    \* nothing is escaped ...
    InProfile,      \* ... and in a profile_update, where quotes are escaped and
                    \* backslashes are not
    MaxCalls,       \* bound on gRPC calls that change something
    MaxFaults       \* bound on restarts, lost messages, failed writes and
                    \* codes that grow old

\* What a contact can be called: a hello with an empty name comes from "Unknown",
\* a user without a name is "Me".  What a profile can say: nothing at first.
Nicknames == Names \cup Labels \cup {"Me", "Unknown"}
ProfileNames == Names \cup {""}

\* The name does not stay inside its quotes: the message does not parse.
NotJSON == "not JSON"

ASSUME ContactsAssumption == MaxCalls \in Nat /\ MaxFaults \in Nat
ASSUME NamesAssumption ==
    {InHello, InProfile} \subseteq [Nicknames -> Nicknames \cup {"", NotJSON}]

VARIABLES
    peers,          \* peers[n]: the peers map, contact -> nickname
    nick,           \* nick[n]: the nickname in the profile
    peersFile,      \* peersFile[n]: daemon_peers.json, a state of StateFile
    profileFile,    \* profileFile[n]: profile.json
    pendingHellos,  \* pendingHellos[n]: codes handed out and not yet answered
    net,            \* messages stored at the relay
    outbox,         \* hellos in the offline queue, which is kept on disk
    fetched,        \* fetched[n]: messages downloaded in this life
    poll,           \* poll[n]: what PollMessages has in hand
    calls,          \* calls made so far: they number codes and handlers
    faults,         \* faults so far
    agreed,         \* history: contacts the user of n asked for or invited
    answered,       \* history: who became a contact through which code
    issued,         \* history: every code handed out
    joins,          \* history: <<code, joiner>> for every code used
    spoiled         \* history: codes that a fault made useless

memory == <<peers, nick, pendingHellos, fetched, poll>>
disk == <<peersFile, profileFile, outbox>>
history == <<agreed, issued, answered, joins, spoiled>>
vars == <<memory, disk, net, calls, faults, history>>

\* A code: who issued it, and the nonce, here the number of the call.  Every
\* code carries the nickname of a user who has set none.
Codes == {n \in Nodes : <<n, "GenerateInviteCode">> \in Uses} \X (1 .. MaxCalls)
Issuer(code) == code[1]

IsPeerMap(f) == DOMAIN f \subseteq Nodes /\ \A p \in DOMAIN f : f[p] \in Nicknames
NoPeers == [p \in {} |-> "Me"]

\* A message: a hello carries the code whose nonce its key is derived from.  The
\* name is the one that fmt.Sprintf puts between the quotes.
Hello(code, from, name) ==
    [kind |-> "hello", to |-> Issuer(code), from |-> from, name |-> name,
     id |-> code[2]]
Profile(n, to, name, id) ==
    [kind |-> "profile", to |-> to, from |-> n, name |-> name, id |-> id]
Messages == [kind : {"hello", "profile"}, to : Nodes, from : Nodes,
             name : Nicknames, id : 1 .. MaxCalls]
CodeOf(m) == <<m.to, m.id>>

\* What a save belongs to: the handler, and what it still has to do after it.
Savers == [op : {"call", "join", "profile", "hello", "update"},
           id : 1 .. MaxCalls, code : Nodes \X (1 .. MaxCalls)]
By(op, id, code) == [op |-> op, id |-> id, code |-> code]

Idle == [stage |-> "idle", known |-> FALSE]
InHand(m, known) == [stage |-> "opened", known |-> known, m |-> m]

Init ==
    /\ peers = [n \in Nodes |-> [p \in {q \in Nodes : <<n, q>> \in Friends} |-> "Me"]]
    /\ nick = [n \in Nodes |-> ""]
    /\ peersFile = [n \in Nodes |-> [NewFile(peers[n]) EXCEPT !.disk = "whole"]]
    /\ profileFile = [n \in Nodes |-> NewFile("")]
    /\ pendingHellos = [n \in Nodes |-> {}]
    /\ net = {} /\ outbox = {}
    /\ fetched = [n \in Nodes |-> {}]
    /\ poll = [n \in Nodes |-> Idle]
    /\ calls = 0 /\ faults = 0
    /\ agreed = [n \in Nodes |-> DOMAIN peers[n]]
    /\ answered = [c \in Codes |-> {}]
    /\ issued = {} /\ joins = {} /\ spoiled = {}

----------------------------------------------------------------------------
\* The user of n makes a call, the next of the numbered calls.
Called(n, op) == <<n, op>> \in Uses /\ calls < MaxCalls /\ calls' = calls + 1

\* d.peers[p] = entry and delete(d.peers, p), as the new map.
With(n, p, name) ==
    [q \in (DOMAIN peers[n]) \cup {p} |-> IF q = p THEN name ELSE peers[n][q]]
Without(n, p) == [q \in (DOMAIN peers[n]) \ {p} |-> peers[n][q]]

\* This variant marshals the map before it changes it.
SetPeers_Before(n, map, w) ==
    /\ peers' = [peers EXCEPT ![n] = map]
    /\ peersFile' = [peersFile EXCEPT ![n] = Marshal(@, w, peers[n])]

\* The handler changes the map and calls savePeers, which marshals it.
SetPeers(n, map, w) ==
    /\ peers' = [peers EXCEPT ![n] = map]
    /\ peersFile' = [peersFile EXCEPT ![n] = Marshal(@, w, map)]

\* AddPeer: a contact of the user's choice, under a name they type.
AddPeer(n, p, name) ==
    /\ Called(n, "AddPeer")
    /\ SetPeers(n, With(n, p, name), By("call", calls', <<p, calls'>>))
    /\ agreed' = [agreed EXCEPT ![n] = @ \cup {p}]
    /\ UNCHANGED <<nick, pendingHellos, fetched, poll, profileFile, outbox,
                   net, faults, issued, answered, joins, spoiled>>

\* RemovePeer.
RemovePeer(n, p) ==
    /\ Called(n, "RemovePeer")
    /\ p \in DOMAIN peers[n]
    /\ SetPeers(n, Without(n, p), By("call", calls', <<p, calls'>>))
    /\ agreed' = [agreed EXCEPT ![n] = @ \ {p}]
    /\ UNCHANGED <<nick, pendingHellos, fetched, poll, profileFile, outbox,
                   net, faults, issued, answered, joins, spoiled>>

\* pendingHellosMu is held by PollMessages while it saves a new contact.
HellosLocked(n) == \E s \in peersFile[n].saves : s.by.op = "hello"

\* GenerateInviteCode: the code is remembered in memory only.
GenerateInviteCode(n) ==
    /\ Called(n, "GenerateInviteCode")
    /\ ~HellosLocked(n)
    /\ pendingHellos' = [pendingHellos EXCEPT
                            ![n] = @ \cup {[code |-> <<n, calls'>>, old |-> FALSE]}]
    /\ issued' = issued \cup {<<n, calls'>>}
    /\ UNCHANGED <<peers, nick, fetched, poll, disk, net, faults, agreed,
                   answered, joins, spoiled>>

\* JoinViaCode: the inviter becomes a contact and the map is saved; the hello
\* follows when the save returns (FinishJoin).
JoinViaCode(n, code) ==
    /\ Called(n, "JoinViaCode")
    /\ code \in issued /\ Issuer(code) # n
    /\ SetPeers(n, With(n, Issuer(code), "Me"), By("join", calls', code))
    /\ agreed' = [agreed EXCEPT ![n] = @ \cup {Issuer(code)}]
    /\ joins' = joins \cup {<<code, n>>}
    /\ UNCHANGED <<nick, pendingHellos, fetched, poll, profileFile, outbox,
                   net, faults, issued, answered, spoiled>>

\* UpdateProfile: the nickname changes and saveProfile marshals it; the
\* broadcast follows when the save returns (FinishProfile).
UpdateProfile(n, name) ==
    /\ Called(n, "UpdateProfile")
    /\ nick' = [nick EXCEPT ![n] = name]
    /\ profileFile' = [profileFile EXCEPT
                          ![n] = Marshal(@, By("profile", calls', <<n, calls'>>), name)]
    /\ UNCHANGED <<peers, pendingHellos, fetched, poll, peersFile, outbox, net,
                   faults, history>>

----------------------------------------------------------------------------
\* The steps of a save of the peers map, but the last.
OpenPeersFile(n) ==
    \E s \in peersFile[n].saves :
        /\ ~s.open
        /\ peersFile' = [peersFile EXCEPT ![n] = Open(@, s)]
        /\ UNCHANGED <<memory, profileFile, outbox, net, calls, faults, history>>

OpenProfileFile(n) ==
    \E s \in profileFile[n].saves :
        /\ ~s.open
        /\ profileFile' = [profileFile EXCEPT ![n] = Open(@, s)]
        /\ UNCHANGED <<memory, peersFile, outbox, net, calls, faults, history>>

\* This variant forgets a hello the engine did not send.
SendHello_NotQueued(m) ==
    \/ net' = net \cup {m} /\ outbox' = outbox
    \/ net' = net /\ outbox' = outbox

\* The engine sends the hello, or reports an error and the hello is queued.
SendHello(m) ==
    \/ net' = net \cup {m} /\ outbox' = outbox
    \/ net' = net /\ outbox' = outbox \cup {m}

\* getMyNickname.  This variant has no fallback.
getMyNickname_Raw(n) == nick[n]

getMyNickname(n) == IF nick[n] = "" THEN "Me" ELSE nick[n]

\* What the handler does once its save has returned, written or not:
\* JoinViaCode sends the hello; PollMessages goes on with the next message; the others answer.
AfterSave(n, by) ==
    CASE by.op = "join" ->
           SendHello(Hello(by.code, n, getMyNickname(n))) /\ poll' = poll
      [] by.op \in {"hello", "update"} ->
           poll' = [poll EXCEPT ![n] = Idle] /\ UNCHANGED <<net, outbox>>
      [] OTHER -> UNCHANGED <<net, outbox, poll>>

WritePeersFile(n) ==
    \E s \in peersFile[n].saves :
        /\ \/ /\ s.open
              /\ \E f \in Write(peersFile[n], s) : peersFile' = [peersFile EXCEPT ![n] = f]
              /\ faults' = faults
           \/ /\ faults < MaxFaults
              /\ peersFile' = [peersFile EXCEPT ![n] = WriteFails(@, s)]
              /\ faults' = faults + 1
        /\ AfterSave(n, s.by)
        /\ UNCHANGED <<peers, nick, pendingHellos, fetched, profileFile, calls, history>>

\* saveProfile returns, and broadcastProfileUpdate sends the new name to the
\* contacts of that moment.  A send that fails is not repeated.
FinishProfile(n) ==
    \E s \in profileFile[n].saves :
        /\ \/ /\ s.open
              /\ \E f \in Write(profileFile[n], s) :
                    profileFile' = [profileFile EXCEPT ![n] = f]
              /\ faults' = faults
           \/ /\ faults < MaxFaults
              /\ profileFile' = [profileFile EXCEPT ![n] = WriteFails(@, s)]
              /\ faults' = faults + 1
        /\ \E reached \in SUBSET DOMAIN peers[n] :
              net' = net \cup {Profile(n, p, s.data, s.by.id) : p \in reached}
        /\ UNCHANGED <<memory, peersFile, outbox, calls, history>>

\* processQueue sends a queued hello.
SendQueued ==
    \E m \in outbox :
        /\ outbox' = outbox \ {m} /\ net' = net \cup {m}
        /\ UNCHANGED <<memory, peersFile, profileFile, calls, faults, history>>

----------------------------------------------------------------------------
\* PollMessages takes a message it has not fetched in this life and tries the
\* shared key of each contact of the moment.
Poll(n) ==
    /\ poll[n].stage = "idle"
    /\ \E m \in net :
         /\ m.to = n /\ m \notin fetched[n]
         /\ fetched' = [fetched EXCEPT ![n] = @ \cup {m}]
         /\ poll' = [poll EXCEPT ![n] =
                       InHand(m, m.kind = "profile" /\ m.from \in DOMAIN peers[n])]
    /\ UNCHANGED <<peers, nick, pendingHellos, disk, net, calls, faults, history>>

\* Codes older than a day are dropped by whoever walks the map.
Fresh(n) == {p \in pendingHellos[n] : ~p.old}

\* The codes left when one has been answered.  This variant keeps it.
UsedUp_Kept(n, entry) == Fresh(n)

UsedUp(n, entry) == Fresh(n) \ {entry}

\* The name of whoever sent a hello.
NickOf(name) == IF name = "" THEN "Unknown" ELSE name

\* A message no contact's key opens is tried with the key of every pending
\* code.  A hello that opens and parses makes its sender a contact, uses the code
\* up and saves the map.  It is then shown like any text.  One that opens and does
\* not parse is dropped, and the code stays.
OpenHello(n) ==
    /\ poll[n].stage = "opened" /\ ~poll[n].known
    /\ LET m == poll[n].m
           entry == [code |-> CodeOf(m), old |-> FALSE]
           name == InHello[m.name]
           opens == m.kind = "hello" /\ entry \in Fresh(n) /\ name # NotJSON
       IN \/ /\ opens
             /\ SetPeers(n, With(n, m.from, NickOf(name)), By("hello", m.id, CodeOf(m)))
             /\ pendingHellos' = [pendingHellos EXCEPT ![n] = UsedUp(n, entry)]
             /\ poll' = [poll EXCEPT ![n].stage = "saving"]
             /\ agreed' = [agreed EXCEPT ![n] = @ \cup {m.from}]
             /\ answered' = [answered EXCEPT ![CodeOf(m)] = @ \cup {m.from}]
          \/ /\ ~opens
             /\ pendingHellos' = [pendingHellos EXCEPT ![n] = Fresh(n)]
             /\ poll' = [poll EXCEPT ![n] = Idle]
             /\ UNCHANGED <<peers, peersFile, agreed, answered>>
    /\ UNCHANGED <<nick, fetched, profileFile, outbox, net, calls, faults,
                   issued, joins, spoiled>>

\* The map after a profile_update: the entry is looked up again under the
\* lock, for the contact may be gone by now, and an empty name is not taken
\* over.  This variant does not look.
Renamed_NoLookup(n, p, name) == IF name # "" THEN With(n, p, name) ELSE peers[n]

Renamed(n, p, name) ==
    IF p \in DOMAIN peers[n] /\ name # "" THEN With(n, p, name) ELSE peers[n]

\* A profile_update from a contact: rename and save, known or not.  One that does
\* not parse is shown as the text it is.
ApplyProfile(n) ==
    /\ poll[n].stage = "opened" /\ poll[n].known
    /\ LET m == poll[n].m
           name == InProfile[m.name]
       IN \/ /\ name # NotJSON
             /\ SetPeers(n, Renamed(n, m.from, name), By("update", m.id, CodeOf(m)))
             /\ poll' = [poll EXCEPT ![n].stage = "saving"]
          \/ /\ name = NotJSON
             /\ poll' = [poll EXCEPT ![n] = Idle]
             /\ UNCHANGED <<peers, peersFile>>
    /\ UNCHANGED <<nick, pendingHellos, fetched, profileFile, outbox, net, calls,
                   faults, history>>

----------------------------------------------------------------------------
Fault == faults < MaxFaults /\ faults' = faults + 1

\* A pending code turns a day old.
CodeExpires(n) ==
    \E p \in Fresh(n) :
        /\ Fault
        /\ pendingHellos' = [pendingHellos EXCEPT
                                ![n] = (@ \ {p}) \cup {[p EXCEPT !.old = TRUE]}]
        /\ spoiled' = spoiled \cup {p.code}
        /\ UNCHANGED <<peers, nick, fetched, poll, disk, net, calls, agreed,
                       issued, answered, joins>>

\* A message is lost: the chunks that SendMessage spread over the relays are at no
\* single relay, the relay drops them when they expire, or processQueue gives the
\* message up after its last retry.
Lose ==
    \E m \in net \cup outbox :
        /\ Fault
        /\ net' = net \ {m} /\ outbox' = outbox \ {m}
        /\ spoiled' = spoiled \cup {c \in {CodeOf(m)} : m.kind = "hello"}
        /\ UNCHANGED <<memory, peersFile, profileFile, calls, agreed, issued,
                       answered, joins>>

\* A file that is whole may still not be readable.
Readings(f) == {ok \in BOOLEAN : ok \/ f.disk = "whole"}

\* The daemon of n dies and RunDaemon starts it again: contacts and profile
\* come from their files, pending codes and fetched messages are forgotten.
Restart(n) ==
    /\ Fault
    /\ \E ok \in Readings(peersFile[n]) :
          /\ peers' = [peers EXCEPT ![n] = Load(peersFile[n], ok, NoPeers)]
          /\ peersFile' = [peersFile EXCEPT ![n] = Abandon(@, ok)]
    /\ \E ok \in Readings(profileFile[n]) :
          /\ nick' = [nick EXCEPT ![n] = Load(profileFile[n], ok, "")]
          /\ profileFile' = [profileFile EXCEPT ![n] = Abandon(@, ok)]
    /\ pendingHellos' = [pendingHellos EXCEPT ![n] = {}]
    /\ fetched' = [fetched EXCEPT ![n] = {}]
    /\ poll' = [poll EXCEPT ![n] = Idle]
    /\ agreed' = [agreed EXCEPT ![n] =
                     IF Settled(peersFile[n]) THEN @ ELSE @ \cup DOMAIN peers'[n]]
    /\ spoiled' = spoiled \cup {p.code : p \in pendingHellos[n]}
                    \cup {s.by.code : s \in {x \in peersFile[n].saves : x.by.op = "join"}}
    /\ UNCHANGED <<outbox, net, calls, issued, answered, joins>>

Call(n) ==
    \/ \E p \in Nodes \ {n}, name \in Labels : AddPeer(n, p, name)
    \/ \E p \in Nodes \ {n} : RemovePeer(n, p)
    \/ GenerateInviteCode(n)
    \/ \E code \in Codes : JoinViaCode(n, code)
    \/ \E name \in Names : UpdateProfile(n, name)

Next ==
    \/ \E n \in Nodes :
         \/ Call(n)
         \/ OpenPeersFile(n) \/ WritePeersFile(n)
         \/ OpenProfileFile(n) \/ FinishProfile(n)
         \/ Poll(n) \/ OpenHello(n) \/ ApplyProfile(n)
         \/ CodeExpires(n) \/ Restart(n)
    \/ SendQueued
    \/ Lose

\* Handlers that have begun go on, the app's poll loop keeps polling, and the
\* queue processor keeps waking up.  No call and no fault need ever happen.
Fairness ==
    /\ \A n \in Nodes :
         /\ WF_vars(OpenPeersFile(n)) /\ WF_vars(WritePeersFile(n))
         /\ WF_vars(Poll(n)) /\ WF_vars(OpenHello(n)) /\ WF_vars(ApplyProfile(n))
    /\ WF_vars(SendQueued)

Spec == Init /\ [][Next]_vars /\ Fairness

----------------------------------------------------------------------------
\* The types of the variables.
TypeOK ==
    /\ \A n \in Nodes :
         /\ IsPeerMap(peers[n]) /\ nick[n] \in ProfileNames
         /\ peersFile[n].disk \in Contents /\ IsPeerMap(peersFile[n].data)
         /\ \A s \in peersFile[n].saves : s.by \in Savers /\ IsPeerMap(s.data)
         /\ \A s \in profileFile[n].saves : s.by \in Savers /\ s.data \in ProfileNames
         /\ \A p \in pendingHellos[n] : p.code \in Codes /\ p.old \in BOOLEAN
         /\ \A m \in fetched[n] : m \in Messages
         /\ poll[n].stage \in {"idle", "opened", "saving"}
    /\ \A m \in net \cup outbox : m \in Messages
    /\ calls \in 0 .. MaxCalls /\ faults \in 0 .. MaxFaults
    /\ \A c \in Codes : answered[c] \subseteq Nodes
    /\ issued \cup spoiled \subseteq Codes

\* Whatever a handler did to the contacts or the profile is on the disk when it
\* is done: a file whose last save had it to itself holds what the memory holds,
\* so a restart then loses nothing (savePeers in AddPeer, RemovePeer,
\* JoinViaCode and both branches of PollMessages; saveProfile in UpdateProfile).
SavedIsCurrent ==
    \A n \in Nodes :
        /\ Settled(peersFile[n]) => Held(peersFile[n], NoPeers) = peers[n]
        /\ Settled(profileFile[n]) => Held(profileFile[n], "") = nick[n]

\* Nobody becomes a contact, or becomes one again after RemovePeer, unless the
\* user added them, used their code, or they answered a code of the user: no
\* message in flight brings a removed contact back, and no restart does from a
\* file that was saved undisturbed (the second lookup of profile_update, and
\* the hello branch of PollMessages).
OnlyAgreedContacts ==
    \A n \in Nodes : DOMAIN peers[n] \subseteq agreed[n]

\* An invite code makes one contact, however many people it was handed to and
\* however often their hellos are fetched (delete(d.pendingHellos, nonceHex)).
OneContactPerCode ==
    \A c \in Codes : Cardinality(answered[c]) <= 1

\* The hello of n for the code c will not parse: it has n's nickname between
\* quotes as it is, and the nickname has a quote or a backslash of its own.
Garbled(c, n) ==
    \E m \in net \cup outbox :
        m.kind = "hello" /\ CodeOf(m) = c /\ m.from = n /\ InHello[m.name] = NotJSON

\* Whoever joins with a code becomes a contact of the one who issued it, or
\* somebody else has with the same code, unless their nickname breaks the hello,
\* or the code or the hello was lost to a fault: it expired, its issuer or the
\* joiner was restarted meanwhile, or the relays and the queue lost the hello
\* (JoinViaCode, the offline queue and the hello branch of PollMessages).  Joins
\* are not forgotten: that each is answered in the end is to say that again and
\* again there is no join without an answer.
JoinIsAnswered ==
    []<>(\A c \in Codes, n \in Nodes :
            <<c, n>> \in joins => answered[c] # {} \/ c \in spoiled \/ Garbled(c, n))
==========================================================================
