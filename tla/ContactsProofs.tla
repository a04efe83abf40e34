--------------------------- MODULE ContactsProofs ---------------------------
(***************************************************************************)
(* Proofs about Contacts for any daemons, users, names and friends and any *)
(* number of calls and faults.                                             *)
(*                                                                         *)
(* PeersInv and ProfileInv say of each file that it is, or will be, what   *)
(* the memory holds; NetInv what messages can say; CodeInv that a code     *)
(* still pending has not been answered.  Each is preserved with the help   *)
(* of the types in the others.                                             *)
(***************************************************************************)
EXTENDS Contacts, FiniteSetTheorems, TLAPS

\* What an action changes, by group of variables.
USE DEF vars, memory, disk, history

-----------------------------------------------------------------------------
PeerMaps == UNION {[S -> Nicknames] : S \in SUBSET Nodes}

\* A state of a file with data in D, to which saves bring data in E.
Saves(E) == [by : Savers, data : E, open : BOOLEAN]
Files(D, E) == [disk : Contents, data : D, saves : SUBSET Saves(E), exact : BOOLEAN]

\* A file that no save disturbed says v, or its one save will.
Tracks(f, v, none) ==
    f.exact =>
        \/ f.saves = {} /\ Held(f, none) = v
        \/ \E s \in f.saves :
              /\ f.saves = {s} /\ s.data = v
              /\ s.open => f.disk = "empty"

\* A save of JoinViaCode knows the code, which its hello will carry.
JoinsKnown(f) == \A s \in f.saves : s.by.op = "join" => s.by.code \in Codes

PeersInv ==
    /\ peers \in [Nodes -> PeerMaps] /\ peersFile \in [Nodes -> Files(PeerMaps, PeerMaps)]
    /\ \A n \in Nodes :
         Tracks(peersFile[n], peers[n], NoPeers) /\ JoinsKnown(peersFile[n])

ProfileInv ==
    /\ nick \in [Nodes -> ProfileNames]
    /\ profileFile \in [Nodes -> Files(ProfileNames, Names)]
    /\ \A n \in Nodes : Tracks(profileFile[n], nick[n], "")

\* A hello carries a code.
Letter(m) ==
    /\ m \in Messages
    /\ m.kind = "hello" => CodeOf(m) \in Codes

NetInv ==
    /\ \A m \in net \cup outbox : Letter(m)
    /\ fetched \in [Nodes -> SUBSET Messages]
    /\ DOMAIN poll = Nodes
    /\ \A n \in Nodes :
         \/ poll[n] = Idle
         \/ /\ poll[n] \in [stage : {"opened", "saving"}, known : BOOLEAN, m : Messages]
            /\ Letter(poll[n].m)

CountInv ==
    /\ calls \in Nat /\ calls <= MaxCalls
    /\ faults \in Nat /\ faults <= MaxFaults

\* A pending code was issued by its node and has not been answered; a code that
\* was answered was issued, and no code is issued twice.
CodeInv ==
    /\ pendingHellos \in [Nodes -> SUBSET [code : Codes, old : BOOLEAN]]
    /\ answered \in [Codes -> SUBSET Nodes]
    /\ issued \subseteq Codes /\ spoiled \subseteq Codes
    /\ \A c \in issued : c[2] <= calls
    /\ \A n \in Nodes : \A p \in pendingHellos[n] :
         p.code[1] = n /\ p.code \in issued /\ answered[p.code] = {}
    /\ \A c \in Codes : /\ answered[c] # {} => c \in issued
                        /\ \A x, y \in answered[c] : x = y

AgreedInv == agreed \in [Nodes -> SUBSET Nodes] /\ OnlyAgreedContacts

Inv == PeersInv /\ ProfileInv /\ NetInv /\ CountInv /\ CodeInv /\ AgreedInv

-----------------------------------------------------------------------------
(***************************************************************************)
(* The steps of a save, each with what it leaves in the file.              *)
(***************************************************************************)
LEMMA MarshalFile ==
    ASSUME NEW D, NEW E, NEW f \in Files(D, E), NEW w \in Savers, NEW v \in E, NEW none
    PROVE  /\ Marshal(f, w, v) \in Files(D, E)
           /\ Tracks(Marshal(f, w, v), v, none)
           /\ \A s \in Marshal(f, w, v).saves : s \in f.saves \/ s.by = w
<1> DEFINE t == [by |-> w, data |-> v, open |-> FALSE]
<1>1. t \in Saves(E) /\ t.by = w /\ t.data = v /\ ~t.open
  BY Zenon DEF Saves
<1>2. f.saves \cup {t} \in SUBSET Saves(E) /\ (f.saves = {}) \in BOOLEAN
  BY <1>1, Zenon DEF Files
<1>3. Marshal(f, w, v).saves = f.saves \cup {t}
  BY Zenon DEF Marshal, Files
<1>4. Marshal(f, w, v).exact <=> f.saves = {}
  BY Zenon DEF Marshal, Files
<1> HIDE DEF t
<1>5. Marshal(f, w, v) \in Files(D, E)
  BY <1>2, Zenon DEF Marshal, Files, t
<1>6. Tracks(Marshal(f, w, v), v, none)
  <2>1. CASE f.saves = {}
    <3>1. Marshal(f, w, v).saves = {t}
      BY <1>3, <2>1, Zenon
    <3> QED
      BY <1>1, <3>1, Zenon DEF Tracks
  <2> QED
    BY <1>4, <2>1, Zenon DEF Tracks
<1> QED
  BY <1>1, <1>3, <1>5, <1>6, Zenon

LEMMA OpenFile ==
    ASSUME NEW D, NEW E, NEW f \in Files(D, E), NEW s \in f.saves, NEW v, NEW none
    PROVE  /\ Open(f, s) \in Files(D, E)
           /\ ~s.open /\ Tracks(f, v, none) => Tracks(Open(f, s), v, none)
           /\ \A t \in Open(f, s).saves : t \in f.saves \/ t.by = s.by
<1> DEFINE t == [s EXCEPT !.open = TRUE]
<1>1. s \in Saves(E)
  BY Zenon DEF Files
<1>2. t \in Saves(E) /\ t.by = s.by /\ t.data = s.data
  BY <1>1, Zenon DEF Saves
<1>3. (f.saves \ {s}) \cup {t} \in SUBSET Saves(E)
  BY <1>2, Zenon DEF Files
<1> HIDE DEF t
<1>4. /\ Open(f, s).disk = "empty" /\ Open(f, s).exact = f.exact
      /\ Open(f, s).saves = (f.saves \ {s}) \cup {t}
  BY Zenon DEF Open, Files, t
<1>5. Open(f, s) \in Files(D, E)
  BY <1>3, Zenon DEF Open, Files, Contents, t
<1>6. ASSUME Tracks(f, v, none) PROVE Tracks(Open(f, s), v, none)
  <2> SUFFICES ASSUME f.exact PROVE Tracks(Open(f, s), v, none)
    BY <1>4, Zenon DEF Tracks
  <2>1. f.saves = {s} /\ s.data = v
    BY <1>6, Zenon DEF Tracks
  <2>2. Open(f, s).saves = {t}
    BY <1>4, <2>1, Zenon
  <2> QED
    BY <1>2, <1>4, <2>1, <2>2, Zenon DEF Tracks
<1> QED
  BY <1>2, <1>4, <1>5, <1>6, Zenon

LEMMA WriteFile ==
    ASSUME NEW D, NEW E, E \subseteq D, NEW f \in Files(D, E), NEW s \in f.saves,
           NEW g \in Write(f, s), NEW v, NEW none
    PROVE  /\ g \in Files(D, E) /\ g.saves \subseteq f.saves
           /\ s.open /\ Tracks(f, v, none) => Tracks(g, v, none)
<1>1. f.saves \ {s} \in SUBSET Saves(E) /\ s.data \in D
  BY Zenon DEF Files, Saves
<1>2. PICK d \in Contents :
        /\ g = [f EXCEPT !.saves = f.saves \ {s}, !.disk = d, !.data = s.data]
        /\ f.disk = "empty" => d = "whole"
  BY Zenon DEF Write, Contents
<1>3. g \in Files(D, E)
  BY <1>1, <1>2, Zenon DEF Files
<1>4. g.data = s.data /\ g.saves = f.saves \ {s} /\ g.exact = f.exact /\ g.disk = d
  BY <1>2, Zenon DEF Files
<1>5. ASSUME s.open, Tracks(f, v, none) PROVE Tracks(g, v, none)
  <2> SUFFICES ASSUME f.exact PROVE Tracks(g, v, none)
    BY <1>4, Zenon DEF Tracks
  <2>1. f.saves = {s} /\ s.data = v /\ f.disk = "empty"
    BY <1>5, Zenon DEF Tracks
  <2>2. g.saves = {}
    BY <1>4, <2>1, Zenon
  <2> QED
    BY <1>2, <1>4, <2>1, <2>2, Zenon DEF Tracks, Held, Load
<1>6. g.saves \subseteq f.saves
  BY <1>4, Zenon
<1> QED
  BY <1>3, <1>5, <1>6, Zenon

LEMMA FailFile ==
    ASSUME NEW D, NEW E, NEW f \in Files(D, E), NEW s \in f.saves, NEW v, NEW none
    PROVE  /\ WriteFails(f, s) \in Files(D, E) /\ WriteFails(f, s).saves \subseteq f.saves
           /\ Tracks(WriteFails(f, s), v, none)
<1>1. WriteFails(f, s) \in Files(D, E)
  BY Zenon DEF WriteFails, Files
<1>2. WriteFails(f, s).exact = FALSE /\ WriteFails(f, s).saves = f.saves \ {s}
  BY Zenon DEF WriteFails, Files
<1> QED
  BY <1>1, <1>2, Zenon DEF Tracks

LEMMA AbandonFile ==
    ASSUME NEW D, NEW E, NEW f \in Files(D, E), NEW none \in D, NEW ok \in BOOLEAN
    PROVE  /\ Abandon(f, ok) \in Files(D, E) /\ Abandon(f, ok).saves = {}
           /\ Tracks(Abandon(f, ok), Load(f, ok, none), none)
           /\ Load(f, ok, none) \in D
<1>1. /\ Abandon(f, ok) \in Files(D, E) /\ Abandon(f, ok).saves = {}
      /\ Abandon(f, ok).disk = f.disk /\ Abandon(f, ok).data = f.data
      /\ Abandon(f, ok).exact = ok
  BY Zenon DEF Abandon, Files
<1>2. f.data \in D
  BY Zenon DEF Files
<1> QED
  BY <1>1, <1>2, Zenon DEF Tracks, Held, Load

-----------------------------------------------------------------------------
(***************************************************************************)
(* The counters.                                                           *)
(***************************************************************************)
LEMMA CountStep ==
    ASSUME CountInv, [Next]_vars
    PROVE  CountInv' /\ calls <= calls'
<1> DEFINE Counted == /\ calls' = calls \/ (calls < MaxCalls /\ calls' = calls + 1)
                      /\ faults' = faults \/ (faults < MaxFaults /\ faults' = faults + 1)
<1>1. ASSUME NEW n \in Nodes, Call(n) PROVE Counted
  BY <1>1, Zenon DEF Call, Called, AddPeer, RemovePeer, GenerateInviteCode, JoinViaCode,
                      UpdateProfile
<1>2. ASSUME NEW n \in Nodes,
             OpenPeersFile(n) \/ WritePeersFile(n) \/ OpenProfileFile(n) \/ FinishProfile(n)
      PROVE  Counted
  BY <1>2, Zenon DEF OpenPeersFile, WritePeersFile, OpenProfileFile, FinishProfile
<1>3. ASSUME NEW n \in Nodes, Poll(n) \/ OpenHello(n) \/ ApplyProfile(n)
      PROVE  Counted
  BY <1>3, Zenon DEF Poll, OpenHello, ApplyProfile
<1>4. ASSUME NEW n \in Nodes, CodeExpires(n) \/ Restart(n)
      PROVE  Counted
  BY <1>4, Zenon DEF CodeExpires, Restart, Fault
<1>5. ASSUME SendQueued \/ Lose PROVE Counted
  BY <1>5, Zenon DEF SendQueued, Lose, Fault
<1>6. ASSUME UNCHANGED vars PROVE Counted
  BY <1>6, Zenon
<1>7. Counted
  <2> HIDE DEF Counted
  <2> QED
    BY <1>1, <1>2, <1>3, <1>4, <1>5, <1>6, Zenon DEF Next
<1> QED
  BY <1>7, ContactsAssumption DEF CountInv

\* The number of a call can number a code and a handler.
LEMMA CalledNumber ==
    ASSUME CountInv, NEW n \in Nodes, NEW op, Called(n, op)
    PROVE  calls' \in 1 .. MaxCalls
BY ContactsAssumption DEF CountInv, Called

-----------------------------------------------------------------------------
(***************************************************************************)
(* The contacts and their file.                                            *)
(***************************************************************************)
LEMMA MapWith ==
    ASSUME NEW n \in Nodes, peers[n] \in PeerMaps, NEW p \in Nodes, NEW name \in Nicknames
    PROVE  With(n, p, name) \in PeerMaps /\ DOMAIN With(n, p, name) = (DOMAIN peers[n]) \cup {p}
<1>1. PICK S \in SUBSET Nodes : peers[n] \in [S -> Nicknames]
  BY Zenon DEF PeerMaps
<1>2. With(n, p, name) \in [S \cup {p} -> Nicknames] /\ S \cup {p} \in SUBSET Nodes
  BY <1>1, Zenon DEF With
<1> QED
  BY <1>1, <1>2, Zenon DEF PeerMaps

LEMMA MapWithout ==
    ASSUME NEW n \in Nodes, peers[n] \in PeerMaps, NEW p \in Nodes
    PROVE  Without(n, p) \in PeerMaps /\ DOMAIN Without(n, p) = (DOMAIN peers[n]) \ {p}
<1>1. PICK S \in SUBSET Nodes : peers[n] \in [S -> Nicknames]
  BY Zenon DEF PeerMaps
<1>2. Without(n, p) \in [S \ {p} -> Nicknames] /\ S \ {p} \in SUBSET Nodes
  BY <1>1, Zenon DEF Without
<1> QED
  BY <1>1, <1>2, Zenon DEF PeerMaps

\* A profile_update leaves the contacts the same people.
\* What json.Unmarshal makes of a nickname that it can parse is one.
LEMMA NameInHello ==
    ASSUME NEW x \in Nicknames, InHello[x] # NotJSON
    PROVE  NickOf(InHello[x]) \in Nicknames
<1>1. InHello[x] \in Nicknames \cup {"", NotJSON}
  BY NamesAssumption, Zenon
<1>2. "Unknown" \in Nicknames
  BY Zenon DEF Nicknames
<1> QED
  BY <1>1, <1>2, Zenon DEF NickOf

LEMMA NameInProfile ==
    ASSUME NEW x \in Nicknames, InProfile[x] # NotJSON
    PROVE  InProfile[x] \in Nicknames \cup {""}
BY NamesAssumption, Zenon

LEMMA MapRenamed ==
    ASSUME NEW n \in Nodes, peers[n] \in PeerMaps, NEW p \in Nodes, NEW name \in Nicknames \cup {""}
    PROVE  Renamed(n, p, name) \in PeerMaps /\ DOMAIN Renamed(n, p, name) = DOMAIN peers[n]
<1>1. CASE p \in DOMAIN peers[n] /\ name # ""
  <2>1. (DOMAIN peers[n]) \cup {p} = DOMAIN peers[n]
    BY <1>1, Zenon
  <2> QED
    BY <1>1, <2>1, MapWith, Zenon DEF Renamed
<1> QED
  BY <1>1, Zenon DEF Renamed

LEMMA NobodyIsAMap == NoPeers \in PeerMaps
<1>1. NoPeers \in [{} -> Nicknames] /\ {} \in SUBSET Nodes
  BY Zenon DEF NoPeers
<1> QED
  BY <1>1, Zenon DEF PeerMaps

\* One node's contacts and file change together, or its file does.
LEMMA PeersOfOne ==
    ASSUME PeersInv, NEW n \in Nodes, NEW map \in PeerMaps, NEW f \in Files(PeerMaps, PeerMaps),
           Tracks(f, map, NoPeers), JoinsKnown(f),
           peers' = [peers EXCEPT ![n] = map], peersFile' = [peersFile EXCEPT ![n] = f]
    PROVE  PeersInv'
<1>1. peers' \in [Nodes -> PeerMaps] /\ peersFile' \in [Nodes -> Files(PeerMaps, PeerMaps)]
  BY Zenon DEF PeersInv
<1>2. \A k \in Nodes : /\ peers'[k] = IF k = n THEN map ELSE peers[k]
                       /\ peersFile'[k] = IF k = n THEN f ELSE peersFile[k]
  BY Zenon DEF PeersInv
<1> QED
  BY <1>1, <1>2, Zenon DEF PeersInv

LEMMA FileOfOne ==
    ASSUME PeersInv, NEW n \in Nodes, NEW f \in Files(PeerMaps, PeerMaps),
           Tracks(f, peers[n], NoPeers), JoinsKnown(f),
           UNCHANGED peers, peersFile' = [peersFile EXCEPT ![n] = f]
    PROVE  PeersInv'
<1>1. peersFile' \in [Nodes -> Files(PeerMaps, PeerMaps)]
  BY Zenon DEF PeersInv
<1>2. \A k \in Nodes : peersFile'[k] = IF k = n THEN f ELSE peersFile[k]
  BY Zenon DEF PeersInv
<1> QED
  BY <1>1, <1>2, Zenon DEF PeersInv

LEMMA SetPeersStep ==
    ASSUME PeersInv, NEW n \in Nodes, NEW map \in PeerMaps, NEW w \in Savers,
           w.op = "join" => w.code \in Codes, SetPeers(n, map, w)
    PROVE  PeersInv'
<1> DEFINE f == Marshal(peersFile[n], w, map)
<1>1. peersFile[n] \in Files(PeerMaps, PeerMaps) /\ JoinsKnown(peersFile[n])
  BY Zenon DEF PeersInv
<1>2. /\ f \in Files(PeerMaps, PeerMaps) /\ Tracks(f, map, NoPeers)
      /\ \A s \in f.saves : s \in peersFile[n].saves \/ s.by = w
  BY <1>1, MarshalFile
<1>3. JoinsKnown(f)
  BY <1>1, <1>2, Zenon DEF JoinsKnown
<1>4. peers' = [peers EXCEPT ![n] = map] /\ peersFile' = [peersFile EXCEPT ![n] = f]
  BY Zenon DEF SetPeers
<1> HIDE DEF f
<1> QED
  BY <1>2, <1>3, <1>4, PeersOfOne, Zenon

LEMMA SaverOf ==
    ASSUME NEW op \in {"call", "join", "profile", "hello", "update"},
           NEW id \in 1 .. MaxCalls, NEW code \in Nodes \X (1 .. MaxCalls)
    PROVE  By(op, id, code) \in Savers /\ By(op, id, code).op = op /\ By(op, id, code).code = code
BY Zenon DEF By, Savers

LEMMA CodeIsAPair == \A c \in Codes : c \in Nodes \X (1 .. MaxCalls) /\ Issuer(c) \in Nodes
BY Zenon DEF Codes, Issuer

\* What PollMessages has in hand.
LEMMA LetterInHand ==
    ASSUME NetInv, NEW n \in Nodes, poll[n].stage = "opened"
    PROVE  LET m == poll[n].m
           IN /\ poll[n] \in [stage : {"opened", "saving"}, known : BOOLEAN, m : Messages]
              /\ Letter(m) /\ m.from \in Nodes /\ m.to \in Nodes
              /\ m.name \in Nicknames /\ m.id \in 1 .. MaxCalls
              /\ CodeOf(m) \in Nodes \X (1 .. MaxCalls)
<1>1. poll[n] # Idle
  BY DEF Idle
<1>2. /\ poll[n] \in [stage : {"opened", "saving"}, known : BOOLEAN, m : Messages]
      /\ Letter(poll[n].m)
  BY <1>1, Zenon DEF NetInv
<1> DEFINE m == poll[n].m
<1>3. m \in Messages
  BY <1>2, Zenon
<1> HIDE DEF m
<1>4. m.from \in Nodes /\ m.to \in Nodes /\ m.name \in Nicknames /\ m.id \in 1 .. MaxCalls
  BY <1>3, Zenon DEF Messages
<1>5. CodeOf(m) \in Nodes \X (1 .. MaxCalls)
  BY <1>4, Zenon DEF CodeOf
<1> QED
  BY <1>2, <1>4, <1>5, Zenon DEF m

LEMMA PeersCall ==
    ASSUME PeersInv, CountInv, NEW n \in Nodes, Call(n)
    PROVE  PeersInv'
<1>1. peers[n] \in PeerMaps
  BY Zenon DEF PeersInv
<1>2. ASSUME NEW p \in Nodes \ {n}, NEW name \in Labels, AddPeer(n, p, name) PROVE PeersInv'
  <2>1. calls' \in 1 .. MaxCalls /\ SetPeers(n, With(n, p, name), By("call", calls', <<p, calls'>>))
    BY <1>2, CalledNumber, Zenon DEF AddPeer
  <2>2. With(n, p, name) \in PeerMaps
    BY <1>1, MapWith, Zenon DEF Nicknames
  <2>3. /\ By("call", calls', <<p, calls'>>) \in Savers
        /\ By("call", calls', <<p, calls'>>).op = "call"
    BY <2>1, SaverOf
  <2> QED
    BY <2>1, <2>2, <2>3, SetPeersStep, Zenon
<1>3. ASSUME NEW p \in Nodes \ {n}, RemovePeer(n, p) PROVE PeersInv'
  <2>1. calls' \in 1 .. MaxCalls /\ SetPeers(n, Without(n, p), By("call", calls', <<p, calls'>>))
    BY <1>3, CalledNumber, Zenon DEF RemovePeer
  <2>2. Without(n, p) \in PeerMaps
    BY <1>1, MapWithout, Zenon
  <2>3. /\ By("call", calls', <<p, calls'>>) \in Savers
        /\ By("call", calls', <<p, calls'>>).op = "call"
    BY <2>1, SaverOf
  <2> QED
    BY <2>1, <2>2, <2>3, SetPeersStep, Zenon
<1>4. ASSUME NEW code \in Codes, JoinViaCode(n, code) PROVE PeersInv'
  <2>1. /\ calls' \in 1 .. MaxCalls
        /\ SetPeers(n, With(n, Issuer(code), "Me"), By("join", calls', code))
    BY <1>4, CalledNumber, Zenon DEF JoinViaCode
  <2>2. With(n, Issuer(code), "Me") \in PeerMaps
    BY <1>1, MapWith, CodeIsAPair, Zenon DEF Nicknames
  <2>3. By("join", calls', code) \in Savers /\ By("join", calls', code).code = code
    BY <2>1, SaverOf, CodeIsAPair
  <2> QED
    BY <2>1, <2>2, <2>3, SetPeersStep, Zenon
<1>5. ASSUME GenerateInviteCode(n) \/ \E name \in Names : UpdateProfile(n, name) PROVE PeersInv'
  BY <1>5, Zenon DEF GenerateInviteCode, UpdateProfile, PeersInv
<1> QED
  BY <1>2, <1>3, <1>4, <1>5, Zenon DEF Call

LEMMA PeersSave ==
    ASSUME PeersInv, NEW n \in Nodes, OpenPeersFile(n) \/ WritePeersFile(n)
    PROVE  PeersInv'
<1> DEFINE f == peersFile[n]
<1>1. f \in Files(PeerMaps, PeerMaps) /\ Tracks(f, peers[n], NoPeers) /\ JoinsKnown(f)
  BY Zenon DEF PeersInv
<1>2. CASE OpenPeersFile(n)
  <2>1. PICK s \in f.saves : /\ ~s.open /\ peersFile' = [peersFile EXCEPT ![n] = Open(f, s)]
                             /\ UNCHANGED peers
    BY <1>2, Zenon DEF OpenPeersFile
  <2> HIDE DEF f
  <2>2. /\ Open(f, s) \in Files(PeerMaps, PeerMaps) /\ Tracks(Open(f, s), peers[n], NoPeers)
        /\ \A t \in Open(f, s).saves : t \in f.saves \/ t.by = s.by
    BY <1>1, <2>1, OpenFile
  <2>3. JoinsKnown(Open(f, s))
    BY <1>1, <2>2, Zenon DEF JoinsKnown
  <2> QED
    BY <2>1, <2>2, <2>3, FileOfOne, Zenon
<1>3. CASE WritePeersFile(n)
  <2>1. PICK s \in f.saves :
          /\ \/ s.open /\ \E g \in Write(f, s) : peersFile' = [peersFile EXCEPT ![n] = g]
             \/ peersFile' = [peersFile EXCEPT ![n] = WriteFails(f, s)]
          /\ UNCHANGED peers
    BY <1>3, Zenon DEF WritePeersFile
  <2> HIDE DEF f
  <2>2. PICK g : /\ g \in Files(PeerMaps, PeerMaps) /\ g.saves \subseteq f.saves
                 /\ Tracks(g, peers[n], NoPeers) /\ peersFile' = [peersFile EXCEPT ![n] = g]
    BY <1>1, <2>1, WriteFile, FailFile, Zenon
  <2>3. JoinsKnown(g)
    BY <1>1, <2>2, Zenon DEF JoinsKnown
  <2> QED
    BY <2>1, <2>2, <2>3, FileOfOne, Zenon
<1> QED
  BY <1>2, <1>3, Zenon

LEMMA PeersReceive ==
    ASSUME PeersInv, NetInv, NEW n \in Nodes, OpenHello(n) \/ ApplyProfile(n)
    PROVE  PeersInv'
<1> DEFINE m == poll[n].m
<1>1. peers[n] \in PeerMaps /\ poll[n].stage = "opened"
  BY Zenon DEF PeersInv, OpenHello, ApplyProfile
<1>2. /\ Letter(m) /\ m.from \in Nodes /\ m.name \in Nicknames /\ m.id \in 1 .. MaxCalls
      /\ CodeOf(m) \in Nodes \X (1 .. MaxCalls)
  BY <1>1, LetterInHand, Zenon
<1>3. ASSUME NEW op \in {"hello", "update"}
      PROVE  By(op, m.id, CodeOf(m)) \in Savers /\ By(op, m.id, CodeOf(m)).op = op
  BY <1>2, SaverOf
<1>4. CASE OpenHello(n)
  <2>1. CASE UNCHANGED <<peers, peersFile>>
    BY <2>1, Zenon DEF PeersInv
  <2>2. CASE /\ InHello[m.name] # NotJSON
             /\ SetPeers(n, With(n, m.from, NickOf(InHello[m.name])), By("hello", m.id, CodeOf(m)))
    <3>1. With(n, m.from, NickOf(InHello[m.name])) \in PeerMaps
      BY <1>1, <1>2, <2>2, NameInHello, MapWith, Zenon
    <3> QED
      BY <1>3, <2>2, <3>1, SetPeersStep, Zenon
  <2> QED
    BY <1>4, <2>1, <2>2, Zenon DEF OpenHello
<1>5. CASE ApplyProfile(n)
  <2>1. CASE UNCHANGED <<peers, peersFile>>
    BY <2>1, Zenon DEF PeersInv
  <2>2. CASE /\ InProfile[m.name] # NotJSON
             /\ SetPeers(n, Renamed(n, m.from, InProfile[m.name]), By("update", m.id, CodeOf(m)))
    <3>1. Renamed(n, m.from, InProfile[m.name]) \in PeerMaps
      BY <1>1, <1>2, <2>2, NameInProfile, MapRenamed, Zenon
    <3> QED
      BY <1>3, <2>2, <3>1, SetPeersStep, Zenon
  <2> QED
    BY <1>5, <2>1, <2>2, Zenon DEF ApplyProfile
<1> QED
  BY <1>4, <1>5, Zenon

LEMMA PeersRestart ==
    ASSUME PeersInv, NEW n \in Nodes, Restart(n)
    PROVE  PeersInv'
<1> DEFINE f == peersFile[n]
<1>1. f \in Files(PeerMaps, PeerMaps)
  BY Zenon DEF PeersInv
<1>2. PICK ok \in BOOLEAN : /\ peers' = [peers EXCEPT ![n] = Load(f, ok, NoPeers)]
                            /\ peersFile' = [peersFile EXCEPT ![n] = Abandon(f, ok)]
  BY Zenon DEF Restart, Readings
<1> HIDE DEF f
<1>3. /\ Abandon(f, ok) \in Files(PeerMaps, PeerMaps) /\ Abandon(f, ok).saves = {}
      /\ Tracks(Abandon(f, ok), Load(f, ok, NoPeers), NoPeers)
      /\ Load(f, ok, NoPeers) \in PeerMaps
  BY <1>1, AbandonFile, NobodyIsAMap, Zenon
<1>4. JoinsKnown(Abandon(f, ok))
  BY <1>3, Zenon DEF JoinsKnown
<1> QED
  BY <1>2, <1>3, <1>4, PeersOfOne, Zenon

LEMMA PeersStep ==
    ASSUME PeersInv, NetInv, CountInv, [Next]_vars
    PROVE  PeersInv'
<1>1. ASSUME UNCHANGED <<peers, peersFile>> PROVE PeersInv'
  BY <1>1, Zenon DEF PeersInv
<1>2. ASSUME NEW n \in Nodes, OpenProfileFile(n) \/ FinishProfile(n) \/ Poll(n) \/ CodeExpires(n)
      PROVE  UNCHANGED <<peers, peersFile>>
  BY <1>2, Zenon DEF OpenProfileFile, FinishProfile, Poll, CodeExpires
<1>3. ASSUME SendQueued \/ Lose PROVE UNCHANGED <<peers, peersFile>>
  BY <1>3, Zenon DEF SendQueued, Lose
<1>4. ASSUME UNCHANGED vars PROVE UNCHANGED <<peers, peersFile>>
  BY <1>4, Zenon
<1> QED
  BY <1>1, <1>2, <1>3, <1>4, PeersCall, PeersSave, PeersReceive, PeersRestart, Zenon DEF Next

-----------------------------------------------------------------------------
(***************************************************************************)
(* The profile and its file.                                               *)
(***************************************************************************)
LEMMA ProfileOfOne ==
    ASSUME ProfileInv, NEW n \in Nodes, NEW name \in ProfileNames,
           NEW f \in Files(ProfileNames, Names), Tracks(f, name, ""),
           nick' = [nick EXCEPT ![n] = name], profileFile' = [profileFile EXCEPT ![n] = f]
    PROVE  ProfileInv'
<1>1. nick' \in [Nodes -> ProfileNames] /\ profileFile' \in [Nodes -> Files(ProfileNames, Names)]
  BY Zenon DEF ProfileInv
<1>2. \A k \in Nodes : /\ nick'[k] = IF k = n THEN name ELSE nick[k]
                       /\ profileFile'[k] = IF k = n THEN f ELSE profileFile[k]
  BY Zenon DEF ProfileInv
<1> QED
  BY <1>1, <1>2, Zenon DEF ProfileInv

LEMMA ProfileFileOfOne ==
    ASSUME ProfileInv, NEW n \in Nodes, NEW f \in Files(ProfileNames, Names),
           Tracks(f, nick[n], ""),
           UNCHANGED nick, profileFile' = [profileFile EXCEPT ![n] = f]
    PROVE  ProfileInv'
<1>1. profileFile' \in [Nodes -> Files(ProfileNames, Names)]
  BY Zenon DEF ProfileInv
<1>2. \A k \in Nodes : profileFile'[k] = IF k = n THEN f ELSE profileFile[k]
  BY Zenon DEF ProfileInv
<1> QED
  BY <1>1, <1>2, Zenon DEF ProfileInv

LEMMA ProfileStep ==
    ASSUME ProfileInv, CountInv, [Next]_vars
    PROVE  ProfileInv'
<1>1. ASSUME UNCHANGED <<nick, profileFile>> PROVE ProfileInv'
  BY <1>1, Zenon DEF ProfileInv
<1>2. ASSUME NEW n \in Nodes, NEW name \in Names, UpdateProfile(n, name) PROVE ProfileInv'
  <2> DEFINE f == profileFile[n]
             w == By("profile", calls', <<n, calls'>>)
  <2>1. f \in Files(ProfileNames, Names) /\ name \in ProfileNames
    BY Zenon DEF ProfileInv, ProfileNames
  <2>2. /\ calls' \in 1 .. MaxCalls /\ nick' = [nick EXCEPT ![n] = name]
        /\ profileFile' = [profileFile EXCEPT ![n] = Marshal(f, w, name)]
    BY <1>2, CalledNumber, Zenon DEF UpdateProfile
  <2>3. w \in Savers
    BY <2>2, SaverOf, Zenon
  <2> HIDE DEF f, w
  <2>4. /\ Marshal(f, w, name) \in Files(ProfileNames, Names)
        /\ Tracks(Marshal(f, w, name), name, "")
    BY <2>1, <2>3, MarshalFile, Zenon
  <2> QED
    BY <2>1, <2>2, <2>4, ProfileOfOne, Zenon
<1>3. ASSUME NEW n \in Nodes, OpenProfileFile(n) PROVE ProfileInv'
  <2> DEFINE f == profileFile[n]
  <2>1. f \in Files(ProfileNames, Names) /\ Tracks(f, nick[n], "")
    BY Zenon DEF ProfileInv
  <2>2. PICK s \in f.saves : /\ ~s.open /\ profileFile' = [profileFile EXCEPT ![n] = Open(f, s)]
                             /\ UNCHANGED nick
    BY <1>3, Zenon DEF OpenProfileFile
  <2> HIDE DEF f
  <2>3. Open(f, s) \in Files(ProfileNames, Names) /\ Tracks(Open(f, s), nick[n], "")
    BY <2>1, <2>2, OpenFile, Zenon
  <2> QED
    BY <2>2, <2>3, ProfileFileOfOne, Zenon
<1>4. ASSUME NEW n \in Nodes, FinishProfile(n) PROVE ProfileInv'
  <2> DEFINE f == profileFile[n]
  <2>1. f \in Files(ProfileNames, Names) /\ Tracks(f, nick[n], "") /\ Names \subseteq ProfileNames
    BY Zenon DEF ProfileInv, ProfileNames
  <2>2. PICK s \in f.saves :
          /\ \/ s.open /\ \E g \in Write(f, s) : profileFile' = [profileFile EXCEPT ![n] = g]
             \/ profileFile' = [profileFile EXCEPT ![n] = WriteFails(f, s)]
          /\ UNCHANGED nick
    BY <1>4, Zenon DEF FinishProfile
  <2> HIDE DEF f
  <2>3. PICK g : /\ g \in Files(ProfileNames, Names) /\ Tracks(g, nick[n], "")
                 /\ profileFile' = [profileFile EXCEPT ![n] = g]
    BY <2>1, <2>2, WriteFile, FailFile, Zenon
  <2> QED
    BY <2>2, <2>3, ProfileFileOfOne, Zenon
<1>5. ASSUME NEW n \in Nodes, Restart(n) PROVE ProfileInv'
  <2> DEFINE f == profileFile[n]
  <2>1. f \in Files(ProfileNames, Names) /\ "" \in ProfileNames
    BY Zenon DEF ProfileInv, ProfileNames
  <2>2. PICK ok \in BOOLEAN : /\ nick' = [nick EXCEPT ![n] = Load(f, ok, "")]
                              /\ profileFile' = [profileFile EXCEPT ![n] = Abandon(f, ok)]
    BY <1>5, Zenon DEF Restart, Readings
  <2> HIDE DEF f
  <2>3. /\ Abandon(f, ok) \in Files(ProfileNames, Names) /\ Load(f, ok, "") \in ProfileNames
        /\ Tracks(Abandon(f, ok), Load(f, ok, ""), "")
    BY <2>1, AbandonFile, Zenon
  <2> QED
    BY <2>2, <2>3, ProfileOfOne, Zenon
<1>6. ASSUME NEW n \in Nodes, Call(n)
      PROVE  UNCHANGED <<nick, profileFile>> \/ \E name \in Names : UpdateProfile(n, name)
  BY <1>6, Zenon DEF Call, AddPeer, RemovePeer, GenerateInviteCode, JoinViaCode
<1>7. ASSUME NEW n \in Nodes, OpenPeersFile(n) \/ WritePeersFile(n) \/ Poll(n) \/ CodeExpires(n)
      PROVE  UNCHANGED <<nick, profileFile>>
  BY <1>7, Zenon DEF OpenPeersFile, WritePeersFile, Poll, CodeExpires
<1>8. ASSUME NEW n \in Nodes, OpenHello(n) \/ ApplyProfile(n)
      PROVE  UNCHANGED <<nick, profileFile>>
  BY <1>8, Zenon DEF OpenHello, ApplyProfile
<1>9. ASSUME SendQueued \/ Lose PROVE UNCHANGED <<nick, profileFile>>
  BY <1>9, Zenon DEF SendQueued, Lose
<1>10. ASSUME UNCHANGED vars PROVE UNCHANGED <<nick, profileFile>>
  BY <1>10, Zenon
<1> QED
  BY <1>1, <1>2, <1>3, <1>4, <1>5, <1>6, <1>7, <1>8, <1>9, <1>10, Zenon DEF Next

-----------------------------------------------------------------------------
(***************************************************************************)
(* The messages.                                                           *)
(***************************************************************************)
\* getMyNickname always has a name, and a hello carries it.
LEMMA NameForHello ==
    ASSUME ProfileInv, NEW n \in Nodes
    PROVE  getMyNickname(n) \in Nicknames
<1>1. nick[n] \in Names \cup {""}
  BY Zenon DEF ProfileInv, ProfileNames
<1> QED
  BY <1>1, Zenon DEF getMyNickname, Nicknames

LEMMA PairOf ==
    ASSUME NEW S, NEW T, NEW c \in S \X T
    PROVE  c[1] \in S /\ c[2] \in T /\ c = <<c[1], c[2]>>
<1>1. c[1] \in S /\ c[2] \in T
  BY Zenon
<1>2. c = <<c[1], c[2]>>
  OBVIOUS
<1> QED
  BY <1>1, <1>2, Zenon

LEMMA HelloIsALetter ==
    ASSUME NEW code \in Codes, NEW n \in Nodes, NEW name \in Nicknames
    PROVE  Letter(Hello(code, n, name))
<1>1. code[1] \in Nodes /\ code[2] \in 1 .. MaxCalls /\ code = <<code[1], code[2]>>
  <2>1. code \in Nodes \X (1 .. MaxCalls)
    BY CodeIsAPair, Zenon
  <2> QED
    BY <2>1, PairOf, Zenon
<1>2. Hello(code, n, name) \in Messages
  BY <1>1, Zenon DEF Hello, Messages, Issuer
<1>3. CodeOf(Hello(code, n, name)) = code /\ Hello(code, n, name).name = name
  BY <1>1, Zenon DEF CodeOf, Hello, Issuer
<1> QED
  BY <1>2, <1>3, Zenon DEF Letter

LEMMA ProfileIsALetter ==
    ASSUME NEW n \in Nodes, NEW p \in Nodes, NEW name \in Names, NEW id \in 1 .. MaxCalls
    PROVE  Letter(Profile(n, p, name, id))
<1>1. Profile(n, p, name, id) \in Messages /\ Profile(n, p, name, id).kind = "profile"
  BY Zenon DEF Profile, Messages, Nicknames
<1> QED
  BY <1>1, Zenon DEF Letter

\* The messages of a step are those of before and new letters.
LEMMA LettersStep ==
    ASSUME Inv, [Next]_vars
    PROVE  \A m \in (net \cup outbox)' : Letter(m)
<1> DEFINE Kept == \A m \in (net \cup outbox)' : m \in net \cup outbox \/ Letter(m)
<1>1. ASSUME NEW n \in Nodes, WritePeersFile(n) PROVE Kept
  <2>1. PICK s \in peersFile[n].saves : AfterSave(n, s.by)
    BY <1>1, Zenon DEF WritePeersFile
  <2>2. CASE s.by.op = "join"
    <3>1. s.by.code \in Codes
      BY <2>2, Zenon DEF Inv, PeersInv, JoinsKnown
    <3>2. Letter(Hello(s.by.code, n, getMyNickname(n)))
      BY <3>1, NameForHello, HelloIsALetter, Zenon DEF Inv
    <3>3. SendHello(Hello(s.by.code, n, getMyNickname(n)))
      BY <2>1, <2>2, Zenon DEF AfterSave
    <3> QED
      BY <3>2, <3>3, Zenon DEF SendHello
  <2>3. CASE s.by.op # "join"
    BY <2>1, <2>3, Zenon DEF AfterSave
  <2> QED
    BY <2>2, <2>3, Zenon
<1>2. ASSUME NEW n \in Nodes, FinishProfile(n) PROVE Kept
  <2>1. PICK s \in profileFile[n].saves : \E reached \in SUBSET DOMAIN peers[n] :
          net' = net \cup {Profile(n, p, s.data, s.by.id) : p \in reached}
    BY <1>2, Zenon DEF FinishProfile
  <2>2. s.data \in Names /\ s.by.id \in 1 .. MaxCalls
    <3>1. profileFile[n] \in Files(ProfileNames, Names)
      BY Zenon DEF Inv, ProfileInv
    <3>2. s \in Saves(Names)
      BY <3>1, Zenon DEF Files
    <3>3. s.data \in Names /\ s.by \in Savers
      BY <3>2, Zenon DEF Saves
    <3> QED
      BY <3>3, Zenon DEF Savers
  <2>3. \A p \in DOMAIN peers[n] : p \in Nodes
    BY DEF Inv, PeersInv, PeerMaps
  <2>4. \A p \in DOMAIN peers[n] : Letter(Profile(n, p, s.data, s.by.id))
    BY <2>2, <2>3, ProfileIsALetter, Zenon
  <2>5. outbox' = outbox
    BY <1>2, Zenon DEF FinishProfile
  <2> QED
    BY <2>1, <2>4, <2>5, Zenon
<1>3. ASSUME NEW n \in Nodes, Call(n) PROVE Kept
  BY <1>3, Zenon DEF Call, AddPeer, RemovePeer, GenerateInviteCode, JoinViaCode, UpdateProfile
<1>4. ASSUME NEW n \in Nodes, OpenPeersFile(n) \/ OpenProfileFile(n) \/ Poll(n) PROVE Kept
  BY <1>4, Zenon DEF OpenPeersFile, OpenProfileFile, Poll
<1>5. ASSUME NEW n \in Nodes, OpenHello(n) \/ ApplyProfile(n) PROVE Kept
  BY <1>5, Zenon DEF OpenHello, ApplyProfile
<1>6. ASSUME NEW n \in Nodes, CodeExpires(n) \/ Restart(n) PROVE Kept
  BY <1>6, Zenon DEF CodeExpires, Restart
<1>7. ASSUME SendQueued \/ Lose PROVE Kept
  BY <1>7, Zenon DEF SendQueued, Lose
<1>8. ASSUME UNCHANGED vars PROVE Kept
  BY <1>8, Zenon
<1>9. Kept
  <2> HIDE DEF Kept
  <2> QED
    BY <1>1, <1>2, <1>3, <1>4, <1>5, <1>6, <1>7, <1>8, Zenon DEF Next
<1> QED
  BY <1>9, Zenon DEF Inv, NetInv

\* What one node has fetched and has in hand.
PollInv(f, p) ==
    /\ f \in SUBSET Messages
    /\ \/ p = Idle
       \/ /\ p \in [stage : {"opened", "saving"}, known : BOOLEAN, m : Messages]
          /\ Letter(p.m)

LEMMA PollOfOne ==
    ASSUME NetInv, NEW n \in Nodes, NEW f, NEW p, PollInv(f, p),
           fetched' = [fetched EXCEPT ![n] = f] \/ (f = fetched[n] /\ UNCHANGED fetched),
           poll' = [poll EXCEPT ![n] = p] \/ (p = poll[n] /\ UNCHANGED poll)
    PROVE  /\ fetched' \in [Nodes -> SUBSET Messages] /\ DOMAIN poll' = Nodes
           /\ \A k \in Nodes : PollInv(fetched'[k], poll'[k])
<1>1. fetched' \in [Nodes -> SUBSET Messages] /\ DOMAIN poll' = Nodes
  BY Zenon DEF NetInv, PollInv
<1>2. \A k \in Nodes : /\ fetched'[k] = IF k = n THEN f ELSE fetched[k]
                       /\ poll'[k] = IF k = n THEN p ELSE poll[k]
  BY Zenon DEF NetInv
<1>3. \A k \in Nodes : PollInv(fetched[k], poll[k])
  BY Zenon DEF NetInv, PollInv
<1> QED
  BY <1>1, <1>2, <1>3, Zenon

LEMMA PollStep ==
    ASSUME NetInv, [Next]_vars
    PROVE  /\ fetched' \in [Nodes -> SUBSET Messages] /\ DOMAIN poll' = Nodes
           /\ \A k \in Nodes : PollInv(fetched'[k], poll'[k])
<1> DEFINE Typed == /\ fetched' \in [Nodes -> SUBSET Messages] /\ DOMAIN poll' = Nodes
                    /\ \A k \in Nodes : PollInv(fetched'[k], poll'[k])
<1>1. ASSUME UNCHANGED <<fetched, poll>> PROVE Typed
  BY <1>1, Zenon DEF NetInv, PollInv
<1>2. ASSUME NEW n \in Nodes PROVE PollInv(fetched[n], poll[n])
  BY Zenon DEF NetInv, PollInv
<1>3. ASSUME NEW n \in Nodes PROVE PollInv(fetched[n], Idle) /\ PollInv({}, Idle)
  BY Zenon DEF NetInv, PollInv
<1>4. ASSUME NEW n \in Nodes, Poll(n) PROVE Typed
  <2>1. PICK m \in net :
          /\ fetched' = [fetched EXCEPT ![n] = fetched[n] \cup {m}]
          /\ poll' = [poll EXCEPT ![n] =
                        InHand(m, m.kind = "profile" /\ m.from \in DOMAIN peers[n])]
    BY <1>4, Zenon DEF Poll
  <2>2. Letter(m) /\ m \in Messages
    BY Zenon DEF NetInv, Letter
  <2> DEFINE known == m.kind = "profile" /\ m.from \in DOMAIN peers[n]
  <2>3. known \in BOOLEAN
    BY Zenon
  <2> HIDE DEF known
  <2>4. /\ InHand(m, known) \in [stage : {"opened", "saving"}, known : BOOLEAN, m : Messages]
        /\ InHand(m, known).m = m
    BY <2>2, <2>3, Zenon DEF InHand
  <2>5. fetched[n] \cup {m} \in SUBSET Messages
    BY <2>2, Zenon DEF NetInv
  <2>6. PollInv(fetched[n] \cup {m}, InHand(m, known))
    BY <2>2, <2>4, <2>5, Zenon DEF PollInv
  <2> QED
    BY <2>1, <2>6, PollOfOne, Zenon DEF known
<1>5. ASSUME NEW n \in Nodes, poll' = [poll EXCEPT ![n] = Idle] \/ poll' = poll, UNCHANGED fetched
      PROVE  Typed
  BY <1>2, <1>3, <1>5, PollOfOne, Zenon
<1>6. ASSUME NEW n \in Nodes, poll[n].stage = "opened",
             poll' = [poll EXCEPT ![n].stage = "saving"], UNCHANGED fetched
      PROVE  Typed
  <2> DEFINE p == [poll[n] EXCEPT !.stage = "saving"]
  <2>1. /\ poll[n] \in [stage : {"opened", "saving"}, known : BOOLEAN, m : Messages]
        /\ Letter(poll[n].m)
    BY <1>6, LetterInHand, Zenon
  <2>2. p \in [stage : {"opened", "saving"}, known : BOOLEAN, m : Messages] /\ p.m = poll[n].m
    BY <2>1, Zenon
  <2>3. poll' = [poll EXCEPT ![n] = p]
    BY <1>6, Zenon
  <2> HIDE DEF p
  <2>4. PollInv(fetched[n], p)
    BY <1>2, <2>1, <2>2, Zenon DEF PollInv
  <2> QED
    BY <1>6, <2>3, <2>4, PollOfOne, Zenon
<1>7. ASSUME NEW n \in Nodes, OpenHello(n) \/ ApplyProfile(n) PROVE Typed
  BY <1>5, <1>6, <1>7, Zenon DEF OpenHello, ApplyProfile
<1>8. ASSUME NEW n \in Nodes, WritePeersFile(n) PROVE Typed
  <2>1. (poll' = [poll EXCEPT ![n] = Idle] \/ poll' = poll) /\ UNCHANGED fetched
    BY <1>8, Zenon DEF WritePeersFile, AfterSave
  <2> QED
    BY <1>5, <2>1, Zenon
<1>9. ASSUME NEW n \in Nodes, Restart(n) PROVE Typed
  BY <1>3, <1>9, PollOfOne, Zenon DEF Restart
<1>10. ASSUME NEW n \in Nodes, Call(n) PROVE UNCHANGED <<fetched, poll>>
  BY <1>10, Zenon DEF Call, AddPeer, RemovePeer, GenerateInviteCode, JoinViaCode, UpdateProfile
<1>11. ASSUME NEW n \in Nodes, OpenPeersFile(n) \/ OpenProfileFile(n) PROVE UNCHANGED <<fetched, poll>>
  BY <1>11, Zenon DEF OpenPeersFile, OpenProfileFile
<1>12. ASSUME NEW n \in Nodes, FinishProfile(n) \/ CodeExpires(n) PROVE UNCHANGED <<fetched, poll>>
  BY <1>12, Zenon DEF FinishProfile, CodeExpires
<1>13. ASSUME SendQueued \/ Lose PROVE UNCHANGED <<fetched, poll>>
  BY <1>13, Zenon DEF SendQueued, Lose
<1>14. ASSUME UNCHANGED vars PROVE UNCHANGED <<fetched, poll>>
  BY <1>14, Zenon
<1> HIDE DEF Typed
<1>15. Typed
  BY <1>1, <1>4, <1>7, <1>8, <1>9, <1>10, <1>11, <1>12, <1>13, <1>14, Zenon DEF Next
<1> QED
  BY <1>15, Zenon DEF Typed

LEMMA NetStep ==
    ASSUME Inv, [Next]_vars
    PROVE  NetInv'
<1>1. NetInv
  BY Zenon DEF Inv
<1> QED
  BY <1>1, LettersStep, PollStep, Zenon DEF NetInv, PollInv

-----------------------------------------------------------------------------
(***************************************************************************)
(* The invite codes.                                                       *)
(***************************************************************************)
\* The codes P pending at n.
PendingInv(P, n, iss, ans) ==
    /\ P \in SUBSET [code : Codes, old : BOOLEAN]
    /\ \A p \in P : p.code[1] = n /\ p.code \in iss /\ ans[p.code] = {}

AnswerInv(iss, ans) ==
    /\ ans \in [Codes -> SUBSET Nodes]
    /\ \A c \in Codes : /\ ans[c] # {} => c \in iss
                        /\ \A x, y \in ans[c] : x = y

LEMMA CodeParts ==
    CodeInv <=> /\ pendingHellos \in [Nodes -> SUBSET [code : Codes, old : BOOLEAN]]
                /\ \A n \in Nodes : PendingInv(pendingHellos[n], n, issued, answered)
                /\ AnswerInv(issued, answered)
                /\ issued \subseteq Codes /\ spoiled \subseteq Codes
                /\ \A c \in issued : c[2] <= calls
BY Zenon DEF CodeInv, PendingInv, AnswerInv

LEMMA PendingOfOne ==
    ASSUME CodeInv, NEW n \in Nodes, NEW P,
           pendingHellos' = [pendingHellos EXCEPT ![n] = P],
           PendingInv(P, n, issued', answered'),
           \A k \in Nodes \ {n} : PendingInv(pendingHellos[k], k, issued', answered')
    PROVE  /\ pendingHellos' \in [Nodes -> SUBSET [code : Codes, old : BOOLEAN]]
           /\ \A k \in Nodes : PendingInv(pendingHellos'[k], k, issued', answered')
<1>1. pendingHellos \in [Nodes -> SUBSET [code : Codes, old : BOOLEAN]]
  BY Zenon DEF CodeInv
<1>2. P \in SUBSET [code : Codes, old : BOOLEAN]
  BY Zenon DEF PendingInv
<1>3. pendingHellos' \in [Nodes -> SUBSET [code : Codes, old : BOOLEAN]]
  BY <1>1, <1>2, Zenon
<1>4. \A k \in Nodes : pendingHellos'[k] = IF k = n THEN P ELSE pendingHellos[k]
  BY <1>1, Zenon
<1> QED
  BY <1>3, <1>4, Zenon

\* A step that answers and issues no code.
LEMMA CodeKept ==
    ASSUME CodeInv, UNCHANGED <<issued, answered, calls>>, spoiled' \subseteq Codes,
           pendingHellos' \in [Nodes -> SUBSET [code : Codes, old : BOOLEAN]],
           \A k \in Nodes : PendingInv(pendingHellos'[k], k, issued', answered')
    PROVE  CodeInv'
<1>1. /\ issued' = issued /\ answered' = answered /\ calls' = calls
  BY Zenon
<1>2. /\ answered' \in [Codes -> SUBSET Nodes] /\ issued' \subseteq Codes
      /\ \A c \in issued' : c[2] <= calls'
      /\ \A c \in Codes : /\ answered'[c] # {} => c \in issued'
                          /\ \A x, y \in answered'[c] : x = y
  <2> SUFFICES /\ answered \in [Codes -> SUBSET Nodes] /\ issued \subseteq Codes
               /\ \A c \in issued : c[2] <= calls
               /\ \A c \in Codes : /\ answered[c] # {} => c \in issued
                                   /\ \A x, y \in answered[c] : x = y
    BY <1>1, Zenon
  <2> QED
    BY Zenon DEF CodeInv
<1>3. \A n \in Nodes : \A p \in pendingHellos'[n] :
        p.code[1] = n /\ p.code \in issued' /\ answered'[p.code] = {}
  BY Zenon DEF PendingInv
<1> QED
  BY <1>2, <1>3, Zenon DEF CodeInv

\* A code is new because its number is.
LEMMA CodeIssued ==
    ASSUME CodeInv, CountInv, NEW n \in Nodes, GenerateInviteCode(n)
    PROVE  CodeInv'
<1> DEFINE c == <<n, calls'>>
           e == [code |-> c, old |-> FALSE]
<1>1. /\ calls' \in 1 .. MaxCalls /\ calls \in Nat /\ calls' = calls + 1
      /\ <<n, "GenerateInviteCode">> \in Uses
  BY CalledNumber, Zenon DEF GenerateInviteCode, Called, CountInv
<1>2. /\ pendingHellos' = [pendingHellos EXCEPT ![n] = pendingHellos[n] \cup {e}]
      /\ issued' = issued \cup {c} /\ UNCHANGED <<answered, spoiled>>
  BY Zenon DEF GenerateInviteCode
<1>3. c \in Codes /\ c[1] = n /\ c[2] = calls'
  BY <1>1, Zenon DEF Codes
<1> HIDE DEF c
<1>4. e \in [code : Codes, old : BOOLEAN] /\ e.code = c
  BY <1>3, Zenon
<1> HIDE DEF e
<1>5. \A d \in issued : d[2] <= calls
  BY Zenon DEF CodeInv
<1>6. c \notin issued
  BY <1>1, <1>3, <1>5
<1>7. AnswerInv(issued, answered) /\ issued \subseteq Codes /\ spoiled \subseteq Codes
  BY CodeParts, Zenon
<1>8. answered[c] = {}
  BY <1>3, <1>6, <1>7, Zenon DEF AnswerInv
<1>9. \A k \in Nodes : PendingInv(pendingHellos[k], k, issued', answered')
  BY <1>2, CodeParts, Zenon DEF PendingInv
<1>10. PendingInv(pendingHellos[n] \cup {e}, n, issued', answered')
  BY <1>2, <1>3, <1>4, <1>8, <1>9, ZenonT(30) DEF PendingInv
<1>11. AnswerInv(issued', answered') /\ issued' \subseteq Codes /\ spoiled' \subseteq Codes
  BY <1>2, <1>3, <1>7, Zenon DEF AnswerInv
<1>12. \A d \in issued' : d[2] <= calls'
  <2>1. \A d \in issued : d[2] \in 1 .. MaxCalls
    BY <1>7, CodeIsAPair, PairOf, Zenon
  <2>2. \A d \in issued : d[2] <= calls'
    BY <1>1, <1>5, <2>1
  <2>3. calls' <= calls'
    BY <1>1
  <2> QED
    BY <1>2, <1>3, <2>2, <2>3, Zenon
<1>13. /\ pendingHellos' \in [Nodes -> SUBSET [code : Codes, old : BOOLEAN]]
       /\ \A k \in Nodes : PendingInv(pendingHellos'[k], k, issued', answered')
  BY <1>2, <1>9, <1>10, PendingOfOne, Zenon
<1> QED
  BY <1>11, <1>12, <1>13, Zenon DEF CodeInv, PendingInv, AnswerInv

\* The hello that is answered takes its code off the pending ones.
LEMMA CodeAnswered ==
    ASSUME CodeInv, NetInv, NEW n \in Nodes, OpenHello(n)
    PROVE  CodeInv'
<1> DEFINE m == poll[n].m
           c == CodeOf(m)
           e == [code |-> c, old |-> FALSE]
<1>1. PendingInv(Fresh(n), n, issued, answered) /\ AnswerInv(issued, answered)
  BY CodeParts, Zenon DEF Fresh, PendingInv
<1>2. \A k \in Nodes : PendingInv(pendingHellos[k], k, issued, answered)
  BY CodeParts, Zenon
<1>3. m.from \in Nodes
  BY LetterInHand, Zenon DEF OpenHello
<1>4. UNCHANGED <<issued, spoiled, calls>>
  BY Zenon DEF OpenHello
<1>5. CASE /\ e \in Fresh(n)
           /\ pendingHellos' = [pendingHellos EXCEPT ![n] = Fresh(n) \ {e}]
           /\ answered' = [answered EXCEPT ![c] = answered[c] \cup {m.from}]
  <2>1. e.code = c
    BY Zenon
  <2>2. \A p \in Fresh(n) \ {e} : p.code # c
    <3> SUFFICES ASSUME NEW p \in Fresh(n), p.code = c PROVE p = e
      BY Zenon
    <3>1. p \in [code : Codes, old : BOOLEAN] /\ p.old = FALSE
      BY <1>1, Zenon DEF Fresh, PendingInv
    <3> HIDE DEF c
    <3> QED
      BY <3>1, Zenon
  <2> HIDE DEF c, e
  <2>3. c \in Codes /\ c[1] = n /\ c \in issued /\ answered[c] = {}
    <3>1. e \in [code : Codes, old : BOOLEAN]
      BY <1>1, <1>5, Zenon DEF PendingInv
    <3>2. e.code \in Codes
      BY <3>1, Zenon
    <3> QED
      BY <1>1, <1>5, <2>1, <3>2, Zenon DEF PendingInv
  <2> HIDE DEF m
  <2>4. answered' \in [Codes -> SUBSET Nodes]
    <3>1. answered \in [Codes -> SUBSET Nodes]
      BY <1>1, Zenon DEF AnswerInv
    <3>2. answered[c] \cup {m.from} \in SUBSET Nodes
      BY <1>3, <2>3, Zenon
    <3> QED
      BY <1>5, <3>1, <3>2, Zenon
  <2>5. \A d \in Codes : answered'[d] = IF d = c THEN {m.from} ELSE answered[d]
    BY <1>1, <1>5, <2>3, Zenon DEF AnswerInv
  <2>6. AnswerInv(issued', answered')
    BY <1>1, <1>4, <2>3, <2>4, <2>5, Zenon DEF AnswerInv
  <2>7. PendingInv(Fresh(n) \ {e}, n, issued', answered')
    <3>1. \A p \in Fresh(n) \ {e} : p.code \in Codes
      BY <1>1, Zenon DEF PendingInv
    <3> QED
      BY <1>1, <1>4, <2>2, <2>5, <3>1, Zenon DEF PendingInv
  <2>8. ASSUME NEW k \in Nodes \ {n} PROVE PendingInv(pendingHellos[k], k, issued', answered')
    <3>1. \A p \in pendingHellos[k] : p.code \in Codes /\ p.code # c
      BY <1>2, <2>3 DEF PendingInv
    <3> QED
      BY <1>2, <1>4, <2>5, <3>1, Zenon DEF PendingInv
  <2>9. /\ pendingHellos' \in [Nodes -> SUBSET [code : Codes, old : BOOLEAN]]
        /\ \A k \in Nodes : PendingInv(pendingHellos'[k], k, issued', answered')
    BY <1>5, <2>7, <2>8, PendingOfOne, Zenon
  <2> QED
    BY <1>4, <2>6, <2>9, Zenon DEF CodeInv, PendingInv, AnswerInv
<1>6. CASE /\ pendingHellos' = [pendingHellos EXCEPT ![n] = Fresh(n)]
           /\ UNCHANGED answered
  <2>1. /\ pendingHellos' \in [Nodes -> SUBSET [code : Codes, old : BOOLEAN]]
        /\ \A k \in Nodes : PendingInv(pendingHellos'[k], k, issued', answered')
    BY <1>1, <1>2, <1>4, <1>6, PendingOfOne, Zenon
  <2> QED
    <3>1. spoiled' \subseteq Codes
      BY <1>4, Zenon DEF CodeInv
    <3> QED
      BY <1>4, <1>6, <2>1, <3>1, CodeKept, Zenon
<1> QED
  BY <1>5, <1>6, Zenon DEF OpenHello, UsedUp

LEMMA CodeExpired ==
    ASSUME CodeInv, NEW n \in Nodes, CodeExpires(n)
    PROVE  CodeInv'
<1>1. PICK p \in Fresh(n) :
        /\ pendingHellos' = [pendingHellos EXCEPT
                               ![n] = (pendingHellos[n] \ {p}) \cup {[p EXCEPT !.old = TRUE]}]
        /\ spoiled' = spoiled \cup {p.code}
        /\ UNCHANGED <<issued, answered, calls>>
  BY Zenon DEF CodeExpires
<1> DEFINE q == [p EXCEPT !.old = TRUE]
<1>2. PendingInv(pendingHellos[n], n, issued, answered) /\ p \in pendingHellos[n]
  BY CodeParts, Zenon DEF Fresh
<1>3. p \in [code : Codes, old : BOOLEAN]
  BY <1>2, Zenon DEF PendingInv
<1>4. q \in [code : Codes, old : BOOLEAN] /\ q.code = p.code /\ p.code \in Codes
  BY <1>3, Zenon
<1> HIDE DEF q
<1>5. PendingInv((pendingHellos[n] \ {p}) \cup {q}, n, issued', answered')
  BY <1>1, <1>2, <1>4, Zenon DEF PendingInv
<1>6. \A k \in Nodes : PendingInv(pendingHellos[k], k, issued', answered')
  BY <1>1, CodeParts, Zenon
<1>7. /\ pendingHellos' \in [Nodes -> SUBSET [code : Codes, old : BOOLEAN]]
      /\ \A k \in Nodes : PendingInv(pendingHellos'[k], k, issued', answered')
  BY <1>1, <1>5, <1>6, PendingOfOne, Zenon DEF q
<1>8. spoiled' \subseteq Codes
  BY <1>1, <1>4, Zenon DEF CodeInv
<1> QED
  BY <1>1, <1>7, <1>8, CodeKept, Zenon

LEMMA CodeRestart ==
    ASSUME CodeInv, PeersInv, NEW n \in Nodes, Restart(n)
    PROVE  CodeInv'
<1>1. /\ pendingHellos' = [pendingHellos EXCEPT ![n] = {}]
      /\ UNCHANGED <<issued, answered, calls>>
  BY Zenon DEF Restart
<1>2. PendingInv({}, n, issued', answered')
  BY Zenon DEF PendingInv
<1>3. \A k \in Nodes : PendingInv(pendingHellos[k], k, issued', answered')
  BY <1>1, CodeParts, Zenon
<1>4. /\ pendingHellos' \in [Nodes -> SUBSET [code : Codes, old : BOOLEAN]]
      /\ \A k \in Nodes : PendingInv(pendingHellos'[k], k, issued', answered')
  BY <1>1, <1>2, <1>3, PendingOfOne, Zenon
<1>5. spoiled' \subseteq Codes
  <2>1. \A p \in pendingHellos[n] : p.code \in Codes
    BY CodeParts, Zenon DEF PendingInv
  <2>2. \A s \in {x \in peersFile[n].saves : x.by.op = "join"} : s.by.code \in Codes
    BY Zenon DEF PeersInv, JoinsKnown
  <2>3. spoiled \subseteq Codes
    BY Zenon DEF CodeInv
  <2>4. spoiled' = spoiled \cup {p.code : p \in pendingHellos[n]}
                     \cup {s.by.code : s \in {x \in peersFile[n].saves : x.by.op = "join"}}
    BY Zenon DEF Restart
  <2> QED
    BY <2>1, <2>2, <2>3, <2>4, Zenon
<1> QED
  BY <1>1, <1>4, <1>5, CodeKept, Zenon

LEMMA CodeStep ==
    ASSUME CodeInv, PeersInv, NetInv, CountInv, [Next]_vars
    PROVE  CodeInv'
<1> DEFINE Same == UNCHANGED <<pendingHellos, issued, answered>> /\ spoiled' \subseteq Codes
<1>1. ASSUME Same PROVE CodeInv'
  <2>1. \A c \in issued : c[2] <= calls'
    <3>1. \A c \in issued : c[2] \in 1 .. MaxCalls /\ c[2] <= calls
      BY CodeIsAPair, PairOf, Zenon DEF CodeInv
    <3>2. calls \in Nat /\ calls' \in Nat /\ calls <= calls'
      BY CountStep, Zenon DEF CountInv
    <3> QED
      BY <3>1, <3>2
  <2> QED
    BY <1>1, <2>1, Zenon DEF CodeInv
<1>2. ASSUME UNCHANGED <<pendingHellos, issued, answered, spoiled>> PROVE Same
  BY <1>2, Zenon DEF CodeInv
<1>3. ASSUME NEW n \in Nodes, Call(n) PROVE Same \/ GenerateInviteCode(n)
  BY <1>2, <1>3, Zenon DEF Call, AddPeer, RemovePeer, JoinViaCode, UpdateProfile
<1>4. ASSUME NEW n \in Nodes,
             OpenPeersFile(n) \/ WritePeersFile(n) \/ OpenProfileFile(n) \/ FinishProfile(n)
      PROVE  Same
  BY <1>2, <1>4, Zenon DEF OpenPeersFile, WritePeersFile, OpenProfileFile, FinishProfile
<1>5. ASSUME NEW n \in Nodes, Poll(n) \/ ApplyProfile(n) PROVE Same
  BY <1>2, <1>5, Zenon DEF Poll, ApplyProfile
<1>6. ASSUME Lose PROVE Same
  <2>1. PICK m \in net \cup outbox :
          /\ spoiled' = spoiled \cup {c \in {CodeOf(m)} : m.kind = "hello"}
          /\ UNCHANGED <<pendingHellos, issued, answered>>
    BY <1>6, Zenon DEF Lose
  <2>2. m.kind = "hello" => CodeOf(m) \in Codes
    BY Zenon DEF NetInv, Letter
  <2> QED
    BY <2>1, <2>2, Zenon DEF CodeInv
<1>7. ASSUME SendQueued PROVE Same
  BY <1>2, <1>7, Zenon DEF SendQueued
<1>8. ASSUME UNCHANGED vars PROVE Same
  BY <1>2, <1>8, Zenon
<1> HIDE DEF Same
<1> QED
  BY <1>1, <1>3, <1>4, <1>5, <1>6, <1>7, <1>8, CodeIssued, CodeAnswered, CodeExpired, CodeRestart,
     Zenon DEF Next

-----------------------------------------------------------------------------
(***************************************************************************)
(* The contacts the users agreed to.                                       *)
(***************************************************************************)
\* One node's contacts change, with what its user agreed to.
LEMMA AgreedOfOne ==
    ASSUME AgreedInv, DOMAIN peers = Nodes, NEW n \in Nodes, NEW map, NEW A \in SUBSET Nodes,
           DOMAIN map \subseteq A,
           peers' = [peers EXCEPT ![n] = map],
           agreed' = [agreed EXCEPT ![n] = A]
    PROVE  AgreedInv'
<1>1. agreed' \in [Nodes -> SUBSET Nodes]
  BY Zenon DEF AgreedInv
<1>2. \A k \in Nodes : /\ peers'[k] = IF k = n THEN map ELSE peers[k]
                       /\ agreed'[k] = IF k = n THEN A ELSE agreed[k]
  BY Zenon DEF AgreedInv
<1> QED
  BY <1>1, <1>2, Zenon DEF AgreedInv, OnlyAgreedContacts

LEMMA AgreedStep ==
    ASSUME Inv, [Next]_vars
    PROVE  AgreedInv'
<1>1. AgreedInv /\ DOMAIN peers = Nodes
  BY Zenon DEF Inv, PeersInv
<1>2. ASSUME NEW n \in Nodes
      PROVE  /\ peers[n] \in PeerMaps /\ agreed[n] \in SUBSET Nodes
             /\ DOMAIN peers[n] \subseteq agreed[n]
             /\ peersFile[n] \in Files(PeerMaps, PeerMaps)
             /\ Tracks(peersFile[n], peers[n], NoPeers)
  BY Zenon DEF Inv, PeersInv, AgreedInv, OnlyAgreedContacts
<1>3. ASSUME UNCHANGED <<peers, agreed>> PROVE AgreedInv'
  BY <1>1, <1>3, Zenon DEF AgreedInv, OnlyAgreedContacts
<1>4. ASSUME NEW n \in Nodes, NEW p \in Nodes, NEW name \in Nicknames,
             peers' = [peers EXCEPT ![n] = With(n, p, name)],
             agreed' = [agreed EXCEPT ![n] = agreed[n] \cup {p}]
      PROVE  AgreedInv'
  <2>1. DOMAIN With(n, p, name) = (DOMAIN peers[n]) \cup {p}
    BY <1>2, MapWith, Zenon
  <2> DEFINE map == With(n, p, name)
             A == agreed[n] \cup {p}
  <2>2. DOMAIN map \subseteq A /\ A \in SUBSET Nodes
    BY <1>2, <2>1, Zenon
  <2>3. peers' = [peers EXCEPT ![n] = map] /\ agreed' = [agreed EXCEPT ![n] = A]
    BY <1>4, Zenon
  <2> HIDE DEF map, A
  <2> QED
    BY <1>1, <2>2, <2>3, AgreedOfOne, Zenon
<1>5. ASSUME NEW n \in Nodes, NEW p \in Nodes, RemovePeer(n, p) PROVE AgreedInv'
  <2> DEFINE map == Without(n, p)
             A == agreed[n] \ {p}
  <2>1. peers' = [peers EXCEPT ![n] = map] /\ agreed' = [agreed EXCEPT ![n] = A]
    BY <1>5, Zenon DEF RemovePeer, SetPeers
  <2>2. DOMAIN map \subseteq A /\ A \in SUBSET Nodes
    BY <1>2, MapWithout, Zenon
  <2> HIDE DEF map, A
  <2> QED
    BY <1>1, <2>1, <2>2, AgreedOfOne, Zenon
<1>6. ASSUME NEW n \in Nodes, Call(n) PROVE AgreedInv'
  <2>1. ASSUME NEW p \in Nodes \ {n}, NEW name \in Labels, AddPeer(n, p, name) PROVE AgreedInv'
    <3>1. /\ peers' = [peers EXCEPT ![n] = With(n, p, name)] /\ name \in Nicknames
          /\ agreed' = [agreed EXCEPT ![n] = agreed[n] \cup {p}]
      BY <2>1, Zenon DEF AddPeer, SetPeers, Nicknames
    <3> QED
      BY <1>4, <3>1, Zenon
  <2>2. ASSUME NEW code \in Codes, JoinViaCode(n, code) PROVE AgreedInv'
    <3>1. /\ peers' = [peers EXCEPT ![n] = With(n, Issuer(code), "Me")] /\ "Me" \in Nicknames
          /\ agreed' = [agreed EXCEPT ![n] = agreed[n] \cup {Issuer(code)}]
      BY <2>2, Zenon DEF JoinViaCode, SetPeers, Nicknames
    <3> QED
      BY <1>4, <3>1, CodeIsAPair, Zenon
  <2>3. ASSUME GenerateInviteCode(n) \/ \E name \in Names : UpdateProfile(n, name)
        PROVE  AgreedInv'
    BY <1>3, <2>3, Zenon DEF GenerateInviteCode, UpdateProfile
  <2> QED
    BY <1>5, <1>6, <2>1, <2>2, <2>3, Zenon DEF Call
<1>7. ASSUME NEW n \in Nodes, OpenHello(n) PROVE AgreedInv'
  <2> DEFINE m == poll[n].m
  <2>1. Letter(m) /\ m.from \in Nodes /\ m.name \in Nicknames
    BY <1>7, LetterInHand, Zenon DEF OpenHello, Inv
  <2>2. CASE UNCHANGED <<peers, agreed>>
    BY <1>3, <2>2, Zenon
  <2>3. CASE /\ InHello[m.name] # NotJSON
             /\ SetPeers(n, With(n, m.from, NickOf(InHello[m.name])), By("hello", m.id, CodeOf(m)))
             /\ agreed' = [agreed EXCEPT ![n] = agreed[n] \cup {m.from}]
    <3>1. /\ peers' = [peers EXCEPT ![n] = With(n, m.from, NickOf(InHello[m.name]))]
          /\ NickOf(InHello[m.name]) \in Nicknames
      BY <2>1, <2>3, NameInHello, Zenon DEF SetPeers
    <3> QED
      BY <1>4, <2>1, <2>3, <3>1, Zenon
  <2> QED
    BY <1>7, <2>2, <2>3, Zenon DEF OpenHello
<1>8. ASSUME NEW n \in Nodes, ApplyProfile(n) PROVE AgreedInv'
  <2> DEFINE m == poll[n].m
  <2>1. m.from \in Nodes /\ m.name \in Nicknames
    BY <1>8, LetterInHand, Zenon DEF ApplyProfile, Inv
  <2> DEFINE map == Renamed(n, m.from, InProfile[m.name])
             A == agreed[n]
  <2>2. CASE UNCHANGED <<peers, agreed>>
    BY <1>3, <2>2, Zenon
  <2>3. ASSUME InProfile[m.name] # NotJSON, peers' = [peers EXCEPT ![n] = map], UNCHANGED agreed
        PROVE  AgreedInv'
    <3>1. DOMAIN map \subseteq A /\ A \in SUBSET Nodes
      BY <1>2, <2>1, <2>3, NameInProfile, MapRenamed, Zenon
    <3>2. agreed' = [agreed EXCEPT ![n] = A]
      BY <1>1, <2>3, Zenon DEF AgreedInv
    <3> HIDE DEF map, A
    <3> QED
      BY <1>1, <2>3, <3>1, <3>2, AgreedOfOne, Zenon
  <2> QED
    BY <1>8, <2>2, <2>3, Zenon DEF ApplyProfile, SetPeers
<1>9. ASSUME NEW n \in Nodes, Restart(n) PROVE AgreedInv'
  <2>0. PICK ok \in BOOLEAN : peers' = [peers EXCEPT ![n] = Load(peersFile[n], ok, NoPeers)]
    BY <1>9, Zenon DEF Restart, Readings
  <2> DEFINE map == Load(peersFile[n], ok, NoPeers)
             A == IF Settled(peersFile[n]) THEN agreed[n] ELSE agreed[n] \cup DOMAIN map
  <2>1. map \in PeerMaps
    BY <1>2, AbandonFile, NobodyIsAMap, Zenon
  <2>2. peers' = [peers EXCEPT ![n] = map]
    BY <2>0, Zenon
  <2>3. peers'[n] = map
    BY <1>1, <2>2, Zenon
  <2>4. agreed' = [agreed EXCEPT ![n] = A]
    BY <1>9, <2>3, Zenon DEF Restart
  <2>5. Settled(peersFile[n]) => DOMAIN map \subseteq DOMAIN peers[n]
    <3>1. map = IF ok THEN Held(peersFile[n], NoPeers) ELSE NoPeers
      BY Zenon DEF Held, Load
    <3>2. DOMAIN NoPeers = {}
      BY Zenon DEF NoPeers
    <3> QED
      BY <1>2, <3>1, <3>2, Zenon DEF Settled, Tracks
  <2>6. DOMAIN map \in SUBSET Nodes
    BY <2>1, Zenon DEF PeerMaps
  <2> HIDE DEF map
  <2>7. A \in SUBSET Nodes /\ DOMAIN map \subseteq A
    BY <1>2, <2>5, <2>6, Zenon
  <2> QED
    BY <1>1, <2>2, <2>4, <2>7, AgreedOfOne, Zenon
<1>10. ASSUME NEW n \in Nodes,
              OpenPeersFile(n) \/ WritePeersFile(n) \/ OpenProfileFile(n) \/ FinishProfile(n)
       PROVE  UNCHANGED <<peers, agreed>>
  BY <1>10, Zenon DEF OpenPeersFile, WritePeersFile, OpenProfileFile, FinishProfile
<1>11. ASSUME NEW n \in Nodes, Poll(n) \/ CodeExpires(n) PROVE UNCHANGED <<peers, agreed>>
  BY <1>11, Zenon DEF Poll, CodeExpires
<1>12. ASSUME SendQueued \/ Lose PROVE UNCHANGED <<peers, agreed>>
  BY <1>12, Zenon DEF SendQueued, Lose
<1>13. ASSUME UNCHANGED vars PROVE UNCHANGED <<peers, agreed>>
  BY <1>13, Zenon
<1> QED
  BY <1>3, <1>6, <1>7, <1>8, <1>9, <1>10, <1>11, <1>12, <1>13, Zenon DEF Next

-----------------------------------------------------------------------------
(***************************************************************************)
(* The invariant, and what follows from it.                                *)
(***************************************************************************)
LEMMA InitFiles ==
    ASSUME NEW D, NEW E, NEW v \in D, NEW none \in D
    PROVE  /\ NewFile(none) \in Files(D, E) /\ Tracks(NewFile(none), none, none)
           /\ LET f == [NewFile(v) EXCEPT !.disk = "whole"]
              IN f \in Files(D, E) /\ Tracks(f, v, none) /\ f.saves = {}
<1> DEFINE f == [NewFile(v) EXCEPT !.disk = "whole"]
           g == NewFile(v)
<1>1. g \in Files(D, E) /\ g.saves = {} /\ g.data = v
  BY Zenon DEF NewFile, Files, Contents
<1> HIDE DEF g
<1>2. f \in Files(D, E) /\ f.saves = {} /\ f.disk = "whole" /\ f.data = v
  <2>1. f = [g EXCEPT !.disk = "whole"]
    BY Zenon DEF g
  <2> HIDE DEF f
  <2> QED
    BY <1>1, <2>1, Zenon DEF Files, Contents
<1>3. Tracks(f, v, none)
  BY <1>2, Zenon DEF Tracks, Held, Load
<1> HIDE DEF f
<1>4. /\ NewFile(none) \in Files(D, E)
      /\ NewFile(none).saves = {} /\ NewFile(none).disk = "none"
  BY Zenon DEF NewFile, Files, Contents
<1>5. Tracks(NewFile(none), none, none)
  <2>1. Held(NewFile(none), none) = none
    BY <1>4, Zenon DEF Held, Load
  <2> QED
    BY <1>4, <2>1, Zenon DEF Tracks
<1> QED
  BY <1>2, <1>3, <1>4, <1>5, Zenon DEF f

LEMMA InvInit == Init => Inv
<1> SUFFICES ASSUME Init PROVE Inv
  BY Zenon
<1>1. ASSUME NEW n \in Nodes PROVE peers[n] \in PeerMaps
  <2> DEFINE S == {q \in Nodes : <<n, q>> \in Friends}
  <2>1. peers[n] = [p \in S |-> "Me"]
    BY Zenon DEF Init
  <2>2. S \in SUBSET Nodes
    BY Zenon
  <2> HIDE DEF S
  <2>3. peers[n] \in [S -> Nicknames]
    BY <2>1, Zenon DEF Nicknames
  <2> QED
    BY <2>2, <2>3, Zenon DEF PeerMaps
<1>2. DOMAIN peers = Nodes
  BY Zenon DEF Init
<1>3. peers \in [Nodes -> PeerMaps]
  <2>1. peers = [n \in Nodes |-> peers[n]]
    BY Zenon DEF Init
  <2> QED
    BY <1>1, <2>1, Zenon
<1>4. PeersInv
  <2>1. /\ DOMAIN peersFile = Nodes
        /\ \A n \in Nodes : peersFile[n] = [NewFile(peers[n]) EXCEPT !.disk = "whole"]
    BY Zenon DEF Init
  <2>2. ASSUME NEW n \in Nodes
        PROVE  /\ peersFile[n] \in Files(PeerMaps, PeerMaps)
               /\ Tracks(peersFile[n], peers[n], NoPeers) /\ peersFile[n].saves = {}
    <3> DEFINE f == [NewFile(peers[n]) EXCEPT !.disk = "whole"]
    <3>1. f \in Files(PeerMaps, PeerMaps) /\ Tracks(f, peers[n], NoPeers) /\ f.saves = {}
      BY <1>1, InitFiles, NobodyIsAMap, Zenon
    <3>2. peersFile[n] = f
      BY <2>1, Zenon
    <3> HIDE DEF f
    <3> QED
      BY <3>1, <3>2, Zenon
  <2>3. peersFile \in [Nodes -> Files(PeerMaps, PeerMaps)]
    <3>1. peersFile = [n \in Nodes |-> peersFile[n]]
      BY Zenon DEF Init
    <3> QED
      BY <2>2, <3>1, Zenon
  <2> QED
    BY <1>3, <2>2, <2>3, Zenon DEF PeersInv, JoinsKnown
<1>5. ProfileInv
  <2>1. "" \in ProfileNames
    BY Zenon DEF ProfileNames
  <2>2. /\ nick = [n \in Nodes |-> ""] /\ profileFile = [n \in Nodes |-> NewFile("")]
    BY Zenon DEF Init
  <2>3. NewFile("") \in Files(ProfileNames, Names) /\ Tracks(NewFile(""), "", "")
    BY <2>1, InitFiles, Zenon
  <2> QED
    BY <2>1, <2>2, <2>3, Zenon DEF ProfileInv
<1>6. NetInv
  BY Zenon DEF Init, NetInv
<1>7. CountInv
  <2>1. calls = 0 /\ faults = 0
    BY Zenon DEF Init
  <2> QED
    BY <2>1, ContactsAssumption DEF CountInv
<1>8. CodeInv
  BY Zenon DEF Init, CodeInv
<1>9. AgreedInv
  <2>1. \A n \in Nodes : DOMAIN peers[n] \in SUBSET Nodes
    BY <1>1, Zenon DEF PeerMaps
  <2>2. agreed = [n \in Nodes |-> DOMAIN peers[n]]
    BY Zenon DEF Init
  <2> QED
    BY <2>1, <2>2, Zenon DEF AgreedInv, OnlyAgreedContacts
<1> QED
  BY <1>4, <1>5, <1>6, <1>7, <1>8, <1>9, Zenon DEF Inv

LEMMA InvStep == Inv /\ [Next]_vars => Inv'
<1> SUFFICES ASSUME Inv, [Next]_vars PROVE Inv'
  BY Zenon
<1>1. PeersInv /\ ProfileInv /\ NetInv /\ CountInv /\ CodeInv
  BY Zenon DEF Inv
<1>2. PeersInv' /\ ProfileInv' /\ CountInv' /\ CodeInv'
  BY <1>1, PeersStep, ProfileStep, CountStep, CodeStep, Zenon
<1>3. NetInv' /\ AgreedInv'
  BY NetStep, AgreedStep, Zenon
<1> QED
  BY <1>2, <1>3, Zenon DEF Inv

LEMMA InvAlways == Spec => []Inv
BY InvInit, InvStep, PTL DEF Spec

\* Whatever a handler did to the contacts or to the profile is on the disk when
\* it is done: a file whose last save had it to itself holds what the memory
\* holds (savePeers and saveProfile).
THEOREM SavedAlwaysCurrent == Spec => []SavedIsCurrent
<1>1. Inv => SavedIsCurrent
  BY Zenon DEF Inv, PeersInv, ProfileInv, Tracks, Settled, SavedIsCurrent
<1> QED
  BY <1>1, InvAlways, PTL

\* Nobody is a contact whom the user did not add, invite or join: no message in
\* flight and no restart from an undisturbed file brings back a contact that
\* was removed (RemovePeer, PollMessages, loadPeers).
THEOREM OnlyAgreedAlways == Spec => []OnlyAgreedContacts
<1>1. Inv => OnlyAgreedContacts
  BY Zenon DEF Inv, AgreedInv
<1> QED
  BY <1>1, InvAlways, PTL

\* An invite code makes at most one contact, whoever it was handed to and
\* however often their hellos are fetched, also across restarts of the issuer
\* (delete(d.pendingHellos, nonceHex)).
THEOREM OneContactAlways == Spec => []OneContactPerCode
<1>1. Inv => OneContactPerCode
  <2> SUFFICES ASSUME Inv, NEW c \in Codes PROVE Cardinality(answered[c]) <= 1
    BY Zenon DEF OneContactPerCode
  <2>1. \A x, y \in answered[c] : x = y
    BY Zenon DEF Inv, CodeInv
  <2>2. CASE answered[c] = {}
    <3>1. Cardinality(answered[c]) = 0
      BY <2>2, FS_EmptySet, Zenon
    <3> QED
      BY <3>1
  <2>3. CASE answered[c] # {}
    <3>1. PICK x : x \in answered[c]
      BY <2>3, Zenon
    <3>2. answered[c] = {x}
      BY <2>1, <3>1, Zenon
    <3>3. Cardinality(answered[c]) = 1
      BY <3>2, FS_Singleton, Zenon
    <3> QED
      BY <3>3
  <2> QED
    BY <2>2, <2>3, Zenon
<1> QED
  BY <1>1, InvAlways, PTL

\* The variables keep their types: what is on the wire, on the disk and in the
\* hands of PollMessages is what the handlers expect there.
THEOREM TypeCorrect == Spec => []TypeOK
<1>1. Inv => TypeOK
  <2> SUFFICES ASSUME Inv PROVE TypeOK
    BY Zenon
  <2>1. \A map \in PeerMaps : IsPeerMap(map)
    BY Zenon DEF PeerMaps, IsPeerMap
  <2>2. ASSUME NEW n \in Nodes
        PROVE  /\ IsPeerMap(peers[n]) /\ nick[n] \in ProfileNames
               /\ peersFile[n].disk \in Contents /\ IsPeerMap(peersFile[n].data)
               /\ \A s \in peersFile[n].saves : s.by \in Savers /\ IsPeerMap(s.data)
               /\ \A s \in profileFile[n].saves : s.by \in Savers /\ s.data \in ProfileNames
    <3>1. /\ peers[n] \in PeerMaps /\ nick[n] \in ProfileNames
          /\ peersFile[n] \in Files(PeerMaps, PeerMaps)
          /\ profileFile[n] \in Files(ProfileNames, Names)
      BY Zenon DEF Inv, PeersInv, ProfileInv
    <3>2. /\ peersFile[n].disk \in Contents /\ peersFile[n].data \in PeerMaps
          /\ peersFile[n].saves \subseteq Saves(PeerMaps)
          /\ profileFile[n].saves \subseteq Saves(Names)
      BY <3>1, Zenon DEF Files
    <3>3. \A E : \A s \in Saves(E) : s.by \in Savers /\ s.data \in E
      BY Zenon DEF Saves
    <3>4. Names \subseteq ProfileNames
      BY Zenon DEF ProfileNames
    <3> QED
      BY <2>1, <3>1, <3>2, <3>3, <3>4, Zenon
  <2>3. ASSUME NEW n \in Nodes
        PROVE  /\ \A p \in pendingHellos[n] : p.code \in Codes /\ p.old \in BOOLEAN
               /\ \A m \in fetched[n] : m \in Messages
    BY DEF Inv, CodeInv, NetInv
  <2>4. ASSUME NEW n \in Nodes PROVE poll[n].stage \in {"idle", "opened", "saving"}
    <3>1. CASE poll[n] = Idle
      BY <3>1 DEF Idle
    <3>2. CASE poll[n] \in [stage : {"opened", "saving"}, known : BOOLEAN, m : Messages]
      BY <3>2, Zenon
    <3> QED
      BY <3>1, <3>2, Zenon DEF Inv, NetInv
  <2>5. /\ \A m \in net \cup outbox : m \in Messages
        /\ \A c \in Codes : answered[c] \subseteq Nodes
        /\ issued \cup spoiled \subseteq Codes
    BY Zenon DEF Inv, NetInv, Letter, CodeInv
  <2>6. calls \in 0 .. MaxCalls /\ faults \in 0 .. MaxFaults
    <3>1. CountInv
      BY Zenon DEF Inv
    <3> QED
      BY <3>1, ContactsAssumption DEF CountInv
  <2> QED
    BY <2>2, <2>3, <2>4, <2>5, <2>6, Zenon DEF TypeOK
<1> QED
  BY <1>1, InvAlways, PTL
=============================================================================
