---------------------------- MODULE DaemonProofs ----------------------------
(***************************************************************************)
(* Proofs about Daemon for every set of members, relays and modes and any  *)
(* number of calls and crashes: the start of the daemon and its identity   *)
(* and token files, the relays, and the groups with the file that keeps    *)
(* them and the loops that hand their key out.                             *)
(*                                                                         *)
(* The parts share the calls and the crash only, so each has an inductive  *)
(* invariant of its own.                                                   *)
(***************************************************************************)
EXTENDS Daemon, TLAPS

\* What an action changes, by group of variables.
USE DEF vars, groupVars, startVars, identityVars, tokenVars, appVars, relayVars, modeVars, counts

-----------------------------------------------------------------------------
(***************************************************************************)
(* The start.  IdentityIsKept counts the changes of the identity a daemon  *)
(* serves with; what makes it true is that only a file that is not whole,  *)
(* or could not be read, is ever opened for writing: as soon as the file   *)
(* does not hold the identity last shown, a failed read has paid for the   *)
(* change to come.                                                         *)
(***************************************************************************)
Holds(f, c, x) == f.disk = c /\ f.data = x
Names == {"identity", "token", "groups"}

StartTyped ==
    /\ stage \in {"down", "saving identity", "token", "saving token", "ready", "serving"}
    /\ made \in Nat
    /\ identityFile \in [disk : Contents, data : Nat] /\ identityFile.data <= made
    /\ tokenFile \in [disk : Contents, data : Nat] /\ tokenFile.data <= made
    /\ identity \in Nat /\ identity <= made
    /\ token \in Nat /\ token <= made
    /\ appToken \in Nat /\ appToken <= made
    /\ shown \in Nat /\ shown <= made
    /\ app \in {"waiting", "ready"}
    /\ misread \in [Names -> Nat]

FileOfIdentity ==
    /\ stage = "saving identity" => identity # 0 /\ Holds(identityFile, "empty", identity)
    /\ stage \in {"token", "saving token", "ready", "serving"}
          => identity # 0 /\ Holds(identityFile, "whole", identity)
    /\ Whole(identityFile) => identityFile.data # 0

FileOfToken ==
    /\ appToken # 0 /\ ~relocked => app = "ready" /\ Holds(tokenFile, "whole", appToken)
    /\ stage = "saving token" => Holds(tokenFile, "empty", token)
    /\ stage \in {"ready", "serving"} => Holds(tokenFile, "whole", token)

\* The identity last shown is not in the file any more.
Gone == shown # 0 /\ ~Holds(identityFile, "whole", shown)

Paid ==
    /\ changed \in Nat /\ changed <= misread["identity"]
    /\ Gone => changed + 1 <= misread["identity"]

StartInv == StartTyped /\ FileOfIdentity /\ FileOfToken /\ Paid

\* What the steps need of arithmetic.
LEMMA NatFacts ==
    ASSUME NEW n \in Nat
    PROVE  /\ 0 \in Nat /\ 0 <= n /\ n <= n /\ n + 1 \in Nat /\ n + 1 # 0 /\ n + 1 <= n + 1
           /\ \A k \in Nat : k <= n => k <= n + 1 /\ k + 1 <= n + 1
OBVIOUS

\* What a small file holds once it is written.
LEMMA FileHolds ==
    ASSUME NEW c \in Contents, NEW x \in Nat
    PROVE  File(c, x) \in [disk : Contents, data : Nat] /\ Holds(File(c, x), c, x)
BY Zenon DEF File, Holds

\* A read that fails is counted under the name of its file.
LEMMA ReadFileCounts ==
    ASSUME misread \in [Names -> Nat], NEW n \in Names, NEW f, NEW ok \in BOOLEAN,
           ReadFile(n, f, ok)
    PROVE  /\ misread' \in [Names -> Nat]
           /\ ok => misread' = misread
           /\ ~ok => Whole(f) /\ misread'[n] = misread[n] + 1
           /\ \A k \in Names \ {n} : misread'[k] = misread[k]
<1>1. CASE ok
  BY <1>1, Zenon DEF ReadFile
<1>2. CASE ~ok
  <2>1. Whole(f) /\ misread' = [misread EXCEPT ![n] = @ + 1]
    BY <1>2, Zenon DEF ReadFile
  <2>2. misread[n] \in Nat /\ misread[n] + 1 \in Nat
    OBVIOUS
  <2> QED
    BY <1>2, <2>1, <2>2, Zenon
<1> QED
  BY <1>1, <1>2, Zenon

\* Each step of RunDaemon, and of the app at its start, keeps StartInv.
LEMMA ReadIdentityStep == StartInv /\ ReadIdentity => StartInv'
<1> SUFFICES ASSUME StartInv, ReadIdentity PROVE StartInv'
  BY Zenon
<1>1. PICK ok \in BOOLEAN :
        /\ ReadFile("identity", identityFile, ok)
        /\ IF LoadIdentity(identityFile, ok)
           THEN /\ identity' = identityFile.data /\ stage' = "token"
                /\ UNCHANGED <<identityFile, made>>
           ELSE /\ made' = made + 1 /\ identity' = made'
                /\ identityFile' = File("empty", made') /\ stage' = "saving identity"
  BY Zenon DEF ReadIdentity
<1>2. stage = "down" /\ UNCHANGED <<shown, changed, token, tokenFile, app, appToken, relocked>>
  BY Zenon DEF ReadIdentity
<1>3. /\ misread' \in [Names -> Nat]
      /\ ok => misread' = misread
      /\ ~ok => Whole(identityFile) /\ misread'["identity"] = misread["identity"] + 1
  <2>1. "identity" \in Names /\ misread \in [Names -> Nat]
    BY Zenon DEF StartInv, StartTyped, Names
  <2> QED
    BY <1>1, <2>1, ReadFileCounts, Zenon
<1>4. CASE LoadIdentity(identityFile, ok)
  <2>1. /\ identity' = identityFile.data /\ stage' = "token" /\ misread' = misread
        /\ UNCHANGED <<identityFile, made>> /\ Whole(identityFile)
    BY <1>1, <1>3, <1>4, Zenon DEF LoadIdentity
  <2>2. identity' # 0
    BY <2>1, Zenon DEF StartInv, FileOfIdentity
  <2>3. StartTyped'
    BY <1>2, <2>1, Zenon DEF StartInv, StartTyped
  <2>4. FileOfIdentity' /\ FileOfToken' /\ Paid'
    BY <1>2, <2>1, <2>2, Zenon DEF StartInv, FileOfIdentity, FileOfToken, Paid, Gone, Holds, Whole
  <2> QED
    BY <2>3, <2>4, Zenon DEF StartInv
<1>5. CASE ~LoadIdentity(identityFile, ok)
  <2>0. made \in Nat /\ made' = made + 1
    BY <1>1, <1>5, Zenon DEF StartInv, StartTyped
  <2>1. made' \in Nat /\ made' # 0 /\ made' <= made' /\ \A k \in Nat : k <= made => k <= made'
    BY <2>0
  <2>2. identity' = made' /\ stage' = "saving identity" /\ identityFile' = File("empty", made')
    BY <1>1, <1>5, Zenon
  <2>3. identityFile' \in [disk : Contents, data : Nat] /\ Holds(identityFile', "empty", made')
    BY <2>1, <2>2, FileHolds, ZenonT(60) DEF Contents
  <2>4. StartTyped'
    BY <1>2, <1>3, <2>1, <2>2, <2>3, Zenon DEF StartInv, StartTyped, Holds
  <2>5. FileOfIdentity' /\ FileOfToken'
    BY <1>2, <2>1, <2>2, <2>3, Zenon DEF StartInv, FileOfIdentity, FileOfToken, Holds, Whole
  <2>6. Paid'
    <3>1. CASE ok
      <4>1. ~Whole(identityFile) /\ misread' = misread
        BY <1>3, <1>5, <3>1, Zenon DEF LoadIdentity
      <4> QED
        BY <1>2, <4>1, Zenon DEF StartInv, Paid, Gone, Holds, Whole
    <3>2. CASE ~ok
      <4>1. changed \in Nat /\ misread["identity"] \in Nat /\ changed <= misread["identity"]
        BY Zenon DEF StartInv, StartTyped, Paid, Names
      <4>2. changed <= misread["identity"] + 1 /\ changed + 1 <= misread["identity"] + 1
        BY <4>1
      <4> QED
        BY <1>2, <1>3, <3>2, <4>1, <4>2, Zenon DEF Paid
    <3> QED
      BY <3>1, <3>2, Zenon
  <2> QED
    BY <2>4, <2>5, <2>6, Zenon DEF StartInv
<1> QED
  BY <1>4, <1>5, Zenon

LEMMA SaveIdentityStep == StartInv /\ SaveIdentity => StartInv'
<1> SUFFICES ASSUME StartInv, SaveIdentity PROVE StartInv'
  BY Zenon
<1>1. /\ stage = "saving identity" /\ stage' = "token" /\ identityFile' = File("whole", identity)
      /\ UNCHANGED <<identity, shown, changed, token, tokenFile, app, appToken, relocked, made, misread>>
  BY Zenon DEF SaveIdentity
<1>2. identityFile' \in [disk : Contents, data : Nat] /\ Holds(identityFile', "whole", identity)
  BY <1>1, FileHolds, Zenon DEF StartInv, StartTyped, Contents
<1>3. StartTyped'
  BY <1>1, <1>2, Zenon DEF StartInv, StartTyped, Holds
<1>4. FileOfIdentity' /\ FileOfToken'
  BY <1>1, <1>2, Zenon DEF StartInv, FileOfIdentity, FileOfToken, Holds, Whole
<1>5. Gone' => Gone
  BY <1>1, Zenon DEF StartInv, FileOfIdentity, Gone, Holds
<1>6. Paid'
  BY <1>1, <1>5, Zenon DEF StartInv, Paid
<1> QED
  BY <1>3, <1>4, <1>6, Zenon DEF StartInv

LEMMA ReadTokenStep == StartInv /\ ReadToken => StartInv'
<1> SUFFICES ASSUME StartInv, ReadToken PROVE StartInv'
  BY Zenon
<1>1. PICK ok \in BOOLEAN :
        /\ ReadFile("token", tokenFile, ok)
        /\ relocked' = (relocked \/ ~ok)
        /\ IF ok /\ Whole(tokenFile)
           THEN /\ token' = tokenFile.data /\ stage' = "ready"
                /\ UNCHANGED <<tokenFile, made>>
           ELSE /\ made' = made + 1 /\ token' = made'
                /\ tokenFile' = File("empty", made') /\ stage' = "saving token"
  BY Zenon DEF ReadToken
<1>2. stage = "token" /\ UNCHANGED <<identity, identityFile, shown, changed, app, appToken>>
  BY Zenon DEF ReadToken
<1>3. misread' \in [Names -> Nat] /\ misread'["identity"] = misread["identity"]
  <2>1. "token" \in Names /\ "identity" \in Names \ {"token"} /\ misread \in [Names -> Nat]
    BY Zenon DEF StartInv, StartTyped, Names
  <2> QED
    BY <1>1, <2>1, ReadFileCounts, Zenon
<1>4. Paid'
  BY <1>2, <1>3, Zenon DEF StartInv, Paid, Gone, Holds
<1>5. CASE ok /\ Whole(tokenFile)
  <2>1. token' = tokenFile.data /\ stage' = "ready" /\ UNCHANGED <<tokenFile, made>>
        /\ (relocked' <=> relocked)
    BY <1>1, <1>5, Zenon
  <2>2. StartTyped'
    BY <1>2, <1>3, <2>1, Zenon DEF StartInv, StartTyped
  <2>3. FileOfIdentity' /\ FileOfToken'
    BY <1>2, <1>5, <2>1, Zenon DEF StartInv, FileOfIdentity, FileOfToken, Holds, Whole
  <2> QED
    BY <1>4, <2>2, <2>3, Zenon DEF StartInv
<1>6. CASE ~(ok /\ Whole(tokenFile))
  <2>0. made \in Nat /\ made' = made + 1
    BY <1>1, <1>6, Zenon DEF StartInv, StartTyped
  <2>1. made' \in Nat /\ made' # 0 /\ made' <= made' /\ \A k \in Nat : k <= made => k <= made'
    BY <2>0
  <2>2. token' = made' /\ stage' = "saving token" /\ tokenFile' = File("empty", made')
    BY <1>1, <1>6, Zenon
  <2>3. tokenFile' \in [disk : Contents, data : Nat] /\ Holds(tokenFile', "empty", made')
    BY <2>1, <2>2, FileHolds, ZenonT(60) DEF Contents
  <2>4. StartTyped'
    BY <1>2, <1>3, <2>1, <2>2, <2>3, Zenon DEF StartInv, StartTyped, Holds
  <2>5. appToken = 0 \/ relocked'
    BY <1>1, <1>6, Zenon DEF StartInv, FileOfToken, Holds, Whole
  <2>6. FileOfIdentity' /\ FileOfToken'
    BY <1>2, <2>2, <2>3, <2>5, Zenon DEF StartInv, FileOfIdentity, FileOfToken, Holds, Whole
  <2> QED
    BY <1>4, <2>4, <2>6, Zenon DEF StartInv
<1> QED
  BY <1>5, <1>6, Zenon

LEMMA SaveTokenStep == StartInv /\ SaveToken => StartInv'
<1> SUFFICES ASSUME StartInv, SaveToken PROVE StartInv'
  BY Zenon
<1>1. /\ stage = "saving token" /\ stage' = "ready" /\ tokenFile' = File("whole", token)
      /\ UNCHANGED <<identity, identityFile, shown, changed, token, app, appToken, relocked, made, misread>>
  BY Zenon DEF SaveToken
<1>2. tokenFile' \in [disk : Contents, data : Nat] /\ Holds(tokenFile', "whole", token)
  BY <1>1, FileHolds, Zenon DEF StartInv, StartTyped, Contents
<1>3. StartTyped' /\ Paid'
  BY <1>1, <1>2, Zenon DEF StartInv, StartTyped, Paid, Gone, Holds
<1>4. FileOfIdentity' /\ FileOfToken'
  BY <1>1, <1>2, Zenon DEF StartInv, FileOfIdentity, FileOfToken, Holds, Whole
<1> QED
  BY <1>3, <1>4, Zenon DEF StartInv

LEMMA ServeStep == StartInv /\ Serve => StartInv'
<1> SUFFICES ASSUME StartInv, Serve PROVE StartInv'
  BY Zenon
<1>1. /\ stage = "ready" /\ stage' = "serving" /\ shown' = identity
      /\ changed' = IF shown \in {0, identity} THEN changed ELSE changed + 1
      /\ UNCHANGED <<identity, identityFile, token, tokenFile, app, appToken, relocked, made, misread>>
  BY Zenon DEF Serve
<1>2. StartTyped' /\ FileOfIdentity' /\ FileOfToken'
  BY <1>1, Zenon DEF StartInv, StartTyped, FileOfIdentity, FileOfToken, Holds, Whole
<1>3. ~Gone'
  BY <1>1, Zenon DEF StartInv, FileOfIdentity, Gone, Holds
<1>4. changed' \in Nat /\ changed' <= misread["identity"]
  <2>1. CASE shown \in {0, identity}
    BY <1>1, <2>1, Zenon DEF StartInv, Paid
  <2>2. CASE shown \notin {0, identity}
    <3>1. Gone
      BY <1>1, <2>2, Zenon DEF StartInv, FileOfIdentity, Gone, Holds
    <3>2. changed' = changed + 1 /\ changed \in Nat /\ changed + 1 <= misread["identity"]
      BY <1>1, <2>2, <3>1, Zenon DEF StartInv, Paid
    <3> QED
      BY <3>2
  <2> QED
    BY <2>1, <2>2, Zenon
<1> QED
  BY <1>1, <1>2, <1>3, <1>4, Zenon DEF StartInv, Paid

LEMMA AppStep == StartInv /\ (AppReadsToken \/ AppGivesUp) => StartInv'
BY Zenon DEF StartInv, StartTyped, FileOfIdentity, FileOfToken, Paid, Gone, AppReadsToken,
             AppGivesUp, Whole, Holds

LEMMA AppRestartsStep == StartInv /\ AppRestarts => StartInv'
<1> SUFFICES ASSUME StartInv, AppRestarts PROVE StartInv'
  BY Zenon
<1>1. /\ app' = "waiting" /\ appToken' = 0
      /\ UNCHANGED <<stage, identity, identityFile, shown, changed, token, tokenFile, made, misread>>
  BY Zenon DEF AppRestarts
<1>2. 0 \in Nat /\ 0 <= made
  BY NatFacts, Zenon DEF StartInv, StartTyped
<1> QED
  BY <1>1, <1>2, Zenon DEF StartInv, StartTyped, FileOfIdentity, FileOfToken, Paid, Gone, Whole, Holds

\* A crash at any of these points leaves the files as they are.
LEMMA CrashStart == StartInv /\ Crash => StartInv'
<1> SUFFICES ASSUME StartInv, Crash PROVE StartInv'
  BY Zenon
<1>1. /\ stage' = "down" /\ identity' = 0 /\ token' = 0
      /\ UNCHANGED <<identityFile, shown, changed, tokenFile, app, appToken, relocked, made>>
  BY Zenon DEF Crash
<1>2. misread' \in [Names -> Nat] /\ misread'["identity"] = misread["identity"]
  <2>1. "groups" \in Names /\ "identity" \in Names \ {"groups"} /\ misread \in [Names -> Nat]
    BY Zenon DEF StartInv, StartTyped, Names
  <2>2. PICK ok \in BOOLEAN : ReadFile("groups", groupsFile, ok)
    BY Zenon DEF Crash
  <2> QED
    BY <2>1, <2>2, ReadFileCounts, Zenon
<1>3. 0 \in Nat /\ 0 <= made
  BY NatFacts, Zenon DEF StartInv, StartTyped
<1> QED
  BY <1>1, <1>2, <1>3, Zenon DEF StartInv, StartTyped, FileOfIdentity, FileOfToken, Paid, Gone, Whole, Holds

\* StartInv is an invariant of the daemon.
LEMMA StartAlways == Spec => []StartInv
<1>1. Init => StartInv
  <2> SUFFICES ASSUME Init PROVE StartInv
    BY Zenon
  <2>1. File("none", 0) \in [disk : Contents, data : Nat] /\ Holds(File("none", 0), "none", 0)
    BY FileHolds, Zenon DEF Contents
  <2>2. 0 \in Nat /\ 0 <= 0
    OBVIOUS
  <2>3. misread \in [Names -> Nat] /\ misread["identity"] = 0
    BY <2>2, Zenon DEF Init, Names
  <2>4. StartTyped
    BY <2>1, <2>2, <2>3, Zenon DEF Init, StartTyped, Holds
  <2>5. FileOfIdentity /\ FileOfToken /\ Paid
    BY <2>1, <2>2, <2>3, Zenon DEF Init, FileOfIdentity, FileOfToken, Paid, Gone, Whole, Holds
  <2> QED
    BY <2>4, <2>5, Zenon DEF StartInv
<1>2. StartInv /\ [Next]_vars => StartInv'
  <2> SUFFICES ASSUME StartInv, [Next]_vars PROVE StartInv'
    BY Zenon
  <2>1. CASE Start \/ AppReadsToken \/ AppGivesUp
    BY <2>1, ReadIdentityStep, SaveIdentityStep, ReadTokenStep, SaveTokenStep, ServeStep, AppStep,
       Zenon DEF Start
  <2>2. CASE UNCHANGED startVars
    BY <2>2, Zenon DEF StartInv, StartTyped, FileOfIdentity, FileOfToken, Paid, Gone, Whole, Holds
  <2>3. CASE Crash \/ AppRestarts
    BY <2>3, CrashStart, AppRestartsStep, Zenon
  <2> QED
    BY <2>1, <2>2, <2>3, Zenon DEF Next, Call, AppSetsMode, ModeStep
<1> QED
  BY <1>1, <1>2, PTL DEF Spec

\* Wherever in its start a daemon died, it serves with the identity it served
\* with before: each change there ever is has cost a read of identity.key that
\* failed although the file was whole.
THEOREM IdentityAlwaysKept == Spec => []IdentityIsKept
<1>1. StartInv => IdentityIsKept
  BY Zenon DEF StartInv, Paid, IdentityIsKept
<1> QED
  BY <1>1, StartAlways, PTL

\* The token the app has read is the token of every daemon that serves, until a
\* read of the whole token file fails.
THEOREM AppAlwaysAdmitted == Spec => []AppIsAdmitted
<1>1. StartInv => AppIsAdmitted
  BY Zenon DEF StartInv, FileOfToken, AppIsAdmitted, Admitted, Holds
<1> QED
  BY <1>1, StartAlways, PTL

-----------------------------------------------------------------------------
(***************************************************************************)
(* The relays.  A relay whose last call was alone is named by no call that *)
(* overlaps another, so all lists that calls are about to set agree on it  *)
(* with what was asked, and so does the engine's list unless its own call  *)
(* is under way.                                                           *)
(***************************************************************************)
Agrees(r) ==
    /\ \A c \in relayCalls : r \in c.list <=> r \in asked
    /\ (\A c \in relayCalls : c.relay # r) => (r \in relays <=> r \in asked)
    /\ \A c \in relayCalls : c.relay = r => relayCalls = {c}

RelayInv ==
    /\ relays \subseteq Relays /\ asked \subseteq Relays /\ raced \subseteq Relays
    /\ \A c \in relayCalls : c.relay \in Relays /\ c.list \subseteq Relays
    /\ \A r \in Relays \ raced : Agrees(r)

\* The first half of a relay call keeps RelayInv when what it will set differs
\* from the list, and what is asked from what was asked, at its own relay only.
LEMMA GetRelaysStep ==
    ASSUME RelayInv, NEW r \in Relays, NEW list \in SUBSET Relays, NEW wish \in SUBSET Relays,
           GetRelays(r, list, wish), r \in list <=> r \in wish,
           \A q \in Relays \ {r} : (q \in list <=> q \in relays) /\ (q \in wish <=> q \in asked)
    PROVE  RelayInv'
<1> DEFINE new == [id |-> calls', relay |-> r, list |-> list]
<1>1. /\ relayCalls' = relayCalls \cup {new} /\ new.list = list /\ new.relay = r
      /\ asked' = wish /\ relays' = relays
      /\ raced' = IF relayCalls = {} THEN raced \ {r}
                  ELSE raced \cup {r} \cup {c.relay : c \in relayCalls}
  BY Zenon DEF GetRelays
<1> HIDE DEF new
<1>2. /\ relays' \subseteq Relays /\ asked' \subseteq Relays /\ raced' \subseteq Relays
      /\ \A c \in relayCalls' : c.relay \in Relays /\ c.list \subseteq Relays
  BY <1>1, Zenon DEF RelayInv
<1>3. ASSUME NEW q \in Relays \ raced' PROVE Agrees(q)'
  <2>1. CASE relayCalls = {}
    <3>1. CASE q = r
      BY <1>1, <2>1, <3>1, Zenon DEF Agrees
    <3>2. CASE q # r
      <4>1. q \in relays <=> q \in asked
        BY <1>1, <1>3, <2>1, <3>2, Zenon DEF RelayInv, Agrees
      <4> QED
        BY <1>1, <2>1, <3>2, <4>1, Zenon DEF Agrees
    <3> QED
      BY <3>1, <3>2, Zenon
  <2>2. CASE relayCalls # {}
    <3>1. q # r /\ q \notin raced /\ \A c \in relayCalls : c.relay # q
      BY <1>1, <1>3, <2>2, Zenon
    <3>2. Agrees(q)
      BY <3>1, Zenon DEF RelayInv
    <3> QED
      BY <1>1, <3>1, <3>2, Zenon DEF Agrees
  <2> QED
    BY <2>1, <2>2, Zenon
<1> QED
  BY <1>2, <1>3, Zenon DEF RelayInv

\* The second half sets the list it holds.
LEMMA SetRelaysStep == RelayInv /\ SetRelays => RelayInv'
<1> SUFFICES ASSUME RelayInv, NEW c \in relayCalls, relays' = c.list,
                    relayCalls' = relayCalls \ {c}, UNCHANGED <<asked, raced>>
             PROVE  RelayInv'
  BY Zenon DEF SetRelays
<1>1. ASSUME NEW q \in Relays \ raced PROVE Agrees(q)'
  <2>1. Agrees(q)
    BY <1>1, Zenon DEF RelayInv
  <2> QED
    BY <2>1, Zenon DEF Agrees
<1> QED
  BY <1>1, Zenon DEF RelayInv

\* RelayInv is an invariant of the daemon.
LEMMA RelaysAlways == Spec => []RelayInv
<1>1. Init => RelayInv
  BY DaemonAssumption, Zenon DEF Init, RelayInv, Agrees
<1>2. RelayInv /\ [Next]_vars => RelayInv'
  <2> SUFFICES ASSUME RelayInv, [Next]_vars PROVE RelayInv'
    BY Zenon
  <2>1. CASE UNCHANGED relayVars
    BY <2>1, Zenon DEF RelayInv, Agrees
  <2>2. ASSUME NEW r \in Relays, AddRelay(r) PROVE RelayInv'
    <3>1. relays \cup {r} \in SUBSET Relays /\ asked \cup {r} \in SUBSET Relays
      BY Zenon DEF RelayInv
    <3>2. /\ r \in relays \cup {r} <=> r \in asked \cup {r}
          /\ \A q \in Relays \ {r} : /\ q \in relays \cup {r} <=> q \in relays
                                     /\ q \in asked \cup {r} <=> q \in asked
      BY Zenon
    <3>3. GetRelays(r, relays \cup {r}, asked \cup {r})
      BY <2>2, Zenon DEF AddRelay
    <3> QED
      BY <3>1, <3>2, <3>3, GetRelaysStep, ZenonT(30)
  <2>3. ASSUME NEW r \in Relays, RemoveRelay(r) PROVE RelayInv'
    <3>1. relays \ {r} \in SUBSET Relays /\ asked \ {r} \in SUBSET Relays
      BY Zenon DEF RelayInv
    <3>2. /\ r \in relays \ {r} <=> r \in asked \ {r}
          /\ \A q \in Relays \ {r} : /\ q \in relays \ {r} <=> q \in relays
                                     /\ q \in asked \ {r} <=> q \in asked
      BY Zenon
    <3>3. GetRelays(r, relays \ {r}, asked \ {r})
      BY <2>3, Zenon DEF RemoveRelay
    <3> QED
      BY <3>1, <3>2, <3>3, GetRelaysStep, ZenonT(30)
  <2>4. CASE SetRelays
    BY <2>4, SetRelaysStep, Zenon
  <2>5. CASE Crash
    BY <2>5, DaemonAssumption, Zenon DEF Crash, EngineRestart, RelayInv, Agrees
  <2> QED
    BY <2>1, <2>2, <2>3, <2>4, <2>5, Zenon DEF Next, Call, AppSetsMode, ModeStep, AppRestarts
<1> QED
  BY <1>1, <1>2, PTL DEF Spec

\* A relay is listed as its last call asked, if that call was alone, whatever
\* calls for other relays overlapped.
THEOREM RelaysAlwaysAsAsked == Spec => []RelaysAreAsAsked
<1>1. RelayInv => RelaysAreAsAsked
  BY Zenon DEF RelayInv, Agrees, RelaysAreAsAsked
<1> QED
  BY <1>1, RelaysAlways, PTL

-----------------------------------------------------------------------------
(***************************************************************************)
(* The mode and the counters: types only.                                  *)
(***************************************************************************)
Settings == [by : Nat, data : Modes, open : BOOLEAN]
ModeFiles == [disk : Contents, data : Modes, saves : SUBSET Settings, exact : BOOLEAN]

ModeTyped == mode \in Modes /\ modeFile \in ModeFiles /\ last \in Modes \cup {"", "mixed"}

CountsTyped ==
    /\ topic \in Topics
    /\ calls \in Nat /\ calls <= MaxCalls
    /\ settings \in Nat /\ settings <= MaxSettings
    /\ crashes \in Nat /\ appStarts \in Nat

LEMMA Bounds == MaxCalls \in Nat /\ MaxSettings \in Nat
BY GroupsAssumption, DaemonAssumption, Zenon

\* The steps of a write of the mode file keep its type.
LEMMA ModeFileOpened ==
    ASSUME NEW f \in ModeFiles, NEW n \in Nat, NEW v \in Modes
    PROVE  Open(Marshal(f, n, v), [by |-> n, data |-> v, open |-> FALSE]) \in ModeFiles
<1> DEFINE s == [by |-> n, data |-> v, open |-> FALSE]
           m == Marshal(f, n, v)
<1>1. s \in Settings /\ [s EXCEPT !.open = TRUE] \in Settings
  BY Zenon DEF Settings
<1> HIDE DEF s
<1>2. m \in ModeFiles /\ m.saves \in SUBSET Settings
  <2>1. f.saves \cup {s} \in SUBSET Settings /\ (f.saves = {}) \in BOOLEAN
    BY <1>1, Zenon DEF ModeFiles
  <2>2. m = [f EXCEPT !.saves = f.saves \cup {s}, !.exact = f.saves = {}]
    BY Zenon DEF Marshal, s
  <2> QED
    BY <2>1, <2>2, Zenon DEF ModeFiles
<1> HIDE DEF m
<1>3. (m.saves \ {s}) \cup {[s EXCEPT !.open = TRUE]} \in SUBSET Settings
  BY <1>1, <1>2, Zenon
<1>4. Open(m, s) \in ModeFiles
  BY <1>2, <1>3, Zenon DEF Open, ModeFiles, Contents
<1> QED
  BY <1>4, Zenon DEF m, s

LEMMA ModeFileWritten ==
    ASSUME NEW f \in ModeFiles, NEW s \in f.saves,
           NEW g \in Write(f, s) \cup {WriteFails(f, s)}
    PROVE  g \in ModeFiles
<1>1. f.saves \ {s} \in SUBSET Settings /\ s.data \in Modes
  BY Zenon DEF ModeFiles, Settings
<1>2. CASE g \in Write(f, s)
  <2>1. PICK d \in Contents : g = [f EXCEPT !.saves = f.saves \ {s}, !.disk = d, !.data = s.data]
    BY <1>2, Zenon DEF Write, Contents
  <2> QED
    BY <1>1, <2>1, Zenon DEF ModeFiles
<1>3. CASE g = WriteFails(f, s)
  BY <1>1, <1>3, Zenon DEF WriteFails, ModeFiles
<1> QED
  BY <1>2, <1>3, Zenon

LEMMA ModeFileAbandoned ==
    ASSUME NEW f \in ModeFiles
    PROVE  Abandon(f, TRUE) \in ModeFiles
BY Zenon DEF Abandon, ModeFiles

LEMMA CountsAlways == Spec => []CountsTyped
<1>1. Init => CountsTyped
  <2>1. 0 \in Nat /\ 0 <= MaxCalls /\ 0 <= MaxSettings
    BY Bounds
  <2> QED
    BY <2>1, Zenon DEF Init, CountsTyped
<1>2. CountsTyped /\ [Next]_vars => CountsTyped'
  <2> SUFFICES ASSUME CountsTyped, [Next]_vars PROVE CountsTyped'
    BY Zenon
  <2>1. calls' = calls \/ (calls < MaxCalls /\ calls' = calls + 1)
    BY Zenon DEF Next, Call, AppSetsMode, ModeStep, GroupSteps, Crash, AppRestarts, OpenGroupsFile,
                 WriteGroupsFile, NextMember, SendKey, EndLoop
  <2>2. settings' = settings \/ (settings < MaxSettings /\ settings' = settings + 1)
    BY Zenon DEF Next, Call, AppSetsMode, ModeStep, Crash, AppRestarts
  <2>3. (crashes' = crashes \/ crashes' = crashes + 1) /\ topic' = topic
    BY Zenon DEF Next, Call, AppSetsMode, ModeStep, Crash, AppRestarts
  <2>4. appStarts' = appStarts \/ appStarts' = appStarts + 1
    BY Zenon DEF Next, Call, AppSetsMode, ModeStep, Crash, AppRestarts
  <2> QED
    BY <2>1, <2>2, <2>3, <2>4, Bounds DEF CountsTyped
<1> QED
  BY <1>1, <1>2, PTL DEF Spec

LEMMA ModeAlways == Spec => []ModeTyped
<1>1. Init => ModeTyped
  <2>1. "auto" \in Modes
    BY DaemonAssumption, Zenon
  <2>2. NewFile("auto") \in ModeFiles
    BY <2>1, Zenon DEF NewFile, ModeFiles, Contents
  <2> QED
    BY <2>1, <2>2, Zenon DEF Init, ModeTyped
<1>2. ModeTyped /\ CountsTyped' /\ [Next]_vars => ModeTyped'
  <2> SUFFICES ASSUME ModeTyped, CountsTyped', [Next]_vars PROVE ModeTyped'
    BY Zenon
  <2>1. CASE UNCHANGED modeVars
    BY <2>1, Zenon DEF ModeTyped
  <2>2. ASSUME NEW v \in Modes, SetTransportMode(v) PROVE ModeTyped'
    BY <2>2, Zenon DEF ModeTyped, SetTransportMode
  <2>3. ASSUME NEW v \in Modes, AppOpensModeFile(v) PROVE ModeTyped'
    <3>1. settings' \in Nat /\ modeFile \in ModeFiles
      BY Zenon DEF CountsTyped, ModeTyped
    <3> QED
      BY <2>3, <3>1, ModeFileOpened, Zenon DEF ModeTyped, AppOpensModeFile
  <2>4. CASE AppWritesModeFile
    <3>1. PICK s \in modeFile.saves : modeFile' \in Write(modeFile, s) \cup {WriteFails(modeFile, s)}
      BY <2>4, Zenon DEF AppWritesModeFile
    <3>2. modeFile' \in ModeFiles
      BY <3>1, ModeFileWritten, Zenon DEF ModeTyped
    <3> QED
      BY <2>4, <3>2, Zenon DEF ModeTyped, AppWritesModeFile
  <2>5. CASE WatchTransportMode
    <3>1. Content \in Modes \cup {"", "mixed"}
      BY Zenon DEF ModeTyped, ModeFiles, Content
    <3>2. FromString(Content) \in Modes
      BY DaemonAssumption, Zenon DEF FromString
    <3> QED
      BY <2>5, <3>1, <3>2, Zenon DEF ModeTyped, WatchTransportMode
  <2>6. CASE Crash
    BY <2>6, DaemonAssumption, Zenon DEF ModeTyped, Crash, EngineRestart
  <2>7. CASE AppRestarts
    BY <2>7, ModeFileAbandoned, Zenon DEF ModeTyped, AppRestarts
  <2> QED
    BY <2>1, <2>2, <2>3, <2>4, <2>5, <2>6, <2>7, Zenon DEF Next, Call, AppSetsMode, ModeStep
<1> QED
  BY <1>1, <1>2, CountsAlways, PTL DEF Spec

-----------------------------------------------------------------------------
(***************************************************************************)
(* The groups.  A group that is kept has a key for each epoch and, unless  *)
(* this daemon administers it, an administrator among its members; so has  *)
(* every group in the file or on its way there.                            *)
(***************************************************************************)
GroupRecords == [there : BOOLEAN, members : SUBSET Everybody, admin : Everybody,
                 key : Nat, epoch : Nat]

Sound(g, n) ==
    /\ g \in GroupRecords
    /\ g.key <= n /\ g.epoch = g.key
    /\ g.there /\ g.admin # me => g.admin \in g.members

Kept(g, n) == Sound(g, n) /\ (g.there \/ g = NoGroup)

Saves == [by : Handlers, data : GroupRecords, open : BOOLEAN]
Files == [disk : Contents, data : GroupRecords, saves : SUBSET Saves, exact : BOOLEAN]
Loops == [id : 1 .. MaxCalls, fixed : BOOLEAN, todo : SUBSET Others, at : Everybody,
          key : 0 .. MaxCalls]

GroupInv ==
    /\ calls \in Nat /\ calls <= MaxCalls
    /\ Sound(group, calls)
    /\ groupsFile \in Files /\ Kept(groupsFile.data, calls)
    /\ \A s \in groupsFile.saves : Kept(s.data, calls)
    /\ loops \subseteq Loops
    /\ tried \subseteq Others \X (0 .. MaxCalls) \X (0 .. MaxCalls)
    /\ cut \in BOOLEAN /\ left \in BOOLEAN
    /\ left /\ group.there => group.admin # me

\* A file that no save disturbed says what the memory says, or its one save will.
FileInv ==
    groupsFile.exact =>
        \/ groupsFile.saves = {} /\ Held(groupsFile, NoGroup) = Stored(group)
        \/ \E s \in groupsFile.saves :
              /\ groupsFile.saves = {s} /\ s.data = Stored(group)
              /\ s.open => groupsFile.disk = "empty"

\* The key of the group goes to m: it was sent, a handler that will send it has
\* yet to save the groups, or a loop will come to m or has it in hand.
Promised ==
    \E s \in groupsFile.saves :
        s.by.then = "rotated" \/ (s.by.then = "created" /\ group.key = 1)

Reaches(l, m) ==
    /\ l.fixed => group.key = 1
    /\ m \in l.todo \/ (l.at = m /\ l.key = group.key)

\* The members a key can be sent to.
Reachable == group.members \ ({me} \cup Malformed)

KeyInv ==
    (group.there /\ ~cut) =>
        \A m \in Reachable :
            \/ <<m, group.key, group.epoch>> \in tried
            \/ Promised
            \/ \E l \in loops : Reaches(l, m)

\* The steps of a save, field by field.
LEMMA MarshalFile ==
    ASSUME NEW f \in Files, NEW w \in Handlers, NEW v \in GroupRecords
    PROVE  /\ Marshal(f, w, v) \in Files
           /\ Marshal(f, w, v).disk = f.disk /\ Marshal(f, w, v).data = f.data
           /\ Marshal(f, w, v).exact <=> f.saves = {}
           /\ \E t \in Saves : /\ t.by = w /\ t.data = v /\ ~t.open
                              /\ Marshal(f, w, v).saves = f.saves \cup {t}
<1> DEFINE t == [by |-> w, data |-> v, open |-> FALSE]
<1>1. t \in Saves /\ t.by = w /\ t.data = v /\ ~t.open
  BY Zenon DEF Saves
<1>2. f.saves \cup {t} \in SUBSET Saves /\ (f.saves = {}) \in BOOLEAN
  BY <1>1, Zenon DEF Files
<1>3. /\ Marshal(f, w, v).disk = f.disk /\ Marshal(f, w, v).data = f.data
      /\ Marshal(f, w, v).saves = f.saves \cup {t}
  BY Zenon DEF Marshal, Files
<1>4. Marshal(f, w, v).exact <=> f.saves = {}
  BY Zenon DEF Marshal, Files
<1> HIDE DEF t
<1>5. Marshal(f, w, v) \in Files
  BY <1>2, Zenon DEF Marshal, Files, t
<1> QED
  BY <1>1, <1>3, <1>4, <1>5, Zenon

LEMMA OpenFile ==
    ASSUME NEW f \in Files, NEW s \in f.saves
    PROVE  /\ Open(f, s) \in Files
           /\ Open(f, s).disk = "empty" /\ Open(f, s).data = f.data
           /\ Open(f, s).exact = f.exact
           /\ \E t \in Saves : /\ t.by = s.by /\ t.data = s.data
                              /\ Open(f, s).saves = (f.saves \ {s}) \cup {t}
<1> DEFINE t == [s EXCEPT !.open = TRUE]
<1>1. s \in Saves
  BY Zenon DEF Files
<1>2. t \in Saves /\ t.by = s.by /\ t.data = s.data
  BY <1>1, Zenon DEF Saves
<1>3. (f.saves \ {s}) \cup {t} \in SUBSET Saves
  BY <1>2, Zenon DEF Files
<1> HIDE DEF t
<1>4. /\ Open(f, s).disk = "empty" /\ Open(f, s).data = f.data
      /\ Open(f, s).exact = f.exact /\ Open(f, s).saves = (f.saves \ {s}) \cup {t}
  BY Zenon DEF Open, Files, t
<1>5. Open(f, s) \in Files
  BY <1>3, Zenon DEF Open, Files, Contents, t
<1> QED
  BY <1>2, <1>4, <1>5, Zenon

LEMMA WriteFile ==
    ASSUME NEW f \in Files, NEW s \in f.saves, NEW g \in Write(f, s)
    PROVE  /\ g \in Files /\ g.data = s.data
           /\ g.saves = f.saves \ {s} /\ g.exact = f.exact
           /\ f.disk = "empty" => g.disk = "whole"
<1>1. f.saves \ {s} \in SUBSET Saves /\ s.data \in GroupRecords
  BY Zenon DEF Files, Saves
<1>2. PICK d \in Contents :
        /\ g = [f EXCEPT !.saves = f.saves \ {s}, !.disk = d, !.data = s.data]
        /\ f.disk = "empty" => d = "whole"
  BY Zenon DEF Write, Contents
<1>3. g \in Files
  BY <1>1, <1>2, Zenon DEF Files
<1>4. g.data = s.data /\ g.saves = f.saves \ {s} /\ g.exact = f.exact /\ g.disk = d
  BY <1>2, Zenon DEF Files
<1> QED
  BY <1>2, <1>3, <1>4, Zenon

LEMMA AbandonFile ==
    ASSUME NEW f \in Files, NEW ok \in BOOLEAN
    PROVE  /\ Abandon(f, ok) \in Files
           /\ Abandon(f, ok).disk = f.disk /\ Abandon(f, ok).data = f.data
           /\ Abandon(f, ok).saves = {} /\ Abandon(f, ok).exact = ok
BY Zenon DEF Abandon, Files

\* Groups stay sound as calls are counted, and what is stored of a sound group
\* can be kept.
LEMMA StillSound ==
    ASSUME NEW n \in Nat, NEW k \in Nat, n <= k, NEW g
    PROVE  (Sound(g, n) => Sound(g, k)) /\ (Kept(g, n) => Kept(g, k))
<1>1. ASSUME g.key \in Nat, g.key <= n PROVE g.key <= k
  BY <1>1
<1>2. g \in GroupRecords => g.key \in Nat
  BY Zenon DEF GroupRecords
<1> QED
  BY <1>1, <1>2, Zenon DEF Sound, Kept

LEMMA StoredIsKept ==
    ASSUME NEW n \in Nat, NEW g, Sound(g, n)
    PROVE  Kept(Stored(g), n) /\ Sound(Stored(g), n)
<1>1. Sound(NoGroup, n)
  BY DEF Sound, NoGroup, GroupRecords, Everybody
<1> QED
  BY <1>1, Zenon DEF Kept, Stored

\* A handler that changes the group keeps the file's promise: it saves what it
\* set, and either had the file to itself or gives up on exactness.
LEMMA SetGroupStep ==
    ASSUME GroupInv, FileInv, calls < MaxCalls, calls' = calls + 1,
           NEW g, Sound(g, calls + 1),
           NEW then \in {"answer", "created", "rotated"}, SetGroup(g, By(then))
    PROVE  /\ calls' \in Nat /\ calls' <= MaxCalls
           /\ Sound(group', calls')
           /\ groupsFile' \in Files /\ Kept(groupsFile'.data, calls')
           /\ \A s \in groupsFile'.saves : Kept(s.data, calls')
           /\ FileInv'
           /\ groupsFile.saves \subseteq groupsFile'.saves
           /\ \E s \in groupsFile'.saves : s.by.then = then
<1>1. calls \in Nat /\ calls' \in Nat /\ calls <= calls' /\ calls' <= MaxCalls /\ calls' \in 1 .. MaxCalls
  BY GroupsAssumption DEF GroupInv
<1>2. By(then) \in Handlers /\ By(then).then = then
  BY <1>1, Zenon DEF By, Handlers
<1>3. Kept(Stored(g), calls') /\ Stored(g) \in GroupRecords
  BY <1>1, StoredIsKept, Zenon DEF Sound
<1>4. groupsFile \in Files /\ groupsFile' = Marshal(groupsFile, By(then), Stored(g)) /\ group' = g
  BY Zenon DEF GroupInv, SetGroup
<1>5. PICK t \in Saves : /\ t.by = By(then) /\ t.data = Stored(g) /\ ~t.open
                         /\ groupsFile'.saves = groupsFile.saves \cup {t}
  BY <1>2, <1>3, <1>4, MarshalFile
<1>6. /\ groupsFile' \in Files /\ groupsFile'.data = groupsFile.data
      /\ groupsFile'.exact <=> groupsFile.saves = {}
  BY <1>2, <1>3, <1>4, MarshalFile, Zenon
<1>7. Kept(groupsFile.data, calls') /\ \A s \in groupsFile.saves : Kept(s.data, calls')
  BY <1>1, StillSound, Zenon DEF GroupInv
<1>8. FileInv'
  <2>1. CASE groupsFile.saves = {}
    <3>1. groupsFile'.saves = {t} /\ t.data = Stored(group')
      BY <1>4, <1>5, <2>1, Zenon
    <3> QED
      BY <1>5, <3>1, Zenon DEF FileInv
  <2> QED
    BY <2>1, <1>6, Zenon DEF FileInv
<1> QED
  BY <1>1, <1>2, <1>3, <1>4, <1>5, <1>6, <1>7, <1>8, Zenon

\* The calls.
LEMMA CreateGroupStep ==
    ASSUME GroupInv, FileInv, KeyInv, calls < MaxCalls, calls' = calls + 1, CreateGroup
    PROVE  GroupInv' /\ FileInv' /\ KeyInv'
<1> DEFINE g == [there |-> TRUE, members |-> Everybody, admin |-> me, key |-> 1, epoch |-> 1]
<1>1. g.there /\ g.members = Everybody /\ g.admin = me /\ g.key = 1 /\ g.epoch = 1
  BY Zenon
<1>2. Sound(g, calls + 1)
  BY DEF Sound, GroupRecords, Everybody, GroupInv
<1>3. SetGroup(g, By("created"))
  BY Zenon DEF CreateGroup
<1> HIDE DEF g
<1>4. /\ calls' \in Nat /\ calls' <= MaxCalls
      /\ Sound(group', calls')
      /\ groupsFile' \in Files /\ Kept(groupsFile'.data, calls')
      /\ \A s \in groupsFile'.saves : Kept(s.data, calls')
      /\ FileInv'
      /\ \E s \in groupsFile'.saves : s.by.then = "created"
  BY <1>2, <1>3, SetGroupStep, Zenon
<1>5. group'.key = 1
  BY <1>1, <1>3, Zenon DEF SetGroup
<1>6. GroupInv'
  BY <1>4, Zenon DEF GroupInv, CreateGroup
<1>7. KeyInv'
  BY <1>4, <1>5, Zenon DEF KeyInv, Promised
<1> QED
  BY <1>4, <1>6, <1>7, Zenon

LEMMA LeaveGroupStep ==
    ASSUME GroupInv, FileInv, KeyInv, calls < MaxCalls, calls' = calls + 1, LeaveGroup
    PROVE  GroupInv' /\ FileInv' /\ KeyInv'
<1> DEFINE rest == group.members \ {me}
<1>1. PICK a \in NewAdmins(rest) :
        SetGroup([group EXCEPT !.there = rest # {}, !.members = rest, !.admin = a], By("answer"))
  BY Zenon DEF LeaveGroup
<1> DEFINE g == [group EXCEPT !.there = rest # {}, !.members = rest, !.admin = a]
<1>2. group \in GroupRecords /\ group.there /\ group.admin \in Everybody
  BY Zenon DEF GroupInv, Sound, GroupRecords, LeaveGroup
<1>3. a \in Everybody /\ (rest # {} => a \in rest /\ a # me)
  <2>1. CASE group.admin = me /\ rest # {}
    BY <1>2, <2>1, Zenon DEF NewAdmins, GroupRecords
  <2>2. CASE ~(group.admin = me /\ rest # {})
    BY <1>2, <2>2, Zenon DEF NewAdmins, GroupInv, Sound
  <2> QED
    BY <2>1, <2>2, Zenon
<1>4. (rest # {}) \in BOOLEAN /\ rest \in SUBSET Everybody
  BY <1>2, Zenon DEF GroupRecords
<1>5. /\ g.there <=> rest # {}
      /\ g.members = rest /\ g.admin = a /\ g.key = group.key /\ g.epoch = group.epoch
  BY <1>2, Zenon DEF GroupRecords
<1> HIDE DEF rest
<1>6. g \in GroupRecords
  BY <1>2, <1>3, <1>4, Zenon DEF GroupRecords
<1> HIDE DEF g
<1>7. Sound(g, calls + 1)
  <2>1. group.key \in Nat /\ calls \in Nat /\ group.key <= calls /\ group.epoch = group.key
    BY Zenon DEF GroupInv, Sound, GroupRecords
  <2>2. group.key <= calls + 1
    BY <2>1
  <2> QED
    BY <1>3, <1>5, <1>6, <2>1, <2>2, Zenon DEF Sound
<1>8. /\ calls' \in Nat /\ calls' <= MaxCalls
      /\ Sound(group', calls')
      /\ groupsFile' \in Files /\ Kept(groupsFile'.data, calls')
      /\ \A s \in groupsFile'.saves : Kept(s.data, calls')
      /\ FileInv'
      /\ groupsFile.saves \subseteq groupsFile'.saves
  <2>1. SetGroup(g, By("answer"))
    BY <1>1, Zenon DEF g
  <2> QED
    BY <1>7, <2>1, SetGroupStep, Zenon
<1>9. group' = g
  BY <1>1, Zenon DEF SetGroup, g
<1>10. group'.there => group'.admin # me
  BY <1>3, <1>5, <1>9, Zenon
<1>11. GroupInv'
  BY <1>8, <1>10, Zenon DEF GroupInv, LeaveGroup
<1>12. KeyInv'
  <2> SUFFICES ASSUME ~cut, NEW m \in rest \ Malformed
               PROVE  \/ <<m, group'.key, group'.epoch>> \in tried
                      \/ Promised'
                      \/ \E l \in loops : Reaches(l, m)'
    BY <1>5, <1>9, Zenon DEF KeyInv, Reachable, LeaveGroup
  <2>1. \/ <<m, group.key, group.epoch>> \in tried
        \/ Promised
        \/ \E l \in loops : Reaches(l, m)
    BY <1>2, Zenon DEF KeyInv, Reachable, rest
  <2>2. Promised => Promised'
    BY <1>5, <1>8, <1>9, Zenon DEF Promised
  <2>3. \A l \in loops : Reaches(l, m) => Reaches(l, m)'
    BY <1>5, <1>9, Zenon DEF Reaches
  <2> QED
    BY <1>5, <1>9, <2>1, <2>2, <2>3, Zenon
<1> QED
  BY <1>8, <1>11, <1>12, Zenon

LEMMA RemoveGroupMemberStep ==
    ASSUME GroupInv, FileInv, KeyInv, calls < MaxCalls, calls' = calls + 1,
           NEW m \in Everybody, RemoveGroupMember(m)
    PROVE  GroupInv' /\ FileInv' /\ KeyInv'
<1> DEFINE g == [group EXCEPT !.members = @ \ {m}, !.key = @ + 1, !.epoch = @ + 1]
<1>1. /\ group \in GroupRecords /\ group.there /\ group.admin = me /\ group.key \in Nat
      /\ calls \in Nat /\ group.key <= calls /\ group.epoch = group.key
  BY Zenon DEF GroupInv, Sound, GroupRecords, RemoveGroupMember
<1>2. group.key + 1 \in Nat /\ group.key + 1 <= calls + 1
  BY <1>1
<1>3. /\ g.there /\ g.admin = me
      /\ g.key = group.key + 1 /\ g.epoch = group.epoch + 1
  BY <1>1, Zenon DEF GroupRecords
<1>4. g \in GroupRecords
  BY <1>1, <1>2, Zenon DEF GroupRecords
<1>5. SetGroup(g, By("rotated"))
  BY Zenon DEF RemoveGroupMember
<1> HIDE DEF g
<1>6. Sound(g, calls + 1)
  BY <1>1, <1>2, <1>3, <1>4, Zenon DEF Sound
<1>7. /\ calls' \in Nat /\ calls' <= MaxCalls
      /\ Sound(group', calls')
      /\ groupsFile' \in Files /\ Kept(groupsFile'.data, calls')
      /\ \A s \in groupsFile'.saves : Kept(s.data, calls')
      /\ FileInv'
      /\ \E s \in groupsFile'.saves : s.by.then = "rotated"
  BY <1>5, <1>6, SetGroupStep, Zenon
<1>8. ~left
  BY <1>1, Zenon DEF GroupInv
<1>9. GroupInv'
  BY <1>7, <1>8, Zenon DEF GroupInv, RemoveGroupMember
<1>10. KeyInv'
  BY <1>7, Zenon DEF KeyInv, Promised
<1> QED
  BY <1>7, <1>9, <1>10, Zenon

\* The steps of saveGroups.  The save that ends with a whole file is the one the
\* file's promise speaks of; the handler then goes into its loop.
LEMMA OpenGroupsFileStep ==
    ASSUME GroupInv, FileInv, KeyInv, OpenGroupsFile
    PROVE  GroupInv' /\ FileInv' /\ KeyInv'
<1>1. PICK s \in groupsFile.saves : ~s.open /\ groupsFile' = Open(groupsFile, s)
  BY Zenon DEF OpenGroupsFile
<1>2. UNCHANGED <<group, loops, tried, cut, left, calls>>
  BY Zenon DEF OpenGroupsFile
<1>3. groupsFile \in Files
  BY Zenon DEF GroupInv
<1>4. PICK t \in Saves : /\ t.by = s.by /\ t.data = s.data
                         /\ groupsFile'.saves = (groupsFile.saves \ {s}) \cup {t}
  BY <1>1, <1>3, OpenFile, Zenon
<1>5. /\ groupsFile' \in Files
      /\ groupsFile'.disk = "empty" /\ groupsFile'.data = groupsFile.data
      /\ groupsFile'.exact = groupsFile.exact
  BY <1>1, <1>3, OpenFile, Zenon
<1>6. GroupInv'
  BY <1>2, <1>4, <1>5, Zenon DEF GroupInv
<1>7. FileInv'
  <2> SUFFICES ASSUME groupsFile'.exact PROVE FileInv'
    BY Zenon DEF FileInv
  <2>1. groupsFile.saves = {s} /\ s.data = Stored(group)
    BY <1>5, Zenon DEF FileInv
  <2>2. groupsFile'.saves = {t} /\ t.data = Stored(group')
    BY <1>2, <1>4, <2>1, Zenon
  <2> QED
    BY <1>5, <2>2, Zenon DEF FileInv
<1>8. KeyInv'
  <2>1. Promised => Promised'
    BY <1>2, <1>4, Zenon DEF Promised
  <2>2. \A l, m : Reaches(l, m) => Reaches(l, m)'
    BY <1>2, Zenon DEF Reaches
  <2> QED
    BY <1>2, <2>1, <2>2, Zenon DEF KeyInv, Reachable
<1> QED
  BY <1>6, <1>7, <1>8, Zenon

LEMMA WriteGroupsFileStep ==
    ASSUME GroupInv, FileInv, KeyInv, WriteGroupsFile
    PROVE  GroupInv' /\ FileInv' /\ KeyInv'
<1>1. PICK s \in groupsFile.saves :
        /\ s.open /\ groupsFile' \in Write(groupsFile, s)
        /\ loops' = loops \cup LoopsAfter(s.by)
  BY Zenon DEF WriteGroupsFile
<1>2. UNCHANGED <<group, tried, cut, left, calls>>
  BY Zenon DEF WriteGroupsFile
<1>3. groupsFile \in Files /\ s \in Saves /\ s.by \in Handlers /\ s.by.id \in 1 .. MaxCalls
  BY Zenon DEF GroupInv, Files, Saves, Handlers
<1>4. /\ groupsFile' \in Files /\ groupsFile'.data = s.data
      /\ groupsFile'.saves = groupsFile.saves \ {s} /\ groupsFile'.exact = groupsFile.exact
      /\ groupsFile.disk = "empty" => groupsFile'.disk = "whole"
  BY <1>1, <1>3, WriteFile
<1>5. ASSUME NEW i \in 1 .. MaxCalls, NEW b \in BOOLEAN
      PROVE  /\ Loop(i, b) \in Loops /\ Loop(i, b).fixed = b
             /\ Loop(i, b).todo = Reachable
  BY GroupsAssumption DEF Loop, Loops, GroupInv, Sound, GroupRecords, Everybody, Reachable
<1>6. GroupInv'
  <2>1. loops' \subseteq Loops
    BY <1>1, <1>3, <1>5, ZenonT(30) DEF LoopsAfter, GroupInv
  <2> QED
    BY <1>2, <1>4, <2>1, Zenon DEF GroupInv
<1>7. FileInv'
  <2> SUFFICES ASSUME groupsFile'.exact PROVE FileInv'
    BY Zenon DEF FileInv
  <2>1. groupsFile.saves = {s} /\ s.data = Stored(group) /\ groupsFile.disk = "empty"
    BY <1>1, <1>4, Zenon DEF FileInv
  <2>2. groupsFile'.saves = {}
    BY <1>4, <2>1, Zenon
  <2> QED
    BY <1>2, <1>4, <2>1, <2>2, Zenon DEF FileInv, Held, Load, Stored
<1>8. KeyInv'
  <2> SUFFICES ASSUME group.there, ~cut, NEW m \in Reachable
               PROVE  \/ <<m, group.key, group.epoch>> \in tried
                      \/ Promised'
                      \/ \E l \in loops' : Reaches(l, m)
    BY <1>2, ZenonT(60) DEF KeyInv, Reaches, Reachable
  <2>1. CASE s.by.then = "rotated" \/ (s.by.then = "created" /\ group.key = 1)
    <3>1. \E b \in BOOLEAN : (b => group.key = 1) /\ Loop(s.by.id, b) \in loops'
      BY <1>1, <2>1, Zenon DEF LoopsAfter
    <3> QED
      BY <1>3, <1>5, <3>1, Zenon DEF Reaches
  <2>2. CASE ~(s.by.then = "rotated" \/ (s.by.then = "created" /\ group.key = 1))
    <3>1. Promised => Promised'
      BY <1>2, <1>4, <2>2, Zenon DEF Promised
    <3> QED
      BY <1>1, <3>1, Zenon DEF KeyInv
  <2> QED
    BY <2>1, <2>2, Zenon
<1> QED
  BY <1>6, <1>7, <1>8, Zenon

\* The loops.  A loop that goes on replaces itself: what it no longer reaches it
\* has sent, or the member is gone.
LEMMA LoopGoesOn ==
    ASSUME GroupInv, FileInv, KeyInv, NEW l \in loops, NEW k, loops' = (loops \ {l}) \cup {k},
           k \in Loops,
           UNCHANGED <<group, groupsFile, cut, left, calls>>,
           tried \subseteq tried', tried' \subseteq Others \X (0 .. MaxCalls) \X (0 .. MaxCalls),
           \A m \in Reachable :
               Reaches(l, m) => Reaches(k, m) \/ <<m, group.key, group.epoch>> \in tried'
    PROVE  GroupInv' /\ FileInv' /\ KeyInv'
<1>1. GroupInv'
  BY Zenon DEF GroupInv
<1>2. FileInv'
  BY Zenon DEF FileInv, Held, Load, Stored
<1>3. KeyInv'
  <2>1. Promised => Promised'
    BY Zenon DEF Promised
  <2>2. \A j, m : Reaches(j, m) => Reaches(j, m)'
    BY Zenon DEF Reaches
  <2>3. ASSUME group.there, ~cut, NEW m \in Reachable
        PROVE  \/ <<m, group.key, group.epoch>> \in tried'
               \/ Promised
               \/ \E j \in loops' : Reaches(j, m)
    BY <2>3, Zenon DEF KeyInv
  <2> QED
    BY <2>1, <2>2, <2>3, Zenon DEF KeyInv, Reachable
<1> QED
  BY <1>1, <1>2, <1>3, Zenon

LEMMA NextMemberStep ==
    ASSUME GroupInv, FileInv, KeyInv, NEW l \in loops, NextMember(l)
    PROVE  GroupInv' /\ FileInv' /\ KeyInv'
<1>1. PICK n \in l.todo \cap group.members :
        /\ l.at = me
        /\ loops' = (loops \ {l}) \cup
              {[l EXCEPT !.todo = @ \ {n}, !.at = n, !.key = IF l.fixed THEN 1 ELSE group.key]}
        /\ UNCHANGED <<group, groupsFile, tried, cut, left, calls>>
  BY Zenon DEF NextMember
<1> DEFINE k == [l EXCEPT !.todo = @ \ {n}, !.at = n, !.key = IF l.fixed THEN 1 ELSE group.key]
<1>2. l \in Loops /\ group.key \in 0 .. MaxCalls /\ 1 \in 0 .. MaxCalls
  BY GroupsAssumption DEF GroupInv, Sound, GroupRecords
<1>3. /\ k.todo = l.todo \ {n} /\ k.at = n /\ k.fixed = l.fixed
      /\ k.key = IF l.fixed THEN 1 ELSE group.key
  BY <1>2, Zenon DEF Loops
<1>4. k \in Loops
  BY <1>2, Zenon DEF Loops, Everybody
<1> HIDE DEF k
<1>6. \A m \in Reachable : Reaches(l, m) => Reaches(k, m)
  BY <1>1, <1>3, Zenon DEF Reaches, Reachable
<1>7. loops' = (loops \ {l}) \cup {k}
  BY <1>1, Zenon DEF k
<1>8. tried' \subseteq Others \X (0 .. MaxCalls) \X (0 .. MaxCalls)
  BY <1>1, Zenon DEF GroupInv
<1> QED
  BY <1>1, <1>4, <1>6, <1>7, <1>8, LoopGoesOn, Zenon

LEMMA SendKeyStep ==
    ASSUME GroupInv, FileInv, KeyInv, NEW l \in loops, SendKey(l)
    PROVE  GroupInv' /\ FileInv' /\ KeyInv'
<1> DEFINE k == [l EXCEPT !.at = me, !.key = 0]
           sent == <<l.at, l.key, IF l.fixed THEN 1 ELSE group.epoch>>
<1>1. /\ l \in Loops /\ l.at \in Others /\ l.key \in 0 .. MaxCalls
      /\ calls \in Nat /\ calls <= MaxCalls
      /\ group.key \in Nat /\ group.key <= calls /\ group.epoch = group.key
  BY Zenon DEF GroupInv, Sound, GroupRecords, SendKey, Loops, Everybody
<1>2. k.todo = l.todo /\ k.at = me /\ k.fixed = l.fixed /\ k \in Loops
  <2>1. me \in Everybody /\ 0 \in 0 .. MaxCalls
    BY GroupsAssumption DEF Everybody
  <2>2. k.todo = l.todo /\ k.at = me /\ k.fixed = l.fixed
    BY <1>1, Zenon DEF Loops
  <2>3. k \in Loops
    BY <1>1, <2>1, Zenon DEF Loops
  <2> QED
    BY <2>2, <2>3, Zenon
<1> HIDE DEF k
<1>4. sent \in Others \X (0 .. MaxCalls) \X (0 .. MaxCalls)
  <2>1. group.epoch \in 0 .. MaxCalls /\ 1 \in 0 .. MaxCalls
    BY <1>1, GroupsAssumption
  <2> QED
    BY <1>1, <2>1, Zenon
<1>5. tried' = tried \cup {sent} /\ loops' = (loops \ {l}) \cup {k}
  BY Zenon DEF SendKey, k
<1>6. ASSUME NEW m \in Reachable, Reaches(l, m)
      PROVE  Reaches(k, m) \/ <<m, group.key, group.epoch>> = sent
  BY <1>1, <1>2, <1>6, Zenon DEF Reaches, Reachable
<1> HIDE DEF sent
<1>7. tried' \subseteq Others \X (0 .. MaxCalls) \X (0 .. MaxCalls)
  BY <1>4, <1>5, Zenon DEF GroupInv
<1>8. UNCHANGED <<group, groupsFile, cut, left, calls>>
  BY Zenon DEF SendKey
<1>9. \A m \in Reachable :
         Reaches(l, m) => Reaches(k, m) \/ <<m, group.key, group.epoch>> \in tried'
  BY <1>5, <1>6, Zenon
<1>10. tried \subseteq tried'
  BY <1>5, Zenon
<1> QED
  BY <1>2, <1>5, <1>7, <1>8, <1>9, <1>10, LoopGoesOn, Zenon

LEMMA EndLoopStep ==
    ASSUME GroupInv, FileInv, KeyInv, NEW l \in loops, EndLoop(l)
    PROVE  GroupInv' /\ FileInv' /\ KeyInv'
<1>1. GroupInv'
  BY Zenon DEF GroupInv, EndLoop
<1>2. FileInv'
  BY Zenon DEF FileInv, Held, Load, Stored, EndLoop
<1>3. KeyInv'
  <2>1. Promised => Promised'
    BY Zenon DEF Promised, EndLoop
  <2>2. \A j, m : Reaches(j, m) => Reaches(j, m)'
    BY Zenon DEF Reaches, EndLoop
  <2>3. \A m \in Reachable : ~Reaches(l, m)
    BY Zenon DEF EndLoop, Reaches, Reachable
  <2> QED
    BY <2>1, <2>2, <2>3, Zenon DEF KeyInv, EndLoop, Reachable
<1> QED
  BY <1>1, <1>2, <1>3, Zenon

\* A crash.  The group comes back as the file has it.  When a loop of its key
\* was cut off, or the file was not as the memory had it, cut says so; otherwise
\* nothing is lost.
LEMMA GroupsRestartStep ==
    ASSUME GroupInv, FileInv, KeyInv, NEW ok \in BOOLEAN, GroupsRestart(ok), UNCHANGED calls
    PROVE  GroupInv' /\ FileInv' /\ KeyInv'
<1>1. groupsFile \in Files /\ calls \in Nat
  BY Zenon DEF GroupInv
<1>2. /\ groupsFile' \in Files
      /\ groupsFile'.disk = groupsFile.disk /\ groupsFile'.data = groupsFile.data
      /\ groupsFile'.saves = {} /\ groupsFile'.exact = ok
  BY <1>1, AbandonFile, Zenon DEF GroupsRestart
<1>3. group' = IF ok THEN Held(groupsFile, NoGroup) ELSE NoGroup
  BY Zenon DEF GroupsRestart, Held, Load
<1>4. Kept(group', calls)
  <2>1. Kept(NoGroup, calls)
    <3>1. Sound(NoGroup, calls)
      BY <1>1 DEF Sound, NoGroup, GroupRecords, Everybody
    <3> QED
      BY <3>1, Zenon DEF Kept
  <2> QED
    BY <1>3, <2>1, Zenon DEF Held, Load, GroupInv
<1>5. Settled(groupsFile) /\ group'.there => group' = Stored(group)
  BY <1>3, Zenon DEF FileInv, Settled, NoGroup
<1>6. left' /\ group'.there => group'.admin # me
  <2> SUFFICES ASSUME left', group'.there PROVE group'.admin # me
    BY Zenon
  <2>1. left /\ group' = Stored(group)
    BY <1>5, Zenon DEF GroupsRestart
  <2>2. group.there /\ group' = group
    BY <2>1, Zenon DEF Stored, NoGroup
  <2> QED
    BY <2>1, <2>2, Zenon DEF GroupInv
<1>7. GroupInv'
  <2>1. cut' \in BOOLEAN /\ left' \in BOOLEAN /\ loops' = {} /\ tried' = tried
    BY Zenon DEF GroupsRestart
  <2> QED
    BY <1>2, <1>4, <1>6, <2>1, Zenon DEF GroupInv, Kept
<1>8. FileInv'
  <2>1. Stored(group') = group'
    BY <1>4, Zenon DEF Kept, Stored
  <2>2. ok => Held(groupsFile', NoGroup) = group'
    BY <1>2, <1>3, Zenon DEF Held, Load
  <2> QED
    BY <1>2, <2>1, <2>2, Zenon DEF FileInv
<1>9. KeyInv'
  <2> SUFFICES ASSUME group'.there, ~cut', NEW m \in Reachable'
               PROVE  <<m, group'.key, group'.epoch>> \in tried
    BY Zenon DEF KeyInv, GroupsRestart
  <2>1. ~cut /\ ~Due /\ group' = Stored(group)
    BY <1>5, Zenon DEF GroupsRestart
  <2>2. group.there /\ group' = group
    BY <2>1, Zenon DEF Stored, NoGroup
  <2>3. ~Promised /\ loops = {}
    BY <2>1, Zenon DEF Due, Promised
  <2> QED
    BY <2>1, <2>2, <2>3, Zenon DEF KeyInv, Reachable
<1> QED
  BY <1>7, <1>8, <1>9, Zenon

\* A call or a mode file of the app that is none of the groups' business.
LEMMA OtherCallStep ==
    ASSUME GroupInv, FileInv, KeyInv, UNCHANGED groupVars,
           calls' = calls \/ (calls < MaxCalls /\ calls' = calls + 1)
    PROVE  GroupInv' /\ FileInv' /\ KeyInv'
<1>1. calls \in Nat /\ calls' \in Nat /\ calls <= calls' /\ calls' <= MaxCalls
  BY GroupsAssumption DEF GroupInv
<1>2. GroupInv'
  <2>1. Sound(group, calls') /\ Kept(groupsFile.data, calls')
    BY <1>1, StillSound, Zenon DEF GroupInv
  <2>2. \A s \in groupsFile.saves : Kept(s.data, calls')
    BY <1>1, StillSound, Zenon DEF GroupInv
  <2> QED
    BY <1>1, <2>1, <2>2, Zenon DEF GroupInv
<1>3. FileInv'
  BY Zenon DEF FileInv, Held, Load, Stored
<1>4. KeyInv'
  <2>1. Promised => Promised'
    BY Zenon DEF Promised
  <2>2. \A l, m : Reaches(l, m) => Reaches(l, m)'
    BY Zenon DEF Reaches
  <2> QED
    BY <2>1, <2>2, Zenon DEF KeyInv, Reachable
<1> QED
  BY <1>2, <1>3, <1>4, Zenon

\* The three together are an invariant of the daemon.
LEMMA GroupsAlways == Spec => [](GroupInv /\ FileInv /\ KeyInv)
<1>1. Init => GroupInv /\ FileInv /\ KeyInv
  <2> SUFFICES ASSUME Init PROVE GroupInv /\ FileInv /\ KeyInv
    BY Zenon
  <2>0. calls = 0
    BY Zenon DEF Init
  <2>1. 0 \in Nat /\ 0 <= MaxCalls
    BY GroupsAssumption
  <2>2. NoGroup \in GroupRecords /\ ~NoGroup.there /\ Sound(NoGroup, 0) /\ Kept(NoGroup, 0)
    BY DEF Sound, Kept, NoGroup, GroupRecords, Everybody
  <2>3. /\ NewFile(NoGroup) \in Files /\ NewFile(NoGroup).data = NoGroup
        /\ NewFile(NoGroup).saves = {} /\ NewFile(NoGroup).disk = "none"
    BY <2>2, Zenon DEF NewFile, Files, Contents
  <2>4. GroupInv
    BY <2>0, <2>1, <2>2, <2>3, Zenon DEF Init, GroupsInit, GroupInv
  <2>5. FileInv
    BY <2>2, <2>3, Zenon DEF Init, GroupsInit, FileInv, Held, Load, Stored
  <2>6. KeyInv
    BY <2>2, Zenon DEF Init, GroupsInit, KeyInv
  <2> QED
    BY <2>4, <2>5, <2>6, Zenon
<1>2. GroupInv /\ FileInv /\ KeyInv /\ [Next]_vars => (GroupInv /\ FileInv /\ KeyInv)'
  <2> SUFFICES ASSUME GroupInv, FileInv, KeyInv, [Next]_vars
               PROVE  GroupInv' /\ FileInv' /\ KeyInv'
    BY Zenon
  <2>1. CASE UNCHANGED groupVars /\ (calls' = calls \/ (calls < MaxCalls /\ calls' = calls + 1))
    BY <2>1, OtherCallStep, Zenon
  <2>2. CASE calls < MaxCalls /\ calls' = calls + 1 /\ GroupCalls
    BY <2>2, CreateGroupStep, LeaveGroupStep, RemoveGroupMemberStep, Zenon DEF GroupCalls
  <2>3. CASE GroupSteps
    BY <2>3, OpenGroupsFileStep, WriteGroupsFileStep, NextMemberStep, SendKeyStep, EndLoopStep,
       Zenon DEF GroupSteps
  <2>4. CASE Crash
    BY <2>4, GroupsRestartStep, Zenon DEF Crash
  <2> QED
    BY <2>1, <2>2, <2>3, <2>4, Zenon DEF Next, Call, AppSetsMode, ModeStep, AppRestarts
<1> QED
  BY <1>1, <1>2, PTL DEF Spec

\* When no handler is at work and no crash came between, every member has been
\* sent the key and the epoch the group has now, however many removals and loops
\* overlapped.
THEOREM CurrentKeyAlwaysSent == Spec => []CurrentKeyIsSent
<1>1. KeyInv => CurrentKeyIsSent
  BY Zenon DEF KeyInv, Reachable, CurrentKeyIsSent, Due, Promised
<1> QED
  BY <1>1, GroupsAlways, PTL

\* Whoever left a group that goes on does not administer it: one of its members
\* does, through any calls and restarts that follow.
THEOREM LeaverNeverAdmin == Spec => []LeaverIsNotAdmin
<1>1. GroupInv => LeaverIsNotAdmin
  BY Zenon DEF GroupInv, Sound, LeaverIsNotAdmin
<1> QED
  BY <1>1, GroupsAlways, PTL

\* A groups file at rest whose last save had it to itself holds the groups.
THEOREM GroupsAlwaysSaved == Spec => []GroupsAreSaved
<1>1. FileInv => GroupsAreSaved
  BY Zenon DEF FileInv, GroupsAreSaved, Settled
<1> QED
  BY <1>1, GroupsAlways, PTL

\* Every reachable state of the daemon is well typed; in particular no group has
\* a key or an epoch beyond the number of calls.
THEOREM TypeCorrect == Spec => []TypeOK
<1>1. GroupInv => GroupsTypeOK
  <2> SUFFICES ASSUME GroupInv PROVE GroupsTypeOK
    BY Zenon
  <2>1. /\ group.members \subseteq Everybody /\ group.admin \in Everybody
        /\ group.key \in Nat /\ group.epoch = group.key /\ group.key <= calls
    BY Zenon DEF GroupInv, Sound, GroupRecords
  <2>2. calls \in Nat /\ calls <= MaxCalls
    BY Zenon DEF GroupInv
  <2>3. {group.key, group.epoch} \subseteq 0 .. MaxCalls
    BY <2>1, <2>2, GroupsAssumption
  <2>4. groupsFile.disk \in Contents /\ \A s \in groupsFile.saves : s.by \in Handlers
    BY Zenon DEF GroupInv, Files, Saves
  <2>5. \A l \in loops : l.todo \subseteq Others /\ l.at \in Everybody
    BY Zenon DEF GroupInv, Loops
  <2> QED
    BY <2>1, <2>3, <2>4, <2>5, Zenon DEF GroupsTypeOK, GroupInv
<1>2. StartInv /\ RelayInv /\ ModeTyped /\ CountsTyped /\ GroupsTypeOK => TypeOK
  <2> SUFFICES ASSUME StartInv, RelayInv, ModeTyped, CountsTyped, GroupsTypeOK PROVE TypeOK
    BY Zenon
  <2>1. {identity, token, appToken, shown} \subseteq 0 .. made
    <3>1. /\ made \in Nat /\ identity \in Nat /\ token \in Nat /\ appToken \in Nat /\ shown \in Nat
          /\ identity <= made /\ token <= made /\ appToken <= made /\ shown <= made
      BY Zenon DEF StartInv, StartTyped
    <3> QED
      BY <3>1
  <2>2. /\ identityFile.disk \in Contents /\ tokenFile.disk \in Contents
        /\ stage \in {"down", "saving identity", "token", "saving token", "ready", "serving"}
        /\ app \in {"waiting", "ready"}
    BY Zenon DEF StartInv, StartTyped
  <2>3. calls \in 0 .. MaxCalls /\ settings \in 0 .. MaxSettings
    BY Bounds DEF CountsTyped
  <2>4. mode \in Modes /\ modeFile.data \in Modes /\ last \in Modes \cup {"", "mixed"}
    BY Zenon DEF ModeTyped, ModeFiles
  <2>5. relays \subseteq Relays /\ asked \subseteq Relays /\ raced \subseteq Relays
    BY Zenon DEF RelayInv
  <2>6. topic \in Topics /\ crashes \in Nat /\ appStarts \in Nat
    BY Zenon DEF CountsTyped
  <2> QED
    BY <2>1, <2>2, <2>3, <2>4, <2>5, <2>6, Zenon DEF TypeOK
<1> QED
  BY <1>1, <1>2, StartAlways, RelaysAlways, ModeAlways, CountsAlways, GroupsAlways, PTL

=============================================================================
