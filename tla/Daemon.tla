----------------------------- MODULE Daemon ------------------------------
(* A client daemon from its start to its death and back (RunDaemon in
   internal/client/daemon.go, LoadIdentity and SaveIdentity in
   internal/crypto/crypto.go), with what it keeps in its data directory: the
   identity, the token that admits the app, the groups (module Groups), and the
   settings the app leaves there for the watchers to find.

   RunDaemon is a sequence of steps, and the daemon can die between any two of
   them: also between the opening of a file, which empties it, and the write.
   The app is a process of its own; it reads the token when it starts and keeps
   it while the daemon comes and goes.  A file that is there may still not be
   readable, and RunDaemon takes every error of a read for a first start.

   An identity and a token are numbers, a fresh one for each that is made.

   The handlers of the groups, of the relays and of the mode share no state but
   the life of the daemon, so a behaviour has the calls of one topic only: the
   start alone, or one of the three with it.                                *)
EXTENDS Groups

CONSTANTS
    Relays,         \* addresses of relays
    Configured,     \* the relays of the command line and of relays.json
    Modes,          \* what the app writes into transport_mode
    MaxSettings,    \* bound on settings of the mode by the app
    MaxMishaps      \* [Topics -> bound on crashes, restarts of the app and reads
                    \* that fail though the file is whole]

Topics == {"start", "groups", "relays", "mode"}

ASSUME DaemonAssumption ==
    /\ Configured \subseteq Relays /\ "auto" \in Modes /\ Modes \cap {"", "mixed"} = {}
    /\ MaxSettings \in Nat /\ MaxMishaps \in [Topics -> Nat]

VARIABLES
    topic,          \* what the calls of this behaviour are about
    stage,          \* how far RunDaemon has come
    identity,       \* d.identity
    identityFile,   \* identity.key
    token,          \* d.authToken
    tokenFile,      \* auth_token
    made,           \* number of identities and tokens made
    app,            \* the app: "waiting" for the token, or "ready"
    appToken,       \* GrpcClient.authToken, 0 without one
    appStarts,      \* restarts of the app so far
    relays,         \* engine.relays
    relayCalls,     \* AddRelay and RemoveRelay calls between get and set
    mode,           \* engine.transportMode
    modeFile,       \* transport_mode, a state of StateFile the app writes
    last,           \* the last content watchTransportMode has seen
    settings,       \* settings of the mode so far
    crashes,        \* crashes so far
    shown,          \* history: the identity last served with
    changed,        \* history: times a daemon served with another one than the last
    misread,        \* history: reads that failed though the file was whole
    relocked,       \* history: such a read of the token since the app read it
    asked,          \* history: the relays asked for, as if calls never overlapped
    raced,          \* history: relays whose last call overlapped another one
    overridden      \* history: a call set the mode since the watcher last did

identityVars == <<identity, identityFile, shown, changed>>
tokenVars == <<token, tokenFile>>
appVars == <<app, appToken, relocked>>
startVars == <<stage, made, identityVars, tokenVars, appVars, misread>>
relayVars == <<relays, relayCalls, asked, raced>>
modeVars == <<mode, modeFile, last, overridden>>
counts == <<calls, settings, crashes, appStarts>>
vars == <<topic, groupVars, startVars, relayVars, modeVars, counts>>

\* A small file: what the disk holds, and its content when it is whole.
File(disk, data) == [disk |-> disk, data |-> data]
Whole(f) == f.disk = "whole"

\* Another mishap is within the bounds.
Mishap ==
    crashes + appStarts + misread.identity + misread.token + misread.groups
        < MaxMishaps[topic]

\* os.ReadFile gives the bytes, or an error although they are there; to read a
\* file that is not whole is to no avail either way.
ReadFile(name, f, ok) ==
    IF ok THEN UNCHANGED misread
    ELSE /\ Whole(f) /\ Mishap
         /\ misread' = [misread EXCEPT ![name] = @ + 1]

\* An identity file has its four lines with the keys, or it does not parse.
LoadIdentity(f, ok) == ok /\ Whole(f)

Init ==
    /\ topic \in Topics
    /\ GroupsInit
    /\ stage = "down" /\ made = 0
    /\ identity = 0 /\ identityFile = File("none", 0) /\ shown = 0 /\ changed = 0
    /\ token = 0 /\ tokenFile = File("none", 0)
    /\ app = "waiting" /\ appToken = 0 /\ relocked = FALSE
    /\ misread = [name \in {"identity", "token", "groups"} |-> 0]
    /\ relays = Configured /\ relayCalls = {}
    /\ asked = Configured /\ raced = {}
    /\ mode = "auto" /\ modeFile = NewFile("auto") /\ last = "" /\ overridden = FALSE
    /\ calls = 0 /\ settings = 0 /\ crashes = 0 /\ appStarts = 0

----------------------------------------------------------------------------
\* LoadIdentity, and GenerateKeyPair and the start of SaveIdentity when that
\* fails, for whatever reason.  This variant does not save the identity it made.
ReadIdentity_Unsaved ==
    /\ stage = "down" /\ stage' = "token"
    /\ made' = IF Whole(identityFile) THEN made ELSE made + 1
    /\ identity' = IF Whole(identityFile) THEN identityFile.data ELSE made'
    /\ UNCHANGED <<identityFile, shown, changed, tokenVars, appVars, misread>>

ReadIdentity ==
    /\ stage = "down"
    /\ \E ok \in BOOLEAN :
        /\ ReadFile("identity", identityFile, ok)
        /\ IF LoadIdentity(identityFile, ok)
           THEN /\ identity' = identityFile.data /\ stage' = "token"
                /\ UNCHANGED <<identityFile, made>>
           ELSE /\ made' = made + 1 /\ identity' = made'
                /\ identityFile' = File("empty", made') /\ stage' = "saving identity"
    /\ UNCHANGED <<shown, changed, tokenVars, appVars>>

SaveIdentity ==
    /\ stage = "saving identity" /\ stage' = "token"
    /\ identityFile' = File("whole", identity)
    /\ UNCHANGED <<identity, shown, changed, tokenVars, appVars, made, misread>>

\* loadOrGenerateAuthToken: a file that can be read and has 64 characters is kept
\* as it is.  This variant makes a new token at every start.
ReadToken_Fresh ==
    /\ stage = "token" /\ stage' = "saving token"
    /\ made' = made + 1 /\ token' = made'
    /\ tokenFile' = File("empty", made')
    /\ UNCHANGED <<identityVars, appVars, misread>>

ReadToken ==
    /\ stage = "token"
    /\ \E ok \in BOOLEAN :
        /\ ReadFile("token", tokenFile, ok)
        /\ relocked' = (relocked \/ ~ok)
        /\ IF ok /\ Whole(tokenFile)
           THEN /\ token' = tokenFile.data /\ stage' = "ready"
                /\ UNCHANGED <<tokenFile, made>>
           ELSE /\ made' = made + 1 /\ token' = made'
                /\ tokenFile' = File("empty", made') /\ stage' = "saving token"
    /\ UNCHANGED <<identityVars, app, appToken>>

SaveToken ==
    /\ stage = "saving token" /\ stage' = "ready"
    /\ tokenFile' = File("whole", token)
    /\ UNCHANGED <<identityVars, token, appVars, made, misread>>

\* The daemon listens, and hands its public key to whoever asks.
Serve ==
    /\ stage = "ready" /\ stage' = "serving"
    /\ shown' = identity
    /\ changed' = IF shown \in {0, identity} THEN changed ELSE changed + 1
    /\ UNCHANGED <<identity, identityFile, tokenVars, appVars, made, misread>>

Start == ReadIdentity \/ SaveIdentity \/ ReadToken \/ SaveToken \/ Serve

\* _loadAuthTokenWithRetry in the app: a file of 64 characters is the token ...
AppReadsToken ==
    /\ app = "waiting" /\ app' = "ready"
    /\ Whole(tokenFile)
    /\ appToken' = tokenFile.data /\ relocked' = FALSE
    /\ UNCHANGED <<stage, made, identityVars, tokenVars, misread>>

\* ... and after ten seconds without one the app goes on, and reads no more.
AppGivesUp ==
    /\ app = "waiting" /\ app' = "ready"
    /\ UNCHANGED <<stage, made, identityVars, tokenVars, appToken, relocked, misread>>

\* authInterceptor: every call but GetIdentity needs the daemon's token.
Admitted == stage = "serving" /\ app = "ready" /\ appToken = token

----------------------------------------------------------------------------
\* AddRelay and RemoveRelay read the list and set it in two critical sections:
\* list is what the call for r will set.
GetRelays(r, list, wish) ==
    /\ relayCalls' = relayCalls \cup {[id |-> calls', relay |-> r, list |-> list]}
    /\ asked' = wish
    /\ raced' = IF relayCalls = {} THEN raced \ {r}
                ELSE raced \cup {r} \cup {c.relay : c \in relayCalls}
    /\ UNCHANGED relays

AddRelay(r) == GetRelays(r, relays \cup {r}, asked \cup {r})

\* This variant keeps the relay and drops the others.
RemoveRelay_Others(r) == GetRelays(r, relays \cap {r}, asked \ {r})

RemoveRelay(r) == GetRelays(r, relays \ {r}, asked \ {r})

SetRelays ==
    \E c \in relayCalls :
        /\ relays' = c.list /\ relayCalls' = relayCalls \ {c}
        /\ UNCHANGED <<asked, raced>>

----------------------------------------------------------------------------
\* The app's setMode: writeAsString empties the file and then writes.  The screen
\* does not wait for it, so the next setting may begin before it is done, and a
\* write that fails is passed over.
AppOpensModeFile(v) ==
    /\ modeFile' = Open(Marshal(modeFile, settings', v),
                        [by |-> settings', data |-> v, open |-> FALSE])
    /\ UNCHANGED <<mode, last, overridden>>

AppWritesModeFile ==
    /\ \E s \in modeFile.saves : modeFile' \in Write(modeFile, s) \cup {WriteFails(modeFile, s)}
    /\ UNCHANGED <<mode, last, overridden>>

\* What a read of the file gives: a mode, nothing, or the ends of two modes.
Content ==
    CASE modeFile.disk = "whole" -> modeFile.data
      [] modeFile.disk = "mixed" -> "mixed"
      [] OTHER -> ""

\* TransportModeFromString.  This variant takes the content for a mode, whatever
\* it is.
FromString_Raw(content) == content

FromString(content) == IF content \in Modes THEN content ELSE "auto"

\* A tick of watchTransportMode: a content it has not just seen is applied.
WatchTransportMode ==
    /\ stage = "serving" /\ modeFile.disk # "none"
    /\ Content # last
    /\ last' = Content /\ mode' = FromString(Content) /\ overridden' = FALSE
    /\ UNCHANGED modeFile

\* SetTransportMode, the call: neither the file nor the watcher hears of it.
SetTransportMode(v) ==
    /\ mode' = v /\ overridden' = TRUE
    /\ UNCHANGED <<modeFile, last>>

----------------------------------------------------------------------------
\* A new engine and a new watcher.  In this variant what the watcher has seen
\* outlives it.
EngineRestart_Last ==
    /\ relays' = Configured /\ relayCalls' = {} /\ asked' = Configured /\ raced' = {}
    /\ mode' = "auto" /\ overridden' = FALSE
    /\ UNCHANGED <<last, modeFile>>

EngineRestart ==
    /\ relays' = Configured /\ relayCalls' = {} /\ asked' = Configured /\ raced' = {}
    /\ mode' = "auto" /\ last' = "" /\ overridden' = FALSE
    /\ UNCHANGED modeFile

\* The daemon dies, at any point, and will be started again.  (A write of the
\* identity or of the token that fails ends RunDaemon too.)
Crash ==
    /\ Mishap /\ crashes' = crashes + 1
    /\ stage # "down" /\ stage' = "down" /\ identity' = 0 /\ token' = 0
    /\ \E ok \in BOOLEAN : ReadFile("groups", groupsFile, ok) /\ GroupsRestart(ok)
    /\ EngineRestart
    /\ UNCHANGED <<topic, identityFile, shown, changed, tokenFile, appVars, made,
                   calls, settings, appStarts>>

\* The app is started again, and waits for the token as it did the first time.
AppRestarts ==
    /\ Mishap /\ appStarts' = appStarts + 1
    /\ app = "ready" /\ app' = "waiting" /\ appToken' = 0 /\ relocked' = FALSE
    /\ modeFile' = Abandon(modeFile, TRUE)
    /\ UNCHANGED <<topic, groupVars, stage, made, identityVars, tokenVars, misread, relayVars,
                   mode, last, overridden, calls, settings, crashes>>

\* A call of the app that the daemon admits.
Call ==
    /\ Admitted
    /\ calls < MaxCalls /\ calls' = calls + 1
    /\ \/ /\ topic = "groups" /\ GroupCalls
          /\ UNCHANGED <<relayVars, modeVars>>
       \/ /\ topic = "relays" /\ \E r \in Relays : AddRelay(r) \/ RemoveRelay(r)
          /\ UNCHANGED <<groupVars, modeVars>>
       \/ /\ topic = "mode" /\ \E v \in Modes : SetTransportMode(v)
          /\ UNCHANGED <<groupVars, relayVars>>
    /\ UNCHANGED <<topic, startVars, settings, crashes, appStarts>>

AppSetsMode ==
    /\ topic = "mode" /\ app = "ready"
    /\ settings < MaxSettings /\ settings' = settings + 1
    /\ \E v \in Modes : AppOpensModeFile(v)
    /\ UNCHANGED <<topic, groupVars, startVars, relayVars, calls, crashes, appStarts>>

ModeStep ==
    /\ AppWritesModeFile \/ WatchTransportMode
    /\ UNCHANGED <<topic, groupVars, startVars, relayVars, counts>>

Next ==
    \/ /\ Start \/ AppReadsToken \/ AppGivesUp
       /\ UNCHANGED <<topic, groupVars, relayVars, modeVars, counts>>
    \/ Call
    \/ GroupSteps /\ UNCHANGED <<topic, startVars, relayVars, modeVars, settings, crashes, appStarts>>
    \/ SetRelays /\ UNCHANGED <<topic, groupVars, startVars, modeVars, counts>>
    \/ AppSetsMode
    \/ ModeStep
    \/ Crash
    \/ AppRestarts

\* The watcher's ticker keeps ticking while the daemon runs.  Nothing else has
\* to happen.
Fairness ==
    WF_vars(WatchTransportMode /\ UNCHANGED <<topic, groupVars, startVars, relayVars, counts>>)

Spec == Init /\ [][Next]_vars /\ Fairness

----------------------------------------------------------------------------
\* The types of the variables.
TypeOK ==
    /\ GroupsTypeOK
    /\ stage \in {"down", "saving identity", "token", "saving token", "ready", "serving"}
    /\ {identity, token, appToken, shown} \subseteq 0 .. made
    /\ identityFile.disk \in Contents /\ tokenFile.disk \in Contents
    /\ app \in {"waiting", "ready"}
    /\ relays \subseteq Relays /\ asked \subseteq Relays /\ raced \subseteq Relays
    /\ mode \in Modes /\ modeFile.data \in Modes /\ last \in Modes \cup {"", "mixed"}
    /\ calls \in 0 .. MaxCalls /\ settings \in 0 .. MaxSettings
    /\ topic \in Topics /\ crashes \in Nat /\ appStarts \in Nat

\* A daemon that has served, and so may be in somebody's contacts, serves with
\* the same identity after any crash, wherever in the start it came: only a read
\* of identity.key that fails though the file is whole, which RunDaemon takes for
\* a first start, costs it the identity, and one such read costs one identity.
IdentityIsKept == changed <= misread.identity

\* The app is not locked out: the token it has read is the token of every daemon
\* that serves, after any crash of the daemon and any restart of the app, so
\* authInterceptor admits its calls; only a failed read of a whole auth_token
\* since then changes the token under it (loadOrGenerateAuthToken, and
\* _loadAuthTokenWithRetry in the app).
AppIsAdmitted == (stage = "serving" /\ appToken # 0 /\ ~relocked) => Admitted

\* A relay is in the engine's list as its last call asked, once that call is done
\* and had the list to itself, whatever calls for other relays overlapped before
\* or since: a lost update of AddRelay or RemoveRelay, which read the list and
\* set it in two critical sections, hits only relays those calls name.
RelaysAreAsAsked ==
    \A r \in Relays \ raced :
        (\A c \in relayCalls : c.relay # r) => (r \in relays <=> r \in asked)

\* A mode the app leaves in the file is in the end the mode of the engine, also
\* when the watcher reads the file half written, settings overlap, or the daemon
\* or the app is started again, unless a call has set a mode after the watcher
\* last did (watchTransportMode).
SettingArrives ==
    \A v \in Modes :
        <>[](stage = "serving" /\ modeFile.disk = "whole" /\ modeFile.data = v /\ ~overridden)
            => <>[](mode = v)
==========================================================================
