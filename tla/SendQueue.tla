------------------------------ MODULE SendQueue ------------------------------
(***************************************************************************)
(* The sending side of the client daemon: Daemon.SendMessage and           *)
(* processQueue (internal/client/daemon.go) over the SQLite OfflineQueue   *)
(* (internal/client/queue.go).                                             *)
(*                                                                         *)
(* A call of the engine is what module Send promises of it: relays accept  *)
(* chunks while it runs, and later; it returns success only if every chunk *)
(* was accepted.  Every call makes a fresh message id, so a message that   *)
(* is sent again is another copy of it to the relays and to the recipient. *)
(* The rows of the queue survive a crash of the daemon, and nothing else.  *)
(* SELECT ... ORDER BY created_at has a resolution of one second, so the   *)
(* order in which a batch is worked off is left open.                      *)
(***************************************************************************)
EXTENDS Integers

CONSTANTS
    Msgs,
    NoMsg,
    Chunks,
    Relays,
    MaxRetries,   \* maxQueueRetries (20)
    MaxCopies,    \* bound on the calls of the engine for one message
    MaxCrashes,   \* bound on the crashes of the daemon
    DBOutcomes    \* {TRUE}, or BOOLEAN if writes to the queue may fail

ASSUME ConstantsAssumption ==
    /\ NoMsg \notin Msgs
    /\ MaxRetries \in Nat /\ MaxCopies \in Nat /\ MaxCrashes \in Nat
    /\ DBOutcomes \subseteq BOOLEAN

VARIABLES
    rpc,        \* [Msgs -> the SendMessage call: "new", "sending", "sent", "queued" or "failed"]
    queue,      \* messages with a row in the queue
    retries,    \* [Msgs -> the row's retries]
    batch,      \* messages processQueue has read and not yet worked off
    seen,       \* [Msgs -> the retries it has read]
    worker,     \* processQueue: "idle", "sending", "sent" (row not yet removed)
    current,    \* the message it is at
    copies,     \* [Msgs -> engine calls begun]
    accepted,   \* <<message, copy, chunk, relay>>: the relay has stored the chunk at some time
    failures,   \* history: [Msgs -> engine calls that returned an error]
    handed,     \* history: messages of which an engine call has returned success
    crashes

row == <<queue, retries>>
loop == <<batch, seen, worker, current>>
vars == <<rpc, row, loop, copies, accepted, failures, handed, crashes>>

-----------------------------------------------------------------------------
Init ==
    /\ rpc = [m \in Msgs |-> "new"]
    /\ queue = {}
    /\ retries = [m \in Msgs |-> 0]
    /\ batch = {}
    /\ seen = [m \in Msgs |-> 0]
    /\ worker = "idle"
    /\ current = NoMsg
    /\ copies = [m \in Msgs |-> 0]
    /\ accepted = {}
    /\ failures = [m \in Msgs |-> 0]
    /\ handed = {}
    /\ crashes = 0

\* DNSClientEngine.SendMessage begins: a fresh id.
EngineCall(m) ==
    /\ copies[m] < MaxCopies
    /\ copies' = [copies EXCEPT ![m] = @ + 1]

\* A relay stores a chunk of a copy, while the call runs or later.
RelayStores(m, k, c, r) ==
    /\ k <= copies[m]
    /\ accepted' = accepted \cup {<<m, k, c, r>>}
    /\ UNCHANGED <<rpc, row, loop, copies, failures, handed, crashes>>

\* The engine may report success: every chunk of the copy is on some relay.
Covered(m, k) == \A c \in Chunks : \E r \in Relays : <<m, k, c, r>> \in accepted

\* The engine reports an error; it may do so whatever the relays have stored.
EngineError(m) == failures' = [failures EXCEPT ![m] = @ + 1]

-----------------------------------------------------------------------------
\* SendMessage of the daemon, up to the call of the engine.
SendMessage(m) ==
    /\ rpc[m] = "new"
    /\ EngineCall(m)
    /\ rpc' = [rpc EXCEPT ![m] = "sending"]
    /\ UNCHANGED <<row, loop, accepted, failures, handed, crashes>>

\* The engine succeeds: Queued = false.
SendSucceeds(m) ==
    /\ rpc[m] = "sending"
    /\ Covered(m, copies[m])
    /\ rpc' = [rpc EXCEPT ![m] = "sent"]
    /\ handed' = handed \cup {m}
    /\ UNCHANGED <<row, loop, copies, accepted, failures, crashes>>

\* The engine fails: Enqueue, and Queued = true; an error of the database is
\* returned to the caller.
SendFails(m) ==
    /\ rpc[m] = "sending"
    /\ EngineError(m)
    /\ \E ok \in DBOutcomes :
           /\ rpc' = [rpc EXCEPT ![m] = IF ok THEN "queued" ELSE "failed"]
           /\ queue' = IF ok THEN queue \cup {m} ELSE queue
           /\ retries' = [retries EXCEPT ![m] = 0]
    /\ UNCHANGED <<loop, copies, accepted, handed, crashes>>

-----------------------------------------------------------------------------
\* processQueue after its sleep: Pending.
ReadPending ==
    /\ worker = "idle"
    /\ batch = {}
    /\ queue # {}
    /\ batch' = queue
    /\ seen' = retries
    /\ UNCHANGED <<rpc, row, worker, current, copies, accepted, failures, handed, crashes>>

\* Mutant: DELETE matches no row.
Remove_Nothing(m) == UNCHANGED row

\* Remove, whose error processQueue ignores.
Remove(m) ==
    \E ok \in DBOutcomes :
        /\ queue' = IF ok THEN queue \ {m} ELSE queue
        /\ UNCHANGED retries

\* Mutant: gives up one attempt early.
TooOften_Early(m) == seen[m] + 1 >= MaxRetries

TooOften(m) == seen[m] >= MaxRetries

GiveUp(m) ==
    /\ worker = "idle"
    /\ m \in batch
    /\ TooOften(m)
    /\ batch' = batch \ {m}
    /\ Remove(m)
    /\ UNCHANGED <<rpc, seen, worker, current, copies, accepted, failures, handed, crashes>>

Retry(m) ==
    /\ worker = "idle"
    /\ m \in batch
    /\ ~TooOften(m)
    /\ EngineCall(m)
    /\ batch' = batch \ {m}
    /\ worker' = "sending"
    /\ current' = m
    /\ UNCHANGED <<rpc, row, seen, accepted, failures, handed, crashes>>

\* Mutant: the row of a failed message is removed.
RetryFails_Removes ==
    /\ worker = "sending"
    /\ EngineError(current)
    /\ Remove(current)
    /\ worker' = "idle"
    /\ current' = NoMsg
    /\ UNCHANGED <<rpc, batch, seen, copies, accepted, handed, crashes>>

\* The engine fails: MarkFailed, whose error processQueue ignores.
RetryFails ==
    /\ worker = "sending"
    /\ EngineError(current)
    /\ \E ok \in DBOutcomes :
           retries' = IF ok THEN [retries EXCEPT ![current] = @ + 1] ELSE retries
    /\ worker' = "idle"
    /\ current' = NoMsg
    /\ UNCHANGED <<rpc, queue, batch, seen, copies, accepted, handed, crashes>>

\* The engine succeeds ...
RetrySucceeds ==
    /\ worker = "sending"
    /\ Covered(current, copies[current])
    /\ worker' = "sent"
    /\ handed' = handed \cup {current}
    /\ UNCHANGED <<rpc, row, batch, seen, current, copies, accepted, failures, crashes>>

\* ... and then the row goes.
RemoveSent ==
    /\ worker = "sent"
    /\ Remove(current)
    /\ worker' = "idle"
    /\ current' = NoMsg
    /\ UNCHANGED <<rpc, batch, seen, copies, accepted, failures, handed, crashes>>

\* The daemon dies and is started again: calls under way are lost to their
\* callers, and the queue is opened again.
Crash ==
    /\ crashes < MaxCrashes
    /\ crashes' = crashes + 1
    /\ rpc' = [m \in Msgs |-> IF rpc[m] = "sending" THEN "failed" ELSE rpc[m]]
    /\ batch' = {}
    /\ seen' = [m \in Msgs |-> 0]
    /\ worker' = "idle"
    /\ current' = NoMsg
    /\ UNCHANGED <<row, copies, accepted, failures, handed>>

WorkerStep ==
    \/ ReadPending
    \/ \E m \in Msgs : GiveUp(m) \/ Retry(m)
    \/ RetryFails
    \/ RetrySucceeds
    \/ RemoveSent

Next ==
    \/ \E m \in Msgs : SendMessage(m) \/ SendSucceeds(m) \/ SendFails(m)
    \/ \E m \in Msgs, k \in 1 .. MaxCopies, c \in Chunks, r \in Relays : RelayStores(m, k, c, r)
    \/ WorkerStep
    \/ Crash

Spec == Init /\ [][Next]_vars

\* processQueue runs for the life of the daemon and the engine returns.
FairSpec == Spec /\ WF_vars(WorkerStep)

-----------------------------------------------------------------------------
\* The state has its shape, and a worker that is at a message has one.
TypeOK ==
    /\ rpc \in [Msgs -> {"new", "sending", "sent", "queued", "failed"}]
    /\ queue \subseteq Msgs
    /\ retries \in [Msgs -> Nat]
    /\ batch \subseteq Msgs
    /\ seen \in [Msgs -> Nat]
    /\ worker \in {"idle", "sending", "sent"}
    /\ current \in Msgs \cup {NoMsg}
    /\ copies \in [Msgs -> Nat]
    /\ accepted \subseteq Msgs \X Nat \X Chunks \X Relays
    /\ failures \in [Msgs -> Nat]
    /\ handed \subseteq Msgs
    /\ crashes \in Nat
    /\ worker = "idle" <=> current = NoMsg

\* A message the caller was told is queued is not lost: it is in the queue, or
\* was handed to the relays, or the first call and MaxRetries further calls of
\* the engine have failed -- whatever crashes and failed writes came between.
QueuedIsKept ==
    \A m \in Msgs : rpc[m] = "queued" =>
        m \in queue \/ m \in handed \/ failures[m] > MaxRetries

\* What counts as handed over is on the relays, every chunk of one copy.
HandedIsCovered ==
    \A m \in handed : \E k \in 1 .. copies[m] : Covered(m, k)

\* If writes to the queue succeed, a queued message costs at most one call of
\* the engine, MaxRetries more, and one for every crash of the daemon.
CallsAreBounded ==
    DBOutcomes = {TRUE} => \A m \in Msgs : copies[m] <= 1 + MaxRetries + crashes

\* What a message looks like to the user of SendMessage.
StatusOf(m) ==
    IF m \in handed THEN "handed"
    ELSE IF rpc[m] \in {"new", "sending"} THEN "new"
    ELSE IF rpc[m] # "queued" THEN "refused"
    ELSE IF m \in queue THEN "owed" ELSE "dropped"

status == [m \in Msgs |-> StatusOf(m)]

User == INSTANCE Outbox

\* The queue implements the promise.
OutboxPromise == User!Spec

\* And every message that was taken on is settled.
Settles == User!Settles
=============================================================================
