--------------------------- MODULE EndpointProofs ---------------------------
(***************************************************************************)
(* Proofs about the two daemons a message passes between.                  *)
(*                                                                         *)
(* SendQueue, for any messages, chunks, relays, retry limit and number of  *)
(* crashes, with and without failing database writes.                      *)
(*                                                                         *)
(* Fetch, for any messages, relays, number of chunks, pollers and bounds.  *)
(***************************************************************************)
EXTENDS SendQueue, Fetch, TLAPS

-----------------------------------------------------------------------------
(***************************************************************************)
(* The sending daemon.                                                     *)
(***************************************************************************)
USE DEF row, loop

(***************************************************************************)
(* The invariant.  A row that has been retried n times stands for at least *)
(* n + 1 failed calls; what processQueue remembers of a row never exceeds  *)
(* the row; and the worker deals only with messages that were queued.      *)
(***************************************************************************)
Known(m) == rpc[m] = "queued"

RowInv ==
    /\ \A m \in Msgs : Known(m) => failures[m] > retries[m]
    /\ \A m \in Msgs : ~Known(m) => retries[m] = 0 /\ m \notin queue /\ m \notin batch
    /\ \A m \in Msgs : seen[m] <= retries[m]
    /\ batch \subseteq queue
    /\ worker # "idle" => current \in Msgs /\ Known(current) /\ current \in queue \ batch
    /\ worker = "sent" => current \in handed
    /\ \A m \in Msgs : copies[m] = 0 => rpc[m] = "new"
    /\ \A m \in handed : rpc[m] \in {"sent", "queued"}

QueueInv == TypeOK /\ RowInv /\ QueuedIsKept /\ HandedIsCovered

LEMMA QueueInit == Init => QueueInv
<1> SUFFICES ASSUME Init PROVE QueueInv
  BY Zenon
<1> USE ConstantsAssumption DEF Init
<1>1. TypeOK
  BY Zenon DEF TypeOK
<1>2. RowInv
  BY DEF RowInv, Known
<1>3. QueuedIsKept /\ HandedIsCovered
  BY Zenon DEF QueuedIsKept, HandedIsCovered
<1> QED
  BY <1>1, <1>2, <1>3, Zenon DEF QueueInv

LEMMA TypeStep ==
  ASSUME TypeOK, RowInv, [Next]_vars
  PROVE  TypeOK'
<1> USE ConstantsAssumption DEF TypeOK
<1>1. ASSUME NEW m \in Msgs, SendMessage(m) PROVE TypeOK'
  BY <1>1 DEF SendMessage, EngineCall
<1>2. ASSUME NEW m \in Msgs, SendSucceeds(m) PROVE TypeOK'
  BY <1>2, Zenon DEF SendSucceeds
<1>3. ASSUME NEW m \in Msgs, SendFails(m) PROVE TypeOK'
  BY <1>3 DEF SendFails, EngineError
<1>4. ASSUME NEW m \in Msgs, NEW k \in 1 .. MaxCopies, NEW c \in Chunks, NEW r \in Relays,
             RelayStores(m, k, c, r)
      PROVE  TypeOK'
  <2>1. <<m, k, c, r>> \in Msgs \X Nat \X Chunks \X Relays
    OBVIOUS
  <2> QED
    BY <1>4, <2>1, Zenon DEF RelayStores
<1>5. CASE ReadPending
  BY <1>5, Zenon DEF ReadPending
<1>6. ASSUME NEW m \in Msgs, GiveUp(m) PROVE TypeOK'
  BY <1>6, Zenon DEF GiveUp, Remove
<1>7. ASSUME NEW m \in Msgs, Retry(m) PROVE TypeOK'
  BY <1>7 DEF Retry, EngineCall
<1>8. CASE RetryFails
  <2>1. current \in Msgs
    BY <1>8, Zenon DEF RetryFails, RowInv
  <2> QED
    BY <1>8, <2>1 DEF RetryFails, EngineError
<1>9. CASE RetrySucceeds
  <2>1. current \in Msgs
    BY <1>9, Zenon DEF RetrySucceeds, RowInv
  <2> QED
    BY <1>9, <2>1, Zenon DEF RetrySucceeds
<1>10. CASE RemoveSent
  BY <1>10, Zenon DEF RemoveSent, Remove
<1>11. CASE Crash
  BY <1>11 DEF Crash
<1>12. CASE UNCHANGED vars
  BY <1>12, Zenon DEF vars
<1> QED
  BY <1>1, <1>2, <1>3, <1>4, <1>5, <1>6, <1>7, <1>8, <1>9, <1>10, <1>11, <1>12, Zenon DEF Next, WorkerStep

LEMMA RowStep ==
  ASSUME TypeOK, RowInv, [Next]_vars
  PROVE  RowInv'
<1> USE ConstantsAssumption DEF TypeOK, RowInv, Known
<1>1. ASSUME NEW m \in Msgs, SendMessage(m) PROVE RowInv'
  BY <1>1 DEF SendMessage, EngineCall
<1>2. ASSUME NEW m \in Msgs, SendSucceeds(m) PROVE RowInv'
  BY <1>2, ZenonT(30) DEF SendSucceeds
<1>3. ASSUME NEW m \in Msgs, SendFails(m) PROVE RowInv'
  <2>1. PICK ok \in BOOLEAN :
            /\ rpc' = [rpc EXCEPT ![m] = IF ok THEN "queued" ELSE "failed"]
            /\ queue' = IF ok THEN queue \cup {m} ELSE queue
            /\ retries' = [retries EXCEPT ![m] = 0]
    BY <1>3, Zenon DEF SendFails
  <2>2. ~Known(m) /\ seen[m] = 0 /\ retries' = retries
    BY <1>3, <2>1 DEF SendFails
  <2>3. CASE ok
    BY <1>3, <2>1, <2>2, <2>3, SMTT(30) DEF SendFails, EngineError
  <2>4. CASE ~ok
    BY <1>3, <2>1, <2>2, <2>4 DEF SendFails, EngineError
  <2> QED
    BY <2>3, <2>4, Zenon
<1>4. ASSUME NEW m \in Msgs, NEW k \in 1 .. MaxCopies, NEW c \in Chunks, NEW r \in Relays,
             RelayStores(m, k, c, r)
      PROVE  RowInv'
  BY <1>4, Zenon DEF RelayStores
<1>5. CASE ReadPending
  BY <1>5 DEF ReadPending
<1>6. ASSUME NEW m \in Msgs, GiveUp(m) PROVE RowInv'
  BY <1>6, Zenon DEF GiveUp, Remove
<1>7. ASSUME NEW m \in Msgs, Retry(m) PROVE RowInv'
  BY <1>7 DEF Retry, EngineCall
<1>8. CASE RetryFails
  <2>1. current \in Msgs /\ Known(current)
    BY <1>8, Zenon DEF RetryFails
  <2>2. PICK ok \in BOOLEAN : retries' = IF ok THEN [retries EXCEPT ![current] = @ + 1] ELSE retries
    BY <1>8, Zenon DEF RetryFails
  <2>3. CASE ok
    BY <1>8, <2>1, <2>2, <2>3, SMTT(30) DEF RetryFails, EngineError
  <2>4. CASE ~ok
    BY <1>8, <2>1, <2>2, <2>4 DEF RetryFails, EngineError
  <2> QED
    BY <2>3, <2>4, Zenon
<1>9. CASE RetrySucceeds
  BY <1>9, Zenon DEF RetrySucceeds
<1>10. CASE RemoveSent
  BY <1>10, Zenon DEF RemoveSent, Remove
<1>11. CASE Crash
  BY <1>11 DEF Crash
<1>12. CASE UNCHANGED vars
  BY <1>12, Zenon DEF vars
<1> QED
  BY <1>1, <1>2, <1>3, <1>4, <1>5, <1>6, <1>7, <1>8, <1>9, <1>10, <1>11, <1>12, Zenon DEF Next, WorkerStep

LEMMA KeptStep ==
  ASSUME TypeOK, RowInv, QueuedIsKept, [Next]_vars
  PROVE  QueuedIsKept'
<1> USE ConstantsAssumption DEF TypeOK, QueuedIsKept
<1>1. ASSUME NEW m \in Msgs, SendMessage(m) \/ SendSucceeds(m) PROVE QueuedIsKept'
  BY <1>1, Zenon DEF SendMessage, SendSucceeds
<1>2. ASSUME NEW m \in Msgs, SendFails(m) PROVE QueuedIsKept'
  <2>1. PICK ok \in BOOLEAN :
            /\ rpc' = [rpc EXCEPT ![m] = IF ok THEN "queued" ELSE "failed"]
            /\ queue' = IF ok THEN queue \cup {m} ELSE queue
    BY <1>2, Zenon DEF SendFails
  <2>2. \A n \in Msgs : failures'[n] \in Nat /\ failures'[n] >= failures[n]
    BY <1>2 DEF SendFails, EngineError
  <2>3. handed' = handed
    BY <1>2, Zenon DEF SendFails
  <2>4. CASE ok
    BY <2>1, <2>2, <2>3, <2>4 DEF EngineError
  <2>5. CASE ~ok
    BY <2>1, <2>2, <2>3, <2>5
  <2> QED
    BY <2>4, <2>5, Zenon
<1>3. ASSUME NEW m \in Msgs, GiveUp(m) PROVE QueuedIsKept'
  <2>1. failures[m] > MaxRetries
    BY <1>3 DEF GiveUp, TooOften, RowInv, Known
  <2> QED
    BY <1>3, <2>1, Zenon DEF GiveUp, Remove
<1>4. CASE RetryFails
  <2>1. current \in Msgs
    BY <1>4, Zenon DEF RetryFails, RowInv
  <2>2. \A n \in Msgs : failures'[n] \in Nat /\ failures'[n] >= failures[n]
    BY <1>4, <2>1 DEF RetryFails, EngineError
  <2> QED
    BY <1>4, <2>2 DEF RetryFails
<1>5. CASE RemoveSent
  BY <1>5, Zenon DEF RemoveSent, Remove, RowInv
<1>6. ASSUME NEW m \in Msgs, Retry(m) PROVE QueuedIsKept'
  BY <1>6, Zenon DEF Retry
<1>7. CASE ReadPending \/ RetrySucceeds \/ Crash \/ UNCHANGED vars
  BY <1>7, Zenon DEF ReadPending, RetrySucceeds, Crash, vars
<1>8. ASSUME NEW m \in Msgs, NEW k \in 1 .. MaxCopies, NEW c \in Chunks, NEW r \in Relays,
             RelayStores(m, k, c, r)
      PROVE  QueuedIsKept'
  BY <1>8, Zenon DEF RelayStores
<1> QED
  BY <1>1, <1>2, <1>3, <1>4, <1>5, <1>6, <1>7, <1>8, Zenon DEF Next, WorkerStep

\* accepted and copies only grow, so what is covered stays covered.
LEMMA CoveredStep ==
  ASSUME TypeOK, RowInv, HandedIsCovered, [Next]_vars
  PROVE  HandedIsCovered'
<1> USE ConstantsAssumption DEF TypeOK
<1>1. accepted \subseteq accepted' /\ \A m \in Msgs : copies'[m] \in Nat /\ copies'[m] >= copies[m]
  <2>1. accepted \subseteq accepted'
    BY Zenon DEF Next, WorkerStep, SendMessage, SendSucceeds, SendFails, RelayStores, ReadPending,
         GiveUp, Retry, RetryFails, RetrySucceeds, RemoveSent, Crash, vars
  <2>2. copies' = copies \/ \E n \in Msgs : copies' = [copies EXCEPT ![n] = @ + 1]
    BY Zenon DEF Next, WorkerStep, SendMessage, EngineCall, SendSucceeds, SendFails, RelayStores,
         ReadPending, GiveUp, Retry, RetryFails, RetrySucceeds, RemoveSent, Crash, vars
  <2>3. copies \in [Msgs -> Nat]
    BY Zenon
  <2> QED
    BY <2>1, <2>2, <2>3
<1>2. \A m \in Msgs, k \in Nat : Covered(m, k) => Covered(m, k)'
  BY <1>1, Zenon DEF Covered
<1>3. ASSUME NEW m \in handed PROVE \E k \in 1 .. copies'[m] : Covered(m, k)'
  BY <1>1, <1>2, <1>3 DEF HandedIsCovered
<1>4. ASSUME NEW m \in Msgs, copies[m] > 0, Covered(m, copies[m])
      PROVE  \E k \in 1 .. copies'[m] : Covered(m, k)'
  BY <1>1, <1>2, <1>4
<1>5. ASSUME NEW m \in handed', m \notin handed
      PROVE  \E k \in 1 .. copies'[m] : Covered(m, k)'
  <2>1. (\E n \in Msgs : SendSucceeds(n)) \/ RetrySucceeds
    BY <1>5, Zenon DEF Next, WorkerStep, SendMessage, SendFails, RelayStores, ReadPending,
         GiveUp, Retry, RetryFails, RemoveSent, Crash, vars
  <2>2. m \in Msgs /\ rpc[m] # "new" /\ Covered(m, copies[m])
    <3>1. ASSUME NEW n \in Msgs, SendSucceeds(n)
          PROVE  m \in Msgs /\ rpc[m] # "new" /\ Covered(m, copies[m])
      <4>1. m = n
        BY <1>5, <3>1, Zenon DEF SendSucceeds
      <4> QED
        BY <3>1, <4>1, Zenon DEF SendSucceeds
    <3>2. CASE RetrySucceeds
      <4>1. m = current
        BY <1>5, <3>2, Zenon DEF RetrySucceeds
      <4> QED
        BY <3>2, <4>1, Zenon DEF RetrySucceeds, RowInv, Known
    <3> QED
      BY <2>1, <3>1, <3>2, Zenon
  <2>3. copies[m] \in Nat /\ copies[m] # 0
    BY <2>2, Zenon DEF RowInv
  <2>4. copies[m] > 0
    BY <2>3
  <2> QED
    BY <2>2, <2>4, <1>4, Zenon
<1> QED
  BY <1>3, <1>5, Zenon DEF HandedIsCovered

LEMMA QueueStep == QueueInv /\ [Next]_vars => QueueInv'
BY TypeStep, RowStep, KeptStep, CoveredStep, Zenon DEF QueueInv

\* The inductive invariant of the daemon's sending side.
THEOREM QueueInvAlways == Spec => []QueueInv
BY QueueInit, QueueStep, PTL DEF Spec

\* SendMessage, processQueue and crashes keep the state in its shape.
THEOREM TypeCorrect == Spec => []TypeOK
<1>1. QueueInv => TypeOK
  BY Zenon DEF QueueInv
<1> QED
  BY <1>1, QueueInvAlways, PTL

\* A message reported as queued is kept by processQueue until it is handed
\* over or its retries are used up, whatever crashes or fails in between.
THEOREM QueuedIsAlwaysKept == Spec => []QueuedIsKept
<1>1. QueueInv => QueuedIsKept
  BY Zenon DEF QueueInv
<1> QED
  BY <1>1, QueueInvAlways, PTL

\* What SendMessage or processQueue counts as sent has every chunk of one
\* copy on the relays.
THEOREM HandedIsAlwaysCovered == Spec => []HandedIsCovered
<1>1. QueueInv => HandedIsCovered
  BY Zenon DEF QueueInv
<1> QED
  BY <1>1, QueueInvAlways, PTL

-----------------------------------------------------------------------------
\* A step that changes what the status of m depends on, and of m only.
LEMMA StatusOne ==
  ASSUME NEW m \in Msgs, NEW new,
         \A n \in Msgs \ {m} :
             /\ rpc'[n] = rpc[n]
             /\ n \in queue' <=> n \in queue
             /\ n \in handed' <=> n \in handed,
         StatusOf(m)' = new
  PROVE  status' = [status EXCEPT ![m] = new]
<1>1. \A n \in Msgs \ {m} : StatusOf(n)' = StatusOf(n)
  BY Zenon DEF StatusOf
<1> QED
  BY <1>1, Zenon DEF status

\* The daemon's queue implements the Outbox: what SendMessage took on stays
\* owed until it is handed over, or dropped after its retries.
THEOREM ImplementsOutbox == Spec => OutboxPromise
<1>1. Init => User!Init
  BY Zenon DEF Init, User!Init, status, StatusOf
<1>2. QueueInv /\ [Next]_vars => [User!Next]_(User!vars)
  <2> SUFFICES ASSUME QueueInv, [Next]_vars PROVE User!Next \/ UNCHANGED <<status, failures>>
    BY Zenon DEF User!vars
  <2> USE ConstantsAssumption DEF QueueInv, TypeOK, User!Next
  <2>f. ASSUME UNCHANGED <<rpc, queue, handed>> PROVE status' = status
    BY <2>f, Zenon DEF status, StatusOf
  <2>1. ASSUME NEW m \in Msgs, SendMessage(m) PROVE UNCHANGED <<status, failures>>
    BY <2>1, Zenon DEF SendMessage, status, StatusOf
  <2>2. ASSUME NEW m \in Msgs, SendSucceeds(m) PROVE User!Take(m)
    <3>1. status' = [status EXCEPT ![m] = "handed"]
      BY <2>2, StatusOne, Zenon DEF SendSucceeds, StatusOf
    <3>2. status[m] = "new"
      BY <2>2, Zenon DEF SendSucceeds, status, StatusOf, RowInv
    <3> QED
      BY <2>2, <3>1, <3>2, Zenon DEF SendSucceeds, User!Take
  <2>3. ASSUME NEW m \in Msgs, SendFails(m) PROVE User!Take(m)
    <3>0. rpc[m] = "sending" /\ m \notin handed /\ handed' = handed /\ EngineError(m)
      BY <2>3, Zenon DEF SendFails, RowInv
    <3>1. PICK ok \in BOOLEAN :
              /\ rpc' = [rpc EXCEPT ![m] = IF ok THEN "queued" ELSE "failed"]
              /\ queue' = IF ok THEN queue \cup {m} ELSE queue
      BY <2>3, Zenon DEF SendFails
    <3>2. status[m] = "new"
      BY <3>0, Zenon DEF status, StatusOf
    <3>3. CASE ok
      <4>1. status' = [status EXCEPT ![m] = "owed"]
        BY <3>0, <3>1, <3>3, StatusOne, Zenon DEF StatusOf
      <4> QED
        BY <3>0, <3>2, <4>1, Zenon DEF EngineError, User!Take
    <3>4. CASE ~ok
      <4>1. status' = [status EXCEPT ![m] = "refused"]
        BY <3>0, <3>1, <3>4, StatusOne, Zenon DEF StatusOf
      <4> QED
        BY <3>0, <3>2, <4>1, Zenon DEF EngineError, User!Take
    <3> QED
      BY <3>3, <3>4, Zenon
  <2>4. ASSUME NEW m \in Msgs, NEW k \in 1 .. MaxCopies, NEW c \in Chunks, NEW r \in Relays,
               RelayStores(m, k, c, r)
        PROVE  UNCHANGED <<status, failures>>
    BY <2>4, <2>f, Zenon DEF RelayStores
  <2>5. ASSUME ReadPending PROVE UNCHANGED <<status, failures>>
    BY <2>5, <2>f, Zenon DEF ReadPending
  <2>6. ASSUME NEW m \in Msgs, GiveUp(m) PROVE User!Drop(m) \/ UNCHANGED <<status, failures>>
    <3>0. m \in batch /\ rpc' = rpc /\ handed' = handed /\ failures' = failures
      BY <2>6, Zenon DEF GiveUp
    <3>1. Known(m) /\ failures[m] > MaxRetries
      BY <2>6 DEF GiveUp, TooOften, RowInv, Known
    <3>2. CASE queue' = queue
      BY <3>0, <3>2, <2>f, Zenon
    <3>3. CASE queue' = queue \ {m} /\ m \in queue /\ m \notin handed
      <4>1. status[m] = "owed"
        BY <3>1, <3>3, Zenon DEF status, StatusOf, Known
      <4>2. status' = [status EXCEPT ![m] = "dropped"]
        BY <3>0, <3>1, <3>3, StatusOne, Zenon DEF StatusOf, Known
      <4> QED
        BY <3>0, <3>1, <4>1, <4>2, Zenon DEF User!Drop
    <3>4. CASE queue' = queue \ {m} /\ m \in handed
      <4>1. status' = [status EXCEPT ![m] = "handed"]
        BY <3>0, <3>4, StatusOne, Zenon DEF StatusOf
      <4> QED
        BY <3>0, <3>4, <4>1 DEF status, StatusOf
    <3> QED
      BY <2>6, <3>2, <3>3, <3>4 DEF GiveUp, Remove
  <2>7. ASSUME NEW m \in Msgs, Retry(m) PROVE UNCHANGED <<status, failures>>
    BY <2>7, <2>f, Zenon DEF Retry
  <2>8. CASE RetryFails
    <3>1. current \in Msgs /\ Known(current)
      BY <2>8, Zenon DEF RetryFails, RowInv
    <3>2. PICK m \in Msgs : m = current
      BY <3>1, Zenon
    <3>3. status' = status /\ failures' = [failures EXCEPT ![m] = @ + 1]
      BY <2>8, <3>2, <2>f, Zenon DEF RetryFails, EngineError
    <3>4. status[m] \in {"owed", "handed"}
      BY <2>8, <3>1, <3>2, Zenon DEF RetryFails, RowInv, Known, status, StatusOf
    <3> QED
      BY <3>3, <3>4, Zenon DEF User!Fail
  <2>9. CASE RetrySucceeds
    <3>1. PICK m \in Msgs : m = current /\ Known(m) /\ m \in queue
      BY <2>9, Zenon DEF RetrySucceeds, RowInv
    <3>2. status' = [status EXCEPT ![m] = "handed"] /\ failures' = failures
      BY <2>9, <3>1, StatusOne, Zenon DEF RetrySucceeds, StatusOf
    <3>3. status[m] \in {"owed", "handed"}
      BY <3>1, Zenon DEF Known, status, StatusOf
    <3>4. CASE status[m] = "owed"
      BY <3>2, <3>4, Zenon DEF User!Hand
    <3>5. CASE status[m] = "handed"
      BY <3>2, <3>5, Zenon DEF status
    <3> QED
      BY <3>3, <3>4, <3>5, Zenon
  <2>10. CASE RemoveSent
    <3>1. PICK m \in Msgs : m = current /\ m \in handed
      BY <2>10, Zenon DEF RemoveSent, RowInv
    <3>2. status' = [status EXCEPT ![m] = "handed"] /\ failures' = failures
      BY <2>10, <3>1, StatusOne, Zenon DEF RemoveSent, Remove, StatusOf
    <3>3. status[m] = "handed"
      BY <3>1, Zenon DEF status, StatusOf
    <3> QED
      BY <3>2, <3>3, Zenon DEF status
  <2>11. CASE Crash
    <3>1. PICK S \in SUBSET Msgs : S = {m \in Msgs : rpc[m] = "sending"}
      BY Zenon
    <3>2. \A m \in S : StatusOf(m) = "new" /\ StatusOf(m)' = "refused"
      BY <2>11, <3>1, Zenon DEF Crash, RowInv, StatusOf
    <3>3. \A m \in Msgs \ S : StatusOf(m)' = StatusOf(m)
      BY <2>11, <3>1, Zenon DEF Crash, StatusOf
    <3>4. status' = [m \in Msgs |-> IF m \in S THEN "refused" ELSE status[m]]
      BY <3>2, <3>3, Zenon DEF status
    <3>5. User!Refuse(S)
      BY <2>11, <3>2, <3>4, Zenon DEF Crash, User!Refuse, status
    <3> QED
      BY <3>5, Zenon
  <2>12. CASE UNCHANGED vars
    BY <2>12, <2>f, Zenon DEF vars
  <2> QED
    BY <2>1, <2>2, <2>3, <2>4, <2>5, <2>6, <2>7, <2>8, <2>9, <2>10, <2>11, <2>12, <2>f, Zenon
    DEF Next, WorkerStep
<1> QED
  BY <1>1, <1>2, QueueInvAlways, PTL DEF Spec, OutboxPromise, User!Spec

-----------------------------------------------------------------------------
(***************************************************************************)
(* The number of calls, when writes to the queue succeed.  Every call but  *)
(* the first and the one under way has been counted in the row, or was cut *)
(* off by a crash.                                                         *)
(***************************************************************************)
CallsInv ==
    \A m \in Msgs :
        /\ ~Known(m) => copies[m] <= 1 /\ (rpc[m] = "new" => copies[m] = 0)
        /\ retries[m] <= MaxRetries
        /\ m \in batch => seen[m] = retries[m]
        /\ worker # "idle" /\ current = m =>
               retries[m] < MaxRetries /\ copies[m] <= 2 + retries[m] + crashes
        /\ Known(m) /\ ~(worker # "idle" /\ current = m) =>
               IF m \in queue THEN copies[m] <= 1 + retries[m] + crashes
                              ELSE copies[m] <= 1 + MaxRetries + crashes

LEMMA CallsStep ==
  ASSUME DBOutcomes = {TRUE}, QueueInv, CallsInv, [Next]_vars
  PROVE  CallsInv'
<1>0. /\ rpc \in [Msgs -> {"new", "sending", "sent", "queued", "failed"}]
      /\ queue \subseteq Msgs /\ batch \subseteq queue
      /\ retries \in [Msgs -> Nat] /\ seen \in [Msgs -> Nat] /\ copies \in [Msgs -> Nat]
      /\ crashes \in Nat
      /\ worker = "idle" <=> current = NoMsg
      /\ worker # "idle" => current \in Msgs /\ Known(current) /\ current \in queue \ batch
      /\ \A m \in Msgs : ~Known(m) => retries[m] = 0 /\ m \notin queue /\ m \notin batch
  BY Zenon DEF QueueInv, TypeOK, RowInv
<1> USE ConstantsAssumption, <1>0 DEF Known, CallsInv
<1>1. ASSUME NEW m \in Msgs, SendMessage(m) PROVE CallsInv'
  BY <1>1, SMTT(30) DEF SendMessage, EngineCall
<1>2. ASSUME NEW m \in Msgs, SendSucceeds(m) PROVE CallsInv'
  BY <1>2, SMTT(30) DEF SendSucceeds
<1>3. ASSUME NEW m \in Msgs, SendFails(m) PROVE CallsInv'
  <2>1. /\ rpc[m] = "sending"
        /\ rpc' = [rpc EXCEPT ![m] = "queued"]
        /\ queue' = queue \cup {m}
        /\ retries' = [retries EXCEPT ![m] = 0]
        /\ UNCHANGED <<batch, seen, worker, current, copies, crashes>>
    BY <1>3, Zenon DEF SendFails
  <2> QED
    BY <2>1, SMT
<1>4. ASSUME NEW m \in Msgs, NEW k \in 1 .. MaxCopies, NEW c \in Chunks, NEW r \in Relays,
             RelayStores(m, k, c, r)
      PROVE  CallsInv'
  BY <1>4, ZenonT(30) DEF RelayStores
<1>5. CASE ReadPending
  BY <1>5, Zenon DEF ReadPending
<1>6. ASSUME NEW m \in Msgs, GiveUp(m) PROVE CallsInv'
  <2>1. /\ m \in batch /\ worker = "idle"
        /\ queue' = queue \ {m} /\ batch' = batch \ {m}
        /\ UNCHANGED <<rpc, retries, seen, worker, current, copies, crashes>>
    BY <1>6, Zenon DEF GiveUp, Remove
  <2> QED
    BY <2>1, SMT
<1>7. ASSUME NEW m \in Msgs, Retry(m) PROVE CallsInv'
  BY <1>7, SMTT(30) DEF Retry, EngineCall, TooOften
<1>8. CASE RetryFails
  <2>1. PICK m \in Msgs : m = current /\ Known(m) /\ m \in queue \ batch
    BY <1>8, Zenon DEF RetryFails
  <2>2. retries' = [retries EXCEPT ![m] = @ + 1]
    BY <1>8, <2>1, Zenon DEF RetryFails
  <2> QED
    BY <1>8, <2>1, <2>2 DEF RetryFails
<1>9. CASE RetrySucceeds
  BY <1>9, Zenon DEF RetrySucceeds
<1>10. CASE RemoveSent
  <2>1. PICK m \in Msgs : m = current /\ Known(m)
    BY <1>10, Zenon DEF RemoveSent
  <2>2. queue' = queue \ {m} /\ retries' = retries
    BY <1>10, <2>1, ZenonT(30) DEF RemoveSent, Remove
  <2> QED
    BY <1>10, <2>1, <2>2 DEF RemoveSent
<1>11. CASE Crash
  BY <1>11 DEF Crash
<1>12. CASE UNCHANGED vars
  BY <1>12, Zenon DEF vars
<1> QED
  BY <1>1, <1>2, <1>3, <1>4, <1>5, <1>6, <1>7, <1>8, <1>9, <1>10, <1>11, <1>12, ZenonT(30) DEF Next, WorkerStep

\* With a working database a message costs at most 1 + MaxRetries calls of
\* the engine by SendMessage and processQueue, and one more for every crash.
THEOREM CallsAlwaysBounded == Spec => []CallsAreBounded
<1> DEFINE Inv == DBOutcomes = {TRUE} => CallsInv
<1>1. Init => Inv
  <2>2. ASSUME Init PROVE CallsInv
    <3>1. \A m \in Msgs : ~Known(m) /\ m \notin batch
      BY <2>2, Zenon DEF Init, Known
    <3>2. ASSUME NEW m \in Msgs PROVE copies[m] <= 1 /\ copies[m] = 0 /\ retries[m] <= MaxRetries
      <4>1. copies[m] = 0 /\ retries[m] = 0
        BY <2>2, Zenon DEF Init
      <4>2. MaxRetries \in Nat
        BY ConstantsAssumption, Zenon
      <4> QED
        BY <4>1, <4>2
    <3>3. worker = "idle"
      BY <2>2, Zenon DEF Init
    <3> QED
      BY <3>1, <3>2, <3>3, Zenon DEF CallsInv
  <2> QED
    BY <2>2, Zenon
<1>2. QueueInv /\ Inv /\ [Next]_vars => Inv'
  BY CallsStep, Zenon
<1>3. QueueInv /\ Inv => CallsAreBounded
  <2> SUFFICES ASSUME QueueInv, CallsInv, NEW m \in Msgs PROVE copies[m] <= 1 + MaxRetries + crashes
    BY Zenon DEF CallsAreBounded
  <2> QED
    BY ConstantsAssumption DEF QueueInv, TypeOK, RowInv, CallsInv, Known
<1> HIDE DEF Inv
<1> QED
  BY <1>1, <1>2, <1>3, QueueInvAlways, PTL DEF Spec

-----------------------------------------------------------------------------
(***************************************************************************)
(* The polling daemon.                                                     *)
(***************************************************************************)
USE DEF engine, results, fates, counts

LEMMA FetchTypeInit == FetchInit => FetchTypeOK
  BY FetchAssumption, SMTT(20) DEF FetchInit, FetchTypeOK

LEMMA FetchTypeStep ==
  ASSUME FetchTypeOK, [FetchNext]_fetchVars
  PROVE  FetchTypeOK'
<1> USE FetchAssumption DEF FetchTypeOK
<1>1. ASSUME NEW p \in Pollers, StartPoll(p) PROVE FetchTypeOK'
  BY <1>1, Zenon DEF StartPoll
<1>2. ASSUME NEW p \in Pollers, EngineReturns(p) PROVE FetchTypeOK'
  BY <1>2, Zenon DEF EngineReturns
<1>3. ASSUME NEW p \in Pollers, Respond(p) PROVE FetchTypeOK'
  BY <1>3, Zenon DEF Respond
<1>4. ASSUME NEW p \in Pollers, NEW r \in PolledRelays, ListRelay(p, r) PROVE FetchTypeOK'
  BY <1>4, SMTT(30) DEF ListRelay, Lists, QueryLost
<1>5. ASSUME NEW p \in Pollers, NEW r \in PolledRelays, TryRelay(p, r) PROVE FetchTypeOK'
  BY <1>5 DEF TryRelay
<1>6. ASSUME NEW p \in Pollers, NEW i \in Ids, Skip(p, i) PROVE FetchTypeOK'
  BY <1>6, Zenon DEF Skip
<1>7. ASSUME NEW p \in Pollers, NEW i \in Ids, Pick(p, i) PROVE FetchTypeOK'
  BY <1>7, Zenon DEF Pick
<1>8. ASSUME NEW p \in Pollers, NEW i \in Ids, Decrypt(p, i) PROVE FetchTypeOK'
  BY <1>8, SMTT(30) DEF Decrypt
<1>9. ASSUME NEW p \in Pollers, QueryChunk(p) PROVE FetchTypeOK'
  BY <1>9, SMTT(30) DEF QueryChunk, Asked
<1>10. ASSUME NEW p \in Pollers, QueryFails(p) PROVE FetchTypeOK'
  BY <1>10, SMTT(30) DEF QueryFails, Asked, QueryLost
<1>11. ASSUME NEW p \in Pollers, FetchFails(p) PROVE FetchTypeOK'
  BY <1>11, SMTT(30) DEF FetchFails
<1>12. ASSUME NEW p \in Pollers, FetchSucceeds(p) PROVE FetchTypeOK'
  BY <1>12, SMTT(30) DEF FetchSucceeds, Mark, AllReceived
<1>13. ASSUME NEW p \in Pollers, NEW S \in SUBSET Ids, LoseAnswer(p, S) PROVE FetchTypeOK'
  BY <1>13, SMTT(30) DEF LoseAnswer
<1>14. ASSUME NEW r \in PolledRelays, NEW S \in SUBSET Ids, RelayForgets(r, S) PROVE FetchTypeOK'
  BY <1>14 DEF RelayForgets
<1>15. ASSUME NEW s \in Senders, AddPeer(s) PROVE FetchTypeOK'
  BY <1>15, Zenon DEF AddPeer
<1>16. ASSUME NEW s \in Senders, RemovePeer(s) PROVE FetchTypeOK'
  BY <1>16, SMTT(30) DEF RemovePeer
<1>17. CASE Restart
  BY <1>17, SMTT(30) DEF Restart
<1>18. ASSUME NEW i \in Ids, NEW c \in Chunk, NEW r \in PolledRelays, RelayReceives(i, c, r) PROVE FetchTypeOK'
  BY <1>18 DEF RelayReceives
<1>19. CASE UNCHANGED fetchVars
  BY <1>19, Zenon DEF fetchVars
<1> QED
  BY <1>1, <1>2, <1>3, <1>4, <1>5, <1>6, <1>7, <1>8, <1>9, <1>10, <1>11, <1>12, <1>13, <1>14, <1>15, <1>16, <1>17, <1>18, <1>19, Zenon DEF FetchNext, ReceiverNext, PollStep

\* The type invariant of the polling side, for any instance.
THEOREM FetchTypeCorrect == FetchSpec => []FetchTypeOK
  BY FetchTypeInit, FetchTypeStep, PTL DEF FetchSpec

-----------------------------------------------------------------------------
LEMMA AccountedStep ==
  ASSUME FetchTypeOK, FetchedIsAccounted, [FetchNext]_fetchVars
  PROVE  FetchedIsAccounted'
<1>0. hand \in [Pollers -> SUBSET Ids] /\ out \in [Pollers -> SUBSET Ids]
  BY Zenon DEF FetchTypeOK
<1> USE <1>0 DEF FetchedIsAccounted, Settled, InHand
<1>1. ASSUME NEW p \in Pollers, StartPoll(p) PROVE FetchedIsAccounted'
  BY <1>1, Zenon DEF StartPoll
<1>2. ASSUME NEW p \in Pollers, EngineReturns(p) PROVE FetchedIsAccounted'
  BY <1>2, Zenon DEF EngineReturns
<1>3. ASSUME NEW p \in Pollers, Respond(p) PROVE FetchedIsAccounted'
  BY <1>3, Zenon DEF Respond
<1>4. ASSUME NEW p \in Pollers, NEW r \in PolledRelays, ListRelay(p, r) PROVE FetchedIsAccounted'
  BY <1>4, Zenon DEF ListRelay
<1>5. ASSUME NEW p \in Pollers, NEW r \in PolledRelays, TryRelay(p, r) PROVE FetchedIsAccounted'
  BY <1>5, Zenon DEF TryRelay
<1>6. ASSUME NEW p \in Pollers, NEW i \in Ids, Skip(p, i) PROVE FetchedIsAccounted'
  BY <1>6, Zenon DEF Skip
<1>7. ASSUME NEW p \in Pollers, NEW i \in Ids, Pick(p, i) PROVE FetchedIsAccounted'
  BY <1>7, Zenon DEF Pick
<1>8. ASSUME NEW p \in Pollers, NEW i \in Ids, Decrypt(p, i) PROVE FetchedIsAccounted'
  BY <1>8 DEF Decrypt
<1>9. ASSUME NEW p \in Pollers, QueryChunk(p) PROVE FetchedIsAccounted'
  BY <1>9, Zenon DEF QueryChunk
<1>10. ASSUME NEW p \in Pollers, QueryFails(p) PROVE FetchedIsAccounted'
  BY <1>10, Zenon DEF QueryFails
<1>11. ASSUME NEW p \in Pollers, FetchFails(p) PROVE FetchedIsAccounted'
  BY <1>11, Zenon DEF FetchFails
<1>12. ASSUME NEW p \in Pollers, FetchSucceeds(p) PROVE FetchedIsAccounted'
  BY <1>12 DEF FetchSucceeds, Mark, AllReceived
<1>13. ASSUME NEW p \in Pollers, NEW S \in SUBSET Ids, LoseAnswer(p, S) PROVE FetchedIsAccounted'
  BY <1>13, Zenon DEF LoseAnswer
<1>14. ASSUME NEW r \in PolledRelays, NEW S \in SUBSET Ids, RelayForgets(r, S) PROVE FetchedIsAccounted'
  BY <1>14, Zenon DEF RelayForgets
<1>15. ASSUME NEW s \in Senders, AddPeer(s) PROVE FetchedIsAccounted'
  BY <1>15, Zenon DEF AddPeer
<1>16. ASSUME NEW s \in Senders, RemovePeer(s) PROVE FetchedIsAccounted'
  BY <1>16, Zenon DEF RemovePeer
<1>17. CASE Restart
  BY <1>17, Zenon DEF Restart
<1>18. ASSUME NEW i \in Ids, NEW c \in Chunk, NEW r \in PolledRelays, RelayReceives(i, c, r) PROVE FetchedIsAccounted'
  BY <1>18, Zenon DEF RelayReceives
<1>19. CASE UNCHANGED fetchVars
  BY <1>19, Zenon DEF fetchVars
<1> QED
  BY <1>1, <1>2, <1>3, <1>4, <1>5, <1>6, <1>7, <1>8, <1>9, <1>10, <1>11, <1>12, <1>13, <1>14, <1>15, <1>16, <1>17, <1>18, <1>19, Zenon DEF FetchNext, ReceiverNext, PollStep

\* An id that PollMessages has marked as fetched is in a poll's hands, has
\* reached the app, was dropped for want of a key or lost with an answer --
\* for any number of overlapping polls.
THEOREM FetchedIsAlwaysAccounted == FetchSpec => []FetchedIsAccounted
<1>1. FetchInit => FetchedIsAccounted
  BY SMTT(20) DEF FetchInit, FetchedIsAccounted
<1> QED
  BY <1>1, FetchTypeCorrect, AccountedStep, PTL DEF FetchSpec

-----------------------------------------------------------------------------
(***************************************************************************)
(* Polls that do not overlap.  What has been handed out is marked, and the *)
(* id being fetched is not: between the two critical sections in which     *)
(* PollMessages looks at the mark and sets it, nobody else sets it.        *)
(***************************************************************************)
SinglePoller == \A p, q \in Pollers : p = q

MarkInv ==
    /\ Settled \subseteq fetched
    /\ \A p \in Pollers : InHand(p) \subseteq fetched
    /\ \A p \in Pollers : pc[p] = "fetch" => cur[p] \notin fetched

OnceInv == MarkInv /\ OncePerLife

LEMMA OnceStep ==
  ASSUME SinglePoller, FetchTypeOK, OnceInv, [FetchNext]_fetchVars
  PROVE  OnceInv'
<1>0. /\ pc \in [Pollers -> {"idle", "list", "pick", "fetch", "answer"}]
      /\ cur \in [Pollers -> Ids \cup {NoId}]
      /\ hand \in [Pollers -> SUBSET Ids] /\ out \in [Pollers -> SUBSET Ids]
      /\ fetched \subseteq Ids
      /\ \A p \in Pollers : pc[p] = "fetch" <=> cur[p] # NoId
  BY Zenon DEF FetchTypeOK
<1> USE <1>0 DEF SinglePoller, OnceInv, MarkInv, OncePerLife, Settled, InHand
<1>1. ASSUME NEW p \in Pollers, StartPoll(p) PROVE OnceInv'
  <2>1. /\ pc' = [pc EXCEPT ![p] = "list"] /\ cur' = cur
        /\ fetched' = fetched /\ hand' = hand /\ out' = out
        /\ returned' = returned /\ dropped' = dropped /\ lost' = lost
    BY <1>1, Zenon DEF StartPoll, results, fates
  <2> QED
    BY <2>1, SMTT(30)
<1>2. ASSUME NEW p \in Pollers, EngineReturns(p) PROVE OnceInv'
  <2>1. /\ pc' = [pc EXCEPT ![p] = "answer"] /\ cur' = cur
        /\ fetched' = fetched /\ hand' = hand /\ out' = out
        /\ returned' = returned /\ dropped' = dropped /\ lost' = lost
    BY <1>2, Zenon DEF EngineReturns, results, fates
  <2> QED
    BY <2>1, SMTT(30)
<1>3. ASSUME NEW p \in Pollers, Respond(p) PROVE OnceInv'
  BY <1>3, SMTT(30) DEF Respond
<1>4. ASSUME NEW p \in Pollers, NEW r \in PolledRelays, ListRelay(p, r) PROVE OnceInv'
  <2>1. /\ pc' = [pc EXCEPT ![p] = IF toList[p] = {r} THEN "pick" ELSE "list"] /\ cur' = cur
        /\ fetched' = fetched /\ hand' = hand /\ out' = out
        /\ returned' = returned /\ dropped' = dropped /\ lost' = lost
    BY <1>4, Zenon DEF ListRelay, results, fates
  <2> QED
    BY <2>1, SMTT(30)
<1>5. ASSUME NEW p \in Pollers, NEW r \in PolledRelays, TryRelay(p, r) PROVE OnceInv'
  BY <1>5, Zenon DEF TryRelay
<1>6. ASSUME NEW p \in Pollers, NEW i \in Ids, Skip(p, i) PROVE OnceInv'
  BY <1>6, Zenon DEF Skip
<1>7. ASSUME NEW p \in Pollers, NEW i \in Ids, Pick(p, i) PROVE OnceInv'
  <2>1. /\ pc' = [pc EXCEPT ![p] = "fetch"] /\ cur' = [cur EXCEPT ![p] = i] /\ i \notin fetched
        /\ fetched' = fetched /\ hand' = hand /\ out' = out
        /\ returned' = returned /\ dropped' = dropped /\ lost' = lost
    BY <1>7, Zenon DEF Pick, results, fates
  <2> QED
    BY <2>1, SMTT(30)
<1>8. ASSUME NEW p \in Pollers, NEW i \in Ids, Decrypt(p, i) PROVE OnceInv'
  BY <1>8 DEF Decrypt
<1>9. ASSUME NEW p \in Pollers, QueryChunk(p) PROVE OnceInv'
  BY <1>9, Zenon DEF QueryChunk
<1>10. ASSUME NEW p \in Pollers, QueryFails(p) PROVE OnceInv'
  BY <1>10, Zenon DEF QueryFails
<1>11. ASSUME NEW p \in Pollers, FetchFails(p) PROVE OnceInv'
  <2>1. /\ pc' = [pc EXCEPT ![p] = "pick"] /\ cur' = [cur EXCEPT ![p] = NoId]
        /\ fetched' = fetched /\ hand' = hand /\ out' = out
        /\ returned' = returned /\ dropped' = dropped /\ lost' = lost
    BY <1>11, Zenon DEF FetchFails, results, fates
  <2> QED
    BY <2>1, SMTT(30)
<1>12. ASSUME NEW p \in Pollers, FetchSucceeds(p) PROVE OnceInv'
  <2>1. /\ pc[p] = "fetch" /\ fetched' = fetched \cup {cur[p]}
        /\ hand' = [hand EXCEPT ![p] = @ \cup {cur[p]}] /\ out' = out
        /\ pc' = [pc EXCEPT ![p] = "pick"] /\ cur' = [cur EXCEPT ![p] = NoId]
        /\ returned' = returned /\ dropped' = dropped /\ lost' = lost
    BY <1>12, Zenon DEF FetchSucceeds, Mark, fates
  <2> QED
    BY <2>1, SMTT(30)
<1>13. ASSUME NEW p \in Pollers, NEW S \in SUBSET Ids, LoseAnswer(p, S) PROVE OnceInv'
  BY <1>13 DEF LoseAnswer
<1>14. ASSUME NEW r \in PolledRelays, NEW S \in SUBSET Ids, RelayForgets(r, S) PROVE OnceInv'
  BY <1>14, Zenon DEF RelayForgets
<1>15. ASSUME NEW s \in Senders, AddPeer(s) PROVE OnceInv'
  BY <1>15, Zenon DEF AddPeer
<1>16. ASSUME NEW s \in Senders, RemovePeer(s) PROVE OnceInv'
  BY <1>16, Zenon DEF RemovePeer
<1>17. CASE Restart
  BY <1>17, Zenon DEF Restart
<1>18. ASSUME NEW i \in Ids, NEW c \in Chunk, NEW r \in PolledRelays, RelayReceives(i, c, r) PROVE OnceInv'
  BY <1>18, Zenon DEF RelayReceives
<1>19. CASE UNCHANGED fetchVars
  BY <1>19, Zenon DEF fetchVars
<1> QED
  BY <1>1, <1>2, <1>3, <1>4, <1>5, <1>6, <1>7, <1>8, <1>9, <1>10, <1>11, <1>12, <1>13, <1>14, <1>15, <1>16, <1>17, <1>18, <1>19, Zenon DEF FetchNext, ReceiverNext, PollStep

\* A running daemon hands a message out at most once if polls do not overlap,
\* as in the app's poll loop.
THEOREM OncePerLifeAlways == ASSUME SinglePoller PROVE FetchSpec => []OncePerLife
<1>1. FetchInit => OnceInv
  BY Zenon DEF FetchInit, OnceInv, MarkInv, OncePerLife, Settled, InHand
<1>2. FetchTypeOK /\ OnceInv /\ [FetchNext]_fetchVars => OnceInv'
  BY OnceStep, Zenon
<1>3. OnceInv => OncePerLife
  BY Zenon DEF OnceInv
<1> QED
  BY <1>1, <1>2, <1>3, FetchTypeCorrect, PTL DEF FetchSpec
=============================================================================
