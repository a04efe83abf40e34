--------------------------- MODULE TransferProofs ---------------------------
(***************************************************************************)
(* Proofs about the two transfers of a client: a message in parallel       *)
(* chunks, and a file.                                                     *)
(*                                                                         *)
(* SendParallel, for any message, relays, number of slots, deadline and    *)
(* exchange timeout.                                                       *)
(*                                                                         *)
(* Media, for any number of transfers, relays and overlapping polls, and   *)
(* any number of restarts, failures and changes of the lists.  The two     *)
(* sides share nothing but what the relays hold, so the inductive          *)
(* invariant has two parts: one on where the handler of a transfer is, one *)
(* on how far the polls of the recipient have come with its two files.     *)
(***************************************************************************)
EXTENDS SendParallel, Media, FiniteSetTheorems, TLAPS

-----------------------------------------------------------------------------
(***************************************************************************)
(* Files.                                                                  *)
(***************************************************************************)
\* No relay is chosen before the upload, the relay has the file before the
\* metadata are sent, and only a handler that has returned says how it ended.
SenderInv ==
    \A t \in Transfers :
        /\ pc[t] = "new" => status[t] = "none"
        /\ pc[t] \in {"new", "receive", "relay"} => target[t] = NoRelay
        /\ pc[t] = "meta" => <<t, target[t]>> \in stored
        /\ status[t] \in {"complete", "failed"} => pc[t] = "done"
        /\ status[t] = "complete" => <<t, target[t]>> \in stored
        /\ status[t] = "complete" /\ kind[t] = "call" => mail[t] \in {"framed", "scattered", "expired"}
        /\ pc[t] = "done" /\ target[t] # NoRelay => status[t] \in Terminal \cup {"none"}

\* A poll that the engine has handed a message to.
Active(p) == at[p] \notin {"idle", "fetching"}

\* What a poll knows.  As long as the message has not been handed out again, the
\* sidecar is as the poll has left it, and nobody has made the body before it.
PollOK(p) ==
    /\ at[p] \in {"idle", "fetching", "fetched"} <=> got[p] = "none"
    /\ Active(p) => item[p] \in handed
    /\ got[p] = "complete" => size[item[p]] # "empty"
    /\ got[p] = "failed" => item[p] \in missed \/ size[item[p]] = "empty"
    /\ item[p] \notin again =>
          /\ at[p] \in {"fetched", "open", "sidecar", "written"} => body[item[p]] = "none"
          /\ at[p] = "sidecar" => meta[item[p]] = "torn"
          /\ at[p] \in {"written", "body"} /\ item[p] \notin unwritten
                => meta[item[p]] \in {"complete", "failed"}

\* A message handed out once is in the hands of one poll at most.
Alone ==
    \A p, q \in Pollers :
        Active(p) /\ Active(q) /\ item[p] = item[q] /\ item[p] \notin again => p = q

\* Some poll is writing the file, or after a restart it will be fetched again.
Held(t) ==
    \/ \E p \in Pollers : item[p] = t /\ at[p] = "body"
    \/ restarts["recipient"] > 0 /\ Pending(t)

\* What the two files and the chat are like.
FileOK(t) ==
    /\ t \notin handed => body[t] = "none"
    /\ meta[t] = "complete" \/ chat[t] = "file" => size[t] # "empty"
    /\ body[t] = "empty" => t \in missed \/ size[t] = "empty"
    /\ body[t] = "torn" => t \in missed \/ t \in unwritten \/ Held(t)
    /\ chat[t] = "file" => body[t] # "none"
    /\ t \notin again /\ t \notin unwritten =>
          /\ body[t] # "none" => meta[t] \in {"complete", "failed"}
          /\ chat[t] # "unknown"

PollsInv == \A p \in Pollers : PollOK(p)
FilesInv == \A t \in Transfers : FileOK(t)
RecipientInv == PollsInv /\ Alone /\ FilesInv

Inv == MediaTypeOK /\ SenderInv /\ RecipientInv

\* The part of the type invariant that the steps of a handler are about, that of
\* the polls, and the rest.
CallOK ==
    /\ kind \in [Transfers -> {"call", "stream"}]
    /\ status \in [Transfers -> {"none", "queued", "sending"} \cup Terminal]
    /\ row \in [Transfers -> {"none", "queued", "confirming", "complete", "failed"}]
    /\ pc \in [Transfers -> {"new", "receive", "relay", "upload", "meta", "done"}]
    /\ answer \in [Transfers -> {"none", "ok", "error"}]
    /\ target \in [Transfers -> MediaRelays \cup {NoRelay}]
    /\ stored \subseteq Transfers \X MediaRelays
    /\ gone \subseteq stored
    /\ mail \in [Transfers -> Mails]
    /\ \A t \in Transfers : pc[t] \in {"upload", "meta"} => target[t] # NoRelay
    /\ \A t \in Transfers : kind[t] = "call" => row[t] = "none"

FilesOK ==
    /\ taken \subseteq Transfers
    /\ at \in [Pollers -> {"idle", "fetching", "fetched", "open", "sidecar", "written", "body"}]
    /\ item \in [Pollers -> Transfers]
    /\ got \in [Pollers -> {"none", "complete", "failed"}]
    /\ meta \in [Transfers -> {"none", "torn", "complete", "failed"}]
    /\ body \in [Transfers -> {"none", "torn", "empty", "full"}]
    /\ chat \in [Transfers -> {"none", "file", "failed", "unknown"}]
    /\ again \subseteq handed /\ handed \subseteq Transfers
    /\ missed \subseteq Transfers /\ unwritten \subseteq Transfers

FrameOK ==
    /\ named \in [Transfers -> BOOLEAN] /\ size \in [Transfers -> Sizes]
    /\ old \subseteq Transfers
    /\ first \in [Sides -> MediaRelays \cup {NoRelay}]
    /\ knows \in BOOLEAN
    /\ focus \subseteq Sides
    /\ changes \in Nat /\ failures \in Nat
    /\ restarts \in [Sides -> Nat]

-----------------------------------------------------------------------------
\* The type invariant is its three parts, before a step and after it.
LEMMA TypeParts ==
  /\ MediaTypeOK <=> CallOK /\ FilesOK /\ FrameOK
  /\ MediaTypeOK' <=> CallOK' /\ FilesOK' /\ FrameOK'
<1>1. MediaTypeOK <=> CallOK /\ FilesOK /\ FrameOK
  BY Zenon DEF MediaTypeOK, CallOK, FilesOK, FrameOK
<1>2. MediaTypeOK' <=> CallOK' /\ FilesOK' /\ FrameOK'
  BY Zenon DEF MediaTypeOK, CallOK, FilesOK, FrameOK
<1> QED
  BY <1>1, <1>2, Zenon

\* A step that leaves alone what the two latter parts are about preserves them.
LEMMA FrameKept ==
  ASSUME MediaTypeOK, UNCHANGED <<request, old, lists, files, chat, counts, restarts>>
  PROVE  FilesOK' /\ FrameOK'
BY TypeParts, Zenon DEF FilesOK, FrameOK, request, lists, files, polls, history, counts

\* The initial states satisfy the invariant.
LEMMA InitInv == MediaInit => Inv
<1> SUFFICES ASSUME MediaInit PROVE Inv
  BY Zenon
<1>1. MediaTypeOK
  BY MediaAssumption, Zenon DEF MediaInit, MediaTypeOK, Mails, Sides, Terminal
<1>2. SenderInv
  BY Zenon DEF MediaInit, SenderInv, Terminal
<1>3. RecipientInv
  BY Zenon DEF MediaInit, RecipientInv, PollsInv, FilesInv, PollOK, FileOK, Alone, Active
<1> QED
  BY <1>1, <1>2, <1>3, Zenon DEF Inv

\* A restart of the sender is not counted as one of the recipient.
LEMMA RestartCount ==
  ASSUME restarts \in [Sides -> Nat], RestartSender
  PROVE  restarts' \in [Sides -> Nat] /\ restarts'["recipient"] = restarts["recipient"]
<1>1. restarts' = [restarts EXCEPT !["sender"] = @ + 1]
  BY Zenon DEF RestartSender
<1> QED
  BY <1>1, SMT DEF Sides

\* A stream that comes in, and a call that begins.
LEMMA BeginInv ==
  ASSUME MediaTypeOK, SenderInv, NEW t \in Transfers,
         SendMedia(t) \/ StreamHeader(t) \/ StreamChunk(t) \/ StreamTooLong(t)
         \/ StreamBreaks(t) \/ StreamEnds(t)
  PROVE  MediaTypeOK' /\ SenderInv'
<1>1. CallOK /\ FrameOK
  BY TypeParts, Zenon
<1>2. FilesOK' /\ FrameOK'
  BY FrameKept, Zenon DEF SendMedia, StreamHeader, StreamChunk, StreamTooLong, StreamBreaks, StreamEnds
<1>3. CallOK'
  <2> USE <1>1 DEF CallOK, Terminal, SetStatus, SetRow, Goto, Return, Fail, FailUnmarked, request, relay
  <2>1. CASE SendMedia(t)
    BY <2>1, SMTT(30) DEF SendMedia
  <2>2. CASE StreamHeader(t)
    BY <2>2, SMTT(30) DEF StreamHeader
  <2>3. CASE StreamChunk(t)
    BY <2>3, SMTT(30) DEF StreamChunk
  <2>4. CASE StreamBreaks(t)
    BY <2>4, SMTT(30) DEF StreamBreaks
  <2>5. CASE StreamEnds(t)
    BY <2>5, SMT DEF StreamEnds
  <2>6. CASE StreamTooLong(t)
    BY <2>6, SMT DEF StreamTooLong
  <2> QED
    BY <2>1, <2>2, <2>3, <2>4, <2>5, <2>6, Zenon
<1>4. SenderInv'
  <2> USE <1>1 DEF CallOK, SenderInv, Terminal, SetStatus, Goto, Return, Fail, FailUnmarked, request, relay
  <2>1. CASE SendMedia(t)
    BY <2>1, SMTT(30) DEF SendMedia
  <2>2. CASE StreamHeader(t)
    BY <2>2, SMTT(30) DEF StreamHeader
  <2>3. CASE StreamChunk(t)
    BY <2>3, SMTT(30) DEF StreamChunk
  <2>4. CASE StreamBreaks(t)
    BY <2>4, SMTT(30) DEF StreamBreaks
  <2>5. CASE StreamEnds(t)
    BY <2>5, SMT DEF StreamEnds
  <2>6. CASE StreamTooLong(t)
    BY <2>6, SMT DEF StreamTooLong
  <2> QED
    BY <2>1, <2>2, <2>3, <2>4, <2>5, <2>6, Zenon
<1> QED
  BY <1>2, <1>3, <1>4, TypeParts, Zenon

\* The upload: a relay, the file on it, then the metadata.
LEMMA UploadInv ==
  ASSUME MediaTypeOK, SenderInv, NEW t \in Transfers,
         SendRelay(t) \/ StreamRelay(t) \/ Upload(t) \/ UploadFails(t)
  PROVE  MediaTypeOK' /\ SenderInv'
<1>1. CallOK /\ FrameOK
  BY TypeParts, Zenon
<1>2. FilesOK' /\ FrameOK'
  BY FrameKept, Zenon DEF SendRelay, StreamRelay, Upload, UploadFails
<1>3. CallOK'
  <2> USE <1>1 DEF CallOK, Terminal, SetStatus, SetRow, Goto, Return, Fail, ChooseRelay, RelayUpload, request, relay
  <2>1. CASE SendRelay(t)
    <3>1. CASE first["sender"] = NoRelay
      <4>1. Fail(t) /\ UNCHANGED <<kind, target, stored, gone, mail>>
        BY <2>1, <3>1, Zenon DEF SendRelay
      <4> QED
        BY <4>1, SMT
    <3>2. CASE first["sender"] # NoRelay
      <4>1. /\ pc[t] = "relay" /\ ChooseRelay(t) /\ SetStatus(t, "sending")
            /\ UNCHANGED <<kind, row, answer, stored, gone, mail>>
        BY <2>1, <3>2, Zenon DEF SendRelay
      <4>2. first["sender"] \in MediaRelays
        BY <3>2, Zenon DEF FrameOK, Sides
      <4> QED
        BY <3>2, <4>1, <4>2, SMTT(30)
    <3> QED
      BY <3>1, <3>2, Zenon
  <2>2. CASE StreamRelay(t)
    <3>1. CASE first["sender"] = NoRelay
      <4>1. Fail(t) /\ UNCHANGED <<kind, target, stored, gone, mail>>
        BY <2>2, <3>1, Zenon DEF StreamRelay
      <4> QED
        BY <4>1, SMT
    <3>2. CASE first["sender"] # NoRelay
      <4>1. /\ pc[t] = "relay" /\ ChooseRelay(t) /\ status' = status
            /\ UNCHANGED <<kind, row, answer, stored, gone, mail>>
        BY <2>2, <3>2, Zenon DEF StreamRelay
      <4>2. first["sender"] \in MediaRelays
        BY <3>2, Zenon DEF FrameOK, Sides
      <4> QED
        BY <3>2, <4>1, <4>2, SMTT(30)
    <3> QED
      BY <3>1, <3>2, Zenon
  <2>3. CASE Upload(t)
    BY <2>3, SMTT(30) DEF Upload
  <2>4. CASE UploadFails(t)
    BY <2>4, SMT DEF UploadFails
  <2> QED
    BY <2>1, <2>2, <2>3, <2>4, Zenon
<1>4. SenderInv'
  <2> USE <1>1 DEF CallOK, SenderInv, Terminal, SetStatus, Goto, Return, Fail, ChooseRelay, RelayUpload, request, relay
  <2>1. CASE SendRelay(t)
    <3>1. CASE first["sender"] = NoRelay
      <4>1. Fail(t) /\ UNCHANGED <<kind, target, stored, gone, mail>>
        BY <2>1, <3>1, Zenon DEF SendRelay
      <4> QED
        BY <4>1, SMT
    <3>2. CASE first["sender"] # NoRelay
      <4>1. /\ pc[t] = "relay" /\ ChooseRelay(t) /\ SetStatus(t, "sending")
            /\ UNCHANGED <<kind, row, answer, stored, gone, mail>>
        BY <2>1, <3>2, Zenon DEF SendRelay
      <4>2. first["sender"] \in MediaRelays
        BY <3>2, ZenonT(30) DEF FrameOK, Sides
      <4> QED
        BY <3>2, <4>1, <4>2, SMT
    <3> QED
      BY <3>1, <3>2, Zenon
  <2>2. CASE StreamRelay(t)
    <3>1. CASE first["sender"] = NoRelay
      <4>1. Fail(t) /\ UNCHANGED <<kind, target, stored, gone, mail>>
        BY <2>2, <3>1, Zenon DEF StreamRelay
      <4> QED
        BY <4>1, SMT
    <3>2. CASE first["sender"] # NoRelay
      <4>1. /\ pc[t] = "relay" /\ ChooseRelay(t) /\ status' = status
            /\ UNCHANGED <<kind, row, answer, stored, gone, mail>>
        BY <2>2, <3>2, Zenon DEF StreamRelay
      <4>2. first["sender"] \in MediaRelays
        BY <3>2, Zenon DEF FrameOK, Sides
      <4> QED
        BY <3>2, <4>1, <4>2, SMT
    <3> QED
      BY <3>1, <3>2, Zenon
  <2>3. CASE Upload(t)
    BY <2>3, SMTT(30) DEF Upload
  <2>4. CASE UploadFails(t)
    BY <2>4, SMTT(30) DEF UploadFails
  <2> QED
    BY <2>1, <2>2, <2>3, <2>4, Zenon
<1> QED
  BY <1>2, <1>3, <1>4, TypeParts, Zenon

\* The metadata: the handler returns.
LEMMA MetaInv ==
  ASSUME MediaTypeOK, SenderInv, NEW t \in Transfers,
         SendMeta(t) \/ SendMetaFails(t) \/ StreamMeta(t) \/ StreamMetaFails(t)
  PROVE  MediaTypeOK' /\ SenderInv'
<1>1. CallOK /\ FrameOK
  BY TypeParts, Zenon
<1>2. FilesOK' /\ FrameOK'
  BY FrameKept, Zenon DEF SendMeta, SendMetaFails, StreamMeta, StreamMetaFails
<1>3. CallOK'
  <2> USE <1>1 DEF CallOK, Mails, Fetchable, Terminal, SetStatus, SetRow, Goto, Return, Fail, request, relay
  <2>1. CASE SendMeta(t)
    BY <2>1, SMTT(30) DEF SendMeta
  <2>2. CASE SendMetaFails(t)
    BY <2>2, SMTT(30) DEF SendMetaFails
  <2>3. CASE StreamMeta(t)
    BY <2>3, SMTT(30) DEF StreamMeta
  <2>4. CASE StreamMetaFails(t)
    BY <2>4, SMTT(30) DEF StreamMetaFails
  <2> QED
    BY <2>1, <2>2, <2>3, <2>4, Zenon
<1>4. SenderInv'
  <2> USE <1>1 DEF CallOK, SenderInv, Terminal, SetStatus, Goto, Return, Fail, request, relay
  <2>1. CASE SendMeta(t)
    <3>1. PICK m \in {"framed", "scattered"} : mail' = [mail EXCEPT ![t] = m]
      BY <2>1, Zenon DEF SendMeta
    <3>2. /\ pc[t] = "meta" /\ kind[t] = "call" /\ SetStatus(t, "complete") /\ Goto(t, "done")
          /\ UNCHANGED <<kind, target, stored>>
      BY <2>1, Zenon DEF SendMeta
    <3> QED
      BY <3>1, <3>2, SMTT(30)
  <2>2. CASE SendMetaFails(t)
    <3>1. PICK m \in {"none", "framed", "scattered"} : mail' = [mail EXCEPT ![t] = m]
      BY <2>2, Zenon DEF SendMetaFails
    <3>2. /\ pc[t] = "meta" /\ kind[t] = "call" /\ SetStatus(t, "failed") /\ Goto(t, "done")
          /\ UNCHANGED <<kind, target, stored>>
      BY <2>2, Zenon DEF SendMetaFails
    <3> QED
      BY <3>1, <3>2, SMTT(30)
  <2>3. CASE StreamMeta(t)
    BY <2>3, SMTT(30) DEF StreamMeta
  <2>4. CASE StreamMetaFails(t)
    BY <2>4, SMTT(30) DEF StreamMetaFails
  <2> QED
    BY <2>1, <2>2, <2>3, <2>4, Zenon
<1> QED
  BY <1>2, <1>3, <1>4, TypeParts, Zenon

\* What happens to a transfer from outside its handler, at the sender and on
\* the relays.
LEMMA AroundInv ==
  ASSUME MediaTypeOK, SenderInv,
         \/ \E t \in Transfers : CancelSend(t) \/ GetsOld(t) \/ CleanUp(t)
         \/ \E t \in Transfers, r \in MediaRelays : RelayRemoves(t, r)
         \/ \E t \in Transfers : MailExpires(t)
         \/ ChangeContact
         \/ \E s \in Sides, r \in MediaRelays \cup {NoRelay} : ChangeRelay(s, r)
         \/ RestartSender
  PROVE  MediaTypeOK' /\ SenderInv'
<1>0. CallOK /\ FilesOK /\ FrameOK
  BY TypeParts, Zenon
<1>b. FilesOK'
  <2>1. UNCHANGED <<files, chat>>
    BY Zenon DEF CancelSend, GetsOld, CleanUp, RelayRemoves, MailExpires, ChangeContact, ChangeRelay,
             RestartSender
  <2> QED
    BY <1>0, <2>1, Zenon DEF FilesOK, files, polls, history
<1> SUFFICES CallOK' /\ FrameOK' /\ SenderInv'
  BY <1>b, TypeParts, Zenon
<1>a. ASSUME UNCHANGED <<kind, status, row, pc, answer, target, stored, gone, mail>>
      PROVE  CallOK' /\ SenderInv'
  BY <1>0, <1>a, Zenon DEF CallOK, SenderInv
<1>1. ASSUME NEW t \in Transfers, CancelSend(t)
      PROVE  CallOK' /\ FrameOK' /\ SenderInv'
  <2>1. FrameOK'
    BY <1>1, FrameKept, Zenon DEF CancelSend
  <2>2. /\ status[t] \notin {"none", "complete", "failed"}
        /\ status' = [status EXCEPT ![t] = "cancelled"]
        /\ UNCHANGED <<kind, row, pc, answer, target, stored, gone, mail>>
    BY <1>1, Zenon DEF CancelSend, request, relay
  <2> QED
    BY <1>0, <2>1, <2>2, SMT DEF CallOK, SenderInv, Terminal
<1>2. ASSUME NEW t \in Transfers, GetsOld(t)
      PROVE  CallOK' /\ FrameOK' /\ SenderInv'
  <2>1. CallOK' /\ SenderInv'
    BY <1>2, <1>a, Zenon DEF GetsOld, request, call, relay
  <2>2. FrameOK'
    BY <1>0, <1>2, Zenon DEF FrameOK, GetsOld, request, lists, counts
  <2> QED
    BY <2>1, <2>2, Zenon
<1>3. ASSUME NEW t \in Transfers, CleanUp(t)
      PROVE  CallOK' /\ FrameOK' /\ SenderInv'
  <2>1. FrameOK'
    BY <1>3, FrameKept, Zenon DEF CleanUp
  <2>2. /\ status' = [status EXCEPT ![t] = "none"]
        /\ UNCHANGED <<kind, row, pc, answer, target, stored, gone, mail>>
    BY <1>3, Zenon DEF CleanUp, request, relay
  <2> QED
    BY <1>0, <2>1, <2>2, SMT DEF CallOK, SenderInv, Terminal
<1>4. ASSUME NEW t \in Transfers, NEW r \in MediaRelays, RelayRemoves(t, r)
      PROVE  CallOK' /\ FrameOK' /\ SenderInv'
  <2>1. FrameOK'
    BY <1>4, FrameKept, Zenon DEF RelayRemoves
  <2>2. CallOK'
    BY <1>0, <1>4, Zenon DEF CallOK, RelayRemoves, request, call
  <2>3. SenderInv'
    BY <1>4, Zenon DEF SenderInv, RelayRemoves, request, call
  <2> QED
    BY <2>1, <2>2, <2>3, Zenon
<1>5. ASSUME NEW s \in Sides, NEW r \in MediaRelays \cup {NoRelay}, ChangeRelay(s, r)
      PROVE  CallOK' /\ FrameOK' /\ SenderInv'
  <2>1. CallOK' /\ SenderInv'
    BY <1>5, <1>a, Zenon DEF ChangeRelay, request, call, relay
  <2>2. changes' \in Nat
    BY <1>0, <1>5 DEF FrameOK, ChangeRelay
  <2>3. FrameOK'
    BY <1>0, <1>5, <2>2, Zenon DEF FrameOK, ChangeRelay, request
  <2> QED
    BY <2>1, <2>3, Zenon
<1>6. CASE RestartSender
  <2>1. restarts' \in [Sides -> Nat]
    BY <1>0, <1>6, RestartCount, Zenon DEF FrameOK
  <2>2. FrameOK'
    BY <1>0, <1>6, <2>1, Zenon DEF FrameOK, RestartSender, request, lists, counts
  <2>3. /\ status' \in [Transfers -> {"none", "queued", "sending"} \cup Terminal]
        /\ pc' \in [Transfers -> {"new", "receive", "relay", "upload", "meta", "done"}]
        /\ answer' \in [Transfers -> {"none", "ok", "error"}]
    BY <1>0, <1>6 DEF CallOK, RestartSender
  <2>4. \A t \in Transfers : pc'[t] \in {"new", "done"} /\ status'[t] = "none"
                            /\ (pc'[t] = "new" => pc[t] = "new")
    BY <1>6, Zenon DEF RestartSender
  <2>5. CallOK'
    BY <1>0, <1>6, <2>3, <2>4, Zenon DEF CallOK, RestartSender, request, relay
  <2>6. SenderInv'
    BY <1>6, <2>4, Zenon DEF SenderInv, RestartSender, relay, request
  <2> QED
    BY <2>2, <2>5, <2>6, Zenon
<1>7. ASSUME NEW t \in Transfers, MailExpires(t)
      PROVE  CallOK' /\ FrameOK' /\ SenderInv'
  <2>1. FrameOK'
    BY <1>7, FrameKept, Zenon DEF MailExpires
  <2>2. /\ mail[t] = "framed" /\ mail' = [mail EXCEPT ![t] = "expired"]
        /\ UNCHANGED <<kind, status, row, pc, answer, target, stored, gone>>
    BY <1>7, Zenon DEF MailExpires, request, call, relay
  <2> QED
    BY <1>0, <2>1, <2>2, SMT DEF CallOK, SenderInv, Mails
<1>8. CASE ChangeContact
  <2>1. CallOK' /\ SenderInv'
    BY <1>8, <1>a, Zenon DEF ChangeContact, request, call, relay
  <2>2. changes' \in Nat
    BY <1>0, <1>8 DEF FrameOK, ChangeContact
  <2>3. FrameOK'
    BY <1>0, <1>8, <2>2, Zenon DEF FrameOK, ChangeContact, request
  <2> QED
    BY <2>1, <2>3, Zenon
<1> QED
  BY <1>1, <1>2, <1>3, <1>4, <1>5, <1>6, <1>7, <1>8, Zenon

\* The poll's steps change nothing of the sender's.
LEMMA PollFrame ==
  ASSUME MediaTypeOK, SenderInv,
         \/ \E p \in Pollers : Poll(p) \/ WriteFails(p)
         \/ \E t \in Transfers : Scan(t)
  PROVE  CallOK' /\ FrameOK' /\ SenderInv'
<1>1. UNCHANGED <<request, call, old, lists, relay, mail, changes, restarts>>
  BY Zenon DEF Poll, WriteFails, Scan, Look, Take, FetchFails, Drop, Download, DownloadFails, OpenMeta,
           WriteMeta, OpenBody, WriteBody, counts
<1>2. failures' = failures \/ failures' = failures + 1
  BY Zenon DEF Poll, WriteFails, Scan, Look, Take, FetchFails, Drop, Download, DownloadFails, OpenMeta,
           WriteMeta, OpenBody, WriteBody, counts
<1>3. CallOK /\ FrameOK
  BY TypeParts, Zenon
<1>4. failures' \in Nat
  BY <1>2, <1>3 DEF FrameOK
<1> QED
  BY <1>1, <1>3, <1>4, Zenon DEF CallOK, FrameOK, SenderInv, request, call, relay, lists

\* What the steps of a poll do to the recipient's part of the invariant.
LEMMA PollStep ==
  ASSUME FilesOK, RecipientInv, NEW p \in Pollers, Poll(p) \/ WriteFails(p)
  PROVE  FilesOK' /\ RecipientInv'
<1>0. UNCHANGED <<size, restarts>>
  BY Zenon DEF Poll, WriteFails, Look, Take, FetchFails, Drop, Download, DownloadFails, OpenMeta,
           WriteMeta, OpenBody, WriteBody, request
<1> USE <1>0 DEF RecipientInv
<1>1. ASSUME NEW t \in Transfers, Look(p, t)
      PROVE  FilesOK' /\ RecipientInv'
  <2>1. /\ at[p] = "idle" /\ at' = [at EXCEPT ![p] = "fetching"]
        /\ item' = [item EXCEPT ![p] = t]
        /\ UNCHANGED <<taken, got, meta, body, handed, again, missed, unwritten, chat>>
    BY <1>1, Zenon DEF Look, history
  <2>2. FilesOK'
    BY <2>1, SMT DEF FilesOK, PollsInv, PollOK
  <2>3. PollsInv'
    BY <2>1, SMT DEF FilesOK, PollsInv, PollOK, FilesInv, FileOK, Alone, Active
  <2>4. Alone'
    BY <2>1, SMT DEF FilesOK, PollsInv, PollOK, Alone, Active
  <2>5. FilesInv'
    BY <2>1, SMT DEF FilesOK, PollsInv, PollOK, FilesInv, FileOK, Alone, Active, Held, Pending
  <2> QED
    BY <2>2, <2>3, <2>4, <2>5, Zenon
<1>2. ASSUME Take(p)
      PROVE  FilesOK' /\ RecipientInv'
  <2>1. /\ at[p] = "fetching" /\ at' = [at EXCEPT ![p] = "fetched"]
        /\ taken' = taken \cup {item[p]} /\ handed' = handed \cup {item[p]}
        /\ again' = again \cup (handed \cap {item[p]})
        /\ UNCHANGED <<item, got, meta, body, missed, unwritten, chat>>
    BY <1>2, Zenon DEF Take, history
  <2>2. FilesOK'
    BY <2>1, SMT DEF FilesOK, PollsInv, PollOK
  <2>3. PollsInv'
    BY <2>1, SMT DEF FilesOK, PollsInv, PollOK, FilesInv, FileOK, Alone, Active
  <2>4. Alone'
    BY <2>1, SMT DEF FilesOK, PollsInv, PollOK, Alone, Active
  <2>5. FilesInv'
    BY <2>1, SMT DEF FilesOK, PollsInv, PollOK, FilesInv, FileOK, Alone, Active, Held, Pending
  <2> QED
    BY <2>2, <2>3, <2>4, <2>5, Zenon
<1>3. ASSUME FetchFails(p)
      PROVE  FilesOK' /\ RecipientInv'
  <2>1. /\ at[p] = "fetching" /\ at' = [at EXCEPT ![p] = "idle"]
        /\ got' = [got EXCEPT ![p] = "none"]
        /\ UNCHANGED <<taken, item, meta, body, handed, again, missed, unwritten, chat>>
    BY <1>3, Zenon DEF FetchFails, Done, history
  <2>2. FilesOK'
    BY <2>1, SMT DEF FilesOK, PollsInv, PollOK
  <2>3. PollsInv'
    BY <2>1, SMT DEF FilesOK, PollsInv, PollOK, FilesInv, FileOK, Alone, Active
  <2>4. Alone'
    BY <2>1, SMT DEF FilesOK, PollsInv, PollOK, Alone, Active
  <2>5. FilesInv'
    BY <2>1, SMT DEF FilesOK, PollsInv, PollOK, FilesInv, FileOK, Alone, Active, Held, Pending
  <2> QED
    BY <2>2, <2>3, <2>4, <2>5, Zenon
<1>4. ASSUME Drop(p)
      PROVE  FilesOK' /\ RecipientInv'
  <2>1. /\ at[p] = "fetched" /\ at' = [at EXCEPT ![p] = "idle"]
        /\ got' = [got EXCEPT ![p] = "none"] /\ missed' = missed \cup {item[p]}
        /\ UNCHANGED <<taken, item, meta, body, handed, again, unwritten, chat>>
    BY <1>4, Zenon DEF Drop, Done, history
  <2>2. FilesOK'
    BY <2>1, SMT DEF FilesOK, PollsInv, PollOK
  <2>3. PollsInv'
    BY <2>1, SMT DEF FilesOK, PollsInv, PollOK, FilesInv, FileOK, Alone, Active
  <2>4. Alone'
    BY <2>1, SMT DEF FilesOK, PollsInv, PollOK, Alone, Active
  <2>5. FilesInv'
    BY <2>1, SMT DEF FilesOK, PollsInv, PollOK, FilesInv, FileOK, Alone, Active, Held, Pending
  <2> QED
    BY <2>2, <2>3, <2>4, <2>5, Zenon
<1>5. ASSUME Download(p)
      PROVE  FilesOK' /\ RecipientInv'
  <2>1. /\ at[p] = "fetched" /\ at' = [at EXCEPT ![p] = "open"]
        /\ got' = [got EXCEPT ![p] = IF size[item[p]] = "empty" THEN "failed" ELSE "complete"]
        /\ UNCHANGED <<taken, item, meta, body, handed, again, missed, unwritten, chat>>
    BY <1>5, Zenon DEF Download, history
  <2>2. FilesOK'
    BY <2>1, SMT DEF FilesOK, PollsInv, PollOK
  <2>3. PollsInv'
    BY <2>1, SMT DEF FilesOK, PollsInv, PollOK, FilesInv, FileOK, Alone, Active
  <2>4. Alone'
    BY <2>1, SMT DEF FilesOK, PollsInv, PollOK, Alone, Active
  <2>5. FilesInv'
    BY <2>1, SMT DEF FilesOK, PollsInv, PollOK, FilesInv, FileOK, Alone, Active, Held, Pending
  <2> QED
    BY <2>2, <2>3, <2>4, <2>5, Zenon
<1>6. ASSUME DownloadFails(p)
      PROVE  FilesOK' /\ RecipientInv'
  <2>1. /\ at[p] = "fetched" /\ at' = [at EXCEPT ![p] = "open"]
        /\ got' = [got EXCEPT ![p] = "failed"] /\ missed' = missed \cup {item[p]}
        /\ UNCHANGED <<taken, item, meta, body, handed, again, unwritten, chat>>
    BY <1>6, Zenon DEF DownloadFails, history
  <2>2. FilesOK'
    BY <2>1, SMT DEF FilesOK, PollsInv, PollOK
  <2>3. PollsInv'
    BY <2>1, SMT DEF FilesOK, PollsInv, PollOK, FilesInv, FileOK, Alone, Active
  <2>4. Alone'
    BY <2>1, SMT DEF FilesOK, PollsInv, PollOK, Alone, Active
  <2>5. FilesInv'
    BY <2>1, SMT DEF FilesOK, PollsInv, PollOK, FilesInv, FileOK, Alone, Active, Held, Pending
  <2> QED
    BY <2>2, <2>3, <2>4, <2>5, Zenon
<1>7. ASSUME OpenMeta(p)
      PROVE  FilesOK' /\ RecipientInv'
  <2>1. /\ at[p] = "open" /\ at' = [at EXCEPT ![p] = "sidecar"]
        /\ meta' = [meta EXCEPT ![item[p]] = "torn"]
        /\ UNCHANGED <<taken, item, got, body, handed, again, missed, unwritten, chat>>
    BY <1>7, Zenon DEF OpenMeta, history
  <2>2. FilesOK'
    BY <2>1, SMT DEF FilesOK, PollsInv, PollOK
  <2>3. PollsInv'
    BY <2>1, SMT DEF FilesOK, PollsInv, PollOK, FilesInv, FileOK, Alone, Active
  <2>4. Alone'
    BY <2>1, SMT DEF FilesOK, PollsInv, PollOK, Alone, Active
  <2>5. FilesInv'
    BY <2>1, SMT DEF FilesOK, PollsInv, PollOK, FilesInv, FileOK, Alone, Active, Held, Pending
  <2> QED
    BY <2>2, <2>3, <2>4, <2>5, Zenon
<1>8. ASSUME WriteMeta(p)
      PROVE  FilesOK' /\ RecipientInv'
  <2>1. /\ at[p] = "sidecar" /\ at' = [at EXCEPT ![p] = "written"]
        /\ meta' = [meta EXCEPT ![item[p]] = IF @ = "complete" /\ got[p] = "failed"
                                              THEN "torn" ELSE got[p]]
        /\ UNCHANGED <<taken, item, got, body, handed, again, missed, unwritten, chat>>
    BY <1>8, Zenon DEF WriteMeta, history
  <2>2. FilesOK'
    BY <2>1, SMT DEF FilesOK, PollsInv, PollOK
  <2>3. PollsInv'
    BY <2>1, SMT DEF FilesOK, PollsInv, PollOK, FilesInv, FileOK, Alone, Active
  <2>4. Alone'
    BY <2>1, SMT DEF FilesOK, PollsInv, PollOK, Alone, Active
  <2>5. FilesInv'
    BY <2>1, SMT DEF FilesOK, PollsInv, PollOK, FilesInv, FileOK, Alone, Active, Held, Pending
  <2> QED
    BY <2>2, <2>3, <2>4, <2>5, Zenon
<1>9. ASSUME OpenBody(p)
      PROVE  FilesOK' /\ RecipientInv'
  <2>1. /\ at[p] = "written"
        /\ \/ /\ got[p] = "complete" /\ at' = [at EXCEPT ![p] = "body"]
              /\ body' = [body EXCEPT ![item[p]] = "torn"] /\ UNCHANGED got
           \/ /\ got[p] = "failed" /\ at' = [at EXCEPT ![p] = "idle"]
              /\ body' = [body EXCEPT ![item[p]] = "empty"] /\ got' = [got EXCEPT ![p] = "none"]
        /\ UNCHANGED <<taken, item, meta, handed, again, missed, unwritten, chat>>
    BY <1>9, Zenon DEF OpenBody, Done, history
  <2>2. FilesOK'
    BY <2>1, SMT DEF FilesOK, PollsInv, PollOK
  <2>3. PollsInv'
    BY <2>1, SMT DEF FilesOK, PollsInv, PollOK, FilesInv, FileOK, Alone, Active
  <2>4. Alone'
    BY <2>1, SMT DEF FilesOK, PollsInv, PollOK, Alone, Active
  <2>5. FilesInv'
    BY <2>1, SMT DEF FilesOK, PollsInv, PollOK, FilesInv, FileOK, Alone, Active, Held, Pending
  <2> QED
    BY <2>2, <2>3, <2>4, <2>5, Zenon
<1>10. ASSUME WriteBody(p)
      PROVE  FilesOK' /\ RecipientInv'
  <2>1. /\ at[p] = "body" /\ at' = [at EXCEPT ![p] = "idle"]
        /\ got' = [got EXCEPT ![p] = "none"] /\ body' = [body EXCEPT ![item[p]] = "full"]
        /\ UNCHANGED <<taken, item, meta, handed, again, missed, unwritten, chat>>
    BY <1>10, Zenon DEF WriteBody, Done, history
  <2>2. FilesOK'
    BY <2>1, SMT DEF FilesOK, PollsInv, PollOK
  <2>3. PollsInv'
    BY <2>1, SMT DEF FilesOK, PollsInv, PollOK, FilesInv, FileOK, Alone, Active
  <2>4. Alone'
    BY <2>1, SMT DEF FilesOK, PollsInv, PollOK, Alone, Active
  <2>5. FilesInv'
    BY <2>1, SMT DEF FilesOK, PollsInv, PollOK, FilesInv, FileOK, Alone, Active, Held, Pending
  <2> QED
    BY <2>2, <2>3, <2>4, <2>5, Zenon
<1>11. ASSUME WriteFails(p)
      PROVE  FilesOK' /\ RecipientInv'
  <2>1. /\ \/ /\ at[p] \in {"open", "sidecar"} /\ at' = [at EXCEPT ![p] = "written"]
              /\ UNCHANGED got
           \/ /\ at[p] \in {"written", "body"} /\ at' = [at EXCEPT ![p] = "idle"]
              /\ got' = [got EXCEPT ![p] = "none"]
        /\ unwritten' = unwritten \cup {item[p]}
        /\ UNCHANGED <<taken, item, meta, body, handed, again, missed, chat>>
    BY <1>11, Zenon DEF WriteFails, Done, history
  <2>2. FilesOK'
    BY <2>1, SMT DEF FilesOK, PollsInv, PollOK
  <2>3. PollsInv'
    BY <2>1, SMT DEF FilesOK, PollsInv, PollOK, FilesInv, FileOK, Alone, Active
  <2>4. Alone'
    BY <2>1, SMT DEF FilesOK, PollsInv, PollOK, Alone, Active
  <2>5. FilesInv'
    BY <2>1, SMT DEF FilesOK, PollsInv, PollOK, FilesInv, FileOK, Alone, Active, Held, Pending
  <2> QED
    BY <2>2, <2>3, <2>4, <2>5, Zenon
<1> QED
  BY <1>1, <1>2, <1>3, <1>4, <1>5, <1>6, <1>7, <1>8, <1>9, <1>10, <1>11, Zenon DEF Poll

\* The app's scanner.
LEMMA ScanStep ==
  ASSUME FilesOK, RecipientInv, NEW t \in Transfers, Scan(t)
  PROVE  FilesOK' /\ RecipientInv'
<1>1. /\ body[t] # "none" /\ chat[t] = "none"
      /\ \/ meta[t] = "complete" /\ chat' = [chat EXCEPT ![t] = "file"]
         \/ meta[t] # "complete" /\ chat' = [chat EXCEPT ![t] = "failed"]
         \/ meta[t] \notin {"complete", "failed"} /\ chat' = [chat EXCEPT ![t] = "unknown"]
      /\ UNCHANGED <<size, restarts, taken, at, item, got, meta, body, handed, again, missed, unwritten>>
  BY Zenon DEF Scan, request, files, polls, history
<1>2. FilesOK'
  BY <1>1, SMT DEF FilesOK
<1>3. PollsInv' /\ Alone'
  BY <1>1, Zenon DEF RecipientInv, PollsInv, PollOK, Alone, Active
<1>4. FilesInv'
  BY <1>1, SMT DEF FilesOK, RecipientInv, FilesInv, FileOK, Held, Pending
<1> QED
  BY <1>2, <1>3, <1>4, Zenon DEF RecipientInv

\* After a restart no poll has anything, and all will be fetched again.
LEMMA RestartRecipientInv ==
  ASSUME MediaTypeOK, SenderInv, RecipientInv, RestartRecipient
  PROVE  Inv'
<1>1. CallOK /\ FilesOK /\ FrameOK
  BY TypeParts, Zenon
<1>2. restarts' \in [Sides -> Nat] /\ restarts'["recipient"] > 0
  <2>1. restarts \in [Sides -> Nat] /\ restarts' = [restarts EXCEPT !["recipient"] = @ + 1]
    BY <1>1, Zenon DEF FrameOK, RestartRecipient
  <2> QED
    BY <2>1, SMT DEF Sides
<1>3. CallOK'
  BY <1>1, Zenon DEF CallOK, RestartRecipient, request, call, relay
<1>4. FrameOK'
  BY <1>1, <1>2, Zenon DEF FrameOK, RestartRecipient, request, lists, counts
<1>5. SenderInv'
  BY Zenon DEF SenderInv, RestartRecipient, request, call, relay
<1>6. /\ at' = [p \in Pollers |-> "idle"] /\ got' = [p \in Pollers |-> "none"] /\ taken' = {}
      /\ UNCHANGED <<size, item, meta, body, handed, again, missed, unwritten, chat>>
  BY Zenon DEF RestartRecipient, request, history
<1>7. FilesOK'
  BY <1>1, <1>6, Zenon DEF FilesOK
<1>8. PollsInv' /\ Alone'
  BY <1>6, Zenon DEF PollsInv, PollOK, Alone, Active
<1>9. FilesInv'
  BY <1>2, <1>6, Zenon DEF RecipientInv, FilesInv, FileOK, Held, Pending
<1> QED
  BY <1>3, <1>4, <1>5, <1>7, <1>8, <1>9, TypeParts, Zenon DEF Inv, RecipientInv

-----------------------------------------------------------------------------
\* Every step preserves the invariant.
LEMMA NextInv == Inv /\ [MediaNext]_mediaVars => Inv'
<1> SUFFICES ASSUME Inv, [MediaNext]_mediaVars
             PROVE  Inv'
  BY Zenon
<1> USE DEF Inv
<1>1. ASSUME UNCHANGED <<request, files, chat>>, restarts'["recipient"] = restarts["recipient"]
      PROVE  RecipientInv'
  <2>1. /\ UNCHANGED <<size, taken, at, item, got, meta, body, handed, again, missed, unwritten, chat>>
        /\ restarts'["recipient"] = restarts["recipient"]
    BY <1>1, Zenon DEF request, files, polls, history
  <2>2. PollsInv'
    BY <2>1, Zenon DEF RecipientInv, PollsInv, PollOK, Active
  <2>3. Alone'
    BY <2>1, Zenon DEF RecipientInv, Alone, Active
  <2>4. ASSUME NEW t \in Transfers
        PROVE  FileOK(t)'
    <3>1. FileOK(t)
      BY Zenon DEF RecipientInv, FilesInv
    <3>2. Held(t)' <=> Held(t)
      BY <2>1, Zenon DEF Held, Pending
    <3> QED
      BY <2>1, <3>1, <3>2, Zenon DEF FileOK
  <2> QED
    BY <2>2, <2>3, <2>4, Zenon DEF RecipientInv, FilesInv
<1>2. ASSUME NEW t \in Transfers,
             SendMedia(t) \/ StreamHeader(t) \/ StreamChunk(t) \/ StreamTooLong(t)
         \/ StreamBreaks(t) \/ StreamEnds(t)
      PROVE  Inv'
  <2>1. UNCHANGED <<request, files, chat, restarts>>
    BY <1>2, Zenon DEF SendMedia, StreamHeader, StreamChunk, StreamTooLong, StreamBreaks, StreamEnds
  <2> QED
    BY <1>1, <1>2, <2>1, BeginInv, Zenon
<1>3. ASSUME NEW t \in Transfers, SendRelay(t) \/ StreamRelay(t) \/ Upload(t) \/ UploadFails(t)
      PROVE  Inv'
  <2>1. UNCHANGED <<request, files, chat, restarts>>
    BY <1>3, Zenon DEF SendRelay, StreamRelay, Upload, UploadFails
  <2> QED
    BY <1>1, <1>3, <2>1, UploadInv, Zenon
<1>4. ASSUME NEW t \in Transfers,
             SendMeta(t) \/ SendMetaFails(t) \/ StreamMeta(t) \/ StreamMetaFails(t)
      PROVE  Inv'
  <2>1. UNCHANGED <<request, files, chat, restarts>>
    BY <1>4, Zenon DEF SendMeta, SendMetaFails, StreamMeta, StreamMetaFails
  <2> QED
    BY <1>1, <1>4, <2>1, MetaInv, Zenon
<1>5. ASSUME \/ \E t \in Transfers : CancelSend(t) \/ GetsOld(t) \/ CleanUp(t)
             \/ \E t \in Transfers, r \in MediaRelays : RelayRemoves(t, r)
             \/ \E t \in Transfers : MailExpires(t)
             \/ ChangeContact
             \/ \E s \in Sides, r \in MediaRelays \cup {NoRelay} : ChangeRelay(s, r)
             \/ RestartSender
      PROVE  Inv'
  <2>1. UNCHANGED <<request, files, chat>> /\ restarts'["recipient"] = restarts["recipient"]
    <3>1. CASE RestartSender
      BY <3>1, RestartCount, Zenon DEF RestartSender, MediaTypeOK
    <3>2. CASE \E t \in Transfers : CancelSend(t) \/ GetsOld(t) \/ CleanUp(t)
      BY <3>2, Zenon DEF CancelSend, GetsOld, CleanUp
    <3>3. CASE \E t \in Transfers, r \in MediaRelays : RelayRemoves(t, r)
      BY <3>3, Zenon DEF RelayRemoves
    <3>4. CASE \E s \in Sides, r \in MediaRelays \cup {NoRelay} : ChangeRelay(s, r)
      BY <3>4, Zenon DEF ChangeRelay
    <3>5. CASE \E t \in Transfers : MailExpires(t)
      BY <3>5, Zenon DEF MailExpires
    <3>6. CASE ChangeContact
      BY <3>6, Zenon DEF ChangeContact
    <3> QED
      BY <1>5, <3>1, <3>2, <3>3, <3>4, <3>5, <3>6, Zenon
  <2> QED
    BY <1>1, <1>5, <2>1, AroundInv, Zenon
<1>6. ASSUME \/ \E p \in Pollers : Poll(p) \/ WriteFails(p)
             \/ \E t \in Transfers : Scan(t)
      PROVE  Inv'
  <2>1. CallOK' /\ FrameOK' /\ SenderInv'
    BY <1>6, PollFrame, Zenon
  <2>2. FilesOK
    BY TypeParts, Zenon
  <2>3. FilesOK' /\ RecipientInv'
    BY <1>6, <2>2, PollStep, ScanStep, Zenon
  <2> QED
    BY <2>1, <2>3, TypeParts, Zenon
<1>7. CASE RestartRecipient
  BY <1>7, RestartRecipientInv, Zenon
<1>8. CASE UNCHANGED mediaVars
  <2>1. MediaTypeOK'
    BY <1>8, ZenonT(30) DEF MediaTypeOK, mediaVars, request, call, relay, lists, files, polls, history, counts
  <2>2. SenderInv'
    BY <1>8, Zenon DEF SenderInv, mediaVars, request, call, relay
  <2> QED
    BY <1>1, <1>8, <2>1, <2>2, Zenon DEF mediaVars
<1> QED
  BY <1>2, <1>3, <1>4, <1>5, <1>6, <1>7, <1>8, Zenon DEF MediaNext, Handler

\* What the app is told of a transfer is true and final, step by step: only
\* the handler of an unfinished transfer, CancelSend, cleanupTransfers and a
\* restart touch the status.
LEMMA FinalStep ==
  ASSUME Inv, [MediaNext]_mediaVars, NEW t \in Transfers, status[t] \in {"complete", "failed"}
  PROVE  status'[t] \in {status[t], "none"}
<1>1. pc[t] = "done" /\ status \in [Transfers -> {"none", "queued", "sending"} \cup Terminal]
  BY Zenon DEF Inv, SenderInv, MediaTypeOK
<1> USE <1>1 DEF SetStatus, Fail, FailUnmarked, request, call
<1>2. ASSUME NEW u \in Transfers,
             SendMedia(u) \/ StreamHeader(u) \/ StreamChunk(u) \/ StreamTooLong(u)
             \/ StreamBreaks(u) \/ StreamEnds(u)
      PROVE  status'[t] \in {status[t], "none"}
  BY <1>2, Zenon DEF SendMedia, StreamHeader, StreamChunk, StreamTooLong, StreamBreaks, StreamEnds
<1>3. ASSUME NEW u \in Transfers, SendRelay(u) \/ StreamRelay(u) \/ Upload(u) \/ UploadFails(u)
      PROVE  status'[t] \in {status[t], "none"}
  BY <1>3, Zenon DEF SendRelay, StreamRelay, Upload, UploadFails
<1>4. ASSUME NEW u \in Transfers,
             SendMeta(u) \/ SendMetaFails(u) \/ StreamMeta(u) \/ StreamMetaFails(u)
      PROVE  status'[t] \in {status[t], "none"}
  BY <1>4, Zenon DEF SendMeta, SendMetaFails, StreamMeta, StreamMetaFails
<1>5. ASSUME NEW u \in Transfers, CancelSend(u) \/ GetsOld(u) \/ CleanUp(u)
      PROVE  status'[t] \in {status[t], "none"}
  BY <1>5, Zenon DEF CancelSend, GetsOld, CleanUp
<1>6. CASE RestartSender
  BY <1>6, Zenon DEF RestartSender
<1>7. ASSUME \/ \E u \in Transfers, r \in MediaRelays : RelayRemoves(u, r)
             \/ \E s \in Sides, r \in MediaRelays \cup {NoRelay} : ChangeRelay(s, r)
             \/ \E u \in Transfers : Scan(u) \/ MailExpires(u)
             \/ \E p \in Pollers : Poll(p) \/ WriteFails(p)
             \/ ChangeContact \/ RestartRecipient \/ UNCHANGED mediaVars
      PROVE  status'[t] \in {status[t], "none"}
  BY <1>7, Zenon DEF RelayRemoves, MailExpires, ChangeRelay, ChangeContact, Poll, WriteFails, Look, Take,
              FetchFails, Drop, Download, DownloadFails, OpenMeta, WriteMeta, OpenBody, WriteBody, Scan,
              RestartRecipient, mediaVars
<1> QED
  BY <1>2, <1>3, <1>4, <1>5, <1>6, <1>7, Zenon DEF MediaNext, Handler

\* For any number of concurrent transfers: one that counts as complete has been
\* stored by its relay and, if it was a call of SendMedia, announced.
THEOREM CompleteIsSent == MediaSpec => [](MediaTypeOK /\ CompleteMeansSent)
<1>1. Inv => MediaTypeOK /\ CompleteMeansSent
  BY Zenon DEF Inv, SenderInv, CompleteMeansSent
<1> QED
  BY <1>1, InitInv, NextInv, PTL DEF MediaSpec

\* Likewise: whichever way SendMedia or SendMediaStream returns once it has
\* chosen a relay, the transfer is marked, so cleanupTransfers can remove it.
THEOREM HandlersMark == MediaSpec => []FinishedIsMarked
<1>1. Inv => FinishedIsMarked
  BY Zenon DEF Inv, SenderInv, FinishedIsMarked
<1> QED
  BY <1>1, InitInv, NextInv, PTL DEF MediaSpec

\* For any number of files and overlapping calls of PollMessages, restarts at any
\* point and the app scanning the directory meanwhile: the app finds the sidecar
\* of a file handed out once, and what it shows as a file is whole, just being
\* written, or after a restart about to be fetched again, unless a download or
\* write of it has failed.
THEOREM RecipientShowsWhole == MediaSpec => []ShownIsWhole
<1>1. Inv => ShownIsWhole
  <2> SUFFICES ASSUME Inv, NEW t \in Transfers, t \notin unwritten
               PROVE  /\ t \notin again => chat[t] # "unknown"
                      /\ chat[t] = "file" /\ t \notin missed => body[t] = "full" \/ Held(t)
    BY Zenon DEF ShownIsWhole, Held
  <2>1. FileOK(t) /\ body[t] \in {"none", "torn", "empty", "full"}
    BY Zenon DEF Inv, RecipientInv, FilesInv, MediaTypeOK
  <2> QED
    BY <2>1, Zenon DEF FileOK
<1> QED
  BY <1>1, InitInv, NextInv, PTL DEF MediaSpec

\* GetMediaStatus never goes back on COMPLETE or FAILED, whatever cancels,
\* restarts and other transfers do, until the transfer is forgotten.
THEOREM StatusIsFinal == MediaSpec => FinishedIsFinal
<1> DEFINE Final == \A t \in Transfers :
                        Reported(status[t]) \in {"COMPLETE", "FAILED"} /\ status[t] # "cancelled"
                        => Reported(status'[t]) \in {Reported(status[t]), "NotFound"}
<1>1. Inv /\ [MediaNext]_mediaVars => Final
  <2> SUFFICES ASSUME Inv, [MediaNext]_mediaVars, NEW t \in Transfers,
                      Reported(status[t]) \in {"COMPLETE", "FAILED"}, status[t] # "cancelled"
               PROVE  Reported(status'[t]) \in {Reported(status[t]), "NotFound"}
    BY Zenon
  <2>1. status[t] \in {"none", "queued", "sending"} \cup Terminal
    BY DEF Inv, MediaTypeOK
  <2>2. status[t] \in {"complete", "failed"}
    BY <2>1, Zenon DEF Reported, Terminal
  <2>3. status'[t] \in {status[t], "none"}
    BY <2>2, FinalStep, Zenon
  <2> QED
    BY <2>3, Zenon DEF Reported
<1>2. MediaSpec => []Inv
  BY InitInv, NextInv, PTL DEF MediaSpec
<1> QED
  BY <1>1, <1>2, PTL DEF MediaSpec, FinishedIsFinal

-----------------------------------------------------------------------------
(***************************************************************************)
(* SendMessage of the engine.                                              *)
(***************************************************************************)
USE DEF net

(***************************************************************************)
(* Types and slots.  sem is a natural number because it counts the         *)
(* goroutines that hold a slot.                                            *)
(***************************************************************************)
Holders == {t \in Tasks : task[t] \in Holding}

ShapeInv ==
    /\ task \in [Tasks -> Holding \cup {"wait", "end"}]
    /\ sem \in Int
    /\ sent \subseteq Tasks
    /\ accepted \subseteq sent
    /\ elapsed \in [Tasks -> 0 .. ExchangeTimeout]
    /\ chunkDelivered \subseteq Chunks
    /\ now \in Nat
    /\ abandoned \in BOOLEAN
    /\ main \in {"run", "drain", "cancelled", "returned"}
    /\ result \in {"pending", "ok", "error"}

LEMMA ShapeInit == Init => ShapeInv
<1> SUFFICES ASSUME Init PROVE ShapeInv
  BY Zenon
<1> USE ConstantsAssumption DEF Init
<1>1. task \in [Tasks -> Holding \cup {"wait", "end"}]
  BY Zenon
<1>2. elapsed \in [Tasks -> 0 .. ExchangeTimeout]
  OBVIOUS
<1>3. abandoned \in BOOLEAN
  BY Zenon
<1> QED
  BY <1>1, <1>2, <1>3 DEF ShapeInv

LEMMA ShapeStep == ShapeInv /\ [Next]_vars => ShapeInv'
<1> SUFFICES ASSUME ShapeInv, [Next]_vars PROVE ShapeInv'
  BY Zenon
<1> USE ConstantsAssumption DEF ShapeInv, Holding, Exchanging
<1>0. CASE UNCHANGED vars
  BY <1>0, Zenon DEF vars
<1>1. ASSUME NEW t \in Tasks, Acquire(t) PROVE ShapeInv'
  BY <1>1 DEF Acquire
<1>2. ASSUME NEW t \in Tasks, GiveUp(t) PROVE ShapeInv'
  BY <1>2, Zenon DEF GiveUp
<1>3. ASSUME NEW t \in Tasks, GiveBack(t) PROVE ShapeInv'
  BY <1>3, SMTT(30) DEF GiveBack, Release
<1>4. ASSUME NEW t \in Tasks, BeginSend(t) PROVE ShapeInv'
  <2>1. PICK phase \in {"tcp", "single"} : Exchange(t, phase)
    BY <1>4, Zenon DEF BeginSend
  <2> QED
    BY <1>4, <2>1 DEF BeginSend, Exchange
<1>5. ASSUME NEW t \in Tasks, ExchangeSucceeds(t) PROVE ShapeInv'
  BY <1>5 DEF ExchangeSucceeds
<1>6. ASSUME NEW t \in Tasks, ExchangeRefused(t) PROVE ShapeInv'
  <2>1. CASE task[t] = "tcp" /\ Exchange(t, "udp") /\ UNCHANGED sem
    BY <1>6, <2>1, SMTT(30) DEF ExchangeRefused, Exchange
  <2>2. CASE Release(t) /\ UNCHANGED sent
    BY <1>6, <2>2 DEF ExchangeRefused, Release
  <2> QED
    BY <1>6, <2>1, <2>2, ZenonT(30) DEF ExchangeRefused
<1>7. ASSUME NEW t \in Tasks, ExchangeFails(t) PROVE ShapeInv'
  <2>1. CASE task[t] = "tcp" /\ Exchange(t, "udp") /\ UNCHANGED sem
    BY <1>7, <2>1, SMTT(30) DEF ExchangeFails, Exchange
  <2>2. CASE task[t] = "udp" /\ Exchange(t, "tcp2") /\ UNCHANGED sem
    BY <1>7, <2>2 DEF ExchangeFails, Exchange
  <2>3. CASE Release(t) /\ UNCHANGED sent
    BY <1>7, <2>3, SMTT(30) DEF ExchangeFails, Release
  <2> QED
    BY <1>7, <2>1, <2>2, <2>3, ZenonT(30) DEF ExchangeFails
<1>8. ASSUME NEW t \in Tasks, MarkDelivered(t) PROVE ShapeInv'
  <2>1. t[1] \in Chunks
    BY Zenon DEF Tasks
  <2> QED
    BY <1>8, <2>1 DEF MarkDelivered, Release
<1>9. ASSUME NEW t \in Tasks, RelayStores(t) PROVE ShapeInv'
  BY <1>9, Zenon DEF RelayStores
<1>10. CASE MainStep
  BY <1>10 DEF MainStep, AllDone, ContextEnds, TickerFires, Drained
<1>11. CASE CallerCancels
  BY <1>11, Zenon DEF CallerCancels
<1>12. CASE Pass
  <2>1. \A t \in Tasks : task[t] \in Exchanging => elapsed[t] + 1 \in 0 .. ExchangeTimeout
    BY <1>12 DEF Pass
  <2>2. elapsed' \in [Tasks -> 0 .. ExchangeTimeout]
    BY <1>12, <2>1 DEF Pass
  <2> QED
    BY <1>12, <2>2, SMTT(30) DEF Pass
<1> QED
  BY <1>0, <1>1, <1>2, <1>3, <1>4, <1>5, <1>6, <1>7, <1>8, <1>9, <1>10, <1>11, <1>12, Zenon
  DEF Next, TaskStep

LEMMA HoldersFinite == IsFiniteSet(Tasks) /\ IsFiniteSet(Holders)
<1>1. IsFiniteSet(Tasks)
  BY ConstantsAssumption, FS_Product, Zenon DEF Tasks
<1> QED
  BY <1>1, FS_Subset, Zenon DEF Holders

\* A goroutine that takes a slot is one holder more, one that returns is one
\* holder less, and no other step changes the holders.
LEMMA SlotsStep ==
  ASSUME ShapeInv, SlotsMatchHolders, [Next]_vars
  PROVE  SlotsMatchHolders'
<1> USE ConstantsAssumption DEF ShapeInv
<1>0. sem = Cardinality(Holders) /\ sem <= Parallelism /\ Cardinality(Holders) \in Nat
  BY HoldersFinite, FS_CardinalityType, Zenon DEF SlotsMatchHolders, Holders
<1>a. ASSUME Holders' = Holders, sem' = sem PROVE SlotsMatchHolders'
  BY <1>0, <1>a, Zenon DEF SlotsMatchHolders, Holders
<1>b. ASSUME NEW t \in Tasks, Release(t), task[t] \in Holding PROVE SlotsMatchHolders'
  <2>1. t \in Holders
    BY <1>b, Zenon DEF Holders
  <2>2. Holders' = Holders \ {t}
    BY <1>b, Zenon DEF Release, Holders, Holding, Exchanging
  <2>3. Cardinality(Holders \ {t}) = Cardinality(Holders) - 1
    BY <2>1, HoldersFinite, FS_RemoveElement, Zenon
  <2>4. sem' = Cardinality(Holders') /\ sem' <= Parallelism
    BY <1>0, <1>b, <2>2, <2>3 DEF Release
  <2> QED
    BY <2>4, Zenon DEF SlotsMatchHolders, Holders
<1>c. ASSUME NEW t \in Tasks, NEW phase \in Exchanging, Exchange(t, phase),
             task[t] \in Holding, sem' = sem
      PROVE  SlotsMatchHolders'
  BY <1>a, <1>c, Zenon DEF Exchange, Holders, Holding
<1>1. ASSUME NEW t \in Tasks, Acquire(t) PROVE SlotsMatchHolders'
  <2>1. t \notin Holders
    BY <1>1, Zenon DEF Acquire, Holders, Holding, Exchanging
  <2>2. Holders' = Holders \cup {t}
    BY <1>1, Zenon DEF Acquire, Holders, Holding
  <2>3. Cardinality(Holders \cup {t}) = Cardinality(Holders) + 1
    BY <2>1, HoldersFinite, FS_AddElement, ZenonT(30)
  <2>4. sem' = Cardinality(Holders') /\ sem' <= Parallelism
    BY <1>0, <1>1, <2>2, <2>3 DEF Acquire
  <2> QED
    BY <2>4, Zenon DEF SlotsMatchHolders, Holders
<1>2. ASSUME NEW t \in Tasks, GiveUp(t) PROVE SlotsMatchHolders'
  BY <1>2, <1>a, Zenon DEF GiveUp, Holders, Holding, Exchanging
<1>3. ASSUME NEW t \in Tasks, GiveBack(t) \/ MarkDelivered(t) PROVE SlotsMatchHolders'
  BY <1>3, <1>b, Zenon DEF GiveBack, MarkDelivered, Holding
<1>4. ASSUME NEW t \in Tasks, BeginSend(t) PROVE SlotsMatchHolders'
  <2>1. PICK phase \in {"tcp", "single"} : Exchange(t, phase)
    BY <1>4, Zenon DEF BeginSend
  <2> QED
    BY <1>4, <2>1, <1>c, Zenon DEF BeginSend, Holding, Exchanging
<1>5. ASSUME NEW t \in Tasks, ExchangeSucceeds(t) PROVE SlotsMatchHolders'
  BY <1>5, <1>a, Zenon DEF ExchangeSucceeds, Holders, Holding
<1>6. ASSUME NEW t \in Tasks, ExchangeRefused(t) \/ ExchangeFails(t) PROVE SlotsMatchHolders'
  <2>1. CASE task[t] = "tcp" /\ Exchange(t, "udp") /\ UNCHANGED sem
    BY <2>1, <1>c, Zenon DEF Holding, Exchanging
  <2>2. CASE task[t] = "udp" /\ Exchange(t, "tcp2") /\ UNCHANGED sem
    BY <2>2, <1>c, Zenon DEF Holding, Exchanging
  <2>3. CASE task[t] \in Exchanging /\ Release(t)
    BY <2>3, <1>b, Zenon DEF Holding
  <2> QED
    BY <1>6, <2>1, <2>2, <2>3, Zenon DEF ExchangeRefused, ExchangeFails, Exchanging
<1>7. ASSUME UNCHANGED <<task, sem>> PROVE SlotsMatchHolders'
  BY <1>7, <1>a, Zenon DEF Holders
<1>8. ASSUME NEW t \in Tasks, RelayStores(t) PROVE SlotsMatchHolders'
  BY <1>8, <1>7, Zenon DEF RelayStores
<1>9. CASE UNCHANGED vars \/ MainStep \/ CallerCancels \/ Pass
  BY <1>9, <1>7, Zenon DEF vars, MainStep, AllDone, ContextEnds, TickerFires, Drained, CallerCancels, Pass
<1> QED
  BY <1>1, <1>2, <1>3, <1>4, <1>5, <1>6, <1>8, <1>9, Zenon DEF Next, TaskStep

LEMMA SlotsInit == Init => SlotsMatchHolders
<1> SUFFICES ASSUME Init PROVE SlotsMatchHolders
  BY Zenon
<1>1. Holders = {}
  BY Zenon DEF Init, Holders, Holding, Exchanging
<1> QED
  BY <1>1, FS_EmptySet, ConstantsAssumption DEF Init, SlotsMatchHolders, Holders

\* The semaphore of sendParallel never leaks a slot and never admits more than
\* Parallelism goroutines, whatever way a goroutine leaves.
THEOREM SlotsAlwaysMatch == Spec => []SlotsMatchHolders
<1>1. Init => ShapeInv /\ SlotsMatchHolders
  BY ShapeInit, SlotsInit, Zenon
<1>2. ShapeInv /\ SlotsMatchHolders /\ [Next]_vars => (ShapeInv /\ SlotsMatchHolders)'
  BY ShapeStep, SlotsStep, Zenon
<1> QED
  BY <1>1, <1>2, PTL DEF Spec

\* The strengthened type invariant, with the exchange each goroutine is in
\* (SendChunk) tied to the number of exchanges it has begun.
THEOREM ShapeAlways == Spec => []ShapeInv
BY ShapeInit, ShapeStep, PTL DEF Spec

\* Every variable keeps its type: SendChunk makes at most three exchanges and
\* a relay accepts only chunks that were sent to it.
THEOREM TypeCorrect == Spec => []TypeOK
<1>1. ShapeInv /\ SlotsMatchHolders => TypeOK
  <2> SUFFICES ASSUME ShapeInv, SlotsMatchHolders PROVE TypeOK
    BY Zenon
  <2>1. sem \in Nat
    BY HoldersFinite, FS_CardinalityType, Zenon DEF SlotsMatchHolders, Holders
  <2> QED
    BY <2>1, Zenon DEF ShapeInv, TypeOK
<1> QED
  BY <1>1, SlotsAlwaysMatch, ShapeAlways, PTL

-----------------------------------------------------------------------------
(***************************************************************************)
(* What a result says.  A goroutine is in "ok" only with the relay's       *)
(* acknowledgement, so a marked chunk is on a relay; the main loop's state *)
(* tells why it is about to return.                                        *)
(***************************************************************************)
Accepted(c) == \E r \in Relays : <<c, r>> \in accepted

ResultInv ==
    /\ \A t \in Tasks : task[t] = "ok" => t \in accepted
    /\ \A c \in chunkDelivered : Accepted(c)
    /\ main = "cancelled" \/ result = "ok" => AllDelivered
    /\ main = "drain" => now >= Deadline \/ abandoned
    /\ main = "returned" <=> result # "pending"
    /\ main = "returned" => AllEnded
    /\ ErrorHasReason

LEMMA ResultInit == Init => ResultInv
<1> SUFFICES ASSUME Init PROVE ResultInv
  BY Zenon
<1>1. /\ task = [t \in Tasks |-> "wait"] /\ chunkDelivered = {}
      /\ main = "run" /\ result = "pending"
  BY Zenon DEF Init
<1> QED
  BY <1>1, Zenon DEF ResultInv, ErrorHasReason

LEMMA ResultStep ==
  ASSUME ShapeInv, ResultInv, [Next]_vars
  PROVE  ResultInv'
<1> USE ConstantsAssumption DEF ShapeInv, ResultInv, ErrorHasReason, AllEnded, AllDelivered, Accepted
<1>a. ASSUME NEW t \in Tasks, task[t] # "end",
             UNCHANGED <<chunkDelivered, now, abandoned, main, result, accepted>>,
             NEW phase \in Exchanging \cup {"held", "end"}, task' = [task EXCEPT ![t] = phase]
      PROVE  ResultInv'
  BY <1>a, Zenon DEF Exchanging
<1>1. ASSUME NEW t \in Tasks, Acquire(t) PROVE ResultInv'
  BY <1>1, <1>a, Zenon DEF Acquire
<1>2. ASSUME NEW t \in Tasks, GiveUp(t) PROVE ResultInv'
  BY <1>2, <1>a, Zenon DEF GiveUp
<1>3. ASSUME NEW t \in Tasks, GiveBack(t) PROVE ResultInv'
  BY <1>3, <1>a, Zenon DEF GiveBack, Release
<1>4. ASSUME NEW t \in Tasks, BeginSend(t) PROVE ResultInv'
  <2>1. PICK phase \in Exchanging : Exchange(t, phase)
    BY <1>4, Zenon DEF BeginSend, Exchanging
  <2> QED
    BY <1>4, <2>1, <1>a, Zenon DEF BeginSend, Exchange
<1>5. ASSUME NEW t \in Tasks, ExchangeSucceeds(t) PROVE ResultInv'
  BY <1>5, Zenon DEF ExchangeSucceeds, Exchanging
<1>6. ASSUME NEW t \in Tasks, ExchangeRefused(t) \/ ExchangeFails(t) PROVE ResultInv'
  <2>1. task[t] # "end" /\ UNCHANGED <<chunkDelivered, now, abandoned, main, result, accepted>>
    BY <1>6, Zenon DEF ExchangeRefused, ExchangeFails
  <2>2. PICK phase \in Exchanging \cup {"held", "end"} : task' = [task EXCEPT ![t] = phase]
    BY <1>6, Zenon DEF ExchangeRefused, ExchangeFails, Exchange, Release, Exchanging
  <2> QED
    BY <2>1, <2>2, <1>a, Zenon
<1>7. ASSUME NEW t \in Tasks, MarkDelivered(t) PROVE ResultInv'
  <2>1. t[1] \in Chunks /\ t[2] \in Relays /\ t = <<t[1], t[2]>> /\ t \in accepted
    BY <1>7 DEF MarkDelivered, Tasks
  <2>2. main # "returned"
    BY <1>7, Zenon DEF MarkDelivered
  <2>3. (\A c \in chunkDelivered : Accepted(c))'
    BY <1>7, <2>1 DEF MarkDelivered
  <2>4. (\A u \in Tasks : task[u] = "ok" => u \in accepted)'
    BY <1>7, Zenon DEF MarkDelivered, Release
  <2>5. (main = "cancelled" \/ result = "ok" => AllDelivered)'
    BY <1>7, <2>1, Zenon DEF MarkDelivered
  <2> QED
    BY <1>7, <2>2, <2>3, <2>4, <2>5, Zenon DEF MarkDelivered
<1>8. ASSUME NEW t \in Tasks, RelayStores(t) PROVE ResultInv'
  BY <1>8, Zenon DEF RelayStores
<1>9. CASE AllDone
  BY <1>9, Zenon DEF AllDone
<1>10. CASE ContextEnds
  BY <1>10, Zenon DEF ContextEnds, CtxDone
<1>11. CASE TickerFires
  BY <1>11, Zenon DEF TickerFires
<1>12. CASE Drained
  BY <1>12, Zenon DEF Drained
<1>13. CASE CallerCancels
  BY <1>13, Zenon DEF CallerCancels
<1>14. CASE Pass
  BY <1>14, SMTT(30) DEF Pass
<1>15. CASE UNCHANGED vars
  BY <1>15, Zenon DEF vars
<1> QED
  BY <1>1, <1>2, <1>3, <1>4, <1>5, <1>6, <1>7, <1>8, <1>9, <1>10, <1>11, <1>12, <1>13, <1>14, <1>15, Zenon
  DEF Next, TaskStep, MainStep

\* The invariant on results, for the theorems below.
THEOREM ResultAlways == Spec => []ResultInv
BY ResultInit, ResultStep, ShapeAlways, PTL DEF Spec

\* When SendMessage reports success, every chunk has been stored by a relay.
THEOREM OkAlwaysMeansAccepted == Spec => []OkMeansAccepted
<1>1. ResultInv => OkMeansAccepted
  BY Zenon DEF ResultInv, OkMeansAccepted, AllDelivered, Accepted
<1> QED
  BY <1>1, ResultAlways, PTL

\* When it reports an error, the context has ended or a chunk is undelivered.
THEOREM ErrorAlwaysHasReason == Spec => []ErrorHasReason
<1>1. ResultInv => ErrorHasReason
  BY Zenon DEF ResultInv
<1> QED
  BY <1>1, ResultAlways, PTL

\* Once SendMessage has returned, no goroutine of it sends anything.
THEOREM AlwaysQuietAfterReturn == Spec => QuietAfterReturn
<1>1. ResultInv /\ [Next]_vars => [result # "pending" => sent' = sent /\ task' = task]_vars
  <2> SUFFICES ASSUME ResultInv, [Next]_vars, result # "pending"
               PROVE  sent' = sent /\ task' = task
    BY Zenon
  <2>1. \A t \in Tasks : task[t] = "end"
    BY SMTT(20) DEF ResultInv, AllEnded
  <2>2. ASSUME NEW t \in Tasks, TaskStep(t) PROVE FALSE
    BY <2>1, <2>2, Zenon DEF TaskStep, Acquire, GiveUp, GiveBack, BeginSend, ExchangeSucceeds,
                      ExchangeRefused, ExchangeFails, MarkDelivered, Exchanging
  <2> QED
    BY <2>2, Zenon DEF Next, vars, RelayStores, MainStep, AllDone, ContextEnds, TickerFires,
                Drained, CallerCancels, Pass
<1> QED
  BY <1>1, ResultAlways, PTL DEF Spec, QuietAfterReturn

-----------------------------------------------------------------------------
(***************************************************************************)
(* Time.  A first exchange begins before the deadline, because the context *)
(* is looked at with the slot in hand; the second and the third begin at   *)
(* most one and two timeouts later.                                        *)
(***************************************************************************)
Begun(t) == now - elapsed[t]

TimeInv ==
    /\ \A t \in Tasks :
           /\ task[t] \in {"single", "tcp"} => Begun(t) < Deadline
           /\ task[t] = "udp" => Begun(t) < Deadline + ExchangeTimeout
           /\ task[t] = "tcp2" => Begun(t) < Deadline + ExchangeTimeout + ExchangeTimeout
    /\ main # "returned" => now < Deadline + 3 * ExchangeTimeout

LEMMA TimeInit == Init => TimeInv
<1> SUFFICES ASSUME Init PROVE TimeInv
  BY Zenon
<1>1. 0 < Deadline + 3 * ExchangeTimeout
  BY ConstantsAssumption, SMTT(20)
<1> QED
  BY <1>1, Zenon DEF Init, TimeInv

LEMMA TimeStep ==
  ASSUME ShapeInv, ResultInv, TimeInv, [Next]_vars
  PROVE  TimeInv'
<1> USE ConstantsAssumption DEF ShapeInv, TimeInv, Begun
<1>a. ASSUME NEW t \in Tasks, NEW phase \in {"held", "ok", "end"},
             task' = [task EXCEPT ![t] = phase],
             elapsed' = elapsed \/ elapsed' = [elapsed EXCEPT ![t] = 0],
             UNCHANGED <<now, main>>
      PROVE  TimeInv'
  BY <1>a, Zenon
<1>b. ASSUME NEW t \in Tasks, NEW phase \in Exchanging, Exchange(t, phase),
             phase \in {"single", "tcp"} => now < Deadline,
             phase = "udp" => now < Deadline + ExchangeTimeout,
             phase = "tcp2" => now < Deadline + ExchangeTimeout + ExchangeTimeout,
             UNCHANGED <<now, main>>
      PROVE  TimeInv'
  BY <1>b DEF Exchange, Exchanging
<1>1. ASSUME NEW t \in Tasks,
             Acquire(t) \/ GiveUp(t) \/ GiveBack(t) \/ ExchangeSucceeds(t) \/ MarkDelivered(t)
      PROVE  TimeInv'
  BY <1>1, <1>a, Zenon DEF Acquire, GiveUp, GiveBack, ExchangeSucceeds, MarkDelivered, Release
<1>2. ASSUME NEW t \in Tasks, BeginSend(t) PROVE TimeInv'
  <2>1. PICK phase \in {"single", "tcp"} : Exchange(t, phase)
    BY <1>2, Zenon DEF BeginSend
  <2>2. now < Deadline /\ UNCHANGED <<now, main>>
    BY <1>2 DEF BeginSend, CtxDone
  <2> QED
    BY <2>1, <2>2, <1>b, Zenon DEF Exchanging
<1>3. ASSUME NEW t \in Tasks, ExchangeRefused(t) \/ ExchangeFails(t) PROVE TimeInv'
  <2>0. UNCHANGED <<now, main>> /\ elapsed[t] \in 0 .. ExchangeTimeout
    BY <1>3, Zenon DEF ExchangeRefused, ExchangeFails
  <2>1. CASE task[t] = "tcp" /\ Exchange(t, "udp")
    <3>1. now < Deadline + ExchangeTimeout
      BY <2>0, <2>1
    <3> QED
      BY <2>0, <2>1, <3>1, <1>b, Zenon DEF Exchanging
  <2>2. CASE task[t] = "udp" /\ Exchange(t, "tcp2")
    <3>1. now < Deadline + ExchangeTimeout + ExchangeTimeout
      BY <2>0, <2>2
    <3> QED
      BY <2>0, <2>2, <3>1, <1>b, Zenon DEF Exchanging
  <2>3. CASE Release(t)
    BY <2>0, <2>3, <1>a, Zenon DEF Release
  <2> QED
    BY <1>3, <2>1, <2>2, <2>3, Zenon DEF ExchangeRefused, ExchangeFails
<1>4. CASE Pass
  <2>1. main # "returned" /\ ~Busy /\ now' = now + 1
    BY <1>4, Zenon DEF Pass
  <2>2. \A t \in Tasks : task[t] \in Exchanging =>
            elapsed[t] + 1 <= ExchangeTimeout /\ elapsed'[t] = elapsed[t] + 1
    BY <1>4 DEF Pass
  <2>3. \A t \in Tasks : task[t] \in Exchanging => Begun(t)' = Begun(t)
    BY <2>1, <2>2 DEF Begun
  <2>4. PICK t \in Tasks : task[t] # "end"
    BY <2>1, Zenon DEF Busy, AllEnded
  <2>5. now + 1 < Deadline + 3 * ExchangeTimeout
    <3>1. CASE task[t] = "wait"
      <4>1. now < Deadline
        BY <2>1, <3>1 DEF Busy, CtxDone
      <4> QED
        BY <4>1
    <3>2. CASE task[t] \in Exchanging
      <4>1. now - elapsed[t] < Deadline + ExchangeTimeout + ExchangeTimeout
        BY <3>2 DEF Exchanging
      <4> QED
        BY <2>2, <3>2, <4>1
    <3> QED
      BY <2>1, <2>4, <3>1, <3>2, Zenon DEF Busy, Holding
  <2> QED
    BY <1>4, <2>1, <2>3, <2>5, Zenon DEF Pass, Exchanging
<1>5. ASSUME UNCHANGED <<task, elapsed, now>>, main = "returned" => main' = "returned" PROVE TimeInv'
  BY <1>5, Zenon
<1>6. ASSUME NEW t \in Tasks, RelayStores(t) PROVE TimeInv'
  BY <1>6, <1>5, Zenon DEF RelayStores
<1>7. CASE MainStep \/ CallerCancels \/ UNCHANGED vars
  BY <1>7, <1>5, Zenon DEF MainStep, AllDone, ContextEnds, TickerFires, Drained, CallerCancels, vars
<1> QED
  BY <1>1, <1>2, <1>3, <1>4, <1>6, <1>7, Zenon DEF Next, TaskStep

\* SendMessage returns less than three exchange timeouts after its deadline.
THEOREM AlwaysReturnsInTime == Spec => []ReturnsInTime
<1>1. ResultInv /\ TimeInv => ReturnsInTime
  BY Zenon DEF ResultInv, TimeInv, ReturnsInTime
<1> QED
  BY <1>1, TimeInit, TimeStep, ShapeAlways, ResultAlways, PTL DEF Spec

-----------------------------------------------------------------------------
\* sendParallel implements the abstract Send: RelayStores is Accept, the steps
\* that return are ReturnOK or ReturnError, and every other step stutters.
THEOREM ImplementsSend == Spec => SendPromise
<1>1. Init => Promise!Init
  BY Zenon DEF Init, Promise!Init
<1>2. ASSUME ShapeInv, ResultInv, [Next]_vars
      PROVE  [Promise!Next]_(Promise!vars)
  <2> USE DEF Promise!Next, Promise!vars
  <2>1. ASSUME NEW t \in Tasks, RelayStores(t) PROVE Promise!Accept
    BY <2>1, Zenon DEF RelayStores, Promise!Accept, Tasks
  <2>2. CASE AllDone
    <3>1. CASE AllDelivered
      <4>1. \A c \in Chunks : \E r \in Relays : <<c, r>> \in accepted
        BY <1>2, <3>1, Zenon DEF ResultInv, AllDelivered, Accepted
      <4> QED
        BY <1>2, <2>2, <3>1, <4>1, Zenon DEF AllDone, ResultInv, Promise!ReturnOK
    <3>2. CASE ~AllDelivered
      BY <1>2, <2>2, <3>2, Zenon DEF AllDone, ResultInv, Promise!ReturnError
    <3> QED
      BY <3>1, <3>2, Zenon
  <2>3. CASE Drained
    <3>1. CASE main = "cancelled"
      <4>1. \A c \in Chunks : \E r \in Relays : <<c, r>> \in accepted
        BY <1>2, <3>1, Zenon DEF ResultInv, AllDelivered, Accepted
      <4> QED
        BY <1>2, <2>3, <3>1, <4>1, Zenon DEF Drained, ResultInv, Promise!ReturnOK
    <3>2. CASE main = "drain"
      BY <1>2, <2>3, <3>2, Zenon DEF Drained, ResultInv, Promise!ReturnError
    <3> QED
      BY <2>3, <3>1, <3>2, Zenon DEF Drained
  <2>4. ASSUME NEW t \in Tasks, TaskStep(t) PROVE UNCHANGED <<accepted, result>>
    BY <2>4, Zenon DEF TaskStep, Acquire, GiveUp, GiveBack, BeginSend, ExchangeSucceeds,
                ExchangeRefused, ExchangeFails, MarkDelivered
  <2>5. CASE ContextEnds \/ TickerFires \/ CallerCancels \/ Pass \/ UNCHANGED vars
    BY <2>5, Zenon DEF ContextEnds, TickerFires, CallerCancels, Pass, vars
  <2> QED
    BY <1>2, <2>1, <2>2, <2>3, <2>4, <2>5, Zenon DEF Next, MainStep
<1> QED
  BY <1>1, <1>2, ShapeAlways, ResultAlways, PTL DEF Spec, SendPromise, Promise!Spec
=============================================================================
