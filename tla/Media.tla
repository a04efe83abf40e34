-------------------------------- MODULE Media --------------------------------
(***************************************************************************)
(* A file on its way from one user to another: SendMedia, SendMediaStream, *)
(* CancelSend and cleanupTransfers of the sending daemon                   *)
(* (internal/client/daemon.go), the TransferStore (internal/media/         *)
(* transfer.go) and the TCP transport (internal/media/dns_transport.go),   *)
(* the HTTP media server of a relay (internal/relay/server.go), and at the *)
(* recipient the media branch of Daemon.PollMessages and the app's scanner *)
(* of media_received (message_list_provider.dart).                         *)
(*                                                                         *)
(* The file goes over HTTP to the sender's first relay; its metadata go as *)
(* a message over DNS, and the recipient downloads the file from its own   *)
(* first relay.  A handler is split where other goroutines can see its     *)
(* effects: at the network, where it leaves a critical section, and        *)
(* between two writes of files.  os.WriteFile empties the file and then    *)
(* writes it.                                                              *)
(*                                                                         *)
(* The app gives up a poll after 30 s and polls again, while the daemon    *)
(* goes on with the first: calls of PollMessages overlap.                  *)
(*                                                                         *)
(* The sender learns nothing of what the recipient does, and the recipient *)
(* sees of the sender only what is on the relays.  So an instance may      *)
(* follow them one at a time (Focus): behaviours in which calls, restarts  *)
(* and the like happen to the one while the other does no more than send,  *)
(* or does nothing.                                                        *)
(***************************************************************************)
EXTENDS Integers, FiniteSets

CONSTANTS
    Transfers,
    MediaRelays,
    NoRelay,
    Pollers,      \* calls of PollMessages, one for each message they handle
    Focus,        \* sets of daemons, one of which a behaviour follows
    MaxMishaps    \* bound on restarts, changes of the lists, failures and removals

Sides == {"sender", "recipient"}

ASSUME MediaAssumption ==
    /\ NoRelay \notin MediaRelays
    /\ Focus \subseteq SUBSET Sides
    /\ MaxMishaps \in Nat

VARIABLES
    kind,      \* [Transfers -> "call" (SendMedia) or "stream" (SendMediaStream)]
    named,     \* [Transfers -> the first chunk of the stream names the recipient]
    size,      \* [Transfers -> size of the file, one of Sizes]
    status,    \* [Transfers -> MediaTransfer.Status, or "none": not in d.transfers]
    row,       \* [Transfers -> status in the TransferStore, or "none": no row]
    pc,        \* [Transfers -> where the handler is]
    answer,    \* [Transfers -> what the RPC has returned: "none", "ok" or "error"]
    old,       \* transfers created more than an hour ago
    target,    \* [Transfers -> relay the handler uploads to]
    first,     \* [{"sender", "recipient"} -> GetRelays()[0] of the daemon]
    stored,    \* <<transfer, relay>>: the relay has stored the file at some time
    gone,      \* <<transfer, relay>>: and has removed it since
    mail,      \* [Transfers -> metadata message on the relays, one of Mails]
    knows,     \* the sender is a contact of the recipient
    taken,     \* transfers whose message the recipient's engine has marked as fetched
    at,        \* [Pollers -> how far the call has come with its message]
    item,      \* [Pollers -> the transfer the message is about]
    got,       \* [Pollers -> what the download has given: "none" yet, "complete" or "failed"]
    meta,      \* [Transfers -> the .meta sidecar: "none", "torn", "complete" or "failed"]
    body,      \* [Transfers -> the file: "none", "torn", "empty" or "full"]
    chat,      \* [Transfers -> what the app shows: "none", "file", "failed" or "unknown"]
    handed,    \* transfers whose message the engine has handed to a call ...
    again,     \* ... and more than once
    missed,    \* transfers some call has dropped or failed to download
    unwritten, \* transfers some write for which has failed
    focus,     \* daemons this behaviour follows
    changes,   \* of the relay lists and the contacts
    failures,  \* of downloads and writes
    restarts   \* [{"sender", "recipient"} -> restarts of the daemon]

request == <<kind, named, size, focus>>
call == <<status, row, pc, answer, target>>
relay == <<stored, gone>>
counts == <<changes, failures>>
lists == <<first, knows>>
polls == <<taken, at, item, got>>
history == <<handed, again, missed, unwritten>>
files == <<polls, meta, body, history>>
mediaVars == <<request, call, old, lists, relay, mail, files, chat, counts, restarts>>

Terminal == {"complete", "failed", "cancelled"}

\* "over" is more than MediaMaxHardCap.
Sizes == {"empty", "fits", "over"}

\* A message is fetched from one relay that has all its chunks: "scattered" is
\* one that no relay of the recipient has, "expired" one that has been removed.
Fetchable == {"framed", "bare"}
Mails == Fetchable \cup {"none", "scattered", "expired"}

\* One more restart, change, failure or removal by a relay is considered.
Mishap ==
    changes + failures + restarts["sender"] + restarts["recipient"]
        + Cardinality(gone) + Cardinality({t \in Transfers : mail[t] = "expired"}) < MaxMishaps

-----------------------------------------------------------------------------
MediaInit ==
    /\ kind \in [Transfers -> {"call", "stream"}]
    /\ named \in [Transfers -> BOOLEAN]
    /\ size \in [Transfers -> Sizes]
    /\ \A t \in Transfers : kind[t] = "call" => named[t]
    /\ status = [t \in Transfers |-> "none"]
    /\ row = [t \in Transfers |-> "none"]
    /\ pc = [t \in Transfers |-> "new"]
    /\ answer = [t \in Transfers |-> "none"]
    /\ old = {}
    /\ target = [t \in Transfers |-> NoRelay]
    /\ first \in [Sides -> MediaRelays \cup {NoRelay}]
    /\ stored = {} /\ gone = {}
    /\ mail = [t \in Transfers |-> "none"]
    /\ taken = {}
    /\ knows \in BOOLEAN
    /\ at = [p \in Pollers |-> "idle"]
    /\ item \in [Pollers -> Transfers]
    /\ got = [p \in Pollers |-> "none"]
    /\ meta = [t \in Transfers |-> "none"]
    /\ body = [t \in Transfers |-> "none"]
    /\ chat = [t \in Transfers |-> "none"]
    /\ handed = {} /\ again = {} /\ missed = {} /\ unwritten = {}
    /\ focus \in Focus
    /\ changes = 0
    /\ failures = 0
    /\ restarts = [s \in Sides |-> 0]

\* t.Status = s, on an entry that may have left the map.
SetStatus(t, s) == status' = [status EXCEPT ![t] = IF @ = "none" THEN @ ELSE s]

\* UPDATE transfers SET status = s WHERE id = t; SendMedia creates no row.
SetRow(t, s) == row' = [row EXCEPT ![t] = IF @ = "none" THEN @ ELSE s]

\* The handler goes on, or returns.
Goto(t, l) == pc' = [pc EXCEPT ![t] = l]

Return(t, a) == Goto(t, "done") /\ answer' = [answer EXCEPT ![t] = a]

\* Every error path that marks the transfer.
Fail(t) == SetStatus(t, "failed") /\ SetRow(t, "failed") /\ Return(t, "error")

\* An error path that returns without marking it.
FailUnmarked(t) == Return(t, "error") /\ UNCHANGED <<status, row>>

-----------------------------------------------------------------------------
\* SendMedia enters the transfer.
SendMedia(t) ==
    /\ pc[t] = "new"
    /\ kind[t] = "call"
    /\ status' = [status EXCEPT ![t] = "queued"]
    /\ Goto(t, "relay")
    /\ UNCHANGED <<request, row, answer, target, old, lists, relay, mail, files, chat, counts, restarts>>

\* The first chunk of a stream does, and makes a row.  A stream that is empty,
\* or for which there is no temporary file, has neither.
StreamHeader(t) ==
    /\ pc[t] = "new"
    /\ kind[t] = "stream"
    /\ \/ /\ status' = [status EXCEPT ![t] = "queued"]
          /\ row' = [row EXCEPT ![t] = "queued"]
          /\ Goto(t, "receive")
          /\ UNCHANGED answer
       \/ FailUnmarked(t)
    /\ UNCHANGED <<request, target, old, lists, relay, mail, files, chat, counts, restarts>>

\* A further chunk of a stream ...
StreamChunk(t) ==
    /\ pc[t] = "receive"
    /\ SetStatus(t, "sending")
    /\ UNCHANGED <<row, pc, answer>>
    /\ UNCHANGED <<request, target, old, lists, relay, mail, files, chat, counts, restarts>>

\* ... or the one that passes the limit on its size.
StreamTooLong(t) ==
    /\ pc[t] = "receive"
    /\ size[t] = "over"
    /\ FailUnmarked(t)
    /\ UNCHANGED <<request, target, old, lists, relay, mail, files, chat, counts, restarts>>

\* The stream breaks: Recv returns an error.
StreamBreaks(t) ==
    /\ pc[t] = "receive"
    /\ Fail(t)
    /\ UNCHANGED <<request, target, old, lists, relay, mail, files, chat, counts, restarts>>

\* io.EOF: the temporary file is read, which may fail; without a recipient the
\* row is marked and nothing is sent.  A stream gets here past the limit if it
\* is one chunk that names no recipient: the first chunk is not measured.
StreamEnds(t) ==
    /\ pc[t] = "receive"
    /\ size[t] = "over" => ~named[t]
    /\ \/ FailUnmarked(t)
       \/ /\ ~named[t]
          /\ SetRow(t, "complete")
          /\ Return(t, "ok")
          /\ UNCHANGED status
       \/ /\ named[t]
          /\ Goto(t, "relay")
          /\ UNCHANGED <<status, row, answer>>
    /\ UNCHANGED <<request, target, old, lists, relay, mail, files, chat, counts, restarts>>

ChooseRelay(t) ==
    /\ target' = [target EXCEPT ![t] = first["sender"]]
    /\ Goto(t, "upload")
    /\ UNCHANGED <<row, answer>>

\* Mutant: waits for a relay.
SendRelay_Waits(t) ==
    /\ pc[t] = "relay"
    /\ first["sender"] # NoRelay
    /\ kind[t] = "call"
    /\ ChooseRelay(t) /\ SetStatus(t, "sending")
    /\ UNCHANGED <<request, old, lists, relay, mail, files, chat, counts, restarts>>

\* GetRelays, and the first of them: in SendMedia ...
SendRelay(t) ==
    /\ pc[t] = "relay"
    /\ kind[t] = "call"
    /\ IF first["sender"] = NoRelay
       THEN Fail(t) /\ UNCHANGED target
       ELSE ChooseRelay(t) /\ SetStatus(t, "sending")
    /\ UNCHANGED <<request, old, lists, relay, mail, files, chat, counts, restarts>>

\* ... and in SendMediaStream.
StreamRelay(t) ==
    /\ pc[t] = "relay"
    /\ kind[t] = "stream"
    /\ IF first["sender"] = NoRelay
       THEN Fail(t) /\ UNCHANGED target
       ELSE ChooseRelay(t) /\ UNCHANGED status
    /\ UNCHANGED <<request, old, lists, relay, mail, files, chat, counts, restarts>>

\* The relay's handler of /upload keeps the file under its hash;
\* MediaMaxHardCap is well below maxUploadSize.
RelayUpload(t, r) == stored' = stored \cup {<<t, r>>}

\* TCPTransport.SendChunks: the relay stores the file and the transport learns
\* its id ...
Upload(t) ==
    /\ pc[t] = "upload"
    /\ size[t] # "over"
    /\ RelayUpload(t, target[t])
    /\ SetRow(t, "confirming")
    /\ Goto(t, "meta")
    /\ UNCHANGED <<request, status, answer, target, gone, old, lists, mail, files, chat, counts, restarts>>

\* ... or the file is too big, or the request or its answer gets lost.
UploadFails(t) ==
    /\ pc[t] = "upload"
    /\ UNCHANGED stored \/ (size[t] # "over" /\ RelayUpload(t, target[t]))
    /\ Fail(t)
    /\ UNCHANGED <<request, target, gone, old, lists, mail, files, chat, counts, restarts>>

\* Mutant: SendMedia does as SendMediaStream.
SendMeta_AsStream(t) ==
    /\ pc[t] = "meta"
    /\ kind[t] = "call"
    /\ mail' \in {mail, [mail EXCEPT ![t] = "bare"]}
    /\ SetStatus(t, "complete")
    /\ SetRow(t, "complete")
    /\ Return(t, "ok")
    /\ UNCHANGED <<request, target, old, lists, relay, files, chat, counts, restarts>>

\* SendMedia seals the metadata and sends them, the nonce before the ciphertext.
\* A chunk at a time may have gone to any of the relays.
SendMeta(t) ==
    /\ pc[t] = "meta"
    /\ kind[t] = "call"
    /\ mail' \in {[mail EXCEPT ![t] = m] : m \in {"framed", "scattered"}}
    /\ SetStatus(t, "complete")
    /\ SetRow(t, "complete")
    /\ Return(t, "ok")
    /\ UNCHANGED <<request, target, old, lists, relay, files, chat, counts, restarts>>

\* Sealing fails, or SendMessage does, although relays may have every chunk.
SendMetaFails(t) ==
    /\ pc[t] = "meta"
    /\ kind[t] = "call"
    /\ mail' \in {[mail EXCEPT ![t] = m] : m \in {"none", "framed", "scattered"}}
    /\ Fail(t)
    /\ UNCHANGED <<request, target, old, lists, relay, files, chat, counts, restarts>>

\* SendMediaStream sends the ciphertext without the nonce, and does not look
\* at what SendMessage returns.
StreamMeta(t) ==
    /\ pc[t] = "meta"
    /\ kind[t] = "stream"
    /\ mail' \in {mail, [mail EXCEPT ![t] = "bare"]}
    /\ SetStatus(t, "complete")
    /\ SetRow(t, "complete")
    /\ Return(t, "ok")
    /\ UNCHANGED <<request, target, old, lists, relay, files, chat, counts, restarts>>

\* The key of the recipient is malformed, or sealing fails.
StreamMetaFails(t) ==
    /\ pc[t] = "meta"
    /\ kind[t] = "stream"
    /\ Fail(t)
    /\ UNCHANGED <<request, target, old, lists, relay, mail, files, chat, counts, restarts>>

\* The app makes the id of a stream, and learns that of a call from its answer.
Known(t) == kind[t] = "stream" \/ answer[t] = "ok"

\* Mutant: a finished transfer is cancelled as well.
CancelSend_Finished(t) ==
    /\ "sender" \in focus
    /\ Known(t)
    /\ status[t] # "none"
    /\ status' = [status EXCEPT ![t] = "cancelled"]
    /\ UNCHANGED <<request, row, pc, answer, target, old, lists, relay, mail, files, chat, counts, restarts>>

CancelSend(t) ==
    /\ "sender" \in focus
    /\ Known(t)
    /\ status[t] \notin {"none", "complete", "failed"}
    /\ status' = [status EXCEPT ![t] = "cancelled"]
    /\ UNCHANGED <<request, row, pc, answer, target, old, lists, relay, mail, files, chat, counts, restarts>>

\* GetMediaStatus and toProtoStatus: what the app is told of a status.
Reported(s) ==
    CASE s = "none" -> "NotFound" [] s = "queued" -> "QUEUED" [] s = "sending" -> "SENDING"
      [] s = "complete" -> "COMPLETE" [] s \in {"failed", "cancelled"} -> "FAILED"

GetsOld(t) ==
    /\ "sender" \in focus
    /\ status[t] # "none"
    /\ old' = old \cup {t}
    /\ UNCHANGED <<request, call, lists, relay, mail, files, chat, counts, restarts>>

\* cleanupTransfers, for one transfer.
CleanUp(t) ==
    /\ t \in old
    /\ status[t] \in Terminal
    /\ status' = [status EXCEPT ![t] = "none"]
    /\ UNCHANGED <<request, row, pc, answer, target, old, lists, relay, mail, files, chat, counts, restarts>>

-----------------------------------------------------------------------------
\* The media server's ticker finds the file more than seven days old ...
RelayRemoves(t, r) ==
    /\ "recipient" \in focus
    /\ <<t, r>> \in stored
    /\ Mishap
    /\ gone' = gone \cup {<<t, r>>}
    /\ UNCHANGED <<request, call, old, lists, stored, mail, files, chat, counts, restarts>>

\* ... and the gc of the chunk store, the metadata.
MailExpires(t) ==
    /\ "recipient" \in focus
    /\ mail[t] = "framed"
    /\ Mishap
    /\ mail' = [mail EXCEPT ![t] = "expired"]
    /\ UNCHANGED <<request, call, old, lists, relay, files, chat, counts, restarts>>

\* AddRelay to an empty list, or RemoveRelay of the first entry.
ChangeRelay(s, r) ==
    /\ s \in focus
    /\ Mishap
    /\ changes' = changes + 1
    /\ first' = [first EXCEPT ![s] = r]
    /\ UNCHANGED <<request, call, old, knows, relay, mail, files, chat, failures, restarts>>

\* AddPeer or RemovePeer of the sender at the recipient.
ChangeContact ==
    /\ "recipient" \in focus
    /\ Mishap
    /\ changes' = changes + 1
    /\ knows' = ~knows
    /\ UNCHANGED <<request, call, old, first, relay, mail, files, chat, failures, restarts>>

-----------------------------------------------------------------------------
\* A call has done with its message.
Done(p) ==
    /\ at' = [at EXCEPT ![p] = "idle"]
    /\ got' = [got EXCEPT ![p] = "none"]

\* Engine.PollMessages finds the message pending and not marked ...
Look(p, t) ==
    /\ "recipient" \in focus
    /\ at[p] = "idle"
    /\ first["recipient"] # NoRelay
    /\ mail[t] \in Fetchable
    /\ t \notin taken
    /\ at' = [at EXCEPT ![p] = "fetching"]
    /\ item' = [item EXCEPT ![p] = t]
    /\ UNCHANGED <<request, call, old, lists, relay, mail, taken, got, meta, body, history, chat,
                   counts, restarts>>

\* ... fetches it with the lock released, and marks it whether or not another
\* call has done so.
Take(p) ==
    /\ at[p] = "fetching"
    /\ mail[item[p]] \in Fetchable
    /\ at' = [at EXCEPT ![p] = "fetched"]
    /\ taken' = taken \cup {item[p]}
    /\ handed' = handed \cup {item[p]}
    /\ again' = again \cup (handed \cap {item[p]})
    /\ UNCHANGED <<request, call, old, lists, relay, mail, item, got, meta, body, missed, unwritten,
                   chat, counts, restarts>>

\* The message has gone.  (A fetch that fails for another reason leaves no
\* trace and is repeated: module Fetch.)
FetchFails(p) ==
    /\ at[p] = "fetching"
    /\ mail[item[p]] \notin Fetchable
    /\ Done(p)
    /\ UNCHANGED <<request, call, old, lists, relay, mail, taken, item, meta, body, history,
                   chat, counts, restarts>>

\* Daemon.PollMessages passes over a message that opens with the key of no
\* contact, which one without its nonce never does, and over metadata if there
\* is no relay.
Dropped(t) == mail[t] = "bare" \/ ~knows \/ first["recipient"] = NoRelay

Drop(p) ==
    /\ at[p] = "fetched"
    /\ Dropped(item[p])
    /\ Done(p)
    /\ missed' = missed \cup {item[p]}
    /\ UNCHANGED <<request, call, old, lists, relay, mail, taken, item, meta, body,
                   handed, again, unwritten, chat, counts, restarts>>

\* The relay's handler of /download has the file.
Available(t) == <<t, first["recipient"]>> \in stored \ gone

\* Mutant: the file is decrypted with the wrong key.
Download_WrongKey(p) ==
    /\ at[p] = "fetched"
    /\ ~Dropped(item[p])
    /\ at' = [at EXCEPT ![p] = "open"]
    /\ got' = [got EXCEPT ![p] = "failed"]
    /\ UNCHANGED <<request, call, old, lists, relay, mail, taken, item, meta, body, history,
                   chat, counts, restarts>>

\* DownloadFile and DecryptFile give the file.  The plaintext of an empty one is
\* the nil slice, which is taken for an error.
Download(p) ==
    /\ at[p] = "fetched"
    /\ ~Dropped(item[p])
    /\ Available(item[p])
    /\ at' = [at EXCEPT ![p] = "open"]
    /\ got' = [got EXCEPT ![p] = IF size[item[p]] = "empty" THEN "failed" ELSE "complete"]
    /\ UNCHANGED <<request, call, old, lists, relay, mail, taken, item, meta, body, history,
                   chat, counts, restarts>>

\* The relay does not have the file, or something else is in the way: the
\* call's context, for one, has ended when the app has given up.
DownloadFails(p) ==
    /\ at[p] = "fetched"
    /\ ~Dropped(item[p])
    /\ Available(item[p]) => Mishap
    /\ at' = [at EXCEPT ![p] = "open"]
    /\ got' = [got EXCEPT ![p] = "failed"]
    /\ missed' = missed \cup {item[p]}
    /\ failures' = IF Available(item[p]) THEN failures + 1 ELSE failures
    /\ UNCHANGED <<request, call, old, lists, relay, mail, taken, item, meta, body,
                   handed, again, unwritten, chat, changes, restarts>>

\* Mutant: no sidecar.
OpenMeta_Skipped(p) ==
    /\ at[p] = "open"
    /\ at' = [at EXCEPT ![p] = "written"]
    /\ UNCHANGED <<request, call, old, lists, relay, mail, taken, item, got, meta, body, history,
                   chat, counts, restarts>>

\* The sidecar is emptied, then written.  If another call has written it in
\* between, "failed" does not cover all of "complete" and leaves no JSON.
OpenMeta(p) ==
    /\ at[p] = "open"
    /\ at' = [at EXCEPT ![p] = "sidecar"]
    /\ meta' = [meta EXCEPT ![item[p]] = "torn"]
    /\ UNCHANGED <<request, call, old, lists, relay, mail, taken, item, got, body, history,
                   chat, counts, restarts>>

WriteMeta(p) ==
    /\ at[p] = "sidecar"
    /\ at' = [at EXCEPT ![p] = "written"]
    /\ meta' = [meta EXCEPT ![item[p]] = IF @ = "complete" /\ got[p] = "failed" THEN "torn" ELSE got[p]]
    /\ UNCHANGED <<request, call, old, lists, relay, mail, taken, item, got, body, history,
                   chat, counts, restarts>>

\* Then the body is emptied, which is all for the placeholder of a failed
\* download, and written.
OpenBody(p) ==
    /\ at[p] = "written"
    /\ \/ /\ got[p] = "complete"
          /\ at' = [at EXCEPT ![p] = "body"]
          /\ body' = [body EXCEPT ![item[p]] = "torn"]
          /\ UNCHANGED got
       \/ /\ got[p] = "failed"
          /\ Done(p)
          /\ body' = [body EXCEPT ![item[p]] = "empty"]
    /\ UNCHANGED <<request, call, old, lists, relay, mail, taken, item, meta, history,
                   chat, counts, restarts>>

WriteBody(p) ==
    /\ at[p] = "body"
    /\ Done(p)
    /\ body' = [body EXCEPT ![item[p]] = "full"]
    /\ UNCHANGED <<request, call, old, lists, relay, mail, taken, item, meta, history,
                   chat, counts, restarts>>

\* os.WriteFile fails before or after it has emptied the file.  PollMessages
\* goes on after the sidecar as if it were written, and has done after the body.
WriteFails(p) ==
    /\ Mishap
    /\ failures' = failures + 1
    /\ \/ /\ at[p] \in {"open", "sidecar"}
          /\ at' = [at EXCEPT ![p] = "written"]
          /\ UNCHANGED got
       \/ /\ at[p] \in {"written", "body"}
          /\ Done(p)
    /\ unwritten' = unwritten \cup {item[p]}
    /\ UNCHANGED <<request, call, old, lists, relay, mail, taken, item, meta, body,
                   handed, again, missed, chat, changes, restarts>>

\* The app's scanner finds the file and reads its sidecar; the chat keeps the
\* first message of an id.
Scan(t) ==
    /\ body[t] # "none"
    /\ chat[t] = "none"
    /\ chat' = [chat EXCEPT ![t] = CASE meta[t] = "complete" -> "file"
                                    [] meta[t] = "failed" -> "failed"
                                    [] OTHER -> "unknown"]
    /\ UNCHANGED <<request, call, old, lists, relay, mail, files, counts, restarts>>

\* A daemon is started again: the sender's map and handlers are gone and the
\* rows are read by no one; the recipient's marks are gone.
RestartSender ==
    /\ "sender" \in focus
    /\ Mishap
    /\ restarts' = [restarts EXCEPT !["sender"] = @ + 1]
    /\ status' = [t \in Transfers |-> "none"]
    /\ pc' = [t \in Transfers |-> IF pc[t] = "new" THEN "new" ELSE "done"]
    /\ answer' = [t \in Transfers |-> IF pc[t] \in {"new", "done"} THEN answer[t] ELSE "error"]
    /\ UNCHANGED <<request, row, target, old, lists, relay, mail, files, chat, counts>>

RestartRecipient ==
    /\ "recipient" \in focus
    /\ Mishap
    /\ restarts' = [restarts EXCEPT !["recipient"] = @ + 1]
    /\ taken' = {}
    /\ at' = [p \in Pollers |-> "idle"]
    /\ got' = [p \in Pollers |-> "none"]
    /\ UNCHANGED <<request, call, old, lists, relay, mail, item, meta, body, history, chat, counts>>

-----------------------------------------------------------------------------
Handler(t) ==
    \/ StreamTooLong(t) \/ StreamEnds(t) \/ SendRelay(t) \/ StreamRelay(t) \/ Upload(t) \/ UploadFails(t)
    \/ SendMeta(t) \/ SendMetaFails(t) \/ StreamMeta(t) \/ StreamMetaFails(t)

Poll(p) ==
    \/ \E t \in Transfers : Look(p, t)
    \/ Take(p) \/ FetchFails(p) \/ Drop(p) \/ Download(p) \/ DownloadFails(p)
    \/ OpenMeta(p) \/ WriteMeta(p) \/ OpenBody(p) \/ WriteBody(p)

MediaNext ==
    \/ \E t \in Transfers :
           \/ SendMedia(t) \/ StreamHeader(t) \/ StreamChunk(t) \/ StreamBreaks(t)
           \/ Handler(t)
           \/ CancelSend(t) \/ GetsOld(t) \/ CleanUp(t)
           \/ Scan(t) \/ MailExpires(t)
           \/ \E r \in MediaRelays : RelayRemoves(t, r)
    \/ \E p \in Pollers : Poll(p) \/ WriteFails(p)
    \/ \E s \in Sides, r \in MediaRelays \cup {NoRelay} : ChangeRelay(s, r)
    \/ ChangeContact
    \/ RestartSender \/ RestartRecipient

MediaSpec == MediaInit /\ [][MediaNext]_mediaVars

\* A stream that neither breaks nor goes on is closed by the app; a handler, a
\* poll and the scanner go on, and cleanupTransfers comes round.
MediaFairness ==
    /\ \A t \in Transfers : /\ WF_mediaVars(Handler(t)) /\ WF_mediaVars(Scan(t))
                            /\ WF_mediaVars(CleanUp(t))
    /\ \A p \in Pollers : WF_mediaVars(Poll(p))

MediaFairSpec == MediaSpec /\ MediaFairness

-----------------------------------------------------------------------------
\* The state has its shape; SendMedia has no row, and a handler that uploads
\* has a relay.
MediaTypeOK ==
    /\ kind \in [Transfers -> {"call", "stream"}]
    /\ named \in [Transfers -> BOOLEAN] /\ size \in [Transfers -> Sizes]
    /\ status \in [Transfers -> {"none", "queued", "sending"} \cup Terminal]
    /\ row \in [Transfers -> {"none", "queued", "confirming", "complete", "failed"}]
    /\ pc \in [Transfers -> {"new", "receive", "relay", "upload", "meta", "done"}]
    /\ answer \in [Transfers -> {"none", "ok", "error"}]
    /\ old \subseteq Transfers
    /\ target \in [Transfers -> MediaRelays \cup {NoRelay}]
    /\ first \in [Sides -> MediaRelays \cup {NoRelay}]
    /\ stored \subseteq Transfers \X MediaRelays
    /\ gone \subseteq stored
    /\ mail \in [Transfers -> Mails]
    /\ knows \in BOOLEAN
    /\ taken \subseteq Transfers
    /\ at \in [Pollers -> {"idle", "fetching", "fetched", "open", "sidecar", "written", "body"}]
    /\ item \in [Pollers -> Transfers]
    /\ got \in [Pollers -> {"none", "complete", "failed"}]
    /\ meta \in [Transfers -> {"none", "torn", "complete", "failed"}]
    /\ body \in [Transfers -> {"none", "torn", "empty", "full"}]
    /\ chat \in [Transfers -> {"none", "file", "failed", "unknown"}]
    /\ again \subseteq handed /\ handed \subseteq Transfers
    /\ missed \subseteq Transfers /\ unwritten \subseteq Transfers
    /\ focus \subseteq Sides
    /\ changes \in Nat /\ failures \in Nat
    /\ restarts \in [Sides -> Nat]
    /\ \A t \in Transfers : pc[t] \in {"upload", "meta"} => target[t] # NoRelay
    /\ \A t \in Transfers : kind[t] = "call" => row[t] = "none"

\* A transfer the app is shown as complete has been stored by the relay it was
\* uploaded to, and the metadata of a SendMedia have been sent.  (The metadata
\* of a stream may have been lost: its error is not looked at.)
CompleteMeansSent ==
    \A t \in Transfers : status[t] = "complete" =>
        /\ <<t, target[t]>> \in stored
        /\ kind[t] = "call" => mail[t] \in {"framed", "scattered", "expired"}

\* Once a relay has been chosen, whichever way a handler ends, the transfer is
\* marked, so that cleanupTransfers will remove it.
FinishedIsMarked ==
    \A t \in Transfers :
        pc[t] = "done" /\ target[t] # NoRelay => status[t] \in Terminal \cup {"none"}

\* The app stops asking at COMPLETE and FAILED: unless the user has cancelled
\* the transfer, the answer stays the same until the transfer is cleaned up.
FinishedIsFinal ==
    [][\A t \in Transfers :
        Reported(status[t]) \in {"COMPLETE", "FAILED"} /\ status[t] # "cancelled"
        => Reported(status'[t]) \in {Reported(status[t]), "NotFound"}]_mediaVars

\* Some call still has to do with the message, or will.
Pending(t) ==
    \/ t \notin taken
    \/ \E p \in Pollers : item[p] = t /\ at[p] \notin {"idle", "fetching"}

\* The recipient's app finds the sidecar of every file whose message has been
\* handed out once.  What it shows as a file it can open is whole, or just being
\* written, whatever calls of PollMessages overlap; after a restart it may be
\* torn until the message has been fetched once more.  All this unless a
\* write has failed and, for the file shown, no call has dropped the message or
\* failed to download it: such a call writes over what another one has written.
ShownIsWhole ==
    \A t \in Transfers \ unwritten :
        /\ t \notin again => chat[t] # "unknown"
        /\ chat[t] = "file" /\ t \notin missed =>
              \/ body[t] = "full"
              \/ \E p \in Pollers : item[p] = t /\ at[p] = "body"
              \/ restarts["recipient"] > 0 /\ Pending(t)

\* Every call of SendMedia, and every stream that the app ends, is answered.
Answered == \A t \in Transfers : pc[t] # "new" ~> answer[t] # "none"

\* The recipient knows the sender, and asks the relay that the file was
\* uploaded to.
Reaches(t) == knows /\ first["recipient"] = target[t]

\* The file is there and is shown; an empty one is shown as failed.  If the
\* message was handed out twice, the app may have come between the sidecars.
Arrived(t) ==
    /\ body[t] = IF size[t] = "empty" THEN "empty" ELSE "full"
    /\ \/ chat[t] = IF size[t] = "empty" THEN "failed" ELSE "file"
       \/ chat[t] = "unknown" /\ t \in again

\* A file whose metadata SendMedia has sent, so that one relay has all of them,
\* arrives in spite of restarts and overlapping calls of PollMessages, as long
\* as the recipient knows the sender and asks the right relay, the relays keep
\* the file and the metadata, and no download and no write fails.
SentArrives ==
    \A t \in Transfers :
        /\ "recipient" \in focus
        /\ mail[t] = "framed" /\ Reaches(t) /\ t \notin missed \cup unwritten
        ~> \/ Arrived(t)
           \/ ~Reaches(t) \/ <<t, target[t]>> \in gone \/ mail[t] = "expired"
           \/ t \in missed \cup unwritten
=============================================================================
