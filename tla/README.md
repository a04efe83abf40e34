# VRGram: TLA+ models and proofs

VRGram sends end-to-end encrypted chat messages through DNS queries. A client
daemon (Go, driven over gRPC by a Flutter app) cuts a ciphertext into chunks and
sends every chunk to every configured relay; a relay keeps chunks in memory for
the recipient, whose daemon polls the relays, collects the chunks and hands the
decrypted messages to its app. Files go over HTTP to a relay, announced by such a
message. This directory models these paths and what a daemon keeps on its disk, checks
the models with TLC and proves their safety properties with TLAPS. Paths are
relative to `src/go/internal/` unless they begin with `flutter/`.

## The system's parts

| part | code | here |
|---|---|---|
| relay chunk store, sequence counter | `store/` | `ChunkStore` |
| engine, sending | `client/dns_engine.go`, `dns/dns.go` | `Send` (abstract), `SendParallel` |
| daemon, sending; offline queue | `client/daemon.go`, `client/queue.go` | `Outbox` (abstract), `SendQueue` |
| engine, daemon and app, receiving | `client/dns_engine.go`, `client/daemon.go`, `flutter/lib/features/chat/providers/message_list_provider.dart` | `Fetch` |
| sender, relay and recipient | | `Delivery` (`SendQueue` and `Fetch` joined at the relays) |
| chunk encoding | `encoding/encoding.go` | `Encoding` |
| rate limiter | `ratelimit/ratelimit.go` | `RateLimit` |
| DNS exchanges and the relay's handler | `dns/dns.go`, `relay/server.go`, `client/dns_engine.go` | `Wire` (over `Encoding` and `RateLimit`) |
| media transfers, media server | `client/daemon.go`, `media/`, `relay/server.go` | `Media` |
| contacts, profile, invites | `client/daemon.go`, `client/daemon_state.go`, `crypto/invite.go` | `Contacts` (over `StateFile`) |
| groups | `client/daemon_groups.go`, `client/daemon_state.go`, `crypto/group.go` | `Groups` (over `StateFile`) |
| start, identity, token, relay list, settings | `client/daemon.go`, `crypto/crypto.go` | `Daemon` (over `Groups`) |

## The modules

**ChunkStore.** State: the buffers (one function per field of `messageBuf`),
`messageOwner`, `peerMessages`, the sequence counter, the request goroutines and a
clock. The store branch of the handler is two steps, `Store` under `mu` and
`SetMessageOwner` under `peerMu`, between which other requests and gc run. gc
deletes one message per step. The timing assumption is that a sender sends
all chunks of a message, and a request goroutine does its second step, within the
TTL (`SendWindow + HandlerDelay <= TTL`; seconds against seven days).

**Send, SendParallel.** One process per chunk and relay with its semaphore slot
and its exchanges (three in auto mode, one otherwise), the main loop's select over
`done`, the context and the ticker, and a clock (`Pass`). The length of an exchange
is bounded by the DNS library's timeout, which is external. `Send` says what
callers may rely on: success means that every chunk was stored by some relay;
chunks may be stored whatever the result. `accepted` means "stored at some time".

**Outbox, SendQueue.** The `SendMessage` RPC and `processQueue` over the rows
of the queue. An engine call behaves as `Send` promises and makes a new message
id ("copy") each time. A crash keeps the rows only. With `DBOutcomes = BOOLEAN`
each write of the queue may fail; `processQueue` ignores that, as in the code.
`Outbox` is the promise to the user: a message taken on is owed until it is handed
over or has failed more than `MaxRetries` times.

**Fetch.** A poll lists all relays, then, for every listed id not marked fetched,
tries one relay after another; all chunks must come from the same one. Looking at
the mark and setting it are separate steps. The daemon then decrypts message by
message against the peers it knows and drops what does not fit; the answer reaches
the app or, from some message on, is lost. Relays come to hold the chunks one by one, so
that a relay with a part of a message may be tried before one that has all of it. Relays
may forget messages (restart or TTL), peers may be removed, the daemon may restart;
`MaxMishaps` bounds these and lost answers together. The messages the daemon consumes
itself are in `Contacts` (hello, profile) and `Media` (metadata).

**Delivery.** Both daemons; the step in which a relay stores a chunk is shared.

**Encoding, RateLimit, Wire.** `Encoding` computes what the code computes, on bytes
and base32 digits: splitting, the CRC on a register of sixteen bits, the labels of a name
and back, reassembly. Counts have `Width` bits (16 in the code). `RateLimit` is the token bucket of each
address in whole units of tokens (`Ticks` units are one request); `start` and `before`
mark the beginning of any stretch of time for which the bound is stated. `Wire` sends
one message through one relay: `SetChunkSize`, one `SendChunk` per chunk with its fall
backs over TCP and UDP, the relay's handler behind its limiter, and the recipient's
`QueryChunk`. The network loses requests and answers, or alters a digit of a payload;
`Noise` says which digits may arrive as which.

**Media.** A file from `SendMedia` or `SendMediaStream` through the relay's media
server to the recipient's directory and into the chat. Handlers are split at the network
and between writes of files; `CancelSend`, `cleanupTransfers`, removal at the relay,
changes of the relay lists and restarts come at any point. `status` is the entry in
`d.transfers`, `row` the one in the `TransferStore`. The metadata end on one relay
("framed"), on several in parts ("scattered", which no poll can fetch) or have expired. On
the recipient's side several calls of `PollMessages` overlap (an app that has timed out
asks again while the daemon goes on): a call looks at the mark of an id (`Look`) and sets it
in a later critical section (`Take`), so that two may take the same message; it drops a message for
which it knows no key (`Drop`), downloads or fails to, and writes sidecar and body, each in
two steps, and each may fail unnoticed. `again`, `missed` and `unwritten` are history: the files
whose message was handed out twice, that a call dropped or failed to download, and with a
failed write. A behaviour follows the daemons of one member of `Focus` and leaves out the polls,
restarts, mishaps and cleaning up of the other; the two share only what was sent and what the relays keep.

**StateFile.** The save functions of `daemon_state.go` as operators on a file's value:
marshal under the lock, open (which empties the file), write. Two saves may overlap,
write in either order, or leave bytes of both; a write may fail, and so may the reading at
a start. `exact` records that the last save had the file to itself and succeeded, and that
the file was read if the daemon was started since. The change of a map and its marshalling are two critical
sections in the code and one step here: a change that comes between them only makes the
bytes of the earlier save newer.

**Contacts.** Several users with `GenerateInviteCode`, `JoinViaCode`, `AddPeer`,
`RemovePeer`, `UpdateProfile` and the hello and profile branches of `PollMessages`, each
split at the steps of a save and at the network, with the files of contacts and profile and
the queue of unsent hellos. A nickname goes into the hello as it is and into a profile
update with its quotes escaped: `InHello` and `InProfile` say what the other side parses,
or `NotJSON`. `Lose` stands for `processQueue` giving up and for the relay's gc. `agreed`,
`issued`, `answered`, `joins` and `spoiled` are history. `Uses` says which user makes which
calls.

**Groups, Daemon.** `Groups` follows one group of one daemon: the handlers change it
under the lock, save it and then walk the members without a lock, sending each the key
and epoch the group has at that moment and skipping those whose public key is malformed
(`Malformed`). `Daemon` is `RunDaemon` step by step, dying between any two steps, with the
identity and token files, either of which may fail to be read though it is whole (`misread`);
the app, which waits for a token and after ten seconds goes on without one; the two critical
sections of `AddRelay` and `RemoveRelay`; and `watchTransportMode` against the app's writes
of its file. A key, an identity and a token are numbers. The parts share only the daemon's
life, so a behaviour has the calls of one `topic` (start, groups, relays or mode).

`MC*` modules hold the instances. The `*_Name` operators, commented as mutants or
variants, are plausible bugs; each property is violated when its mutant replaces the
original.

## The runs

| run | shows | bounds |
|---|---|---|
| `chunk_store` | no owner entry outlives its buffer at any interleaving of two requests with gc; sequence numbers follow arrival; a buffer is not restamped; stored messages come to be listed, expired ones collected | 2 messages (2 and 1 chunks), 2 recipients sharing a counter key, TTL 2 |
| `send` | success only if all chunks are stored; overrun of the deadline below three exchanges; implements `Send`; the call returns | 2 chunks, 2 relays, 1 slot, both modes; exchanges of up to 2 units, a deadline of 3 |
| `send_queue` | a queued message is not lost; implements `Outbox` | 2 messages, 2 retries, 1 crash, failing writes |
| `fetch` | a fetched id is always accounted for; a message that a relay holds whole and that stays readable is shown, whatever parts other relays hold | 2 overlapping polls, 1 id of 2 chunks, 2 relays; a failed query and one mishap (forget, restart, removal or lost answer) |
| `fetch_scattered` | **violated**: "fetches and reassembles all pending messages" | 1 id, 2 chunks, 2 relays |
| `fetch_lost` | **violated**: a failed poll "will retry on next poll" | 1 id, 1 relay |
| `delivery` | what arrives is a complete copy that was sent; what was taken on arrives or has used up all retries; nothing is handed out twice, all is settled | 1 message, 2 chunks, 1 relay, 1 retry, 1 crash, 1 restart |
| `media` | a complete transfer was stored and announced; statuses are final; a file handed out once is not shown without its sidecar, and what is shown is whole; every call is answered; what was sent arrives | 1 transfer of either kind and any size, 2 relays, 2 overlapping polls, 2 mishaps (list or contact changed, restart, failed download or write, removal, expired metadata), all on one side |
| `wire` | what is reassembled is what was sent; what counts as sent is stored; a wrapped count does no harm; no address exceeds its rate | 2-bit counts, messages of 65 and 128 bytes, chunk sizes 32, 75, 95 and 200, one fault |
| `names` | **violated**: the cap "to prevent excessively large DNS names" | chunk size 96 |
| `contacts` | files hold what memory holds; nobody becomes a contact unagreed; a code makes one contact; a join is answered unless the nickname breaks the hello | 3 users, 3 calls, nicknames with and without a quote, 1 fault (restart, unreadable file, failed write, loss, expiry) |
| `daemon` | only an unreadable file costs the identity or the token; a lost update hits no relay that the overlapping calls do not name; members are sent the current key; a leaver is not administrator; groups are saved; a setting arrives | 3 other members, one with a malformed key, 2 relays, 2 modes, 3 calls, 3 settings; up to 5 crashes, misreads and restarts of the app in a start, 1 with groups, 2 otherwise |

Two chunks, two relays and two concurrent actors are the smallest instance in which
chunks can be split, reordered or raced; a third user is needed for a code that two
people use, and two other members with sound keys so that one is left when two removals overlap (one may
be of the administrator's own entry). The limits (retries, slots, TTL, width of a count) are small so
that they are reached: with 2-bit counts a message of 128 bytes in chunks of 32 has as
many chunks as wrap to 0, as 65536 chunks do in the code. Three settings and three calls
are enough for the app to write the content the watcher saw last after a call has set another
mode. Where faults or mishaps are counted, their sum is bounded, and they are of any kind
and at any point. Actions that a daemon does for one item after
another do not depend on how many follow, and the safety results below are proved
without bounds.

`CHECK_DEADLOCK FALSE` is set where the system stops: after the one call
(`send`) or message (`wire`, `names`), when the queue is empty (`send_queue`), and when the
bounded calls are used up (`media`, `contacts`, `daemon`).

### What the violations mean

* `PendingIsFetched`: `sendParallel` reports success, and cancels what still
  waits, once every chunk is on *some* relay, but `fetchAndReassemble` needs all of
  them on *one*. A message can be reported sent and never be reassembled. This is
  why `delivery` uses one relay: with two, `TakenOnArrives` does not hold.
* `LostIsRetried`: ids are marked fetched before the answer reaches the app, so
  the messages of a lost answer come back only after a restart of the daemon.
* `NamesFit`: `SetChunkSize` admits up to 200 bytes, "hard cap to prevent excessively
  large DNS names"; from 96 bytes on the name of a full chunk has more than 255 octets
  and cannot be sent, so no message of more than one chunk leaves.

### What the conditions of the properties mean

Some properties hold only under a condition that the code does not guarantee. The
conditions are part of the result:

* `FinishedIsFinal` leaves out cancelled transfers: a handler does not look at the status
  it overwrites, so a transfer cancelled while it uploads may still become complete.
* `FinishedIsMarked` begins when a relay is chosen: a stream that is too large returns
  without marking its transfer.
* `CompleteMeansSent` promises metadata for `SendMedia` only: `SendMediaStream` ignores
  the error, and sends the ciphertext without its nonce, so that no recipient opens it.
* `SentArrives` needs metadata that one relay has whole (see `PendingIsFetched`), a recipient
  who knows the sender when the message is fetched, since it is dropped and not asked for
  again otherwise (`daemon.go:584`), and whose first relay is the sender's. An empty file
  arrives and is shown as failed, since an empty plaintext is taken for a failed download.
* `ShownIsWhole` holds with overlapping polls and across restarts, but not for a file that some
  call failed to download: such a call writes an empty file over what another one has
  written. After a restart the metadata are fetched again and the files rewritten, and a file
  shown may be torn until then. A message that was handed out twice may be
  shown before its second sidecar is written, as an unknown file.
* `SavedIsCurrent` and `GroupsAreSaved` speak of files whose last save had them to itself, and that
  could be read at the last start: overlapping saves may leave the older snapshot, or bytes of
  both, and a crash between the opening and the write leaves an empty file. For the same
  reason `OnlyAgreedContacts` takes what a restart loads from such a file as it is: a removal
  may be undone by it.
* `OncePerLife` needs polls that do not overlap; what overlapping ones may not spoil is in
  `FetchedIsAccounted` and `ShownIsWhole`.
* `JoinIsAnswered` leaves out nicknames with a quote or a backslash: the hello is put together
  without escaping (`daemon.go:924`), such a one may not parse (`daemon.go:567`), and the
  joiner has a contact who never learns of them. It also takes a hello that was sent as one
  that a relay has whole: `PendingIsFetched` says when that is not so, and `Lose` stands
  for it.
* `IdentityIsKept` counts: `RunDaemon` takes every error of `LoadIdentity` for a first start
  (`daemon.go:185`), so a whole file that cannot be read is overwritten. Each such read costs
  one identity and nothing else costs any. Likewise for `AppIsAdmitted`: an unreadable token
  file is replaced, and the app keeps the old token until it is started again. An app that has
  stopped waiting for a token is not admitted either; the property is about one that has a token.
* `RelaysAreAsAsked` is about each relay by itself: of two overlapping calls one may be lost, which
  puts in doubt the relays that the two calls name (`raced`) until they are asked for again, and no
  others. The engine keeps using the relays of its start for sending and fetching whenever it was
  given any (`dns_engine.go:462`).
* `SettingArrives` leaves out a setting that is the content the watcher saw last while a call
  of `SetTransportMode` has set another mode since (`overridden`): `daemon.go:1541` skips it for
  ever, so that the file says one mode and the engine uses the other.
* `LeaverIsNotAdmin` is about `LeaveGroup`: `RemoveGroupMember` lets an administrator remove
  their own entry and stay administrator.
* `CurrentKeyIsSent` says that keys are sent, not that they are read: `CreateGroup` and
  `distributeGroupKey` drop the nonce (`daemon_groups.go:60`), so no member can open one.
  A crash in the middle of a loop leaves members without the key.
* `ExpiredIsCollected` is all that bounds the store: `maxPerPeer` (`store.go:35`) is read
  nowhere.

## Fairness

Weak fairness only. Goroutines of a send and its main loop run when they can, and
an exchange ends at its timeout. `processQueue`, gc and `cleanupTransfers` loop for the life
of their process; a request that stored a chunk goes on to the next statement, and so does a
handler of media or contacts. The app polls, and scans the media directory, in endless
loops; the watcher's ticker ticks while the daemon runs. No fairness is assumed of users,
relays that store late, crashes or lost answers. The bounds on faults (`MaxFails` of a
recipient's queries, `MaxMishaps`, `MaxFaults`) are also the fairness
assumption on the network: under one that fails for ever nothing arrives.

## What is proved

For all values of the constants under each module's named assumptions: any number of
messages, chunks, relays, users, members, handlers, calls and crashes, and in `Encoding` and
`Wire` any bytes. Every safety property of the passing runs is proved; type invariants and some
further properties that are proved are not repeated in a run. `EndpointProofs` and `TransferProofs`
are about two components each.

* `EncodingProofs`, the encoding for every message.
  * `ChecksumDetects`: `crc16` tells apart two payloads of one length that differ in one byte or
    in two adjoining ones. A step of the register is linear and can be undone, so registers that
    differ stay different however many equal bytes follow; and from one register, two pairs of
    bytes lead to different registers unless they are the same pair.
  * `DecodeEncode`, `JoinPieces`, `LabelsDecode`: base32hex, the cutting into pieces, and the
    labels of a chunk are inverted by their decoders, with or without a recipient hash.
  * `AlteredIsDetected`: a digit reaches into two adjoining bytes at most, so labels
    with one altered digit of the payload give the same payload or one the checksum rejects.
  * `ChunksReassemble`, `AcceptedIsTheMessage`: `ReassembleMessage` accepts the chunks of a
    message with fewer than 2^`Width` of them, and whatever it accepts of them, in any order,
    altered or repeated, is the message.

  `Join` and `crc16` are recursive functions. What they compute is proved by induction on
  lengths, from a lemma that a set of naturals that holds 0 and the successor of each
  member holds all (`Induction`; `LeastNumber` rests on the library's theorem that `<` is
  well-founded), applied to the set of the lengths for which the claim holds.
* `WireProofs`, the way of a message over DNS and the relay's limiter.
  * `AllowedIsBounded`, for any rate, burst, addresses and stretch of time. It is not
    inductive, since it forgets what the bucket holds. The strengthening (`LimiterInv`): as of
    the last check of a bucket, requests allowed and tokens left together are at most
    burst + rate * elapsed. `Wire` implements `RateLimit` (`LimiterImplemented`), so the bound
    holds for it too.
  * `TypeOK`, `ReceivedIsSent`, `SentIsStored` and `FirstHasRoom`. None of the last three is
    inductive. The strengthening (`WireInv`) follows a chunk along its way: what may arrive at
    the relay is a chunk of the message or one with another payload that its checksum does
    not fit (`Carried`, by `LabelsDecode` and `AlteredIsDetected`); the relay keeps only such
    chunks, each under its index and none with 0 chunks (`Kept`); the recipient has only
    such chunks (`Collected`); a call that returned "ok" has its chunk at the relay
    (`Acknowledged`); and what was got was accepted by `Reassembles` (`Accepted`), so that
    `AcceptedIsTheMessage` applies.
* `ChunkStoreProofs`, the relay's store.
  * `TypeOK`, `CountsMatchOwners` and `BufferIsStable` of the store.
  * `SequencesIncrease` and `SequenceIsArrivalOrder`. The strengthening (`SeqInv`): every
    number in use is at most the last one its counter handed out.
  * `OwnedIsStored` and `BareIsCollected`. Neither is inductive: `SetMessageOwner` indexes
    a message whose buffer was seen one critical section ago. The strengthening (`TimeInv`)
    says that such a message cannot have expired, because its client sent it at most
    `SendWindow` before that section, which was at most `HandlerDelay` ago, and
    `TimingAssumption` puts their sum within the TTL.
* `TransferProofs`, for `SendParallel`: `TypeOK`, `SlotsMatchHolders`, `OkMeansAccepted`,
  `ErrorHasReason`, `QuietAfterReturn`, `ReturnsInTime`, and that it implements
  `Send`. The strengthening (`ResultInv`): a chunk marked delivered was accepted, the main
  loop leaves its waits only for a reason, and it returns once every goroutine has ended.
* `EndpointProofs`, for `SendQueue`: `TypeOK`, `QueuedIsKept`, `HandedIsCovered`,
  `CallsAreBounded`, and that it implements `Outbox`. The strengthening (`RowInv`): a row
  retried n times stands for more than n failed calls, and what the worker has read of a row
  never exceeds the row.
* `EndpointProofs`, for `Fetch`: `FetchTypeOK`, `FetchedIsAccounted` for any number of overlapping polls,
  and `OncePerLife` for polls that do not overlap. The strengthening (`MarkInv`):
  what was handed out is marked, and the id being fetched is not. With overlapping polls
  the last part fails, and so does `OncePerLife`.
* `DeliveryProofs`, sender and recipient together. Every step of the whole is a step of
  `SendQueue`, or leaves it alone, and the same holds for `Fetch`; so the whole implements both,
  their theorems carry over (`DeliveryAssumption` implies the assumptions of both), and it
  implements `Outbox`. `OncePerLife` follows for polls that do not overlap. `ArrivedWasSent`
  is about both sides and needs a chain along the way of a chunk: what a relay holds it has
  accepted (`HoldInv`), what a poll got so far its relay has accepted (`FetchInv`), and what
  is on the way to the app or in it was accepted whole by one relay (`HandInv`). It is stated with
  "accepted", not "holds", because relays forget.
* `TransferProofs`, for `Media`: `MediaTypeOK`, `CompleteMeansSent`, `FinishedIsMarked`, `ShownIsWhole` and the
  action property `FinishedIsFinal`, for any number of concurrent transfers (the run has
  one). The strengthening has one part for each side. `SenderInv`: no relay is chosen before the
  upload, the relay has the file before the metadata go, and only a handler that has
  returned has said how it ended. `RecipientInv` follows the recipient's files under any number of overlapping polls: a message
  handed out once is in the hands of one poll only (`Alone`), which finds the sidecar as it has
  left it (`PollOK`); and a body is empty or torn only for a reason (`FileOK`): the file is
  empty, a download or a write failed, a poll is writing it, or after a restart it will be fetched again.

* `ContactsProofs`: `TypeOK`, `SavedIsCurrent`, `OnlyAgreedContacts` and `OneContactPerCode`,
  for any users, codes, overlapping handlers, failed writes and restarts. The
  strengthening has a part for each piece of state. `PeersInv` and `ProfileInv`: a file whose
  last save was undisturbed holds what the memory holds, or the one save under way will write
  just that. `NetInv`: a hello under way carries a code and a name. `CodeInv`: a pending code
  was issued by its node and nobody has answered it, since the nonce is deleted in the critical
  section that makes the contact; codes are fresh because they are numbered by calls
  (`CountInv`). `AgreedInv` is `OnlyAgreedContacts` itself: with `PeersInv`, what a restart
  loads from an undisturbed file is what the memory had.
* `DaemonProofs`: `TypeOK`, `IdentityIsKept`, `AppIsAdmitted`, `RelaysAreAsAsked`,
  `CurrentKeyIsSent`, `LeaverIsNotAdmin` and `GroupsAreSaved`, for any number of members,
  relays, calls, crashes and failed reads. `StartInv`: once an identity has been served with,
  its file is whole and holds it, at whatever step of `RunDaemon` the daemon dies, or a read that
  failed has been counted and not yet paid for by a change of identity; the same holds for the token the app
  has read. `RelayInv`: a relay that no overlap has put in doubt is in the list of every call under
  way as it was asked for, and at most one call is about it (`Agrees`).
  `FileInv` is the counterpart of `PeersInv`. `KeyInv` carries `CurrentKeyIsSent`, which
  says nothing while handlers are at work: the current key of each member was sent, or a
  handler that has yet to save will send it, or a loop will still reach the member or has it
  in hand; a crash that breaks such a promise is recorded in `cut`.

Only model-checked: the liveness properties (`StoredIsListed`, `ExpiredIsCollected`, `Returns`,
`Settles`, `ReadableIsShown`, `TakenOnArrives`, `Answered`, `SentArrives`, `JoinIsAnswered`,
`SettingArrives`), which are outside TLAPS's reach. For the same reason the refinements are of
the specifications without their fairness.

## Not modelled

* **Cryptography**: pure computation on bytes; the models use only whether a key fits.
* **The receiving side of groups**: no `group_key` message can be opened, so its branch is
  never taken. That branch also overwrites key and epoch without comparing epochs
  (`daemon.go:607`). The group branch of `SendMessage` keeps no state and ignores the results.
* **`sendWithRetry`**, which runs only without relays; address resolution; the network
  detector, whose mode is fixed at the start.
* **`watchChunkSize`**, which has the shape of `watchTransportMode`; profile pictures, bios and
  progress counters, which nothing in the daemon reads back.
* **The app's lists and screens**: single-threaded copies of what the daemon answers. The chat
  list is one entry per id in `Fetch` and `Media`; its statuses and its file, which is saved without
  awaiting the save before (`chat_provider.dart:187`), are left out.
* **Launchers, platform bridges, generated stubs, listeners, HTTP headers**: I/O.
