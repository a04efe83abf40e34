---------------------------- MODULE SendParallel ----------------------------
(***************************************************************************)
(* DNSClientEngine.SendMessage and sendParallel                            *)
(* (internal/client/dns_engine.go) with dns.SendChunk                      *)
(* (internal/dns/dns.go): one goroutine per chunk and relay, a semaphore   *)
(* of Parallelism slots, a context with a deadline, and a main loop that   *)
(* selects between "all goroutines have ended", "the context is done" and  *)
(* a ticker that looks whether every chunk has been delivered.             *)
(*                                                                         *)
(* Time is counted in units in which goroutines run instantly: the clock   *)
(* advances only while everybody waits for the network.                    *)
(***************************************************************************)
EXTENDS Integers, FiniteSets

CONSTANTS
    Chunks,           \* the chunks of the message
    Relays,           \* discoverActiveRelays
    Parallelism,      \* slots of the semaphore (15)
    Modes,            \* transport modes the user may choose: subset of {"auto", "single"}
    Deadline,         \* of the context made by SendMessage (10 s)
    ExchangeTimeout   \* longest duration of one DNS exchange (5 s)

ASSUME ConstantsAssumption ==
    /\ IsFiniteSet(Chunks) /\ IsFiniteSet(Relays)
    /\ Chunks # {} /\ Relays # {}
    /\ Parallelism \in Nat \ {0}
    /\ Modes \subseteq {"auto", "single"}
    /\ Deadline \in Nat \ {0}
    /\ ExchangeTimeout \in Nat \ {0}

Tasks == Chunks \X Relays

VARIABLES
    task,       \* [Tasks -> where the goroutine is]
    sem,        \* number of tokens in the semaphore channel
    sent,       \* requests that have been put on the network
    accepted,   \* requests whose chunk the relay has stored
    elapsed,    \* [Tasks -> duration of the exchange under way, 0 if there is none]
    chunkDelivered,
    now,
    abandoned,  \* the caller's own context has been cancelled
    main,       \* the main loop: "run", "drain" (context done), "cancelled" (all delivered), "returned"
    result

net == <<sent, accepted>>
vars == <<task, sem, net, elapsed, chunkDelivered, now, abandoned, main, result>>

-----------------------------------------------------------------------------
\* The exchanges of SendChunk: one in the TCP and UDP modes; in automatic mode
\* TCP, then UDP, then TCP again.
Exchanging == {"single", "tcp", "udp", "tcp2"}

\* Where a goroutine owns a slot.
Holding == Exchanging \cup {"held", "ok"}

\* childCtx.Done(): the deadline, the caller, or cancel() by the main loop.
CtxDone == now >= Deadline \/ abandoned \/ main \in {"cancelled", "returned"}

AllEnded == \A t \in Tasks : task[t] = "end"

AllDelivered == chunkDelivered = Chunks

Init ==
    /\ task = [t \in Tasks |-> "wait"]
    /\ sem = 0
    /\ sent = {}
    /\ accepted = {}
    /\ elapsed = [t \in Tasks |-> 0]
    /\ chunkDelivered = {}
    /\ now = 0
    /\ abandoned = FALSE
    /\ main = "run"
    /\ result = "pending"

-----------------------------------------------------------------------------
\* The first select of a goroutine: a slot ...
Acquire(t) ==
    /\ task[t] = "wait"
    /\ sem < Parallelism
    /\ sem' = sem + 1
    /\ task' = [task EXCEPT ![t] = "held"]
    /\ UNCHANGED <<net, elapsed, chunkDelivered, now, abandoned, main, result>>

\* Mutant: the goroutine returns before it has deferred wg.Done.
GiveUp_NoDone(t) ==
    /\ task[t] = "wait"
    /\ CtxDone
    /\ task' = [task EXCEPT ![t] = "gone"]
    /\ UNCHANGED <<sem, net, elapsed, chunkDelivered, now, abandoned, main, result>>

\* ... or the end of the context.
GiveUp(t) ==
    /\ task[t] = "wait"
    /\ CtxDone
    /\ task' = [task EXCEPT ![t] = "end"]
    /\ UNCHANGED <<sem, net, elapsed, chunkDelivered, now, abandoned, main, result>>

\* The goroutine returns with a slot in its hands; the deferred receive frees it.
Release(t) ==
    /\ task' = [task EXCEPT ![t] = "end"]
    /\ sem' = sem - 1
    /\ elapsed' = [elapsed EXCEPT ![t] = 0]

\* The second select, with the context done.
GiveBack(t) ==
    /\ task[t] = "held"
    /\ CtxDone
    /\ Release(t)
    /\ UNCHANGED <<net, chunkDelivered, now, abandoned, main, result>>

\* Client.Exchange: the request leaves; it may be delivered late or never.
Exchange(t, phase) ==
    /\ task' = [task EXCEPT ![t] = phase]
    /\ sent' = sent \cup {t}
    /\ elapsed' = [elapsed EXCEPT ![t] = 0]

\* Mutant: the context is not looked at again once the slot is there.
BeginSend_NoCheck(t) ==
    /\ task[t] = "held"
    /\ \E mode \in Modes : Exchange(t, IF mode = "auto" THEN "tcp" ELSE "single")
    /\ UNCHANGED <<sem, accepted, chunkDelivered, now, abandoned, main, result>>

\* The second select's default: read the transport mode and call SendChunk.
BeginSend(t) ==
    /\ task[t] = "held"
    /\ ~CtxDone
    /\ \E mode \in Modes : Exchange(t, IF mode = "auto" THEN "tcp" ELSE "single")
    /\ UNCHANGED <<sem, accepted, chunkDelivered, now, abandoned, main, result>>

\* The relay receives the request and stores the chunk.
RelayStores(t) ==
    /\ t \in sent \ accepted
    /\ accepted' = accepted \cup {t}
    /\ UNCHANGED <<task, sem, sent, elapsed, chunkDelivered, now, abandoned, main, result>>

\* Mutant: an exchange without a network error counts as success whatever the
\* relay answered.
ExchangeSucceeds_AnyRcode(t) ==
    /\ task[t] \in Exchanging
    /\ task' = [task EXCEPT ![t] = "ok"]
    /\ elapsed' = [elapsed EXCEPT ![t] = 0]
    /\ UNCHANGED <<sem, net, chunkDelivered, now, abandoned, main, result>>

\* The relay's acknowledgement arrives.
ExchangeSucceeds(t) ==
    /\ task[t] \in Exchanging
    /\ t \in accepted
    /\ task' = [task EXCEPT ![t] = "ok"]
    /\ elapsed' = [elapsed EXCEPT ![t] = 0]
    /\ UNCHANGED <<sem, net, chunkDelivered, now, abandoned, main, result>>

\* The relay answers with another code (rate limit, format error): only the
\* first exchange of the automatic mode is followed by another.
ExchangeRefused(t) ==
    /\ \/ task[t] = "tcp" /\ Exchange(t, "udp") /\ UNCHANGED sem
       \/ /\ task[t] \in {"single", "udp", "tcp2"}
          /\ Release(t)
          /\ UNCHANGED sent
    /\ UNCHANGED <<accepted, chunkDelivered, now, abandoned, main, result>>

\* No answer in time, or a network error; the chunk may have been stored.
ExchangeFails(t) ==
    /\ \/ task[t] = "tcp" /\ Exchange(t, "udp") /\ UNCHANGED sem
       \/ task[t] = "udp" /\ Exchange(t, "tcp2") /\ UNCHANGED sem
       \/ /\ task[t] \in {"single", "tcp2"}
          /\ Release(t)
          /\ UNCHANGED sent
    /\ UNCHANGED <<accepted, chunkDelivered, now, abandoned, main, result>>

\* SendChunk returned nil: the chunk is marked under mu.
MarkDelivered(t) ==
    /\ task[t] = "ok"
    /\ chunkDelivered' = chunkDelivered \cup {t[1]}
    /\ Release(t)
    /\ UNCHANGED <<net, now, abandoned, main, result>>

-----------------------------------------------------------------------------
\* The main loop, case <-done.
AllDone ==
    /\ main = "run"
    /\ AllEnded
    /\ main' = "returned"
    /\ result' = IF AllDelivered THEN "ok" ELSE "error"
    /\ UNCHANGED <<task, sem, net, elapsed, chunkDelivered, now, abandoned>>

\* case <-childCtx.Done(): wait for the goroutines, then fail.
ContextEnds ==
    /\ main = "run"
    /\ CtxDone
    /\ main' = "drain"
    /\ UNCHANGED <<task, sem, net, elapsed, chunkDelivered, now, abandoned, result>>

\* Mutant: success as soon as one chunk has been delivered.
TickerFires_Some ==
    /\ main = "run"
    /\ chunkDelivered # {}
    /\ main' = "cancelled"
    /\ UNCHANGED <<task, sem, net, elapsed, chunkDelivered, now, abandoned, result>>

\* case <-ticker.C with every chunk delivered: cancel() and wait.
TickerFires ==
    /\ main = "run"
    /\ AllDelivered
    /\ main' = "cancelled"
    /\ UNCHANGED <<task, sem, net, elapsed, chunkDelivered, now, abandoned, result>>

\* The <-done of the two cases above.
Drained ==
    /\ main \in {"drain", "cancelled"}
    /\ AllEnded
    /\ main' = "returned"
    /\ result' = IF main = "cancelled" THEN "ok" ELSE "error"
    /\ UNCHANGED <<task, sem, net, elapsed, chunkDelivered, now, abandoned>>

\* The caller (an RPC) goes away.
CallerCancels ==
    /\ main # "returned"
    /\ ~abandoned
    /\ abandoned' = TRUE
    /\ UNCHANGED <<task, sem, net, elapsed, chunkDelivered, now, main, result>>

\* Somebody can run without waiting for the network.
Busy ==
    \/ \E t \in Tasks : task[t] \in {"held", "ok"}
    \/ \E t \in Tasks : task[t] = "wait" /\ (sem < Parallelism \/ CtxDone)
    \/ main = "run" /\ (CtxDone \/ AllDelivered)
    \/ main # "returned" /\ AllEnded

\* Time passes for the exchanges under way, none of which outlives its timeout.
Pass ==
    /\ main # "returned"
    /\ ~Busy
    /\ \A t \in Tasks : task[t] \in Exchanging => elapsed[t] < ExchangeTimeout
    /\ now' = now + 1
    /\ elapsed' = [t \in Tasks |-> IF task[t] \in Exchanging THEN elapsed[t] + 1 ELSE 0]
    /\ UNCHANGED <<task, sem, net, chunkDelivered, abandoned, main, result>>

TaskStep(t) ==
    \/ Acquire(t) \/ GiveUp(t) \/ GiveBack(t) \/ BeginSend(t)
    \/ ExchangeSucceeds(t) \/ ExchangeRefused(t) \/ ExchangeFails(t)
    \/ MarkDelivered(t)

MainStep == AllDone \/ ContextEnds \/ TickerFires \/ Drained

Next ==
    \/ \E t \in Tasks : TaskStep(t) \/ RelayStores(t)
    \/ MainStep
    \/ CallerCancels
    \/ Pass

Spec == Init /\ [][Next]_vars

\* The Go scheduler runs every goroutine that can run, an exchange ends at its
\* timeout at the latest, and the main loop's select takes a case that is ready.
FairSpec ==
    /\ Spec
    /\ \A t \in Tasks : WF_vars(TaskStep(t))
    /\ WF_vars(MainStep)

-----------------------------------------------------------------------------
\* The state has its shape; in particular a relay stores only what was sent to
\* it.
TypeOK ==
    /\ task \in [Tasks -> Holding \cup {"wait", "end"}]
    /\ sem \in Nat
    /\ sent \subseteq Tasks
    /\ accepted \subseteq sent
    /\ elapsed \in [Tasks -> 0 .. ExchangeTimeout]
    /\ chunkDelivered \subseteq Chunks
    /\ now \in Nat
    /\ abandoned \in BOOLEAN
    /\ main \in {"run", "drain", "cancelled", "returned"}
    /\ result \in {"pending", "ok", "error"}

\* No slot leaks: the semaphore counts exactly the goroutines that own a slot,
\* on every path out of a goroutine, and there are never more than Parallelism.
SlotsMatchHolders ==
    /\ sem = Cardinality({t \in Tasks : task[t] \in Holding})
    /\ sem <= Parallelism

\* SendMessage reports success only if every chunk was stored by some relay,
\* however acknowledgements, timeouts, the deadline and the ticker race.
OkMeansAccepted ==
    result = "ok" => \A c \in Chunks : \E r \in Relays : <<c, r>> \in accepted

\* An error has a reason: the context ended, or some chunk was not
\* acknowledged by any relay.
ErrorHasReason ==
    result = "error" => now >= Deadline \/ abandoned \/ ~AllDelivered

\* After it has returned, SendMessage puts nothing on the network any more, and
\* none of its goroutines goes on to another exchange: a caller that retries does
\* not race its own earlier call.
QuietAfterReturn == [][result # "pending" => sent' = sent /\ task' = task]_vars

\* SendMessage may overrun its deadline, since exchanges are not cancelled by
\* the context, but by less than the three exchanges of one SendChunk.
ReturnsInTime == result = "pending" => now < Deadline + 3 * ExchangeTimeout

\* The promise the callers rely on: a success means that every chunk was
\* accepted, and chunks are accepted whatever the result.
Promise == INSTANCE Send

SendPromise == Promise!Spec

\* SendMessage returns, whatever the network and the relays do.
Returns == Promise!Returns
=============================================================================
