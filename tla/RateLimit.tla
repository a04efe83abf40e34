------------------------------ MODULE RateLimit ------------------------------
(***************************************************************************)
(* The token buckets of internal/ratelimit/ratelimit.go, one per client    *)
(* address, that a relay asks before it looks at a request.                *)
(*                                                                         *)
(* Time is counted in ticks, Ticks of them to a second, and tokens in      *)
(* units of 1/Ticks, so that rate tokens per second are Rate units per     *)
(* tick and a request costs Ticks units: the float64 of the code without   *)
(* its rounding.  allowed, start and before are history: how many requests *)
(* of an address were allowed, the beginning of a stretch of time, and     *)
(* what allowed was then.                                                  *)
(***************************************************************************)
EXTENDS Integers

CONSTANTS
    IPs,
    Rate,      \* limit of NewIPRateLimiter, in tokens per second
    Burst,
    Ticks,     \* ticks per second
    MaxClock   \* bound on time

ASSUME RateAssumption ==
    /\ Rate \in Nat /\ Burst \in Nat /\ MaxClock \in Nat
    /\ Ticks \in Nat \ {0}

VARIABLES clock, buckets, tokens, lastCheck, allowed, start, before

clients == <<buckets, tokens, lastCheck, allowed>>
window == <<start, before>>
limiterVars == <<clock, clients, window>>

Full == Burst * Ticks

LimiterInit ==
    /\ clock = 0
    /\ buckets = {}
    /\ tokens = [ip \in IPs |-> Full]
    /\ lastCheck = [ip \in IPs |-> 0]
    /\ allowed = [ip \in IPs |-> 0]
    /\ start = 0
    /\ before = [ip \in IPs |-> 0]

\* Mutant: the bucket overflows.
Refill_NoCap(ip) == tokens[ip] + (clock - lastCheck[ip]) * Rate

\* What AllowN finds in the bucket; a bucket made by NewTokenBucket is full.
Refill(ip) ==
    LET filled == tokens[ip] + (clock - lastCheck[ip]) * Rate
    IN  IF ip \notin buckets \/ filled > Full THEN Full ELSE filled

\* IPRateLimiter.Allow, when it answers TRUE ...
Allow(ip) ==
    /\ Refill(ip) >= Ticks
    /\ buckets' = buckets \cup {ip}
    /\ lastCheck' = [lastCheck EXCEPT ![ip] = clock]
    /\ tokens' = [tokens EXCEPT ![ip] = Refill(ip) - Ticks]
    /\ allowed' = [allowed EXCEPT ![ip] = @ + 1]
    /\ UNCHANGED <<clock, window>>

\* ... and when it answers FALSE.
Refuse(ip) ==
    /\ Refill(ip) < Ticks
    /\ buckets' = buckets \cup {ip}
    /\ lastCheck' = [lastCheck EXCEPT ![ip] = clock]
    /\ tokens' = [tokens EXCEPT ![ip] = Refill(ip)]
    /\ UNCHANGED <<clock, allowed, window>>

\* Time passes, and a stretch of time may begin.
ClockTick ==
    /\ clock < MaxClock
    /\ clock' = clock + 1
    /\ \/ UNCHANGED window
       \/ start' = clock + 1 /\ before' = allowed
    /\ UNCHANGED clients

LimiterNext == ClockTick \/ \E ip \in IPs : Allow(ip) \/ Refuse(ip)

LimiterSpec == LimiterInit /\ [][LimiterNext]_limiterVars

-----------------------------------------------------------------------------
\* The state has its shape, and no bucket holds less than nothing or more than
\* the burst.
LimiterTypeOK ==
    /\ clock \in Nat
    /\ buckets \subseteq IPs
    /\ tokens \in [IPs -> 0 .. Full]
    /\ lastCheck \in [IPs -> 0 .. clock]
    /\ allowed \in [IPs -> Nat]
    /\ start \in 0 .. clock
    /\ before \in [IPs -> Nat]

\* In no stretch of time, whenever it begins, does an address get more than the
\* burst and what the rate gives for the time: neither refused requests, nor a
\* bucket made late, nor idle time let it.
AllowedIsBounded ==
    \A ip \in IPs : (allowed[ip] - before[ip]) * Ticks <= Full + Rate * (clock - start)
=============================================================================
