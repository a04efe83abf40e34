-------------------------------- MODULE Send --------------------------------
(***************************************************************************)
(* What DNSClientEngine.SendMessage promises its callers, the daemon's     *)
(* SendMessage and processQueue: while it runs, relays accept chunks; if   *)
(* it reports success every chunk has been accepted by some relay; if it   *)
(* reports an error nothing is known.  A packet that is still under way    *)
(* may be accepted after the call has returned.                            *)
(***************************************************************************)
CONSTANTS Chunks, Relays

VARIABLES
    accepted,   \* pairs <<chunk, relay>>: the relay has stored the chunk at some time
    result      \* "pending", "ok" or "error"

Init == accepted = {} /\ result = "pending"

Accept ==
    /\ \E t \in Chunks \X Relays : accepted' = accepted \cup {t}
    /\ UNCHANGED result

ReturnOK ==
    /\ result = "pending"
    /\ \A c \in Chunks : \E r \in Relays : <<c, r>> \in accepted
    /\ result' = "ok"
    /\ UNCHANGED accepted

ReturnError ==
    /\ result = "pending"
    /\ result' = "error"
    /\ UNCHANGED accepted

Next == Accept \/ ReturnOK \/ ReturnError

vars == <<accepted, result>>

Spec == Init /\ [][Next]_vars

\* The call returns.
Returns == <>(result # "pending")
=============================================================================
