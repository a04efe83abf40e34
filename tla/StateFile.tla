---------------------------- MODULE StateFile ----------------------------
(* The JSON files in which the client daemon keeps its contacts, its groups
   and its profile (internal/client/daemon_state.go).  The three save
   functions have one shape: the map is marshalled under a read lock, the lock
   is released, and os.WriteFile opens the file, which empties it, and writes
   the bytes.  A handler changes the map in a critical section of its own
   before that; the modules that use this one have the change and the
   marshalling in one step, since a change that comes in between only makes
   the bytes of the earlier save newer.  Nothing orders two saves, nothing
   replaces the file in one step, and a failed write is logged and forgotten.

   The state of a file is a value: what the disk holds, the saves under way,
   and whether the last saves had the file to themselves.  The operators below
   are the steps of a save.                                                 *)
EXTENDS Naturals, FiniteSets

\* What is on the disk: no file, an empty file, bytes of two saves, one save.
Contents == {"none", "empty", "mixed", "whole"}

\* A file before the first save; v stands for what the daemon has in memory.
NewFile(v) == [disk |-> "none", data |-> v, saves |-> {}, exact |-> TRUE]

\* json.MarshalIndent under the read lock: the save has its bytes.
Marshal(f, w, v) ==
    [f EXCEPT !.saves = @ \cup {[by |-> w, data |-> v, open |-> FALSE]},
              !.exact = f.saves = {}]

\* os.WriteFile opens the file with O_TRUNC.
Open(f, s) ==
    [f EXCEPT !.saves = (@ \ {s}) \cup {[s EXCEPT !.open = TRUE]},
              !.disk = "empty"]

\* os.WriteFile writes the bytes from the start of the file.  When another
\* save has written since this one emptied it, the longer of the two leaves
\* its tail behind, which no longer parses.
Write(f, s) ==
    LET over == f.disk \in {"whole", "mixed"} IN
    {[f EXCEPT !.saves = @ \ {s}, !.disk = d, !.data = s.data]
        : d \in {"whole"} \cup {x \in {"mixed"} : over}}

\* os.WriteFile fails, before or after it emptied the file.
WriteFails(f, s) == [f EXCEPT !.saves = @ \ {s}, !.exact = FALSE]

\* The daemon dies, and the saves under way die with it.  When it starts again
\* the memory is what the file says, if the file can be read (ok).
Abandon(f, ok) == [f EXCEPT !.saves = {}, !.exact = ok]

\* loadPeers, loadGroups, loadProfile: a file that is missing, cannot be read or
\* does not parse is as good as none.
Load(f, ok, none) == IF ok /\ f.disk = "whole" THEN f.data ELSE none

\* What the file holds.
Held(f, none) == Load(f, TRUE, none)

\* The file is at rest and says what the memory says.
Settled(f) == f.saves = {} /\ f.exact
==========================================================================
