---------------------------- MODULE MCChunkStore ----------------------------
(***************************************************************************)
(* ChunkStore on a small instance: a message of two chunks and one of one  *)
(* chunk, to two recipients whose hashes share the counter key.            *)
(***************************************************************************)
EXTENDS ChunkStore

CONSTANTS m1, m2, p1, p2, k1

MCRecipient == [m \in Msgs |-> IF m = m1 THEN p1 ELSE p2]
MCTotal == [m \in Msgs |-> IF m = m1 THEN 2 ELSE 1]
MCKey == [p \in Peers |-> k1]
=============================================================================
