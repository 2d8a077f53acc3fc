---------------------------- MODULE MCChunkQueue ----------------------------
(* ChunkQueue with three slots and two chunks that can be queued again and   *)
(* again: the ring wraps, fills up and runs empty, with every interleaving.  *)
EXTENDS ChunkQueue

CONSTANTS c1, c2

MCChunks == {c1, c2}
=============================================================================
