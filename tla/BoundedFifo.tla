----------------------------- MODULE BoundedFifo -----------------------------
(***************************************************************************)
(* What the threads of the pipeline expect of a chunk queue: a bounded     *)
(* first-in first-out buffer between one producer and one consumer, every  *)
(* operation of which happens in a single step.  ChunkQueue, the ring      *)
(* buffer of chunkQueue.c driven by two threads, implements it.            *)
(***************************************************************************)
EXTENDS Naturals, Sequences

CONSTANTS
  Capacity,  \* the most chunks the buffer holds
  Chunks,    \* the chunks that can pass through it
  NULL       \* no chunk

VARIABLES
  contents,  \* the chunks in the buffer, the oldest first
  offered,   \* the chunk the producer holds and has not put in yet, or NULL
  taken      \* the chunk the consumer took out and still works on, or NULL

vars == <<contents, offered, taken>>

Init ==
  /\ contents = <<>>
  /\ offered = NULL
  /\ taken = NULL

Offer ==
  /\ offered = NULL
  /\ offered' \in Chunks
  /\ UNCHANGED <<contents, taken>>

Put ==
  /\ offered # NULL
  /\ Len(contents) < Capacity
  /\ contents' = Append(contents, offered)
  /\ offered' = NULL
  /\ UNCHANGED taken

Take ==
  /\ taken = NULL
  /\ contents # <<>>
  /\ taken' = Head(contents)
  /\ contents' = Tail(contents)
  /\ UNCHANGED offered

Use ==
  /\ taken # NULL
  /\ taken' = NULL
  /\ UNCHANGED <<contents, offered>>

Next == Offer \/ Put \/ Take \/ Use

Spec == Init /\ [][Next]_vars
=============================================================================
