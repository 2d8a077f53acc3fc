----------------------------- MODULE ChunkQueue ------------------------------
(***************************************************************************)
(* The ring buffer of chunkQueue.c between the one thread that fills it    *)
(* and the one that empties it, at the grain of single memory accesses.    *)
(* enque and deque run under the queue's mutex.  queueIsFull and, in the   *)
(* MAC thread, front are called WITHOUT it, so they may see any state an   *)
(* operation of the other thread passes through.                           *)
(*                                                                         *)
(* q->head = (++q->head) % q->capacity modifies head twice without a       *)
(* sequence point.  The compiler the build names, clang, stores the        *)
(* incremented value and then the remainder; both stores are steps here,   *)
(* so for a moment head, or tail, may equal the capacity.                  *)
(***************************************************************************)
EXTENDS Integers, Sequences

CONSTANTS
  Capacity,  \* createQueue's max_elements, QUE_SIZE in the program
  Chunks,    \* the chunks that pass through the queue
  NULL       \* the null pointer

\* createQueue starts head at 1, an index into elements only from capacity 2 on.
ASSUME CapacityAssumption == Capacity \in Nat /\ Capacity >= 2
ASSUME NullAssumption == NULL \notin Chunks

VARIABLES
  size, head, tail, elements,  \* the fields of the queue struct
  mutex,      \* "free", or the thread that holds the queue's mutex
  pPc,        \* where the producer is
  pChunk,     \* the chunk it wants to queue, or NULL
  cPc,        \* where the consumer is
  cChunk,     \* the chunk it took, or NULL
  peeked      \* what its last front() without the mutex returned, or NULL

queueVars == <<size, head, tail, elements>>
producerVars == <<pPc, pChunk>>
consumerVars == <<cPc, cChunk, peeked>>
vars == <<queueVars, mutex, producerVars, consumerVars>>

Slots == 0 .. Capacity - 1

ProducerPcs == {"idle", "full", "lock", "size", "tail", "wrap", "store", "unlock"}
ConsumerPcs == {"idle", "peek", "lock", "front", "size", "clear", "head", "wrap",
                "unlock", "use"}

\* A slip: head starts where tail does.
createQueueHead0 ==
  /\ size = 0
  /\ head = 0
  /\ tail = 0
  /\ elements = [s \in Slots |-> NULL]

createQueue ==
  /\ size = 0
  /\ head = 1
  /\ tail = 0
  /\ elements = [s \in Slots |-> NULL]

Init ==
  /\ createQueue
  /\ mutex = "free"
  /\ pPc = "idle" /\ pChunk = NULL
  /\ cPc = "idle" /\ cChunk = NULL /\ peeked = NULL

-----------------------------------------------------------------------------
(* The producer: wait until the queue is not full, lock, enque, unlock.    *)

PGoto(from, to) == pPc = from /\ pPc' = to

\* The thread has read or made the next chunk.
Produce ==
  /\ PGoto("idle", "full")
  /\ pChunk' \in Chunks
  /\ UNCHANGED <<queueVars, mutex, consumerVars>>

\* while (queueIsFull(out)) nanosleep: the unlocked test that lets it go on.
queueIsFull == size = Capacity

\* A slip: the producer does not wait for room.
SeesRoomUntested ==
  /\ PGoto("full", "lock")
  /\ UNCHANGED <<queueVars, mutex, pChunk, consumerVars>>

SeesRoom ==
  /\ PGoto("full", "lock")
  /\ ~queueIsFull
  /\ UNCHANGED <<queueVars, mutex, pChunk, consumerVars>>

\* A slip: the producer's mutex is not the consumer's.
PLockOther ==
  /\ PGoto("lock", "size")
  /\ mutex' = "producer"
  /\ UNCHANGED <<queueVars, pChunk, consumerVars>>

PLock ==
  /\ PGoto("lock", "size")
  /\ mutex = "free"
  /\ mutex' = "producer"
  /\ UNCHANGED <<queueVars, pChunk, consumerVars>>

\* enque, store by store.  A full queue refuses the chunk.
EnqueSize ==
  /\ PGoto("size", IF queueIsFull THEN "unlock" ELSE "tail")
  /\ size' = IF queueIsFull THEN size ELSE size + 1
  /\ UNCHANGED <<head, tail, elements, mutex, pChunk, consumerVars>>

EnqueTail ==
  /\ PGoto("tail", "wrap")
  /\ tail' = tail + 1
  /\ UNCHANGED <<size, head, elements, mutex, pChunk, consumerVars>>

\* A slip: wraps one slot late.
EnqueWrapLate ==
  /\ PGoto("wrap", "store")
  /\ tail' = tail % (Capacity + 1)
  /\ UNCHANGED <<size, head, elements, mutex, pChunk, consumerVars>>

EnqueWrap ==
  /\ PGoto("wrap", "store")
  /\ tail' = tail % Capacity
  /\ UNCHANGED <<size, head, elements, mutex, pChunk, consumerVars>>

\* The last store of enque; its caller then forgets the chunk.
EnqueStore ==
  /\ PGoto("store", "unlock")
  /\ elements' = [elements EXCEPT ![tail] = pChunk]
  /\ pChunk' = NULL
  /\ UNCHANGED <<size, head, tail, mutex, consumerVars>>

\* A caller whose chunk was refused keeps it and tries again.
PUnlock ==
  /\ PGoto("unlock", IF pChunk = NULL THEN "idle" ELSE "full")
  /\ mutex' = "free"
  /\ UNCHANGED <<queueVars, pChunk, consumerVars>>

Producer ==
  \/ Produce \/ SeesRoom \/ PLock
  \/ EnqueSize \/ EnqueTail \/ EnqueWrap \/ EnqueStore
  \/ PUnlock

-----------------------------------------------------------------------------
(* The consumer: (peek,) lock, front, deque, unlock.                       *)

CGoto(from, to) == cPc = from /\ cPc' = to

\* The crypto and write threads lock at once ...
GoLock ==
  /\ CGoto("idle", "lock")
  /\ UNCHANGED <<queueVars, mutex, producerVars, cChunk, peeked>>

\* ... the MAC thread calls front without the lock first: it reads size,
PeekSize ==
  /\ CGoto("idle", "peek")
  /\ size > 0
  /\ UNCHANGED <<queueVars, mutex, producerVars, cChunk, peeked>>

\* and then the element at head.  NULL sends it round its loop again.
PeekElement ==
  /\ CGoto("peek", IF elements[head] = NULL THEN "idle" ELSE "lock")
  /\ peeked' = elements[head]
  /\ UNCHANGED <<queueVars, mutex, producerVars, cChunk>>

CLock ==
  /\ CGoto("lock", "front")
  /\ mutex = "free"
  /\ mutex' = "consumer"
  /\ UNCHANGED <<queueVars, producerVars, cChunk, peeked>>

front == IF size > 0 THEN elements[head] ELSE NULL

Front ==
  /\ CGoto("front", IF front = NULL THEN "unlock" ELSE "size")
  /\ cChunk' = front
  /\ UNCHANGED <<queueVars, mutex, producerVars, peeked>>

\* deque, store by store.  An empty queue has nothing to remove.
DequeSize ==
  /\ CGoto("size", IF size > 0 THEN "clear" ELSE "unlock")
  /\ size' = IF size > 0 THEN size - 1 ELSE size
  /\ UNCHANGED <<head, tail, elements, mutex, producerVars, cChunk, peeked>>

\* A slip: the slot keeps its pointer.
DequeClearKept ==
  /\ CGoto("clear", "head")
  /\ UNCHANGED <<queueVars, mutex, producerVars, cChunk, peeked>>

DequeClear ==
  /\ CGoto("clear", "head")
  /\ elements' = [elements EXCEPT ![head] = NULL]
  /\ UNCHANGED <<size, head, tail, mutex, producerVars, cChunk, peeked>>

DequeHead ==
  /\ CGoto("head", "wrap")
  /\ head' = head + 1
  /\ UNCHANGED <<size, tail, elements, mutex, producerVars, cChunk, peeked>>

DequeWrap ==
  /\ CGoto("wrap", "unlock")
  /\ head' = head % Capacity
  /\ UNCHANGED <<size, tail, elements, mutex, producerVars, cChunk, peeked>>

CUnlock ==
  /\ CGoto("unlock", IF cChunk = NULL THEN "idle" ELSE "use")
  /\ mutex' = "free"
  /\ peeked' = NULL
  /\ UNCHANGED <<queueVars, producerVars, cChunk>>

\* The thread is done with the chunk it took.
Consume ==
  /\ CGoto("use", "idle")
  /\ cChunk' = NULL
  /\ UNCHANGED <<queueVars, mutex, producerVars, peeked>>

Consumer ==
  \/ GoLock \/ PeekSize \/ PeekElement \/ CLock \/ Front
  \/ DequeSize \/ DequeClear \/ DequeHead \/ DequeWrap
  \/ CUnlock \/ Consume

Next == Producer \/ Consumer

Spec == Init /\ [][Next]_vars

-----------------------------------------------------------------------------
(* Properties *)

\* Each variable has its type; head and tail pass the last slot only inside
\* deque's and enque's update of them.
TypeOK ==
  /\ size \in 0 .. Capacity
  /\ head \in 0 .. Capacity
  /\ tail \in 0 .. Capacity
  /\ elements \in [Slots -> Chunks \cup {NULL}]
  /\ mutex \in {"free", "producer", "consumer"}
  /\ pPc \in ProducerPcs
  /\ cPc \in ConsumerPcs
  /\ pChunk \in Chunks \cup {NULL}
  /\ cChunk \in Chunks \cup {NULL}
  /\ peeked \in Chunks \cup {NULL}

\* The chunks in the queue, oldest first: enque has put one in when its last
\* store is done, deque's caller has taken one when front has returned it.
Wrap(i) == IF i >= Capacity THEN i - Capacity ELSE i

Enqueuing == pPc \in {"tail", "wrap", "store"}
Dequeuing == cPc \in {"size", "clear", "head"}

Count == size - (IF Enqueuing THEN 1 ELSE 0) - (IF cPc = "size" THEN 1 ELSE 0)
Base == IF Dequeuing THEN Wrap(head + 1) ELSE Wrap(head)
Contents == [i \in 1 .. Count |-> elements[Wrap(Base + i - 1)]]

Fifo == INSTANCE BoundedFifo
          WITH contents <- Contents, offered <- pChunk, taken <- cChunk

\* The ring buffer, with its unlocked tests and its non-atomic updates, is a
\* bounded FIFO: nothing is lost, repeated, overwritten or reordered.
Implements == Fifo!Spec

\* The test for room is made before the mutex is taken and acted on after it:
\* the room is still there, so enque never refuses a chunk its caller would
\* otherwise lose (queueDone) or try again.
RoomStands == pPc \in {"lock", "size"} => ~queueIsFull

\* What front returned without the mutex is what front returns with it, though
\* enque raises size before it stores the element: a slot that is counted but
\* not yet filled reads as NULL, never as the chunk it held a lap before.
PeekStands ==
  cPc \in {"lock", "front"} /\ peeked # NULL => front = peeked

\* How the pcs, the mutex and the indices fit together: the parts of the
\* inductive invariant.
PInside == {"size", "tail", "wrap", "store", "unlock"}
CInside == {"front", "size", "clear", "head", "wrap", "unlock"}

MutexOK ==
  /\ pPc \in PInside <=> mutex = "producer"
  /\ cPc \in CInside <=> mutex = "consumer"

ChunkOK ==
  /\ pChunk = NULL <=> pPc \in {"idle", "unlock"}
  /\ cPc \in {"idle", "peek", "lock", "front"} => cChunk = NULL
  /\ cPc \in {"size", "clear", "head", "wrap", "use"} => cChunk # NULL
  /\ cPc \in {"idle", "peek", "use"} => peeked = NULL

IndexOK ==
  /\ Count \in 0 .. Capacity
  /\ Dequeuing => Count < Capacity
  /\ cPc # "wrap" => head \in Slots
  /\ pPc # "wrap" => tail \in Slots
  /\ Wrap(IF pPc \in {"wrap", "store"} THEN tail ELSE tail + 1) = Wrap(Base + Count)

\* How far slot s is from the oldest chunk.
Distance(s) == IF s >= Base THEN s - Base ELSE s - Base + Capacity

FilledOK ==
  \A s \in Slots :
    IF cPc \in {"size", "clear"} /\ s = head
    THEN elements[s] = cChunk
    ELSE elements[s] # NULL <=> Distance(s) < Count

\* Exactly the slots from the oldest chunk to the newest are filled, between
\* and inside the operations, and only the holder of the mutex is inside one.
RingInv ==
  /\ TypeOK
  /\ MutexOK
  /\ ChunkOK
  /\ IndexOK
  /\ FilledOK
  /\ RoomStands
  /\ PeekStands
=============================================================================
