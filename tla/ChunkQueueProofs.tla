-------------------------- MODULE ChunkQueueProofs ---------------------------
(***************************************************************************)
(* Proofs about the ring buffer, for every capacity from 2 up and every    *)
(* set of chunks.                                                          *)
(***************************************************************************)
EXTENDS ChunkQueue, TLAPS

\* What the modulo of enque and deque does to an index that may have run one
\* past the last slot.
LEMMA WrapIsMod ==
  ASSUME NEW x \in 0 .. Capacity
  PROVE  x % Capacity = Wrap(x) /\ Wrap(x) \in Slots
<1>1. Capacity \in Nat /\ Capacity >= 2
  BY CapacityAssumption
<1>2. CASE x = Capacity
  <2>1. x % Capacity = 0
    BY <1>1, <1>2
  <2>. QED
    BY <1>1, <1>2, <2>1 DEF Wrap, Slots
<1>3. CASE x < Capacity
  <2>1. x % Capacity = x
    BY <1>1, <1>3
  <2>. QED
    BY <1>1, <1>3, <2>1 DEF Wrap, Slots
<1>. QED
  BY <1>1, <1>2, <1>3

\* A queue fresh from createQueue satisfies the invariant.
LEMMA RingInit ==
  Init => RingInv
<1>. SUFFICES ASSUME Init PROVE RingInv
  OBVIOUS
<1>. USE CapacityAssumption, NullAssumption
     DEF Init, createQueue, Slots, Count, Base, Enqueuing, Dequeuing, Wrap
<1>1. TypeOK /\ MutexOK /\ ChunkOK
  BY DEF TypeOK, MutexOK, ChunkOK, PInside, CInside, ProducerPcs, ConsumerPcs
<1>2. IndexOK /\ FilledOK
  BY DEF IndexOK, FilledOK, Distance
<1>3. RoomStands /\ PeekStands
  BY DEF RoomStands, PeekStands
<1>. QED
  BY <1>1, <1>2, <1>3 DEF RingInv

\* Every memory access of either thread preserves it.  The two stores that
\* wrap an index are rewritten first, so that no leaf reasons about %.
LEMMA RingStep ==
  RingInv /\ [Next]_vars => RingInv'
<1>. SUFFICES ASSUME RingInv, [Next]_vars PROVE RingInv'
  OBVIOUS
<1>. USE CapacityAssumption, NullAssumption
     DEF RingInv, TypeOK, MutexOK, ChunkOK, IndexOK, RoomStands, PeekStands,
         PGoto, CGoto, queueVars, producerVars, consumerVars,
         Slots, PInside, CInside, queueIsFull, front
<1>1. CASE Produce
  BY <1>1 DEF Produce, ProducerPcs, ConsumerPcs,
    FilledOK, Distance, Count, Base, Enqueuing, Dequeuing, Wrap
<1>2. CASE SeesRoom
  BY <1>2 DEF SeesRoom, ProducerPcs, ConsumerPcs,
    FilledOK, Distance, Count, Base, Enqueuing, Dequeuing, Wrap
<1>3. CASE PLock
  BY <1>3 DEF PLock, ProducerPcs, ConsumerPcs,
    FilledOK, Distance, Count, Base, Enqueuing, Dequeuing, Wrap
<1>4. CASE EnqueSize
  <2>1. TypeOK' /\ MutexOK' /\ ChunkOK'
    BY <1>4 DEF EnqueSize, ProducerPcs, ConsumerPcs
  <2>2. IndexOK' /\ RoomStands'
    BY <1>4 DEF EnqueSize, Count, Base, Enqueuing, Dequeuing, Wrap
  <2>3. FilledOK' /\ PeekStands'
    BY <1>4 DEF EnqueSize, FilledOK, Distance, Count, Base, Enqueuing, Dequeuing, Wrap
  <2>. QED
    BY <2>1, <2>2, <2>3
<1>5. CASE EnqueTail
  <2>1. TypeOK' /\ MutexOK' /\ ChunkOK'
    BY <1>5 DEF EnqueTail, ProducerPcs, ConsumerPcs
  <2>2. IndexOK' /\ RoomStands'
    BY <1>5 DEF EnqueTail, Count, Base, Enqueuing, Dequeuing, Wrap
  <2>3. FilledOK' /\ PeekStands'
    BY <1>5 DEF EnqueTail, FilledOK, Distance, Count, Base, Enqueuing, Dequeuing, Wrap
  <2>. QED
    BY <2>1, <2>2, <2>3
<1>6. CASE EnqueWrap
  <2>0. tail' = Wrap(tail) /\ tail' \in Slots
    BY <1>6, WrapIsMod DEF EnqueWrap
  <2>1. TypeOK' /\ MutexOK' /\ ChunkOK'
    BY <2>0, <1>6 DEF EnqueWrap, ProducerPcs, ConsumerPcs
  <2>2. IndexOK' /\ RoomStands'
    BY <2>0, <1>6 DEF EnqueWrap, Count, Base, Enqueuing, Dequeuing, Wrap
  <2>3. FilledOK' /\ PeekStands'
    BY <2>0, <1>6 DEF EnqueWrap, FilledOK, Distance, Count, Base, Enqueuing, Dequeuing, Wrap
  <2>. QED
    BY <2>1, <2>2, <2>3
<1>7. CASE EnqueStore
  <2>1. TypeOK' /\ MutexOK' /\ ChunkOK'
    BY <1>7 DEF EnqueStore, ProducerPcs, ConsumerPcs
  <2>2. IndexOK' /\ RoomStands'
    BY <1>7 DEF EnqueStore, Count, Base, Enqueuing, Dequeuing, Wrap
  <2>3. FilledOK' /\ PeekStands'
    BY <1>7 DEF EnqueStore, FilledOK, Distance, Count, Base, Enqueuing, Dequeuing, Wrap
  <2>. QED
    BY <2>1, <2>2, <2>3
<1>8. CASE PUnlock
  BY <1>8 DEF PUnlock, ProducerPcs, ConsumerPcs,
    FilledOK, Distance, Count, Base, Enqueuing, Dequeuing, Wrap
<1>9. CASE GoLock
  BY <1>9 DEF GoLock, ProducerPcs, ConsumerPcs,
    FilledOK, Distance, Count, Base, Enqueuing, Dequeuing, Wrap
<1>10. CASE PeekSize
  BY <1>10 DEF PeekSize, ProducerPcs, ConsumerPcs,
    FilledOK, Distance, Count, Base, Enqueuing, Dequeuing, Wrap
<1>11. CASE PeekElement
  BY <1>11 DEF PeekElement, ProducerPcs, ConsumerPcs,
    FilledOK, Distance, Count, Base, Enqueuing, Dequeuing, Wrap
<1>12. CASE CLock
  BY <1>12 DEF CLock, ProducerPcs, ConsumerPcs,
    FilledOK, Distance, Count, Base, Enqueuing, Dequeuing, Wrap
<1>13. CASE Front
  <2>1. TypeOK' /\ MutexOK' /\ ChunkOK'
    BY <1>13 DEF Front, ProducerPcs, ConsumerPcs
  <2>2. IndexOK' /\ RoomStands'
    BY <1>13 DEF Front, Count, Base, Enqueuing, Dequeuing, Wrap
  <2>3. FilledOK' /\ PeekStands'
    BY <1>13 DEF Front, FilledOK, Distance, Count, Base, Enqueuing, Dequeuing, Wrap
  <2>. QED
    BY <2>1, <2>2, <2>3
<1>14. CASE DequeSize
  <2>1. TypeOK' /\ MutexOK' /\ ChunkOK'
    BY <1>14 DEF DequeSize, ProducerPcs, ConsumerPcs
  <2>2. IndexOK' /\ RoomStands'
    BY <1>14 DEF DequeSize, Count, Base, Enqueuing, Dequeuing, Wrap
  <2>3. FilledOK' /\ PeekStands'
    BY <1>14 DEF DequeSize, FilledOK, Distance, Count, Base, Enqueuing, Dequeuing, Wrap
  <2>. QED
    BY <2>1, <2>2, <2>3
<1>15. CASE DequeClear
  <2>1. TypeOK' /\ MutexOK' /\ ChunkOK'
    BY <1>15 DEF DequeClear, ProducerPcs, ConsumerPcs
  <2>2. IndexOK' /\ RoomStands'
    BY <1>15 DEF DequeClear, Count, Base, Enqueuing, Dequeuing, Wrap
  <2>3. FilledOK' /\ PeekStands'
    BY <1>15 DEF DequeClear, FilledOK, Distance, Count, Base, Enqueuing, Dequeuing, Wrap
  <2>. QED
    BY <2>1, <2>2, <2>3
<1>16. CASE DequeHead
  <2>1. TypeOK' /\ MutexOK' /\ ChunkOK'
    BY <1>16 DEF DequeHead, ProducerPcs, ConsumerPcs
  <2>2. IndexOK' /\ RoomStands'
    BY <1>16 DEF DequeHead, Count, Base, Enqueuing, Dequeuing, Wrap
  <2>3. FilledOK' /\ PeekStands'
    BY <1>16 DEF DequeHead, FilledOK, Distance, Count, Base, Enqueuing, Dequeuing, Wrap
  <2>. QED
    BY <2>1, <2>2, <2>3
<1>17. CASE DequeWrap
  <2>0. head' = Wrap(head) /\ head' \in Slots
    BY <1>17, WrapIsMod DEF DequeWrap
  <2>1. TypeOK' /\ MutexOK' /\ ChunkOK'
    BY <2>0, <1>17 DEF DequeWrap, ProducerPcs, ConsumerPcs
  <2>2. IndexOK' /\ RoomStands'
    BY <2>0, <1>17 DEF DequeWrap, Count, Base, Enqueuing, Dequeuing, Wrap
  <2>3. FilledOK' /\ PeekStands'
    BY <2>0, <1>17 DEF DequeWrap, FilledOK, Distance, Count, Base, Enqueuing, Dequeuing, Wrap
  <2>. QED
    BY <2>1, <2>2, <2>3
<1>18. CASE CUnlock
  BY <1>18 DEF CUnlock, ProducerPcs, ConsumerPcs,
    FilledOK, Distance, Count, Base, Enqueuing, Dequeuing, Wrap
<1>19. CASE Consume
  BY <1>19 DEF Consume, ProducerPcs, ConsumerPcs,
    FilledOK, Distance, Count, Base, Enqueuing, Dequeuing, Wrap
<1>20. CASE UNCHANGED vars
  BY <1>20 DEF vars,
    FilledOK, Distance, Count, Base, Enqueuing, Dequeuing, Wrap
<1>. QED
  BY <1>1, <1>2, <1>3, <1>4, <1>5, <1>6, <1>7, <1>8, <1>9, <1>10, <1>11, <1>12,
     <1>13, <1>14, <1>15, <1>16, <1>17, <1>18, <1>19, <1>20
  DEF Next, Producer, Consumer

-----------------------------------------------------------------------------

\* Between and inside the operations of chunkQueue.c exactly the slots from the
\* oldest chunk to the newest are filled, and only the holder of the mutex
\* changes them.
THEOREM RingCorrect ==
  Spec => []RingInv
<1>1. Init => RingInv
  BY RingInit
<1>2. RingInv /\ [Next]_vars => RingInv'
  BY RingStep
<1>. QED
  BY <1>1, <1>2, PTL DEF Spec

\* The fields of the queue and the threads' locals keep their types.
THEOREM TypeCorrect ==
  Spec => []TypeOK
<1>1. RingInv => TypeOK
  BY DEF RingInv
<1>. QED
  BY <1>1, RingCorrect, PTL

\* A producer that saw room before it locked (queueIsFull) finds it after.
THEOREM RoomCorrect ==
  Spec => []RoomStands
<1>1. RingInv => RoomStands
  BY DEF RingInv
<1>. QED
  BY <1>1, RingCorrect, PTL

\* A chunk that the MAC thread saw with front before it locked is the one it
\* finds after.
THEOREM PeekCorrect ==
  Spec => []PeekStands
<1>1. RingInv => PeekStands
  BY DEF RingInv
<1>. QED
  BY <1>1, RingCorrect, PTL

-----------------------------------------------------------------------------
(* The ring buffer implements the bounded FIFO. *)

\* The mapped contents are a sequence of chunks, no longer than the capacity.
LEMMA ContentsType ==
  ASSUME RingInv
  PROVE  /\ Contents \in Seq(Chunks)
         /\ Len(Contents) = Count
         /\ Count \in 0 .. Capacity
<1>. USE CapacityAssumption, NullAssumption DEF RingInv, TypeOK, IndexOK, Slots
<1>1. Count \in 0 .. Capacity /\ Base \in Slots
  BY DEF Base, Wrap
<1>2. ASSUME NEW i \in 1 .. Count
      PROVE  elements[Wrap(Base + i - 1)] \in Chunks
  <2>1. Wrap(Base + i - 1) \in Slots /\ Distance(Wrap(Base + i - 1)) = i - 1
    BY <1>1 DEF Wrap, Distance
  <2>2. ~(cPc \in {"size", "clear"} /\ Wrap(Base + i - 1) = head)
    BY <1>1, <2>1 DEF Wrap, Distance, Base, Dequeuing
  <2>. QED
    BY <1>1, <2>1, <2>2 DEF FilledOK
<1>. QED
  BY <1>1, <1>2 DEF Contents


\* Every step of the two threads is a step of the bounded FIFO or changes
\* nothing of it: Produce offers, the last store of enque puts, the locked
\* front takes, Consume uses.
LEMMA FifoStep ==
  RingInv /\ [Next]_vars => [Fifo!Next]_Fifo!vars
<1>. SUFFICES ASSUME RingInv, [Next]_vars PROVE [Fifo!Next]_Fifo!vars
  OBVIOUS
<1>0. RingInv'
  BY RingStep
<1>. USE CapacityAssumption, NullAssumption
     DEF RingInv, TypeOK, MutexOK, ChunkOK, IndexOK, RoomStands, PeekStands,
         PGoto, CGoto, queueVars, producerVars, consumerVars,
         Slots, PInside, CInside, queueIsFull, front
<1>1. CASE Produce
  <2>1. Count' = Count /\ Base' = Base /\ UNCHANGED elements
    BY <1>1 DEF Produce, Count, Base, Enqueuing, Dequeuing, Wrap
  <2>2. Contents' = Contents
    BY <2>1 DEF Contents, Wrap
  <2>. QED
    BY <1>1, <2>2 DEF Produce, Fifo!Next, Fifo!Offer
<1>2. CASE SeesRoom
  <2>1. Count' = Count /\ Base' = Base /\ UNCHANGED <<elements, pChunk, cChunk>>
    BY <1>2 DEF SeesRoom, Count, Base, Enqueuing, Dequeuing, Wrap
  <2>. QED
    BY <2>1 DEF Contents, Wrap, Fifo!vars
<1>3. CASE PLock
  <2>1. Count' = Count /\ Base' = Base /\ UNCHANGED <<elements, pChunk, cChunk>>
    BY <1>3 DEF PLock, Count, Base, Enqueuing, Dequeuing, Wrap
  <2>. QED
    BY <2>1 DEF Contents, Wrap, Fifo!vars
<1>4. CASE EnqueSize
  <2>1. Count' = Count /\ Base' = Base /\ UNCHANGED <<elements, pChunk, cChunk>>
    BY <1>4 DEF EnqueSize, Count, Base, Enqueuing, Dequeuing, Wrap
  <2>. QED
    BY <2>1 DEF Contents, Wrap, Fifo!vars
<1>5. CASE EnqueTail
  <2>1. Count' = Count /\ Base' = Base /\ UNCHANGED <<elements, pChunk, cChunk>>
    BY <1>5 DEF EnqueTail, Count, Base, Enqueuing, Dequeuing, Wrap
  <2>. QED
    BY <2>1 DEF Contents, Wrap, Fifo!vars
<1>6. CASE EnqueWrap
  <2>0. tail' = Wrap(tail) /\ tail' \in Slots
    BY <1>6, WrapIsMod DEF EnqueWrap
  <2>1. Count' = Count /\ Base' = Base /\ UNCHANGED <<elements, pChunk, cChunk>>
    BY <2>0, <1>6 DEF EnqueWrap, Count, Base, Enqueuing, Dequeuing, Wrap
  <2>. QED
    BY <2>1 DEF Contents, Wrap, Fifo!vars
<1>7. CASE EnqueStore
  <2>1. Count' = Count + 1 /\ Base' = Base /\ Base \in Slots /\ Count < Capacity
    BY <1>7 DEF EnqueStore, Count, Base, Enqueuing, Dequeuing, Wrap
  <2>2. tail = Wrap(Base + Count) /\ Contents \in Seq(Chunks) /\ Len(Contents) = Count
    BY <1>7, <2>1, ContentsType DEF EnqueStore, Wrap
  <2>3. elements'[Wrap(Base' + Count' - 1)] = pChunk
    BY <1>7, <2>1, <2>2 DEF EnqueStore, Wrap
  <2>4. ASSUME NEW j \in 1 .. Count
        PROVE  elements'[Wrap(Base' + j - 1)] = elements[Wrap(Base + j - 1)]
    BY <1>7, <2>1, <2>2 DEF EnqueStore, Wrap
  <2>5. Contents' = Append(Contents, pChunk)
    BY <2>1, <2>2, <2>3, <2>4 DEF Contents
  <2>. QED
    BY <1>7, <2>1, <2>2, <2>5 DEF EnqueStore, Fifo!Next, Fifo!Put
<1>8. CASE PUnlock
  <2>1. Count' = Count /\ Base' = Base /\ UNCHANGED <<elements, pChunk, cChunk>>
    BY <1>8 DEF PUnlock, Count, Base, Enqueuing, Dequeuing, Wrap
  <2>. QED
    BY <2>1 DEF Contents, Wrap, Fifo!vars
<1>9. CASE GoLock
  <2>1. Count' = Count /\ Base' = Base /\ UNCHANGED <<elements, pChunk, cChunk>>
    BY <1>9 DEF GoLock, Count, Base, Enqueuing, Dequeuing, Wrap
  <2>. QED
    BY <2>1 DEF Contents, Wrap, Fifo!vars
<1>10. CASE PeekSize
  <2>1. Count' = Count /\ Base' = Base /\ UNCHANGED <<elements, pChunk, cChunk>>
    BY <1>10 DEF PeekSize, Count, Base, Enqueuing, Dequeuing, Wrap
  <2>. QED
    BY <2>1 DEF Contents, Wrap, Fifo!vars
<1>11. CASE PeekElement
  <2>1. Count' = Count /\ Base' = Base /\ UNCHANGED <<elements, pChunk, cChunk>>
    BY <1>11 DEF PeekElement, Count, Base, Enqueuing, Dequeuing, Wrap
  <2>. QED
    BY <2>1 DEF Contents, Wrap, Fifo!vars
<1>12. CASE CLock
  <2>1. Count' = Count /\ Base' = Base /\ UNCHANGED <<elements, pChunk, cChunk>>
    BY <1>12 DEF CLock, Count, Base, Enqueuing, Dequeuing, Wrap
  <2>. QED
    BY <2>1 DEF Contents, Wrap, Fifo!vars
<1>13. CASE Front
  <2>1. CASE front = NULL
    <3>1. Count' = Count /\ Base' = Base /\ UNCHANGED <<elements, pChunk, cChunk>>
      BY <1>13, <2>1 DEF Front, Count, Base, Enqueuing, Dequeuing, Wrap
    <3>. QED
      BY <3>1 DEF Contents, Wrap, Fifo!vars
  <2>2. CASE front # NULL
    <3>1. Count' = Count - 1 /\ Base' = Wrap(Base + 1) /\ Base = head /\ size > 0
      BY <1>13, <2>2 DEF Front, Count, Base, Enqueuing, Dequeuing, Wrap
    <3>2. Contents \in Seq(Chunks) /\ Len(Contents) = Count /\ Count \in 1 .. Capacity
      BY <3>1, ContentsType
    <3>3. Head(Contents) = elements[head]
      BY <1>13, <3>1, <3>2 DEF Contents, Wrap, Front
    <3>4. Contents' = Tail(Contents)
      <4>1. ASSUME NEW j \in 1 .. Count - 1
            PROVE  elements'[Wrap(Base' + j - 1)] = Contents[j + 1]
        BY <1>13, <3>1, <3>2 DEF Front, Wrap, Contents
      <4>2. Contents' = [j \in 1 .. Count - 1 |-> Contents[j + 1]]
        BY <3>1, <4>1 DEF Contents
      <4>3. Tail(Contents) = [j \in 1 .. Count - 1 |-> Contents[j + 1]]
        BY <3>2
      <4>. QED
        BY <4>2, <4>3
    <3>. QED
      BY <1>13, <2>2, <3>1, <3>2, <3>3, <3>4 DEF Front, Fifo!Next, Fifo!Take
  <2>. QED
    BY <2>1, <2>2
<1>14. CASE DequeSize
  <2>1. Count' = Count /\ Base' = Base /\ UNCHANGED <<elements, pChunk, cChunk>>
    BY <1>14 DEF DequeSize, Count, Base, Enqueuing, Dequeuing, Wrap
  <2>. QED
    BY <2>1 DEF Contents, Wrap, Fifo!vars
<1>15. CASE DequeClear
  <2>1. Count' = Count /\ Base' = Base /\ UNCHANGED <<pChunk, cChunk>>
    BY <1>15 DEF DequeClear, Count, Base, Enqueuing, Dequeuing, Wrap
  <2>2. ASSUME NEW j \in 1 .. Count
        PROVE  elements'[Wrap(Base' + j - 1)] = elements[Wrap(Base + j - 1)]
    BY <1>15, <2>1 DEF DequeClear, Base, Dequeuing, Wrap
  <2>. QED
    BY <2>1, <2>2 DEF Contents, Fifo!vars
<1>16. CASE DequeHead
  <2>1. Count' = Count /\ Base' = Base /\ UNCHANGED <<elements, pChunk, cChunk>>
    BY <1>16 DEF DequeHead, Count, Base, Enqueuing, Dequeuing, Wrap
  <2>. QED
    BY <2>1 DEF Contents, Wrap, Fifo!vars
<1>17. CASE DequeWrap
  <2>0. head' = Wrap(head) /\ head' \in Slots
    BY <1>17, WrapIsMod DEF DequeWrap
  <2>1. Count' = Count /\ Base' = Base /\ UNCHANGED <<elements, pChunk, cChunk>>
    BY <2>0, <1>17 DEF DequeWrap, Count, Base, Enqueuing, Dequeuing, Wrap
  <2>. QED
    BY <2>1 DEF Contents, Wrap, Fifo!vars
<1>18. CASE CUnlock
  <2>1. Count' = Count /\ Base' = Base /\ UNCHANGED <<elements, pChunk, cChunk>>
    BY <1>18 DEF CUnlock, Count, Base, Enqueuing, Dequeuing, Wrap
  <2>. QED
    BY <2>1 DEF Contents, Wrap, Fifo!vars
<1>19. CASE Consume
  <2>1. Count' = Count /\ Base' = Base /\ UNCHANGED elements
    BY <1>19 DEF Consume, Count, Base, Enqueuing, Dequeuing, Wrap
  <2>2. Contents' = Contents
    BY <2>1 DEF Contents, Wrap
  <2>. QED
    BY <1>19, <2>2 DEF Consume, Fifo!Next, Fifo!Use
<1>20. CASE UNCHANGED vars
  BY <1>20 DEF vars, Contents, Count, Base, Enqueuing, Dequeuing, Wrap, Fifo!vars
<1>. QED
  BY <1>1, <1>2, <1>3, <1>4, <1>5, <1>6, <1>7, <1>8, <1>9, <1>10, <1>11, <1>12,
     <1>13, <1>14, <1>15, <1>16, <1>17, <1>18, <1>19, <1>20
  DEF Next, Producer, Consumer

\* The ring buffer with its unlocked tests and non-atomic updates behaves as a
\* FIFO of the same capacity with atomic operations.
THEOREM ImplementsFifo ==
  Spec => Implements
<1>1. Init => Fifo!Init
  BY CapacityAssumption
  DEF Init, createQueue, Fifo!Init, Contents, Count, Enqueuing
<1>2. RingInv /\ [Next]_vars => [Fifo!Next]_Fifo!vars
  BY FifoStep
<1>. QED
  BY <1>1, <1>2, RingCorrect, PTL DEF Spec, Implements, Fifo!Spec
=====
