------------------------------ MODULE Pipeline -------------------------------
(***************************************************************************)
(* What the four threads of one run of Threefizer share: the three chunk   *)
(* queues, the flags running, error and valid, and the file being          *)
(* processed.  A queue is the sequence of its chunks and an operation on   *)
(* it is one step; ChunkQueueProofs shows that the ring buffer allows      *)
(* this.  The module of each thread extends this one, and Controller       *)
(* puts them together.                                                     *)
(*                                                                         *)
(* A chunk's data is the part of the file it came from and what was done   *)
(* to it.  Enciphering a chunk that follows cipher block c under CBC adds  *)
(* c to its seal; deciphering it with the same c takes the seal off.  A    *)
(* MAC is the sequence of what was hashed.                                 *)
(***************************************************************************)
EXTENDS Integers, Sequences

CONSTANTS
  Encrypting,   \* args->encrypt
  Capacity,     \* QUE_SIZE
  MaxChunk,     \* MAX_CHUNK_SIZE
  Block,        \* block size of the cipher; all sizes in one unit
  PlainSizes,   \* the sizes of the plain file to try
  Damages,      \* what may have happened to the encrypted file before decryption
  Promises,     \* the sizes a changed header may promise
  Faults,       \* the library and system calls that may fail
  NULL

Threads == {"read", "crypto", "mac", "write"}
Queues == {"crypto", "mac", "write"}

\* What can be done to a chunk, and what is left of one in a file ("data").
Actions == {"ENCRYPT", "GEN_MAC", "DECRYPT", "CHECK_HEADER", "WRITE", "MAC", "DONE", "data"}

\* A chunk; digest is what was hashed when the chunk is a MAC, else empty.
Pieces == [action : Actions, id : Int, seal : Seq(Int), digest : {<<>>}, size : Int]
Chunks == [action : Actions, id : Int, seal : Seq(Int), digest : Seq(Pieces), size : Int]

\* NULL is told from every chunk, file content and queue.
ASSUME NullAssumption ==
  NULL \notin Chunks /\ NULL \notin Seq(Chunks) /\ NULL \notin Queues

\* Chunks are cut on block boundaries, and the rings need two slots.
ASSUME PipelineAssumption ==
  /\ Encrypting \in BOOLEAN
  /\ Capacity \in Nat /\ Capacity >= 2
  /\ Block \in Nat \ {0}
  /\ MaxChunk \in Nat \ {0} /\ MaxChunk % Block = 0
  /\ PlainSizes \subseteq Nat /\ Promises \subseteq Nat
  /\ Damages \subseteq {"intact", "header", "iv", "body", "extended", "shortened"}

VARIABLES
  file,         \* the target file at the start: [plain, promised, size, damage]
  running, error, valid,  \* the flags of runThreefizer
  newFileSize,  \* new_file_size, the size the checked header promises
  queue,        \* crypto_queue, mac_queue and write_queue
  pc,           \* where main and each thread are
  hold          \* the chunk each thread works on, or NULL

flagVars == <<running, error, valid, newFileSize>>
pipelineVars == <<file, flagVars, queue, pc, hold>>

-----------------------------------------------------------------------------
(* The file and its chunks *)

\* The identities of the parts of a file: data chunks are 1, 2, ...
IV == -1
HeaderId == 0
MacId == -2
NoId == -3
Garbled == -4
OtherIV == -5

HeaderSize == 2 * Block
getPadSize(n) == ((n + Block - 1) \div Block) * Block
DataChunks(n) == (n + MaxChunk - 1) \div MaxChunk

Chunk(action, id, seal, digest, size) ==
  [action |-> action, id |-> id, seal |-> seal, digest |-> digest, size |-> size]

DONE == Chunk("DONE", NoId, <<>>, <<>>, 0)

\* What of a chunk ends up in a file or under the MAC.
Data(chunk) == [chunk EXCEPT !.action = "data"]

\* getChainInBuffer: the last block of a piece of cipher text.  Only the chunk
\* enciphered once, after the chunk before it, ends in the expected block; and
\* the header still does when its IV alone was changed.
ChainOf(chunk) ==
  IF chunk.seal \in {<<chunk.id - 1>>, <<OtherIV>>} THEN chunk.id ELSE Garbled

Encipher(chunk, chain) == [chunk EXCEPT !.seal = Append(@, chain)]

Decipher(chunk, chain) ==
  [chunk EXCEPT !.seal = IF @ = <<chain>> THEN <<>> ELSE <<Garbled>>]

\* The size of data chunk k of a file of n bytes.
PieceSize(n, k) == IF k * MaxChunk <= n THEN MaxChunk ELSE n - (k - 1) * MaxChunk

\* The file that encryption of n bytes is to produce, and its plain text.
CipherPiece(n, k) ==
  Data(Chunk("data", k, <<k - 1>>, <<>>,
             IF k = HeaderId THEN HeaderSize ELSE getPadSize(PieceSize(n, k))))

CipherText(n) == [i \in 1 .. DataChunks(n) + 1 |-> CipherPiece(n, i - 1)]
MacPiece(n) == Data(Chunk("data", MacId, <<>>, CipherText(n), Block))
EncryptedFile(n) == Append(CipherText(n), MacPiece(n))
PlainFile(n) ==
  [k \in 1 .. DataChunks(n) |-> Data(Chunk("data", k, <<>>, <<>>, PieceSize(n, k)))]

EncryptedSize(n) == HeaderSize + getPadSize(n) + Block

\* The files runs start from.  Decryption may find one that was changed.  The
\* header is one cipher block after an IV kept in clear: a change of the IV
\* ("iv") changes the words of the header under it and nothing else, so it may
\* promise any size, or the same when only the version or padding is hit.
Files ==
  IF Encrypting
  THEN {[plain |-> n, promised |-> n, size |-> n, damage |-> "intact"] : n \in PlainSizes}
  ELSE {f \in {[plain |-> n, promised |-> p, damage |-> d,
                size |-> EncryptedSize(n) + (CASE d = "extended" -> MaxChunk
                                               [] d = "shortened" -> -Block
                                               [] OTHER -> 0)] :
                 n \in PlainSizes, p \in PlainSizes \cup Promises, d \in Damages} :
          IF f.damage = "iv" THEN f.promised \in Promises ELSE f.promised = f.plain}

\* args->file_size, and isGreaterThanThreeBlocks for decryption.
TooSmall == IF Encrypting THEN file.size = 0 ELSE file.size <= 3 * Block

-----------------------------------------------------------------------------
(* Queues and threads *)

queueIsFull(q) == Len(queue[q]) = Capacity
front(q) == IF queue[q] = <<>> THEN NULL ELSE Head(queue[q])

\* The wiring runThreefizer gives the threads.
ReadOut == IF Encrypting THEN "crypto" ELSE "mac"
CryptoOut == IF Encrypting THEN "mac" ELSE "write"
MacOut == IF Encrypting THEN "write" ELSE "crypto"

Goto(t, from, to) == pc[t] = from /\ pc' = [pc EXCEPT ![t] = to]
Go(t, to) == pc' = [pc EXCEPT ![t] = to]
Keep(t, chunk) == hold' = [hold EXCEPT ![t] = chunk]

\* Wait until there is room, lock, enque, unlock.  With one producer per queue
\* the room cannot go away in between.
Put(q, chunk) ==
  /\ ~queueIsFull(q)
  /\ queue' = [queue EXCEPT ![q] = Append(@, chunk)]

deque(q) == queue' = [queue EXCEPT ![q] = Tail(@)]

\* The loop condition of every thread but generateMAC.
KeepGoing == running /\ error = "none"

PipelineInit ==
  /\ file \in Files
  /\ running = TRUE
  /\ error = "none"
  /\ valid = FALSE
  /\ newFileSize = 0
  /\ queue = [q \in Queues |-> <<>>]
  /\ pc = [t \in Threads \cup {"main"} |-> "start"]
  /\ hold = [t \in Threads |-> NULL]
=============================================================================
