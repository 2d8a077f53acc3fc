--------------------------------- MODULE Cbc ----------------------------------
(***************************************************************************)
(* What happens to the data: a plain file is cut into chunks, padded and   *)
(* enciphered in place, block by block, after its header; then the cipher  *)
(* text is read back in chunks, its header checked, and what was           *)
(* enciphered deciphered, perhaps with another key or block size.  The     *)
(* chain goes from chunk to chunk in the buffers of encryptQueue and       *)
(* decryptQueue, and from block to block in those of cbc*Decrypt.  Pipeline*)
(* has the threads this happens in and CipherText the names for its pieces.*)
(*                                                                         *)
(* All sizes are in words of 64 bits.  A chunk in memory is the sequence   *)
(* of its blocks, a block a function from 1 .. n to words.                 *)
(***************************************************************************)
EXTENDS Integers, Sequences

CONSTANTS
  Sizes,            \* the block sizes in words: {4, 8, 16}
  Keys,             \* the keys a user may have
  Files,            \* the plain files to try, as sequences of words
  TextWord, PadWord,       \* the words, and the one that pads
  MaxChunk,         \* MAX_CHUNK_SIZE
  Cipher(_, _),     \* threefishEncryptBlockWords(key, block)
  Decipher(_, _),   \* threefishDecryptBlockWords(key, block)
  BlockXor(_, _),        \* of two blocks
  IV(_),            \* the random block of the given size
  MAGIC_NUMBER, Version,
  Num(_), Value(_)  \* a number as a word, and back

ASSUME CbcAssumption ==
  /\ Sizes \subseteq {4, 8, 16}
  /\ Files \subseteq Seq(TextWord) \ {<<>>}
  /\ PadWord \in TextWord
  /\ MaxChunk \in Nat \ {0}
  /\ \A size \in Sizes : MaxChunk % size = 0

\* A length fits in a word.
ASSUME HeaderAssumption ==
  /\ {MAGIC_NUMBER, Version} \subseteq TextWord
  /\ \A size \in Sizes : IV(size) \in [1 .. size -> TextWord] /\ Num(64 * size) \in TextWord
  /\ \A text \in Files : Num(Len(text)) \in TextWord /\ Value(Num(Len(text))) = Len(text)

VARIABLES
  job,        \* what is enciphered and what it is deciphered with
  pc,
  buf,        \* the chunk being worked on
  block,      \* the block of it that is next
  bytesRead,  \* how much of the file that is read has been
  chain, chainOdd, decryptCount,  \* chain / chain_even, chain_odd, decrypt_count
  prevEven, prevOdd,              \* prev_block_even, prev_block_odd
  cipherText, \* the blocks that encryption wrote
  fileSize,   \* new_file_size, from the checked header
  output,     \* the blocks that decryption wrote
  bytesWritten

cbcVars == <<job, pc, buf, block, bytesRead, chain, chainOdd, decryptCount,
             prevEven, prevOdd, cipherText, fileSize, output, bytesWritten>>

encryptVars == <<job, fileSize, output, bytesWritten, chainOdd, decryptCount, prevEven, prevOdd>>

n == job.size
Goto(from, to) == pc = from /\ pc' = to

-----------------------------------------------------------------------------
(* Padding and the header *)

getNumBlocks(length, size) == (length + size - 1) \div size

\* Block k of a text, filled up with zeros.
BlockOf(text, size, k) ==
  [w \in 1 .. size |->
     LET at == (k - 1) * size + w IN IF at <= Len(text) THEN text[at] ELSE PadWord]

\* A slip: a text that needs no padding gets a block of it.
PadFull(text, size) == [k \in 1 .. (Len(text) \div size) + 1 |-> BlockOf(text, size, k)]

pad(text, size) == [k \in 1 .. getNumBlocks(Len(text), size) |-> BlockOf(text, size, k)]

\* The second block of the header; the first is the IV.
genHeader(length, size) ==
  [w \in 1 .. size |-> CASE w = 1 -> MAGIC_NUMBER
                         [] w = 2 -> Num(length)
                         [] w = 3 -> Num(64 * size)
                         [] w = 4 -> Version
                         [] OTHER -> PadWord]

checkHeader(header, size) ==
  /\ header[1] = MAGIC_NUMBER
  /\ header[3] = Num(64 * size)

Least(a, b) == IF a <= b THEN a ELSE b

-----------------------------------------------------------------------------
(* Encryption *)

\* encryptHeader, and the chain it leaves for the first chunk.
EncryptHeader ==
  LET iv == IV(n)
      sealed == Cipher(job.key, BlockXor(genHeader(Len(job.text), n), iv))
  IN  /\ Goto("header", "cut")
      /\ cipherText' = <<iv, sealed>>
      /\ chain' = sealed
      /\ UNCHANGED <<buf, block, bytesRead, encryptVars>>

\* queueFileForEncrypt reads and pads the next chunk.
CutChunk ==
  LET size == Least(MaxChunk, Len(job.text) - bytesRead)
  IN  /\ Goto("cut", "encrypt")
      /\ bytesRead < Len(job.text)
      /\ buf' = pad(SubSeq(job.text, bytesRead + 1, bytesRead + size), n)
      /\ bytesRead' = bytesRead + size
      /\ block' = 1
      /\ UNCHANGED <<chain, cipherText, encryptVars>>

\* A slip: every chunk's blocks are chained on the chain of the chunk.
CbcEncryptOnChain(size) ==
  /\ pc = "encrypt" /\ n = size
  /\ block <= Len(buf)
  /\ buf' = [buf EXCEPT ![block] = Cipher(job.key, BlockXor(@, chain))]
  /\ block' = block + 1
  /\ UNCHANGED <<pc, bytesRead, chain, cipherText, encryptVars>>

\* One turn of the loop.  The first block takes up the chain before the loop.
CbcEncrypt(size) ==
  /\ pc = "encrypt" /\ n = size
  /\ block <= Len(buf)
  /\ buf' = [buf EXCEPT ![block] =
               Cipher(job.key, BlockXor(@, IF block = 1 THEN chain ELSE buf[block - 1]))]
  /\ block' = block + 1
  /\ UNCHANGED <<pc, bytesRead, chain, cipherText, encryptVars>>

cbc256Encrypt == CbcEncrypt(4)
cbc512Encrypt == CbcEncrypt(8)
cbc1024Encrypt == CbcEncrypt(16)
encryptInPlace == cbc256Encrypt \/ cbc512Encrypt \/ cbc1024Encrypt

\* A slip: the chain is the first block of the chunk.
FirstInBuffer(chunk) == chunk[1]

getChainInBuffer(chunk) == chunk[Len(chunk)]

\* The chunk is done: keep its last block and pass it on.
SaveChain ==
  /\ Goto("encrypt", "cut")
  /\ block > Len(buf)
  /\ chain' = getChainInBuffer(buf)
  /\ cipherText' = cipherText \o buf
  /\ buf' = <<>> /\ block' = 1
  /\ UNCHANGED <<bytesRead, encryptVars>>

\* The file is complete; decryption starts from it with fresh buffers.
Reopen ==
  /\ Goto("cut", "check")
  /\ bytesRead = Len(job.text)
  /\ bytesRead' = 0
  /\ UNCHANGED <<buf, block, chain, cipherText, encryptVars>>

-----------------------------------------------------------------------------
(* Decryption *)

m == job.otherSize
decryptVars == <<job, cipherText>>

\* authenticateMAC takes two blocks of its size, deciphers the second and looks
\* at its fields; decryptQueue takes the chain from it.
Words(k, size) ==
  [w \in 1 .. size |->
     LET at == (k - 1) * size + w - 1 IN cipherText[(at \div n) + 1][(at % n) + 1]]

NoBlock == [w \in 1 .. m |-> PadWord]
HeaderBlocks == 2 * m <= Len(cipherText) * n

\* A slip: the IV is not taken off.
HeaderChained == Decipher(job.otherKey, Words(2, m))

Header == BlockXor(Decipher(job.otherKey, Words(2, m)), Words(1, m))

HeaderGood ==
  /\ Goto("check", "read")
  /\ HeaderBlocks /\ checkHeader(Header, m)
  /\ fileSize' = Value(Header[2])
  /\ chain' = Words(2, m)
  /\ bytesRead' = 2 * m
  /\ chainOdd' = NoBlock
  /\ UNCHANGED <<buf, block, decryptCount, prevEven, prevOdd,
                 output, bytesWritten, decryptVars>>

HeaderBad ==
  /\ Goto("check", "refused")
  /\ ~(HeaderBlocks /\ checkHeader(Header, m))
  /\ UNCHANGED <<buf, block, bytesRead, chain, chainOdd, decryptCount, prevEven, prevOdd,
                 fileSize, output, bytesWritten, decryptVars>>

\* The next chunk, and its last block into the buffer that is not in use.
ReadChunk ==
  LET left == Len(cipherText) * n - bytesRead
      size == Least(MaxChunk, left)
      chunk == [k \in 1 .. getNumBlocks(size, m) |-> Words((bytesRead \div m) + k, m)]
  IN  /\ Goto("read", "decrypt")
      /\ left > 0
      /\ buf' = chunk
      /\ bytesRead' = bytesRead + size
      /\ block' = 1
      /\ prevEven' = NoBlock /\ prevOdd' = NoBlock
      /\ IF decryptCount % 2 = 0
         THEN chainOdd' = getChainInBuffer(chunk) /\ UNCHANGED chain
         ELSE chain' = getChainInBuffer(chunk) /\ UNCHANGED chainOdd
      /\ UNCHANGED <<decryptCount, fileSize, output, bytesWritten, decryptVars>>

\* A slip: the block before this one is looked for where this one was saved.
CbcDecryptSwapped(size) ==
  LET even == (block - 1) % 2 = 0
      before == IF block = 1 THEN IF decryptCount % 2 = 0 THEN chain ELSE chainOdd
                ELSE IF even THEN prevEven ELSE prevOdd
  IN  /\ pc = "decrypt" /\ m = size
      /\ block <= Len(buf)
      /\ prevEven' = IF even THEN buf[block] ELSE prevEven
      /\ prevOdd' = IF even THEN prevOdd ELSE buf[block]
      /\ buf' = [buf EXCEPT ![block] = BlockXor(Decipher(job.otherKey, @), before)]
      /\ block' = block + 1
      /\ UNCHANGED <<pc, bytesRead, chain, chainOdd, decryptCount, fileSize, output,
                     bytesWritten, decryptVars>>

\* One turn of the loop: save the block in one buffer, decipher it in place and
\* add the block before it, which is in the other one.
CbcDecrypt(size) ==
  LET even == (block - 1) % 2 = 0
      before == IF block = 1 THEN IF decryptCount % 2 = 0 THEN chain ELSE chainOdd
                ELSE IF even THEN prevOdd ELSE prevEven
  IN  /\ pc = "decrypt" /\ m = size
      /\ block <= Len(buf)
      /\ prevEven' = IF even THEN buf[block] ELSE prevEven
      /\ prevOdd' = IF even THEN prevOdd ELSE buf[block]
      /\ buf' = [buf EXCEPT ![block] = BlockXor(Decipher(job.otherKey, @), before)]
      /\ block' = block + 1
      /\ UNCHANGED <<pc, bytesRead, chain, chainOdd, decryptCount, fileSize, output,
                     bytesWritten, decryptVars>>

cbc256Decrypt == CbcDecrypt(4)
cbc512Decrypt == CbcDecrypt(8)
cbc1024Decrypt == CbcDecrypt(16)
decryptInPlace == cbc256Decrypt \/ cbc512Decrypt \/ cbc1024Decrypt

\* asyncWrite, which leaves out what is beyond the size in the header.
WriteChunk ==
  /\ Goto("decrypt", "read")
  /\ block > Len(buf)
  /\ output' = output \o buf
  /\ bytesWritten' = Least(bytesWritten + Len(buf) * m, fileSize)
  /\ decryptCount' = decryptCount + 1
  /\ buf' = <<>> /\ block' = 1
  /\ UNCHANGED <<bytesRead, chain, chainOdd, prevEven, prevOdd, fileSize, decryptVars>>

AllRead ==
  /\ Goto("read", "done")
  /\ bytesRead = Len(cipherText) * n
  /\ UNCHANGED <<buf, block, bytesRead, chain, chainOdd, decryptCount, prevEven, prevOdd,
                 fileSize, output, bytesWritten, decryptVars>>

-----------------------------------------------------------------------------
Jobs == [text : Files, size : Sizes, key : Keys, otherSize : Sizes, otherKey : Keys]

Init ==
  /\ job \in Jobs
  /\ pc = "header"
  /\ buf = <<>> /\ block = 1 /\ bytesRead = 0
  /\ chain = <<>> /\ chainOdd = <<>> /\ decryptCount = 0
  /\ prevEven = <<>> /\ prevOdd = <<>>
  /\ cipherText = <<>> /\ fileSize = 0
  /\ output = <<>> /\ bytesWritten = 0

Finished == pc \in {"done", "refused"} /\ UNCHANGED cbcVars

Next ==
  \/ EncryptHeader \/ CutChunk \/ encryptInPlace \/ SaveChain \/ Reopen
  \/ HeaderGood \/ HeaderBad \/ ReadChunk \/ decryptInPlace \/ WriteChunk \/ AllRead
  \/ Finished

Spec == Init /\ [][Next]_cbcVars

-----------------------------------------------------------------------------
(* Properties *)

\* The variables have their types: every chunk is a sequence of whole blocks
\* and fits in MAX_CHUNK_SIZE.
TypeOK ==
  /\ job \in Jobs
  /\ pc \in {"header", "cut", "encrypt", "check", "read", "decrypt", "done", "refused"}
  /\ buf # <<>> => pc \in {"encrypt", "decrypt"}
  /\ LET size == IF pc = "encrypt" THEN n ELSE m
     IN  /\ \A k \in 1 .. Len(buf) : buf[k] \in [1 .. size -> TextWord]
         /\ Len(buf) * size <= MaxChunk
  /\ block \in 1 .. Len(buf) + 1
  /\ \A k \in 1 .. Len(cipherText) : cipherText[k] \in [1 .. n -> TextWord]
  /\ \A k \in 1 .. Len(output) : output[k] \in [1 .. m -> TextWord]
  /\ bytesWritten \in 0 .. Len(output) * m

\* The textbook definition of cipher block chaining, which knows nothing of
\* chunks: each block of the file is the enciphered exclusive or of the block
\* before it and a block of plain text, of which the header is the first.
PlainBlock(k) ==
  IF k = 1 THEN genHeader(Len(job.text), n) ELSE BlockOf(job.text, n, k - 1)

IsCbc ==
  pc = "check" => \A k \in 2 .. Len(cipherText) :
    cipherText[k] = Cipher(job.key, BlockXor(PlainBlock(k - 1), cipherText[k - 1]))

\* What is enciphered is all of the file, padded once at its end.
NothingLost ==
  pc = "check" => Len(cipherText) = 2 + getNumBlocks(Len(job.text), n)

\* With the right key decryption gives the file back, to the word, however its
\* chunks were cut.
Written == [w \in 1 .. bytesWritten |-> output[((w - 1) \div m) + 1][((w - 1) % m) + 1]]

RoundTrip == pc = "done" => Written = job.text

\* tfHeader.c: the header is "a quick and easy way to tell if the encryption
\* key and block size are correct": others are refused, the right ones never.
HeaderTells ==
  /\ pc = "refused" => <<job.otherKey, m>> # <<job.key, n>>
  /\ pc \in {"read", "decrypt", "done"} => <<job.otherKey, m>> = <<job.key, n>>
=============================================================================
