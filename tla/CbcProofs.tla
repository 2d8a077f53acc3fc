------------------------------ MODULE CbcProofs -------------------------------
(***************************************************************************)
(* Decryption gives back what was encrypted, for every file, every block   *)
(* size and every cipher that can be undone.                               *)
(***************************************************************************)
EXTENDS Cbc, SequenceTheorems, TLAPS

Block(size) == [1 .. size -> TextWord]

\* What the modes need of the cipher and of the exclusive or.
Invertible ==
  \A size \in Sizes : \A x \in Block(size) :
    /\ \A k \in Keys : /\ Cipher(k, x) \in Block(size) /\ Decipher(k, x) \in Block(size)
                       /\ Decipher(k, Cipher(k, x)) = x
    /\ \A y \in Block(size) : BlockXor(x, y) \in Block(size) /\ BlockXor(BlockXor(x, y), y) = x

SameKey == job.otherKey = job.key /\ m = n

Enciphering == pc \in {"cut", "encrypt"}
Deciphering == pc \in {"read", "decrypt"}

L == Len(job.text)
Blocks == getNumBlocks(L, n)
Plain(k) == BlockOf(job.text, n, k)

\* How many blocks of the file have left the chunk, in either direction.
Sealed == Len(cipherText) - 2
Opened == Len(output)

TypesKept ==
  /\ job \in Jobs
  /\ pc \in {"header", "cut", "encrypt", "check", "read", "decrypt", "done", "refused"}
  /\ cipherText \in Seq(Block(n))
  /\ ~Deciphering /\ pc # "done" => output = <<>> /\ bytesWritten = 0 /\ decryptCount = 0
  /\ pc \notin {"encrypt", "decrypt"} => buf = <<>> /\ block = 1

\* The header and the blocks written are chained, and the chain is the last.
Chained ==
  /\ pc # "header" => Len(cipherText) >= 2
  /\ \A k \in 2 .. Len(cipherText) :
       cipherText[k] = Cipher(job.key, BlockXor(PlainBlock(k - 1), cipherText[k - 1]))
  /\ Enciphering => chain = cipherText[Len(cipherText)]

\* The chunk being enciphered: up to block it is cipher text, from there plain.
InChunk ==
  /\ buf \in Seq(Block(n)) /\ buf # <<>>
  /\ Len(buf) * n <= MaxChunk
  /\ block \in 1 .. Len(buf) + 1
  /\ \A k \in 1 .. Len(buf) :
       buf[k] = IF k >= block THEN Plain(Sealed + k)
                ELSE Cipher(job.key, BlockXor(Plain(Sealed + k),
                                              IF k = 1 THEN chain ELSE buf[k - 1]))

EncipherOK ==
  /\ Enciphering =>
       /\ Sealed + Len(buf) <= Blocks
       /\ bytesRead = Least((Sealed + Len(buf)) * n, L)
  /\ pc = "encrypt" => InChunk
  /\ pc \notin {"header", "cut", "encrypt"} => Sealed = Blocks
  /\ pc \in {"header", "check"} => bytesRead = 0

\* The chunk being deciphered, the two buffers of the chain and the two of the
\* blocks, of which the turn says which is which.
Current == IF decryptCount % 2 = 0 THEN chain ELSE chainOdd
Other == IF decryptCount % 2 = 0 THEN chainOdd ELSE chain
Before == IF (block - 1) % 2 = 0 THEN prevOdd ELSE prevEven

OutChunk ==
  /\ buf \in Seq(Block(n)) /\ buf # <<>>
  /\ Len(buf) * n <= MaxChunk
  /\ block \in 1 .. Len(buf) + 1
  /\ \A k \in 1 .. Len(buf) :
       buf[k] = IF k >= block THEN cipherText[Opened + 2 + k] ELSE Plain(Opened + k)
  /\ block > 1 => Before = cipherText[Opened + 1 + block]
  /\ Other = cipherText[Opened + 2 + Len(buf)]

DecipherOK ==
  /\ pc # "refused"
  /\ pc \in {"read", "decrypt", "done"} =>
       /\ fileSize = L
       /\ decryptCount \in Nat
       /\ output \in Seq(Block(n))
       /\ \A k \in 1 .. Len(output) : output[k] = Plain(k)
       /\ Opened + Len(buf) <= Blocks
       /\ bytesRead = (Opened + Len(buf) + 2) * n
       /\ bytesWritten = Least(Opened * n, L)
  /\ Deciphering => Current = cipherText[Opened + 2]
  /\ pc = "decrypt" => OutChunk
  /\ pc = "done" => Opened = Blocks

CbcInv == TypesKept /\ Chained /\ EncipherOK /\ (SameKey => DecipherOK)

-----------------------------------------------------------------------------
(* Blocks and chunks *)

LEMMA SizeFacts ==
  ASSUME NEW size \in Sizes
  PROVE  size = 4 \/ size = 8 \/ size = 16
  BY CbcAssumption

\* Block number q of what is counted in words.
LEMMA BlockIndex ==
  ASSUME NEW size \in Sizes, NEW q \in Nat, NEW r \in 0 .. size - 1
  PROVE  (q * size + r) \div size = q /\ (q * size + r) % size = r
<1>1. CASE size = 4
  BY <1>1
<1>2. CASE size = 8
  BY <1>2
<1>3. CASE size = 16
  BY <1>3
<1>. QED
  BY <1>1, <1>2, <1>3, SizeFacts

LEMMA BlocksFacts ==
  ASSUME NEW size \in Sizes, NEW length \in Nat
  PROVE  LET blocks == getNumBlocks(length, size) IN
         /\ blocks \in Nat
         /\ length <= blocks * size /\ blocks * size < length + size
<1>1. CASE size = 4
  BY <1>1 DEF getNumBlocks
<1>2. CASE size = 8
  BY <1>2 DEF getNumBlocks
<1>3. CASE size = 16
  BY <1>3 DEF getNumBlocks
<1>. QED
  BY <1>1, <1>2, <1>3, SizeFacts

\* A chunk is a number of whole blocks.
LEMMA ChunkFacts ==
  ASSUME NEW size \in Sizes
  PROVE  \E q \in Nat \ {0} : MaxChunk = q * size
<1>1. MaxChunk \in Nat \ {0} /\ MaxChunk % size = 0
  BY CbcAssumption
<1>2. MaxChunk = (MaxChunk \div size) * size /\ MaxChunk \div size \in Nat \ {0}
  <2>1. CASE size = 4
    BY <1>1, <2>1
  <2>2. CASE size = 8
    BY <1>1, <2>2
  <2>3. CASE size = 16
    BY <1>1, <2>3
  <2>. QED
    BY <2>1, <2>2, <2>3, SizeFacts
<1>. QED
  BY <1>2

\* The chunk cut after a number of blocks ends with a block, or with the text.
LEMMA CutFacts ==
  ASSUME NEW size \in Sizes, NEW length \in Nat, NEW b \in Nat, b * size < length
  PROVE  LET cut == Least(MaxChunk, length - b * size)
             new == getNumBlocks(cut, size)
         IN  /\ cut \in Nat \ {0} /\ b * size + cut <= length
             /\ new \in Nat \ {0} /\ new * size <= MaxChunk
             /\ b + new <= getNumBlocks(length, size)
             /\ b * size + cut = Least((b + new) * size, length)
             /\ \A k \in 1 .. new, w \in 1 .. size :
                  (k - 1) * size + w <= cut <=> (b + k - 1) * size + w <= length
<1>. DEFINE cut == Least(MaxChunk, length - b * size)
            new == getNumBlocks(cut, size)
            all == getNumBlocks(length, size)
<1>1. PICK q \in Nat \ {0} : MaxChunk = q * size
  BY ChunkFacts
<1>2. cut \in Nat \ {0} /\ cut <= q * size /\ cut <= length - b * size
      /\ (cut = q * size \/ cut = length - b * size)
  <2>1. CASE size = 4
    BY <1>1, <2>1 DEF Least
  <2>2. CASE size = 8
    BY <1>1, <2>2 DEF Least
  <2>3. CASE size = 16
    BY <1>1, <2>3 DEF Least
  <2>. QED
    BY <2>1, <2>2, <2>3, SizeFacts
<1>. HIDE DEF cut
<1>3. new \in Nat /\ cut <= new * size /\ new * size < cut + size
  BY <1>2, BlocksFacts
<1>4. all \in Nat /\ length <= all * size /\ all * size < length + size
  BY BlocksFacts
<1>. HIDE DEF new, all
<1>5. /\ b * size + cut <= length /\ new # 0 /\ new * size <= q * size
      /\ b + new <= all
      /\ b * size + cut = Least((b + new) * size, length)
      /\ \A k \in 1 .. new, w \in 1 .. size :
           (k - 1) * size + w <= cut <=> (b + k - 1) * size + w <= length
  <2>1. CASE size = 4
    BY <1>1, <1>2, <1>3, <1>4, <2>1 DEF Least
  <2>2. CASE size = 8
    BY <1>1, <1>2, <1>3, <1>4, <2>2 DEF Least
  <2>3. CASE size = 16
    BY <1>1, <1>2, <1>3, <1>4, <2>3 DEF Least
  <2>. QED
    BY <2>1, <2>2, <2>3, SizeFacts
<1>. QED
  BY <1>1, <1>2, <1>3, <1>5 DEF cut, new, all

LEMMA WordIndex ==
  ASSUME NEW size \in Sizes, NEW k \in Nat \ {0}, NEW w \in 1 .. size
  PROVE  (k - 1) * size + w \in Nat \ {0}
<1>1. CASE size = 4
  BY <1>1
<1>2. CASE size = 8
  BY <1>2
<1>3. CASE size = 16
  BY <1>3
<1>. QED
  BY <1>1, <1>2, <1>3, SizeFacts

LEMMA BlockOfType ==
  ASSUME NEW text \in Seq(TextWord), NEW size \in Sizes, NEW k \in Nat \ {0}
  PROVE  BlockOf(text, size, k) \in Block(size)
<1>1. PadWord \in TextWord
  BY CbcAssumption
<1>2. ASSUME NEW at \in Nat \ {0}, at <= Len(text) PROVE text[at] \in TextWord
  BY <1>2
<1>3. \A w \in 1 .. size :
        (k - 1) * size + w <= Len(text) => text[(k - 1) * size + w] \in TextWord
  BY <1>2, WordIndex
<1>. QED
  BY <1>1, <1>3 DEF BlockOf, Block

\* Padding a chunk pads the file: no block of it is cut or filled before the end.
LEMMA PadFacts ==
  ASSUME NEW text \in Seq(TextWord), NEW size \in Sizes,
         NEW b \in Nat, b * size < Len(text)
  PROVE  LET cut == Least(MaxChunk, Len(text) - b * size)
             chunk == pad(SubSeq(text, b * size + 1, b * size + cut), size)
         IN  /\ chunk \in Seq(Block(size)) /\ Len(chunk) = getNumBlocks(cut, size)
             /\ \A k \in 1 .. Len(chunk) : chunk[k] = BlockOf(text, size, b + k)
<1>. DEFINE cut == Least(MaxChunk, Len(text) - b * size)
            new == getNumBlocks(cut, size)
            part == SubSeq(text, b * size + 1, b * size + cut)
<1>1. Len(text) \in Nat /\ size \in Nat
  BY SizeFacts
<1>2. /\ cut \in Nat \ {0} /\ b * size + cut <= Len(text) /\ new \in Nat
      /\ \A k \in 1 .. new, w \in 1 .. size :
           (k - 1) * size + w <= cut <=> (b + k - 1) * size + w <= Len(text)
  BY <1>1, CutFacts
<1>. HIDE DEF cut, new
<1>. DEFINE off == b * size
<1>3. off \in Nat
  BY <1>1
<1>. HIDE DEF off
<1>4. /\ part \in Seq(TextWord) /\ Len(part) = cut
      /\ \A i \in 1 .. cut : part[i] = text[off + i]
  <2>1. part = SubSeq(text, off + 1, off + cut)
    BY DEF off
  <2>. QED
    BY <1>1, <1>2, <1>3, <2>1 DEF off
<1>. HIDE DEF part
<1>5. ASSUME NEW k \in 1 .. new
      PROVE  BlockOf(part, size, k) = BlockOf(text, size, b + k)
  <2>1. ASSUME NEW w \in 1 .. size
        PROVE  (IF (k - 1) * size + w <= Len(part) THEN part[(k - 1) * size + w] ELSE PadWord)
               = (IF (b + k - 1) * size + w <= Len(text)
                  THEN text[(b + k - 1) * size + w] ELSE PadWord)
    <3>1. (k - 1) * size + w \in Nat \ {0}
      BY <1>2, WordIndex
    <3>2. (b + k - 1) * size + w = off + ((k - 1) * size + w)
      BY <1>2, SizeFacts DEF off
    <3>. QED
      BY <1>2, <1>4, <3>1, <3>2
  <2>. QED
    BY <2>1 DEF BlockOf
<1>6. \A k \in 1 .. new : BlockOf(text, size, b + k) \in Block(size)
  BY BlockOfType
<1>7. pad(part, size) = [k \in 1 .. new |-> BlockOf(text, size, b + k)]
  BY <1>4, <1>5 DEF pad, new
<1>. DEFINE chunk == pad(part, size)
<1>8. chunk \in Seq(Block(size)) /\ Len(chunk) = new
      /\ \A k \in 1 .. new : chunk[k] = BlockOf(text, size, b + k)
  BY <1>2, <1>6, <1>7
<1>. QED
  BY <1>8 DEF cut, new, part

LEMMA HeaderType ==
  ASSUME NEW text \in Files, NEW size \in Sizes
  PROVE  genHeader(Len(text), size) \in Block(size) /\ IV(size) \in Block(size)
<1>1. /\ {MAGIC_NUMBER, Version, PadWord} \subseteq TextWord
      /\ Num(64 * size) \in TextWord /\ Num(Len(text)) \in TextWord
      /\ IV(size) \in Block(size)
  BY CbcAssumption, HeaderAssumption DEF Block
<1>. QED
  BY <1>1 DEF genHeader, Block

LEMMA JobFacts ==
  ASSUME job \in Jobs
  PROVE  /\ job.text \in Files /\ job.text \in Seq(TextWord)
         /\ L \in Nat \ {0}
         /\ n \in Sizes /\ m \in Sizes /\ n \in Nat /\ m \in Nat
         /\ job.key \in Keys /\ job.otherKey \in Keys
<1>1. /\ job.text \in Files /\ job.size \in Sizes /\ job.key \in Keys
      /\ job.otherSize \in Sizes /\ job.otherKey \in Keys
  BY DEF Jobs
<1>2. job.text \in Seq(TextWord) /\ job.text # <<>>
  BY <1>1, CbcAssumption
<1>. QED
  BY <1>1, <1>2, SizeFacts, EmptySeq DEF L, n, m

LEMMA PlainTypes ==
  ASSUME job \in Jobs
  PROVE  /\ \A k \in Nat \ {0} : Plain(k) \in Block(n)
         /\ PlainBlock(1) \in Block(n)
         /\ \A k \in Nat \ {0} : PlainBlock(k + 1) = Plain(k)
<1>1. \A k \in Nat \ {0} : Plain(k) \in Block(n)
  BY JobFacts, BlockOfType DEF Plain
<1>2. PlainBlock(1) \in Block(n)
  BY JobFacts, HeaderType DEF PlainBlock
<1>3. \A k \in Nat \ {0} : PlainBlock(k + 1) = Plain(k)
  BY DEF PlainBlock, Plain
<1>. QED
  BY <1>1, <1>2, <1>3

\* How far the file is read says how many blocks there are, and whether it is all.
LEMMA ReadFacts ==
  ASSUME NEW size \in Sizes, NEW length \in Nat, NEW b \in Nat,
         b <= getNumBlocks(length, size)
  PROVE  /\ Least(b * size, length) \in 0 .. length
         /\ Least(b * size, length) < length =>
              b * size < length /\ Least(b * size, length) = b * size
         /\ Least(b * size, length) = length <=> b = getNumBlocks(length, size)
<1>. DEFINE all == getNumBlocks(length, size)
<1>1. all \in Nat /\ length <= all * size /\ all * size < length + size
  BY BlocksFacts
<1>2. b <= all
  OBVIOUS
<1>. HIDE DEF all
<1>3. /\ Least(b * size, length) \in 0 .. length
      /\ Least(b * size, length) < length =>
           b * size < length /\ Least(b * size, length) = b * size
      /\ Least(b * size, length) = length <=> b = all
  <2>1. CASE size = 4
    BY <1>1, <1>2, <2>1 DEF Least
  <2>2. CASE size = 8
    BY <1>1, <1>2, <2>2 DEF Least
  <2>3. CASE size = 16
    BY <1>1, <1>2, <2>3 DEF Least
  <2>. QED
    BY <2>1, <2>2, <2>3, SizeFacts
<1>. QED
  BY <1>3 DEF all

-----------------------------------------------------------------------------
(* Encryption *)

LEMMA SameJob ==
  ASSUME UNCHANGED job
  PROVE  /\ n' = n /\ m' = m /\ L' = L /\ Blocks' = Blocks
         /\ SameKey' <=> SameKey
         /\ \A k : Plain(k)' = Plain(k) /\ PlainBlock(k)' = PlainBlock(k)
<1>1. n' = n /\ m' = m /\ L' = L
  BY DEF n, m, L
<1>2. Blocks' = Blocks
  BY <1>1 DEF Blocks
<1>3. \A k : Plain(k)' = Plain(k) /\ PlainBlock(k)' = PlainBlock(k)
  BY <1>1 DEF Plain, PlainBlock
<1>. QED
  BY <1>1, <1>2, <1>3 DEF SameKey

\* What encryption leaves alone.
LEMMA EncryptionApart ==
  ASSUME CbcInv, UNCHANGED encryptVars, ~Deciphering, pc \notin {"done", "refused"},
         pc' \in {"cut", "encrypt", "check"}
  PROVE  /\ UNCHANGED job /\ job' \in Jobs
         /\ output' = <<>> /\ bytesWritten' = 0 /\ decryptCount' = 0
         /\ ~Deciphering' /\ pc' # "done"
         /\ (SameKey => DecipherOK)'
<1>1. ~Deciphering' /\ pc' # "done" /\ pc' # "refused" /\ UNCHANGED job
  BY DEF Deciphering, encryptVars
<1>2. DecipherOK'
  BY <1>1 DEF DecipherOK, Deciphering
<1>3. job' \in Jobs /\ output' = <<>> /\ bytesWritten' = 0 /\ decryptCount' = 0
  BY <1>1 DEF CbcInv, TypesKept, encryptVars
<1>. QED
  BY <1>1, <1>2, <1>3

LEMMA CbcFacts ==
  ASSUME CbcInv
  PROVE  /\ TypesKept /\ Chained /\ EncipherOK /\ (SameKey => DecipherOK)
         /\ job \in Jobs /\ cipherText \in Seq(Block(n)) /\ Len(cipherText) \in Nat
         /\ L \in Nat \ {0} /\ n \in Sizes /\ m \in Sizes
         /\ Blocks \in Nat
<1>1. TypesKept /\ Chained /\ EncipherOK /\ (SameKey => DecipherOK)
  BY DEF CbcInv
<1>2. job \in Jobs /\ cipherText \in Seq(Block(n))
  BY <1>1 DEF TypesKept
<1>3. L \in Nat \ {0} /\ n \in Sizes /\ m \in Sizes
  BY <1>2, JobFacts
<1>4. Blocks \in Nat
  <2>1. L \in Nat /\ n \in Sizes
    BY <1>3
  <2>. QED
    BY <2>1, BlocksFacts DEF Blocks
<1>5. Len(cipherText) \in Nat
  BY <1>2
<1>. QED
  BY <1>1, <1>2, <1>3, <1>4, <1>5

LEMMA HeaderKeeps ==
  ASSUME Invertible, CbcInv, EncryptHeader
  PROVE  CbcInv'
<1>. DEFINE iv == IV(n)
            sealed == Cipher(job.key, BlockXor(genHeader(L, n), iv))
<1>1. /\ pc = "header" /\ pc' = "cut" /\ cipherText' = <<iv, sealed>> /\ chain' = sealed
      /\ UNCHANGED <<buf, block, bytesRead, encryptVars>>
  BY DEF EncryptHeader, Goto, L
<1>2. /\ UNCHANGED job /\ job' \in Jobs
      /\ output' = <<>> /\ bytesWritten' = 0 /\ decryptCount' = 0
      /\ ~Deciphering' /\ pc' # "done" /\ (SameKey => DecipherOK)'
  BY <1>1, EncryptionApart DEF Deciphering
<1>3. n' = n /\ L' = L /\ Blocks' = Blocks /\ \A k : PlainBlock(k)' = PlainBlock(k)
  BY <1>2, SameJob
<1>4. iv \in Block(n) /\ sealed \in Block(n) /\ PlainBlock(1) = genHeader(L, n)
  <2>1. job.text \in Files /\ n \in Sizes /\ job.key \in Keys
    BY CbcFacts, JobFacts
  <2>2. genHeader(L, n) \in Block(n) /\ iv \in Block(n)
    BY <2>1, HeaderType DEF L
  <2>3. BlockXor(genHeader(L, n), iv) \in Block(n)
    BY <2>1, <2>2 DEF Invertible
  <2>4. sealed \in Block(n)
    BY <2>1, <2>3 DEF Invertible
  <2>. QED
    BY <2>2, <2>4 DEF PlainBlock, L
<1>5. sealed = Cipher(job.key, BlockXor(PlainBlock(1), iv))
  BY <1>4
<1>. HIDE DEF iv, sealed
<1>6. /\ cipherText' \in Seq(Block(n)) /\ Len(cipherText') = 2
      /\ cipherText'[1] = iv /\ cipherText'[2] = sealed
  BY <1>1, <1>4
<1>7. buf' = <<>> /\ block' = 1 /\ bytesRead' = 0
  BY <1>1, CbcFacts DEF TypesKept, EncipherOK
<1>8. TypesKept'
  BY <1>1, <1>2, <1>3, <1>6, <1>7 DEF TypesKept
<1>9. Chained'
  BY <1>1, <1>2, <1>3, <1>5, <1>6 DEF Chained, Enciphering
<1>10. EncipherOK'
  <2>1. Sealed' = 0 /\ Len(buf') = 0
    BY <1>6, <1>7 DEF Sealed
  <2>2. n \in Nat /\ L \in Nat \ {0} /\ Blocks \in Nat
    BY CbcFacts, JobFacts
  <2>3. Least((Sealed' + Len(buf')) * n, L) = 0
    BY <2>1, <2>2 DEF Least
  <2>. QED
    BY <1>1, <1>3, <1>7, <2>1, <2>2, <2>3 DEF EncipherOK
<1>. QED
  BY <1>2, <1>8, <1>9, <1>10 DEF CbcInv

LEMMA CutKeeps ==
  ASSUME CbcInv, CutChunk
  PROVE  CbcInv'
<1>. DEFINE cut == Least(MaxChunk, L - bytesRead)
<1>1. /\ pc = "cut" /\ pc' = "encrypt" /\ bytesRead < L
      /\ buf' = pad(SubSeq(job.text, bytesRead + 1, bytesRead + cut), n)
      /\ bytesRead' = bytesRead + cut /\ block' = 1
      /\ UNCHANGED <<chain, cipherText, encryptVars>>
  BY DEF CutChunk, Goto, L
<1>2. /\ UNCHANGED job /\ job' \in Jobs
      /\ output' = <<>> /\ bytesWritten' = 0 /\ decryptCount' = 0
      /\ ~Deciphering' /\ pc' # "done" /\ (SameKey => DecipherOK)'
  BY <1>1, EncryptionApart DEF Deciphering
<1>3. n' = n /\ L' = L /\ Blocks' = Blocks /\ Sealed' = Sealed
      /\ \A k : Plain(k)' = Plain(k) /\ PlainBlock(k)' = PlainBlock(k)
  BY <1>1, <1>2, SameJob DEF Sealed
<1>4. /\ job.text \in Seq(TextWord) /\ n \in Sizes /\ L \in Nat \ {0} /\ L = Len(job.text)
      /\ Blocks = getNumBlocks(L, n)
  BY CbcFacts, JobFacts DEF L, Blocks
<1>5. Sealed \in Nat /\ Sealed <= Blocks /\ bytesRead = Least(Sealed * n, L)
  <2>1. Len(cipherText) >= 2 /\ buf = <<>>
    BY <1>1, CbcFacts DEF Chained, TypesKept
  <2>2. Sealed + Len(buf) = Sealed /\ Sealed \in Nat
    BY <2>1, CbcFacts DEF Sealed
  <2>. QED
    BY <1>1, <2>2, CbcFacts DEF EncipherOK, Enciphering
<1>6. Sealed * n < L /\ bytesRead = Sealed * n
  BY <1>1, <1>4, <1>5, ReadFacts
<1>7. /\ buf' \in Seq(Block(n)) /\ Len(buf') = getNumBlocks(cut, n)
      /\ \A k \in 1 .. Len(buf') : buf'[k] = Plain(Sealed + k)
  BY <1>1, <1>4, <1>5, <1>6, PadFacts DEF Plain
<1>8. /\ getNumBlocks(cut, n) \in Nat \ {0} /\ getNumBlocks(cut, n) * n <= MaxChunk
      /\ Sealed + getNumBlocks(cut, n) <= Blocks
      /\ bytesRead + cut = Least((Sealed + getNumBlocks(cut, n)) * n, L)
  BY <1>4, <1>5, <1>6, CutFacts
<1>. HIDE DEF cut
<1>9. TypesKept'
  BY <1>1, <1>2, <1>3, CbcFacts DEF TypesKept
<1>10. Chained'
  BY <1>1, <1>2, <1>3, CbcFacts DEF Chained, Enciphering
<1>11. InChunk'
  <2>1. buf' # <<>> /\ block' \in 1 .. Len(buf') + 1
    BY <1>1, <1>7, <1>8, EmptySeq
  <2>2. \A k \in 1 .. Len(buf') : k >= block'
    BY <1>1
  <2>. QED
    BY <1>3, <1>7, <1>8, <2>1, <2>2 DEF InChunk
<1>12. EncipherOK'
  BY <1>1, <1>3, <1>7, <1>8, <1>11 DEF EncipherOK
<1>. QED
  BY <1>2, <1>9, <1>10, <1>12 DEF CbcInv

LEMMA EncryptKeeps ==
  ASSUME Invertible, CbcInv, NEW size, CbcEncrypt(size)
  PROVE  CbcInv'
<1>. DEFINE before == IF block = 1 THEN chain ELSE buf[block - 1]
            sealed == Cipher(job.key, BlockXor(buf[block], before))
<1>1. /\ pc = "encrypt" /\ pc' = "encrypt" /\ block <= Len(buf) /\ block' = block + 1
      /\ buf' = [buf EXCEPT ![block] = sealed]
      /\ UNCHANGED <<bytesRead, chain, cipherText, encryptVars>>
  BY DEF CbcEncrypt
<1>2. /\ UNCHANGED job /\ job' \in Jobs
      /\ output' = <<>> /\ bytesWritten' = 0 /\ decryptCount' = 0
      /\ ~Deciphering' /\ pc' # "done" /\ (SameKey => DecipherOK)'
  BY <1>1, EncryptionApart DEF Deciphering
<1>3. n' = n /\ L' = L /\ Blocks' = Blocks /\ Sealed' = Sealed
      /\ \A k : Plain(k)' = Plain(k) /\ PlainBlock(k)' = PlainBlock(k)
  BY <1>1, <1>2, SameJob DEF Sealed
<1>4. /\ buf \in Seq(Block(n)) /\ Len(buf) * n <= MaxChunk
      /\ block \in 1 .. Len(buf) + 1
      /\ \A k \in 1 .. Len(buf) :
           buf[k] = IF k >= block THEN Plain(Sealed + k)
                    ELSE Cipher(job.key, BlockXor(Plain(Sealed + k),
                                                  IF k = 1 THEN chain ELSE buf[k - 1]))
  BY <1>1, CbcFacts DEF EncipherOK, InChunk
<1>5. /\ Len(buf) \in Nat /\ block \in 1 .. Len(buf) /\ block \in Nat \ {0}
      /\ \A k \in 1 .. Len(buf) : buf[k] \in Block(n)
  BY <1>1, <1>4
<1>6. chain \in Block(n)
  <2>1. chain = cipherText[Len(cipherText)] /\ Len(cipherText) >= 2
    BY <1>1, CbcFacts DEF Chained, Enciphering
  <2>. QED
    BY <2>1, CbcFacts
<1>7. sealed \in Block(n)
  <2>1. before \in Block(n)
    BY <1>5, <1>6
  <2>2. n \in Sizes /\ job.key \in Keys
    BY CbcFacts, JobFacts
  <2>. HIDE DEF before
  <2>3. BlockXor(buf[block], before) \in Block(n)
    BY <1>5, <2>1, <2>2 DEF Invertible
  <2>. QED
    BY <2>2, <2>3 DEF Invertible
<1>8. sealed = Cipher(job.key, BlockXor(Plain(Sealed + block), before))
  BY <1>4, <1>5
<1>9. /\ buf' \in Seq(Block(n)) /\ Len(buf') = Len(buf)
      /\ buf'[block] = sealed
      /\ \A k \in 1 .. Len(buf) : k # block => buf'[k] = buf[k]
  <2>. HIDE DEF sealed
  <2>. QED
    BY <1>1, <1>4, <1>5, <1>7
<1>10. buf' # <<>>
  BY <1>5, <1>9, EmptySeq
<1>11. InChunk'
  <2>1. block' \in 1 .. Len(buf') + 1
    BY <1>1, <1>5, <1>9
  <2>2. ASSUME NEW k \in 1 .. Len(buf')
        PROVE  buf'[k] = IF k >= block' THEN Plain(Sealed + k)
                         ELSE Cipher(job.key, BlockXor(Plain(Sealed + k),
                                                       IF k = 1 THEN chain ELSE buf'[k - 1]))
    <3>1. CASE k > block
      <4>1. k >= block' /\ k >= block /\ k # block /\ k \in 1 .. Len(buf)
        BY <1>1, <1>5, <1>9, <3>1
      <4>. QED
        BY <1>4, <1>9, <4>1
    <3>2. CASE k = block
      <4>1. ~(k >= block') /\ (k # 1 => k - 1 \in 1 .. Len(buf) /\ k - 1 # block)
        BY <1>1, <1>5, <1>9, <3>2
      <4>2. before = IF k = 1 THEN chain ELSE buf'[k - 1]
        BY <1>9, <3>2, <4>1
      <4>. HIDE DEF before
      <4>. QED
        BY <1>8, <1>9, <3>2, <4>1, <4>2
    <3>3. CASE k < block
      <4>1. /\ ~(k >= block') /\ ~(k >= block) /\ k # block /\ k \in 1 .. Len(buf)
            /\ (k # 1 => k - 1 \in 1 .. Len(buf) /\ k - 1 # block)
        BY <1>1, <1>5, <1>9, <3>3
      <4>. QED
        BY <1>4, <1>9, <4>1
    <3>. QED
      BY <1>5, <1>9, <3>1, <3>2, <3>3
  <2>. QED
    BY <1>1, <1>2, <1>3, <1>4, <1>9, <1>10, <2>1, <2>2 DEF InChunk
<1>12. TypesKept'
  BY <1>1, <1>2, <1>3, CbcFacts DEF TypesKept
<1>13. Chained'
  BY <1>1, <1>2, <1>3, CbcFacts DEF Chained, Enciphering
<1>14. EncipherOK'
  BY <1>1, <1>3, <1>9, <1>11, CbcFacts DEF EncipherOK, Enciphering
<1>. QED
  BY <1>2, <1>12, <1>13, <1>14 DEF CbcInv

LEMMA SaveKeeps ==
  ASSUME CbcInv, SaveChain
  PROVE  CbcInv'
<1>1. /\ pc = "encrypt" /\ pc' = "cut" /\ block > Len(buf)
      /\ chain' = buf[Len(buf)] /\ cipherText' = cipherText \o buf
      /\ buf' = <<>> /\ block' = 1
      /\ UNCHANGED <<bytesRead, encryptVars>>
  BY DEF SaveChain, Goto, getChainInBuffer
<1>2. /\ UNCHANGED job /\ job' \in Jobs
      /\ output' = <<>> /\ bytesWritten' = 0 /\ decryptCount' = 0
      /\ ~Deciphering' /\ pc' # "done" /\ (SameKey => DecipherOK)'
  BY <1>1, EncryptionApart DEF Deciphering
<1>3. n' = n /\ L' = L /\ Blocks' = Blocks
      /\ \A k : Plain(k)' = Plain(k) /\ PlainBlock(k)' = PlainBlock(k)
  BY <1>1, <1>2, SameJob
<1>4. /\ buf \in Seq(Block(n)) /\ buf # <<>> /\ block \in 1 .. Len(buf) + 1
      /\ \A k \in 1 .. Len(buf) :
           buf[k] = IF k >= block THEN Plain(Sealed + k)
                    ELSE Cipher(job.key, BlockXor(Plain(Sealed + k),
                                                  IF k = 1 THEN chain ELSE buf[k - 1]))
  BY <1>1, CbcFacts DEF EncipherOK, InChunk
<1>5. Len(buf) \in Nat \ {0} /\ \A k \in 1 .. Len(buf) : ~(k >= block)
  BY <1>1, <1>4, EmptySeq
<1>6. /\ chain = cipherText[Len(cipherText)] /\ Len(cipherText) >= 2
      /\ cipherText \in Seq(Block(n)) /\ Len(cipherText) \in Nat
      /\ \A k \in 2 .. Len(cipherText) :
           cipherText[k] = Cipher(job.key, BlockXor(PlainBlock(k - 1), cipherText[k - 1]))
  BY <1>1, CbcFacts DEF Chained, Enciphering
<1>7. /\ cipherText' \in Seq(Block(n)) /\ Len(cipherText') = Len(cipherText) + Len(buf)
      /\ \A k \in 1 .. Len(cipherText) : cipherText'[k] = cipherText[k]
      /\ \A k \in 1 .. Len(buf) : cipherText'[Len(cipherText) + k] = buf[k]
  BY <1>1, <1>4, <1>5, <1>6
<1>8. TypesKept'
  BY <1>1, <1>2, <1>3, <1>7 DEF TypesKept
<1>9. Chained'
  <2>1. Len(cipherText') >= 2
    BY <1>5, <1>6, <1>7
  <2>2. chain' = cipherText'[Len(cipherText')]
    BY <1>1, <1>5, <1>7
  <2>3. ASSUME NEW k \in 2 .. Len(cipherText')
        PROVE  cipherText'[k] = Cipher(job.key, BlockXor(PlainBlock(k - 1), cipherText'[k - 1]))
    <3>1. CASE k <= Len(cipherText)
      <4>1. k \in 2 .. Len(cipherText) /\ k - 1 \in 1 .. Len(cipherText)
        BY <1>6, <3>1
      <4>. QED
        BY <1>6, <1>7, <4>1
    <3>2. CASE k > Len(cipherText)
      <4>. DEFINE i == k - Len(cipherText)
      <4>1. /\ i \in 1 .. Len(buf) /\ k = Len(cipherText) + i
            /\ Sealed + i = k - 2 /\ k - 2 \in Nat \ {0} /\ k - 1 = (k - 2) + 1
        BY <1>5, <1>6, <1>7, <3>2 DEF Sealed
      <4>2. cipherText'[k - 1] = IF i = 1 THEN chain ELSE buf[i - 1]
        <5>1. CASE i = 1
          <6>1. k - 1 = Len(cipherText) /\ k - 1 \in 1 .. Len(cipherText)
            BY <1>6, <4>1, <5>1
          <6>. QED
            BY <1>6, <1>7, <5>1, <6>1
        <5>2. CASE i # 1
          <6>1. k - 1 = Len(cipherText) + (i - 1) /\ i - 1 \in 1 .. Len(buf)
            BY <1>5, <4>1, <5>2
          <6>. QED
            BY <1>7, <5>2, <6>1
        <5>. QED
          BY <5>1, <5>2
      <4>. HIDE DEF i
      <4>3. Plain(Sealed + i) = PlainBlock(k - 1)
        BY <4>1, CbcFacts, PlainTypes
      <4>4. cipherText'[k] = buf[i]
        BY <1>7, <4>1
      <4>. QED
        BY <1>4, <1>5, <4>1, <4>2, <4>3, <4>4
    <3>. QED
      BY <1>6, <1>7, <3>1, <3>2
  <2>. QED
    BY <1>1, <1>2, <1>3, <2>1, <2>2, <2>3 DEF Chained
<1>10. EncipherOK'
  <2>1. Sealed + Len(buf) <= Blocks /\ bytesRead = Least((Sealed + Len(buf)) * n, L)
    BY <1>1, CbcFacts DEF EncipherOK, Enciphering
  <2>2. Sealed' + Len(buf') = Sealed + Len(buf)
    BY <1>1, <1>5, <1>6, <1>7 DEF Sealed
  <2>. QED
    BY <1>1, <1>3, <2>1, <2>2 DEF EncipherOK
<1>. QED
  BY <1>2, <1>8, <1>9, <1>10 DEF CbcInv

LEMMA ReopenKeeps ==
  ASSUME CbcInv, Reopen
  PROVE  CbcInv'
<1>1. /\ pc = "cut" /\ pc' = "check" /\ bytesRead = L /\ bytesRead' = 0
      /\ UNCHANGED <<buf, block, chain, cipherText, encryptVars>>
  BY DEF Reopen, Goto, L
<1>2. /\ UNCHANGED job /\ job' \in Jobs
      /\ output' = <<>> /\ bytesWritten' = 0 /\ decryptCount' = 0
      /\ ~Deciphering' /\ pc' # "done" /\ (SameKey => DecipherOK)'
  BY <1>1, EncryptionApart DEF Deciphering
<1>3. n' = n /\ L' = L /\ Blocks' = Blocks /\ Sealed' = Sealed
      /\ \A k : Plain(k)' = Plain(k) /\ PlainBlock(k)' = PlainBlock(k)
  BY <1>1, <1>2, SameJob DEF Sealed
<1>4. /\ buf = <<>> /\ block = 1 /\ Len(cipherText) >= 2 /\ Len(buf) = 0
  BY <1>1, CbcFacts, EmptySeq DEF TypesKept, Chained
<1>5. Sealed \in Nat /\ Sealed <= Blocks /\ Least(Sealed * n, L) = L
  <2>1. Sealed \in Nat /\ Sealed + Len(buf) = Sealed
    BY <1>4, CbcFacts DEF Sealed
  <2>. QED
    BY <1>1, <2>1, CbcFacts DEF EncipherOK, Enciphering
<1>6. Sealed = Blocks
  <2>1. n \in Sizes /\ L \in Nat
    BY CbcFacts
  <2>. QED
    BY <1>5, <2>1, ReadFacts DEF Blocks
<1>7. TypesKept'
  BY <1>1, <1>2, <1>3, <1>4, CbcFacts DEF TypesKept
<1>8. Chained'
  BY <1>1, <1>2, <1>3, <1>4, CbcFacts DEF Chained, Enciphering
<1>9. EncipherOK'
  BY <1>1, <1>3, <1>6 DEF EncipherOK, Enciphering
<1>. QED
  BY <1>2, <1>7, <1>8, <1>9 DEF CbcInv

-----------------------------------------------------------------------------
(* Decryption *)

\* What decryption leaves alone.
LEMMA DecryptionApart ==
  ASSUME CbcInv, UNCHANGED decryptVars, pc \notin {"header", "cut", "encrypt"},
         pc' \in {"read", "decrypt", "done", "refused"},
         pc' # "decrypt" => buf' = <<>> /\ block' = 1,
         pc' = "refused" => output' = <<>> /\ bytesWritten' = 0 /\ decryptCount' = 0
  PROVE  /\ n' = n /\ m' = m /\ L' = L /\ Blocks' = Blocks /\ cipherText' = cipherText
         /\ \A k : Plain(k)' = Plain(k)
         /\ SameKey' <=> SameKey
         /\ TypesKept' /\ Chained' /\ EncipherOK'
<1>1. job' = job /\ cipherText' = cipherText
  BY DEF decryptVars
<1>2. n' = n /\ m' = m /\ L' = L /\ Blocks' = Blocks /\ (SameKey' <=> SameKey)
      /\ \A k : Plain(k)' = Plain(k) /\ PlainBlock(k)' = PlainBlock(k)
  BY <1>1, SameJob
<1>3. TypesKept'
  BY <1>1, <1>2, CbcFacts DEF TypesKept, Deciphering
<1>4. Chained'
  BY <1>1, <1>2, CbcFacts DEF Chained, Enciphering
<1>5. EncipherOK'
  BY <1>1, <1>2, CbcFacts DEF EncipherOK, Enciphering, Sealed
<1>. QED
  BY <1>1, <1>2, <1>3, <1>4, <1>5

\* With the block size of the encryption its blocks are found again.
LEMMA WordsAligned ==
  ASSUME job \in Jobs, cipherText \in Seq(Block(n)), m = n,
         NEW k \in 1 .. Len(cipherText)
  PROVE  Words(k, m) = cipherText[k] /\ cipherText[k] \in Block(n)
<1>1. n \in Sizes /\ n \in Nat
  BY JobFacts
<1>2. cipherText[k] \in [1 .. n -> TextWord] /\ k \in Nat \ {0}
  BY DEF Block
<1>3. ASSUME NEW w \in 1 .. n
      PROVE  LET at == (k - 1) * n + w - 1 IN
             cipherText[(at \div n) + 1][(at % n) + 1] = cipherText[k][w]
  <2>. DEFINE q == k - 1
              r == w - 1
              at == (k - 1) * n + w - 1
  <2>1. q \in Nat /\ r \in 0 .. n - 1 /\ q + 1 = k /\ r + 1 = w
    BY <1>1, <1>2
  <2>2. q * n \in Nat
    BY <1>1, <2>1
  <2>3. at = q * n + r
    BY <1>1, <2>1, <2>2
  <2>4. at \div n = q /\ at % n = r
    BY <1>1, <2>1, <2>3, BlockIndex
  <2>. QED
    BY <2>1, <2>4
<1>4. Words(k, n) = [w \in 1 .. n |-> cipherText[k][w]]
  BY <1>3 DEF Words
<1>. QED
  BY <1>2, <1>4 DEF Block

\* The block before a block of cipher text is what it takes to undo it.
LEMMA Undone ==
  ASSUME Invertible, CbcInv, NEW k \in 2 .. Len(cipherText)
  PROVE  BlockXor(Decipher(job.key, cipherText[k]), cipherText[k - 1]) = PlainBlock(k - 1)
<1>1. n \in Sizes /\ job.key \in Keys /\ job \in Jobs
  BY CbcFacts, JobFacts
<1>2. cipherText[k] = Cipher(job.key, BlockXor(PlainBlock(k - 1), cipherText[k - 1]))
  BY CbcFacts DEF Chained
<1>3. cipherText[k - 1] \in Block(n)
  <2>1. k - 1 \in 1 .. Len(cipherText)
    BY CbcFacts
  <2>. QED
    BY <2>1, CbcFacts
<1>4. PlainBlock(k - 1) \in Block(n)
  <2>1. CASE k = 2
    BY <1>1, <2>1, PlainTypes
  <2>2. CASE k # 2
    <3>1. k - 2 \in Nat \ {0} /\ k - 1 = (k - 2) + 1
      BY <2>2, CbcFacts
    <3>. QED
      BY <1>1, <3>1, PlainTypes
  <2>. QED
    BY <2>1, <2>2
<1>5. BlockXor(PlainBlock(k - 1), cipherText[k - 1]) \in Block(n)
  BY <1>1, <1>3, <1>4 DEF Invertible
<1>6. Decipher(job.key, cipherText[k]) = BlockXor(PlainBlock(k - 1), cipherText[k - 1])
  BY <1>1, <1>2, <1>5 DEF Invertible
<1>. QED
  BY <1>1, <1>3, <1>4, <1>6 DEF Invertible

\* The right key deciphers the header to what genHeader made.
LEMMA HeaderRight ==
  ASSUME Invertible, CbcInv, pc = "check", SameKey
  PROVE  /\ HeaderBlocks /\ checkHeader(Header, m)
         /\ Value(Header[2]) = L
         /\ Words(2, m) = cipherText[2]
<1>1. /\ job \in Jobs /\ cipherText \in Seq(Block(n)) /\ m = n /\ job.otherKey = job.key
      /\ n \in Sizes /\ Len(cipherText) >= 2 /\ Len(cipherText) \in Nat
  BY CbcFacts DEF Chained, SameKey
<1>2. Words(2, m) = cipherText[2] /\ Words(1, m) = cipherText[1]
  BY <1>1, WordsAligned
<1>3. Header = genHeader(L, n)
  <2>1. 2 \in 2 .. Len(cipherText) /\ 2 - 1 = 1
    BY <1>1
  <2>2. BlockXor(Decipher(job.key, cipherText[2]), cipherText[1]) = PlainBlock(1)
    BY <2>1, Undone
  <2>. QED
    BY <1>1, <1>2, <2>2 DEF Header, PlainBlock, L
<1>4. HeaderBlocks
  <2>1. 2 * n <= Len(cipherText) * n
    BY <1>1, SizeFacts
  <2>. QED
    BY <1>1, <2>1 DEF HeaderBlocks
<1>5. 1 \in 1 .. n /\ 2 \in 1 .. n /\ 3 \in 1 .. n
  BY <1>1, SizeFacts
<1>6. Header[1] = MAGIC_NUMBER /\ Header[2] = Num(L) /\ Header[3] = Num(64 * n)
  BY <1>3, <1>5 DEF genHeader
<1>7. Value(Num(L)) = L
  BY <1>1, JobFacts, HeaderAssumption DEF L
<1>. QED
  BY <1>1, <1>2, <1>4, <1>6, <1>7 DEF checkHeader

LEMMA HeaderGoodKeeps ==
  ASSUME Invertible, CbcInv, HeaderGood
  PROVE  CbcInv'
<1>1. /\ pc = "check" /\ pc' = "read" /\ fileSize' = Value(Header[2])
      /\ chain' = Words(2, m) /\ bytesRead' = 2 * m
      /\ UNCHANGED <<buf, block, decryptCount, output, bytesWritten, decryptVars>>
  BY DEF HeaderGood, Goto
<1>2. /\ buf = <<>> /\ block = 1 /\ output = <<>> /\ bytesWritten = 0 /\ decryptCount = 0
  BY <1>1, CbcFacts DEF TypesKept, Deciphering
<1>3. /\ n' = n /\ L' = L /\ Blocks' = Blocks /\ cipherText' = cipherText
      /\ (SameKey' <=> SameKey) /\ TypesKept' /\ Chained' /\ EncipherOK'
  BY <1>1, <1>2, DecryptionApart
<1>4. ASSUME SameKey PROVE DecipherOK'
  <2>1. fileSize' = L /\ chain' = cipherText[2] /\ m = n
    BY <1>1, <1>4, HeaderRight DEF SameKey
  <2>2. n \in Nat /\ L \in Nat /\ Blocks \in Nat
    BY CbcFacts, JobFacts
  <2>3. Opened' = 0 /\ Len(buf') = 0 /\ output' \in Seq(Block(n)) /\ Len(output') = 0
    BY <1>1, <1>2, EmptySeq DEF Opened
  <2>4. /\ Opened' + Len(buf') <= Blocks
        /\ bytesRead' = (Opened' + Len(buf') + 2) * n
        /\ bytesWritten' = Least(Opened' * n, L)
    BY <1>1, <1>2, <2>1, <2>2, <2>3 DEF Least
  <2>5. Current' = cipherText[Opened' + 2]
    BY <1>1, <1>2, <2>1, <2>3 DEF Current
  <2>6. \A k \in 1 .. Len(output') : output'[k] = Plain(k)'
    BY <2>3
  <2>7. decryptCount' \in Nat
    BY <1>1, <1>2
  <2>. QED
    BY <1>1, <1>3, <2>1, <2>3, <2>4, <2>5, <2>6, <2>7 DEF DecipherOK, Deciphering
<1>. QED
  BY <1>3, <1>4 DEF CbcInv

LEMMA HeaderBadKeeps ==
  ASSUME Invertible, CbcInv, HeaderBad
  PROVE  CbcInv' /\ ~SameKey
<1>1. /\ pc = "check" /\ pc' = "refused" /\ ~(HeaderBlocks /\ checkHeader(Header, m))
      /\ UNCHANGED <<buf, block, decryptCount, output, bytesWritten, decryptVars>>
  BY DEF HeaderBad, Goto
<1>2. /\ buf = <<>> /\ block = 1 /\ output = <<>> /\ bytesWritten = 0 /\ decryptCount = 0
  BY <1>1, CbcFacts DEF TypesKept, Deciphering
<1>3. (SameKey' <=> SameKey) /\ TypesKept' /\ Chained' /\ EncipherOK'
  BY <1>1, <1>2, DecryptionApart
<1>4. ~SameKey
  BY <1>1, HeaderRight
<1>. QED
  BY <1>3, <1>4 DEF CbcInv

\* The cipher text is read in whole blocks when it was written in them.
LEMMA ReadCut ==
  ASSUME NEW size \in Sizes, NEW all \in Nat, NEW b \in Nat, b <= all
  PROVE  LET left == (all + 2) * size - (b + 2) * size
             cut == Least(MaxChunk, left)
             new == getNumBlocks(cut, size)
         IN  /\ left > 0 <=> b < all
             /\ (b + 2) * size = (all + 2) * size <=> b = all
             /\ ((b + 2) * size) \div size = b + 2
             /\ left > 0 => /\ new \in 1 .. all - b /\ new * size <= MaxChunk
                            /\ (b + 2) * size + cut = (b + new + 2) * size
<1>. DEFINE left == (all + 2) * size - (b + 2) * size
            cut == Least(MaxChunk, left)
            new == getNumBlocks(cut, size)
<1>1. PICK q \in Nat \ {0} : MaxChunk = q * size
  BY ChunkFacts
<1>2. /\ left > 0 <=> b < all
      /\ (b + 2) * size = (all + 2) * size <=> b = all
      /\ left = (all - b) * size
  <2>1. CASE size = 4
    BY <2>1
  <2>2. CASE size = 8
    BY <2>2
  <2>3. CASE size = 16
    BY <2>3
  <2>. QED
    BY <2>1, <2>2, <2>3, SizeFacts
<1>3. ((b + 2) * size) \div size = b + 2
  <2>1. CASE size = 4
    BY <2>1
  <2>2. CASE size = 8
    BY <2>2
  <2>3. CASE size = 16
    BY <2>3
  <2>. QED
    BY <2>1, <2>2, <2>3, SizeFacts
<1>. HIDE DEF left
<1>4. ASSUME b < all
      PROVE  /\ cut \in Nat \ {0} /\ cut <= q * size /\ cut <= (all - b) * size
             /\ \E c \in Nat : cut = c * size
  <2>1. /\ q \in Nat /\ all - b \in Nat /\ (cut = q * size \/ cut = (all - b) * size)
    BY <1>1, <1>2, <1>4 DEF Least
  <2>2. \E c \in Nat : cut = c * size
    BY <2>1
  <2>3. cut \in Nat \ {0} /\ cut <= q * size /\ cut <= (all - b) * size
    <3>1. CASE size = 4
      BY <1>1, <1>2, <1>4, <3>1 DEF Least
    <3>2. CASE size = 8
      BY <1>1, <1>2, <1>4, <3>2 DEF Least
    <3>3. CASE size = 16
      BY <1>1, <1>2, <1>4, <3>3 DEF Least
    <3>. QED
      BY <3>1, <3>2, <3>3, SizeFacts
  <2>. QED
    BY <2>2, <2>3
<1>. HIDE DEF cut
<1>5. ASSUME b < all
      PROVE  /\ new \in 1 .. all - b /\ new * size <= MaxChunk
             /\ (b + 2) * size + cut = (b + new + 2) * size
  <2>1. PICK c \in Nat : cut = c * size
    BY <1>4, <1>5
  <2>2. cut \in Nat \ {0} /\ cut <= q * size /\ cut <= (all - b) * size
    BY <1>4, <1>5
  <2>3. new \in Nat /\ cut <= new * size /\ new * size < cut + size
    BY <2>2, BlocksFacts
  <2>. HIDE DEF new
  <2>4. CASE size = 4
    BY <1>1, <2>1, <2>2, <2>3, <2>4
  <2>5. CASE size = 8
    BY <1>1, <2>1, <2>2, <2>3, <2>5
  <2>6. CASE size = 16
    BY <1>1, <2>1, <2>2, <2>3, <2>6
  <2>. QED
    BY <2>4, <2>5, <2>6, SizeFacts
<1>. QED
  BY <1>2, <1>3, <1>5 DEF left, cut, new

\* With the right key, how far decryption is.
LEMMA OpenedFacts ==
  ASSUME CbcInv, SameKey, pc \in {"read", "decrypt", "done"}
  PROVE  /\ m = n /\ job.otherKey = job.key /\ n \in Sizes
         /\ fileSize = L /\ decryptCount \in Nat
         /\ output \in Seq(Block(n)) /\ Opened \in Nat /\ Opened = Len(output)
         /\ \A k \in 1 .. Len(output) : output[k] = Plain(k)
         /\ Opened + Len(buf) <= Blocks
         /\ bytesRead = (Opened + Len(buf) + 2) * n
         /\ bytesWritten = Least(Opened * n, L)
         /\ Len(cipherText) = Blocks + 2
<1>1. m = n /\ job.otherKey = job.key /\ n \in Sizes
  BY CbcFacts DEF SameKey
<1>2. DecipherOK
  BY CbcFacts
<1>3. output \in Seq(Block(n))
  BY <1>2 DEF DecipherOK
<1>4. Opened \in Nat /\ Opened = Len(output)
  BY <1>3 DEF Opened
<1>5. Sealed = Blocks
  BY CbcFacts DEF EncipherOK
<1>6. Len(cipherText) = Blocks + 2
  BY <1>5, CbcFacts DEF Sealed
<1>. QED
  BY <1>1, <1>2, <1>3, <1>4, <1>6 DEF DecipherOK

LEMMA ReadKeeps ==
  ASSUME CbcInv, ReadChunk
  PROVE  CbcInv'
<1>. DEFINE left == Len(cipherText) * n - bytesRead
            cut == Least(MaxChunk, left)
            new == getNumBlocks(cut, m)
            chunk == [k \in 1 .. new |-> Words((bytesRead \div m) + k, m)]
<1>1. /\ pc = "read" /\ pc' = "decrypt" /\ left > 0
      /\ buf' = chunk /\ bytesRead' = bytesRead + cut /\ block' = 1
      /\ IF decryptCount % 2 = 0
         THEN chainOdd' = getChainInBuffer(chunk) /\ UNCHANGED chain
         ELSE chain' = getChainInBuffer(chunk) /\ UNCHANGED chainOdd
      /\ UNCHANGED <<decryptCount, fileSize, output, bytesWritten, decryptVars>>
  BY DEF ReadChunk, Goto
<1>2. /\ n' = n /\ L' = L /\ Blocks' = Blocks /\ cipherText' = cipherText
      /\ (SameKey' <=> SameKey) /\ \A k : Plain(k)' = Plain(k)
      /\ TypesKept' /\ Chained' /\ EncipherOK'
  BY <1>1, DecryptionApart
<1>3. Opened' = Opened
  BY <1>1 DEF Opened
<1>4. Other' = getChainInBuffer(chunk) /\ Current' = Current
  BY <1>1 DEF Other, Current
<1>5. ASSUME SameKey PROVE DecipherOK'
  <2>1. /\ m = n /\ n \in Sizes /\ fileSize = L /\ decryptCount \in Nat
        /\ output \in Seq(Block(n)) /\ Opened \in Nat /\ Opened = Len(output)
        /\ \A k \in 1 .. Len(output) : output[k] = Plain(k)
        /\ Opened + Len(buf) <= Blocks /\ bytesRead = (Opened + Len(buf) + 2) * n
        /\ bytesWritten = Least(Opened * n, L) /\ Len(cipherText) = Blocks + 2
    BY <1>1, <1>5, OpenedFacts
  <2>2. Len(buf) = 0 /\ Current = cipherText[Opened + 2]
    BY <1>1, <1>5, CbcFacts, EmptySeq DEF TypesKept, DecipherOK, Deciphering
  <2>3. Opened <= Blocks /\ bytesRead = (Opened + 2) * n /\ left = (Blocks + 2) * n - (Opened + 2) * n
    BY <2>1, <2>2
  <2>4. Blocks \in Nat
    BY CbcFacts
  <2>5. /\ bytesRead \div m = Opened + 2
        /\ new \in 1 .. Blocks - Opened /\ new * n <= MaxChunk
        /\ bytesRead + cut = (Opened + new + 2) * n
    <3>. DEFINE rest == (Blocks + 2) * n - (Opened + 2) * n
                part == Least(MaxChunk, rest)
    <3>1. left = rest /\ rest > 0
      BY <1>1, <2>3
    <3>2. /\ ((Opened + 2) * n) \div n = Opened + 2
          /\ getNumBlocks(part, n) \in 1 .. Blocks - Opened
          /\ getNumBlocks(part, n) * n <= MaxChunk
          /\ (Opened + 2) * n + part = (Opened + getNumBlocks(part, n) + 2) * n
      BY <2>1, <2>3, <2>4, <3>1, ReadCut
    <3>3. cut = part /\ new = getNumBlocks(part, n)
      BY <2>1, <3>1
    <3>. HIDE DEF left, rest, cut, part, new
    <3>. QED
      BY <2>1, <2>3, <3>2, <3>3
  <2>. HIDE DEF left, cut, new
  <2>6. ASSUME NEW k \in 1 .. new
        PROVE  /\ Words((bytesRead \div m) + k, m) = cipherText[Opened + 2 + k]
               /\ cipherText[Opened + 2 + k] \in Block(n)
    <3>1. Opened + 2 + k \in 1 .. Len(cipherText)
      BY <2>1, <2>4, <2>5
    <3>. QED
      BY <2>1, <2>5, <3>1, CbcFacts, WordsAligned
  <2>7. /\ chunk \in Seq(Block(n)) /\ Len(chunk) = new /\ chunk # <<>>
        /\ \A k \in 1 .. new : chunk[k] = cipherText[Opened + 2 + k]
    <3>1. new \in Nat \ {0}
      BY <2>1, <2>4, <2>5
    <3>2. /\ chunk \in Seq(Block(n)) /\ Len(chunk) = new
          /\ \A k \in 1 .. new : chunk[k] = cipherText[Opened + 2 + k]
      BY <2>6, <3>1
    <3>. QED
      BY <3>1, <3>2, EmptySeq
  <2>8. getChainInBuffer(chunk) = cipherText[Opened + 2 + new]
    BY <2>4, <2>5, <2>7, <2>1 DEF getChainInBuffer
  <2>. HIDE DEF chunk
  <2>9. OutChunk'
    <3>1. /\ block' \in 1 .. Len(buf') + 1 /\ ~(block' > 1)
          /\ \A k \in 1 .. Len(buf') : k >= block'
      BY <1>1, <2>1, <2>4, <2>5, <2>7
    <3>. QED
      BY <1>1, <1>2, <1>3, <1>4, <2>5, <2>7, <2>8, <3>1 DEF OutChunk
  <2>10. Opened + Len(buf') <= Blocks
    BY <1>1, <2>1, <2>4, <2>5, <2>7
  <2>. QED
    BY <1>1, <1>2, <1>3, <1>4, <2>1, <2>2, <2>5, <2>7, <2>9, <2>10
    DEF DecipherOK, Deciphering
<1>. QED
  BY <1>2, <1>5 DEF CbcInv

LEMMA DecryptKeeps ==
  ASSUME Invertible, CbcInv, NEW size, CbcDecrypt(size)
  PROVE  CbcInv'
<1>. DEFINE even == (block - 1) % 2 = 0
            before == IF block = 1 THEN Current ELSE Before
            opened == BlockXor(Decipher(job.otherKey, buf[block]), before)
<1>1. /\ pc = "decrypt" /\ pc' = "decrypt" /\ block <= Len(buf) /\ block' = block + 1
      /\ prevEven' = (IF even THEN buf[block] ELSE prevEven)
      /\ prevOdd' = (IF even THEN prevOdd ELSE buf[block])
      /\ buf' = [buf EXCEPT ![block] = opened]
      /\ UNCHANGED <<bytesRead, chain, chainOdd, decryptCount, fileSize, output,
                     bytesWritten, decryptVars>>
  BY DEF CbcDecrypt, Current, Before
<1>2. /\ n' = n /\ L' = L /\ Blocks' = Blocks /\ cipherText' = cipherText
      /\ (SameKey' <=> SameKey) /\ \A k : Plain(k)' = Plain(k)
      /\ TypesKept' /\ Chained' /\ EncipherOK'
  BY <1>1, DecryptionApart
<1>3. Opened' = Opened /\ Current' = Current /\ Other' = Other
  BY <1>1 DEF Opened, Current, Other
<1>4. ASSUME SameKey PROVE DecipherOK'
  <2>1. /\ job.otherKey = job.key /\ Opened \in Nat /\ Blocks \in Nat
        /\ Opened + Len(buf) <= Blocks /\ Len(cipherText) = Blocks + 2
    BY <1>1, <1>4, OpenedFacts, CbcFacts
  <2>2. DecipherOK /\ OutChunk /\ Current = cipherText[Opened + 2]
    BY <1>1, <1>4, CbcFacts DEF DecipherOK, Deciphering
  <2>3. /\ buf \in Seq(Block(n)) /\ buf # <<>> /\ Len(buf) * n <= MaxChunk
        /\ \A k \in 1 .. Len(buf) :
             buf[k] = IF k >= block THEN cipherText[Opened + 2 + k] ELSE Plain(Opened + k)
        /\ block > 1 => Before = cipherText[Opened + 1 + block]
        /\ Other = cipherText[Opened + 2 + Len(buf)]
        /\ block \in 1 .. Len(buf) + 1
    BY <2>2 DEF OutChunk
  <2>4. /\ block \in 1 .. Len(buf) /\ block \in Nat \ {0} /\ Len(buf) \in Nat
        /\ buf[block] = cipherText[Opened + 2 + block]
    BY <1>1, <2>3
  <2>5. before = cipherText[Opened + 1 + block]
    BY <2>1, <2>2, <2>3, <2>4
  <2>6. /\ Opened + 2 + block \in 2 .. Len(cipherText)
        /\ (Opened + 2 + block) - 1 = Opened + 1 + block
        /\ Opened + 1 + block = (Opened + block) + 1 /\ Opened + block \in Nat \ {0}
    BY <2>1, <2>4
  <2>7. opened = Plain(Opened + block)
    <3>. HIDE DEF before
    <3>1. opened = PlainBlock(Opened + 1 + block)
      BY <2>1, <2>4, <2>5, <2>6, Undone
    <3>. QED
      BY <2>6, <3>1, CbcFacts, PlainTypes
  <2>8. opened \in Block(n)
    BY <2>6, <2>7, CbcFacts, PlainTypes
  <2>. HIDE DEF opened
  <2>9. /\ buf' \in Seq(Block(n)) /\ Len(buf') = Len(buf) /\ buf'[block] = opened
        /\ \A k \in 1 .. Len(buf) : k # block => buf'[k] = buf[k]
    BY <1>1, <2>3, <2>4, <2>8
  <2>10. Before' = buf[block]
    <3>1. (block' - 1) % 2 = 0 <=> ~even
      BY <1>1, <2>4
    <3>. QED
      BY <1>1, <3>1 DEF Before
  <2>11. OutChunk'
    <3>1. ASSUME NEW k \in 1 .. Len(buf')
          PROVE  buf'[k] = IF k >= block' THEN cipherText[Opened + 2 + k] ELSE Plain(Opened + k)
      <4>1. CASE k = block
        <5>1. ~(k >= block')
          BY <1>1, <2>4, <4>1
        <5>. QED
          BY <2>7, <2>9, <4>1, <5>1
      <4>2. CASE k # block
        <5>1. k \in 1 .. Len(buf) /\ (k >= block' <=> k >= block)
          BY <1>1, <2>4, <2>9, <4>2
        <5>. QED
          BY <2>3, <2>9, <4>2, <5>1
      <4>. QED
        BY <4>1, <4>2
    <3>2. block' \in 1 .. Len(buf') + 1 /\ Opened + 1 + block' = Opened + 2 + block
      BY <1>1, <2>1, <2>4, <2>9
    <3>3. Before' = cipherText[Opened + 1 + block']
      BY <2>4, <2>10, <3>2
    <3>4. buf' # <<>>
      BY <2>4, <2>9, EmptySeq
    <3>. QED
      BY <1>2, <1>3, <2>3, <2>9, <3>1, <3>2, <3>3, <3>4 DEF OutChunk
  <2>. QED
    BY <1>1, <1>2, <1>3, <2>2, <2>9, <2>11 DEF DecipherOK, Deciphering
<1>. QED
  BY <1>2, <1>4 DEF CbcInv

\* asyncWrite has written the file as far as the blocks go.
LEMMA WrittenSum ==
  ASSUME NEW size \in Sizes, NEW length \in Nat, NEW b \in Nat, NEW new \in Nat
  PROVE  Least(Least(b * size, length) + new * size, length) = Least((b + new) * size, length)
<1>1. CASE size = 4
  BY <1>1 DEF Least
<1>2. CASE size = 8
  BY <1>2 DEF Least
<1>3. CASE size = 16
  BY <1>3 DEF Least
<1>. QED
  BY <1>1, <1>2, <1>3, SizeFacts

LEMMA WriteKeeps ==
  ASSUME CbcInv, WriteChunk
  PROVE  CbcInv'
<1>1. /\ pc = "decrypt" /\ pc' = "read" /\ block > Len(buf)
      /\ output' = output \o buf
      /\ bytesWritten' = Least(bytesWritten + Len(buf) * m, fileSize)
      /\ decryptCount' = decryptCount + 1
      /\ buf' = <<>> /\ block' = 1
      /\ UNCHANGED <<bytesRead, chain, chainOdd, fileSize, decryptVars>>
  BY DEF WriteChunk, Goto
<1>2. /\ n' = n /\ L' = L /\ Blocks' = Blocks /\ cipherText' = cipherText
      /\ (SameKey' <=> SameKey) /\ \A k : Plain(k)' = Plain(k)
      /\ TypesKept' /\ Chained' /\ EncipherOK'
  BY <1>1, DecryptionApart
<1>3. ASSUME SameKey PROVE DecipherOK'
  <2>1. /\ m = n /\ n \in Sizes /\ fileSize = L /\ decryptCount \in Nat
        /\ output \in Seq(Block(n)) /\ Opened \in Nat /\ Opened = Len(output)
        /\ \A k \in 1 .. Len(output) : output[k] = Plain(k)
        /\ Opened + Len(buf) <= Blocks /\ bytesRead = (Opened + Len(buf) + 2) * n
        /\ bytesWritten = Least(Opened * n, L)
    BY <1>1, <1>3, OpenedFacts
  <2>2. OutChunk
    BY <1>1, <1>3, CbcFacts DEF DecipherOK
  <2>3. /\ buf \in Seq(Block(n)) /\ Len(buf) \in Nat
        /\ Other = cipherText[Opened + 2 + Len(buf)]
        /\ \A k \in 1 .. Len(buf) : buf[k] = Plain(Opened + k)
    <3>1. buf \in Seq(Block(n)) /\ block \in 1 .. Len(buf) + 1
      BY <2>2 DEF OutChunk
    <3>2. \A k \in 1 .. Len(buf) : ~(k >= block)
      BY <1>1, <3>1
    <3>. QED
      BY <2>2, <3>1, <3>2 DEF OutChunk
  <2>4. /\ output' \in Seq(Block(n)) /\ Len(output') = Opened + Len(buf)
        /\ \A k \in 1 .. Opened : output'[k] = output[k]
        /\ \A k \in 1 .. Len(buf) : output'[Opened + k] = buf[k]
    BY <1>1, <2>1, <2>3
  <2>5. Opened' = Opened + Len(buf) /\ Len(buf') = 0
    BY <1>1, <2>4, EmptySeq DEF Opened
  <2>6. ASSUME NEW k \in 1 .. Len(output') PROVE output'[k] = Plain(k)
    <3>1. CASE k <= Opened
      BY <2>1, <2>4, <3>1
    <3>2. CASE k > Opened
      <4>1. k - Opened \in 1 .. Len(buf) /\ Opened + (k - Opened) = k
        BY <2>1, <2>3, <2>4, <3>2
      <4>. QED
        BY <2>3, <2>4, <4>1
    <3>. QED
      BY <2>1, <2>3, <2>4, <3>1, <3>2
  <2>7. Current' = Other
    <3>1. decryptCount' % 2 = 0 <=> ~(decryptCount % 2 = 0)
      BY <1>1, <2>1
    <3>. QED
      BY <1>1, <3>1 DEF Current, Other
  <2>8. Opened' + 2 = Opened + 2 + Len(buf) /\ Opened' + Len(buf') = Opened + Len(buf)
    BY <2>1, <2>3, <2>5
  <2>9. bytesWritten' = Least(Opened' * n, L)
    <3>1. L \in Nat
      BY CbcFacts
    <3>. QED
      BY <1>1, <2>1, <2>3, <2>5, <3>1, WrittenSum
  <2>10. decryptCount' \in Nat /\ fileSize' = L
    BY <1>1, <2>1
  <2>. QED
    BY <1>1, <1>2, <2>1, <2>3, <2>4, <2>6, <2>7, <2>8, <2>9, <2>10 DEF DecipherOK, Deciphering
<1>. QED
  BY <1>2, <1>3 DEF CbcInv

LEMMA AllReadKeeps ==
  ASSUME CbcInv, AllRead
  PROVE  CbcInv'
<1>1. /\ pc = "read" /\ pc' = "done" /\ bytesRead = Len(cipherText) * n
      /\ UNCHANGED <<buf, block, bytesRead, chain, chainOdd, decryptCount,
                     fileSize, output, bytesWritten, decryptVars>>
  BY DEF AllRead, Goto
<1>2. buf = <<>> /\ block = 1 /\ Len(buf) = 0
  BY <1>1, CbcFacts, EmptySeq DEF TypesKept
<1>3. /\ n' = n /\ L' = L /\ Blocks' = Blocks /\ cipherText' = cipherText
      /\ (SameKey' <=> SameKey) /\ \A k : Plain(k)' = Plain(k)
      /\ TypesKept' /\ Chained' /\ EncipherOK'
  BY <1>1, <1>2, DecryptionApart
<1>4. ASSUME SameKey PROVE DecipherOK'
  <2>1. /\ n \in Sizes /\ Opened \in Nat /\ Opened + Len(buf) <= Blocks
        /\ bytesRead = (Opened + Len(buf) + 2) * n /\ Len(cipherText) = Blocks + 2
        /\ Blocks \in Nat
    BY <1>1, <1>4, OpenedFacts, CbcFacts
  <2>2. Opened <= Blocks /\ (Opened + 2) * n = (Blocks + 2) * n
    BY <1>1, <1>2, <2>1
  <2>3. Opened = Blocks
    BY <2>1, <2>2, ReadCut
  <2>4. Opened' = Opened /\ DecipherOK
    BY <1>1, <1>4, CbcFacts DEF Opened
  <2>. QED
    BY <1>1, <1>3, <2>3, <2>4 DEF DecipherOK, Deciphering
<1>. QED
  BY <1>3, <1>4 DEF CbcInv

-----------------------------------------------------------------------------

LEMMA CbcInit ==
  Init => CbcInv
<1>. SUFFICES ASSUME Init PROVE CbcInv
  OBVIOUS
<1>1. /\ job \in Jobs /\ pc = "header" /\ buf = <<>> /\ block = 1 /\ bytesRead = 0
      /\ decryptCount = 0 /\ cipherText = <<>> /\ output = <<>> /\ bytesWritten = 0
  BY DEF Init
<1>2. cipherText \in Seq(Block(n)) /\ Len(cipherText) = 0
  BY <1>1, EmptySeq
<1>3. TypesKept
  BY <1>1, <1>2 DEF TypesKept
<1>4. Chained
  BY <1>1, <1>2 DEF Chained, Enciphering
<1>5. EncipherOK
  BY <1>1 DEF EncipherOK, Enciphering
<1>6. DecipherOK
  BY <1>1 DEF DecipherOK, Deciphering
<1>. QED
  BY <1>3, <1>4, <1>5, <1>6 DEF CbcInv

LEMMA CbcStutters ==
  ASSUME CbcInv, UNCHANGED cbcVars
  PROVE  CbcInv'
<1>1. /\ job' = job /\ pc' = pc /\ buf' = buf /\ block' = block /\ bytesRead' = bytesRead
      /\ chain' = chain /\ chainOdd' = chainOdd /\ decryptCount' = decryptCount
      /\ prevEven' = prevEven /\ prevOdd' = prevOdd /\ cipherText' = cipherText
      /\ fileSize' = fileSize /\ output' = output /\ bytesWritten' = bytesWritten
  BY DEF cbcVars
<1>2. /\ n' = n /\ m' = m /\ L' = L /\ Blocks' = Blocks /\ (SameKey' <=> SameKey)
      /\ \A k : Plain(k)' = Plain(k) /\ PlainBlock(k)' = PlainBlock(k)
  BY <1>1, SameJob
<1>3. Sealed' = Sealed /\ Opened' = Opened /\ Current' = Current /\ Other' = Other
      /\ Before' = Before /\ (Enciphering' <=> Enciphering) /\ (Deciphering' <=> Deciphering)
  BY <1>1 DEF Sealed, Opened, Current, Other, Before, Enciphering, Deciphering
<1>4. TypesKept' /\ Chained'
  BY <1>1, <1>2, <1>3, CbcFacts DEF TypesKept, Chained
<1>5. EncipherOK'
  BY <1>1, <1>2, <1>3, CbcFacts DEF EncipherOK, InChunk
<1>6. SameKey => DecipherOK'
  BY <1>1, <1>2, <1>3, CbcFacts DEF DecipherOK, OutChunk
<1>. QED
  BY <1>2, <1>4, <1>5, <1>6 DEF CbcInv

LEMMA CbcStep ==
  ASSUME Invertible, CbcInv, [Next]_cbcVars
  PROVE  CbcInv'
<1>1. CASE EncryptHeader
  BY <1>1, HeaderKeeps
<1>2. CASE CutChunk
  BY <1>2, CutKeeps
<1>3. CASE encryptInPlace
  BY <1>3, EncryptKeeps DEF encryptInPlace, cbc256Encrypt, cbc512Encrypt, cbc1024Encrypt
<1>4. CASE SaveChain
  BY <1>4, SaveKeeps
<1>5. CASE Reopen
  BY <1>5, ReopenKeeps
<1>6. CASE HeaderGood
  BY <1>6, HeaderGoodKeeps
<1>7. CASE HeaderBad
  BY <1>7, HeaderBadKeeps
<1>8. CASE ReadChunk
  BY <1>8, ReadKeeps
<1>9. CASE decryptInPlace
  BY <1>9, DecryptKeeps DEF decryptInPlace, cbc256Decrypt, cbc512Decrypt, cbc1024Decrypt
<1>10. CASE WriteChunk
  BY <1>10, WriteKeeps
<1>11. CASE AllRead
  BY <1>11, AllReadKeeps
<1>12. CASE UNCHANGED cbcVars
  BY <1>12, CbcStutters
<1>. QED
  BY <1>1, <1>2, <1>3, <1>4, <1>5, <1>6, <1>7, <1>8, <1>9, <1>10, <1>11, <1>12
  DEF Next, Finished

LEMMA CbcInvariance ==
  ASSUME Invertible
  PROVE  Spec => []CbcInv
<1>1. CbcInv /\ [Next]_cbcVars => CbcInv'
  BY CbcStep
<1>. QED
  BY <1>1, CbcInit, PTL DEF Spec

-----------------------------------------------------------------------------
(* The properties *)

\* What reaches the MAC thread is textbook CBC of the header and the padded file:
\* no bound of a chunk shows in it.
THEOREM Chains ==
  ASSUME Invertible
  PROVE  Spec => []IsCbc
<1>1. CbcInv => IsCbc
  BY DEF CbcInv, Chained, IsCbc
<1>. QED
  BY <1>1, CbcInvariance, PTL

\* Every block of the file is enciphered, the last one padded, and nothing else.
THEOREM Covers ==
  ASSUME Invertible
  PROVE  Spec => []NothingLost
<1>1. CbcInv => NothingLost
  <2>. SUFFICES ASSUME CbcInv, pc = "check"
                PROVE  Len(cipherText) = 2 + getNumBlocks(Len(job.text), n)
    BY DEF NothingLost
  <2>1. Sealed = Blocks
    BY CbcFacts DEF EncipherOK
  <2>. QED
    BY <2>1, CbcFacts DEF Sealed, Blocks, L
<1>. QED
  BY <1>1, CbcInvariance, PTL

\* No other key and no other block size happens to decipher the header to a good
\* one.  This is for the cipher to see to.
NoFalseKey == pc = "check" /\ HeaderBlocks /\ checkHeader(Header, m) => SameKey

KeyKnown == pc \in {"read", "decrypt", "done"} => SameKey

LEMMA KeyStep ==
  ASSUME NoFalseKey, KeyKnown, [Next]_cbcVars
  PROVE  KeyKnown'
<1>1. UNCHANGED job
  BY DEF Next, cbcVars, encryptVars, decryptVars, EncryptHeader, CutChunk, encryptInPlace,
    cbc256Encrypt, cbc512Encrypt, cbc1024Encrypt, CbcEncrypt, SaveChain, Reopen,
    HeaderGood, HeaderBad, ReadChunk, decryptInPlace, cbc256Decrypt, cbc512Decrypt,
    cbc1024Decrypt, CbcDecrypt, WriteChunk, AllRead, Finished
<1>2. SameKey' <=> SameKey
  BY <1>1, SameJob
<1>3. pc' \in {"read", "decrypt", "done"} => HeaderGood \/ pc \in {"read", "decrypt", "done"}
  BY DEF Next, cbcVars, Goto, EncryptHeader, CutChunk, encryptInPlace,
    cbc256Encrypt, cbc512Encrypt, cbc1024Encrypt, CbcEncrypt, SaveChain, Reopen,
    HeaderBad, ReadChunk, decryptInPlace, cbc256Decrypt, cbc512Decrypt,
    cbc1024Decrypt, CbcDecrypt, WriteChunk, AllRead, Finished
<1>4. HeaderGood => SameKey
  BY DEF HeaderGood, Goto, NoFalseKey
<1>. QED
  BY <1>2, <1>3, <1>4 DEF KeyKnown

LEMMA KeyInvariance ==
  Spec /\ []NoFalseKey => []KeyKnown
<1>1. Init => KeyKnown
  BY DEF Init, KeyKnown
<1>2. NoFalseKey /\ KeyKnown /\ [Next]_cbcVars => KeyKnown'
  BY KeyStep
<1>. QED
  BY <1>1, <1>2, PTL DEF Spec

\* checkHeader never refuses the key and the block size of the encryption, and
\* nothing is ever deciphered with others.
THEOREM Tells ==
  ASSUME Invertible
  PROVE  Spec /\ []NoFalseKey => []HeaderTells
<1>1. CbcInv /\ KeyKnown => HeaderTells
  <2>. SUFFICES ASSUME CbcInv, KeyKnown PROVE HeaderTells
    OBVIOUS
  <2>1. SameKey <=> <<job.otherKey, m>> = <<job.key, n>>
    BY DEF SameKey
  <2>2. pc = "refused" => ~SameKey
    BY CbcFacts DEF DecipherOK
  <2>. QED
    BY <2>1, <2>2 DEF HeaderTells, KeyKnown
<1>. QED
  BY <1>1, CbcInvariance, KeyInvariance, PTL

\* Chunks in memory are whole blocks and never longer than MAX_CHUNK_SIZE.
THEOREM Types ==
  ASSUME Invertible
  PROVE  Spec /\ []NoFalseKey => []TypeOK
<1>1. CbcInv /\ KeyKnown => TypeOK
  <2>. SUFFICES ASSUME CbcInv, KeyKnown PROVE TypeOK
    OBVIOUS
  <2>. DEFINE size == IF pc = "encrypt" THEN n ELSE m
  <2>1. /\ job \in Jobs
        /\ pc \in {"header", "cut", "encrypt", "check", "read", "decrypt", "done", "refused"}
        /\ buf # <<>> => pc \in {"encrypt", "decrypt"}
        /\ MaxChunk \in Nat /\ n \in Nat /\ m \in Nat
    BY CbcFacts, JobFacts, CbcAssumption DEF TypesKept
  <2>2. /\ \A k \in 1 .. Len(buf) : buf[k] \in [1 .. size -> TextWord]
        /\ Len(buf) * size <= MaxChunk
        /\ block \in 1 .. Len(buf) + 1
    <3>1. CASE pc = "encrypt"
      <4>1. /\ buf \in Seq(Block(n)) /\ Len(buf) * n <= MaxChunk /\ block \in 1 .. Len(buf) + 1
        BY <3>1, CbcFacts DEF EncipherOK, InChunk
      <4>. QED
        BY <3>1, <4>1 DEF Block
    <3>2. CASE pc = "decrypt"
      <4>1. /\ buf \in Seq(Block(n)) /\ Len(buf) * n <= MaxChunk /\ block \in 1 .. Len(buf) + 1
            /\ m = n
        BY <3>2, CbcFacts DEF KeyKnown, SameKey, DecipherOK, OutChunk
      <4>. QED
        BY <3>2, <4>1 DEF Block
    <3>3. CASE pc \notin {"encrypt", "decrypt"}
      <4>1. buf = <<>> /\ block = 1 /\ Len(buf) = 0
        BY <3>3, CbcFacts, EmptySeq DEF TypesKept
      <4>. QED
        BY <2>1, <4>1
    <3>. QED
      BY <3>1, <3>2, <3>3
  <2>3. \A k \in 1 .. Len(cipherText) : cipherText[k] \in [1 .. n -> TextWord]
    BY CbcFacts DEF Block
  <2>4. /\ \A k \in 1 .. Len(output) : output[k] \in [1 .. m -> TextWord]
        /\ bytesWritten \in 0 .. Len(output) * m
    <3>1. CASE pc \in {"read", "decrypt", "done"}
      <4>1. /\ m = n /\ output \in Seq(Block(n)) /\ Opened = Len(output) /\ Opened \in Nat
            /\ bytesWritten = Least(Opened * n, L)
        BY <3>1, OpenedFacts DEF KeyKnown
      <4>2. L \in Nat /\ Opened * n \in Nat
        BY <2>1, <4>1, CbcFacts
      <4>3. bytesWritten \in 0 .. Opened * n
        <5>. DEFINE words == Opened * n
        <5>. HIDE DEF words
        <5>1. Least(words, L) \in 0 .. words
          BY <4>2 DEF words, Least
        <5>. QED
          BY <4>1, <5>1 DEF words
      <4>. QED
        BY <4>1, <4>3 DEF Block
    <3>2. CASE pc \notin {"read", "decrypt", "done"}
      <4>1. output = <<>> /\ bytesWritten = 0 /\ Len(output) = 0
        BY <3>2, CbcFacts, EmptySeq DEF TypesKept, Deciphering
      <4>. QED
        BY <2>1, <4>1
    <3>. QED
      BY <3>1, <3>2
  <2>. QED
    BY <2>1, <2>2, <2>3, <2>4 DEF TypeOK
<1>. QED
  BY <1>1, CbcInvariance, KeyInvariance, PTL

\* The words of the blocks of a text, in order, are the text.
LEMMA Unpadded ==
  ASSUME NEW text \in Seq(TextWord), NEW size \in Sizes, NEW w \in 1 .. Len(text)
  PROVE  LET q == (w - 1) \div size
             r == (w - 1) % size
         IN  /\ q + 1 \in 1 .. getNumBlocks(Len(text), size)
             /\ BlockOf(text, size, q + 1)[r + 1] = text[w]
<1>. DEFINE q == (w - 1) \div size
            r == (w - 1) % size
            blocks == getNumBlocks(Len(text), size)
<1>1. Len(text) \in Nat /\ w \in Nat /\ w <= Len(text) /\ w >= 1
  OBVIOUS
<1>2. blocks \in Nat /\ Len(text) <= blocks * size
  BY <1>1, BlocksFacts
<1>. HIDE DEF blocks
<1>3. q \in Nat /\ r \in 0 .. size - 1 /\ q * size + r = w - 1
  <2>1. CASE size = 4
    BY <1>1, <2>1
  <2>2. CASE size = 8
    BY <1>1, <2>2
  <2>3. CASE size = 16
    BY <1>1, <2>3
  <2>. QED
    BY <2>1, <2>2, <2>3, SizeFacts
<1>. HIDE DEF q, r
<1>4. q + 1 \in 1 .. blocks
  <2>1. CASE size = 4
    BY <1>1, <1>2, <1>3, <2>1
  <2>2. CASE size = 8
    BY <1>1, <1>2, <1>3, <2>2
  <2>3. CASE size = 16
    BY <1>1, <1>2, <1>3, <2>3
  <2>. QED
    BY <2>1, <2>2, <2>3, SizeFacts
<1>5. BlockOf(text, size, q + 1)[r + 1] = text[w]
  <2>1. r + 1 \in 1 .. size /\ ((q + 1) - 1) * size + (r + 1) = w
    <3>1. (q + 1) - 1 = q /\ size \in Nat
      BY <1>3, SizeFacts
    <3>. QED
      BY <1>1, <1>3, <3>1
  <2>. QED
    BY <1>1, <2>1 DEF BlockOf
<1>. QED
  BY <1>4, <1>5 DEF q, r, blocks

\* Decryption with the key of the encryption writes the file that was encrypted,
\* to the word, through every chunk, chain and block buffer it went.
THEOREM Restores ==
  ASSUME Invertible
  PROVE  Spec /\ []NoFalseKey => []RoundTrip
<1>1. CbcInv /\ KeyKnown => RoundTrip
  <2>. SUFFICES ASSUME CbcInv, KeyKnown, pc = "done" PROVE Written = job.text
    BY DEF RoundTrip
  <2>1. /\ m = n /\ n \in Sizes /\ Opened = Len(output)
        /\ \A k \in 1 .. Len(output) : output[k] = Plain(k)
        /\ bytesWritten = Least(Opened * n, L)
    BY OpenedFacts DEF KeyKnown
  <2>2. Opened = Blocks
    BY CbcFacts DEF KeyKnown, DecipherOK
  <2>3. job.text \in Seq(TextWord) /\ L \in Nat /\ Blocks \in Nat /\ L = Len(job.text)
        /\ Blocks = getNumBlocks(L, n)
    BY CbcFacts, JobFacts DEF L, Blocks
  <2>4. bytesWritten = L
    BY <2>1, <2>2, <2>3, ReadFacts
  <2>5. ASSUME NEW w \in 1 .. L
        PROVE  output[((w - 1) \div m) + 1][((w - 1) % m) + 1] = job.text[w]
    BY <2>1, <2>2, <2>3, Unpadded DEF Plain
  <2>6. Written = [w \in 1 .. L |-> job.text[w]]
    BY <2>4, <2>5 DEF Written
  <2>. QED
    BY <2>3, <2>6
<1>. QED
  BY <1>1, CbcInvariance, KeyInvariance, PTL

-----------------------------------------------------------------------------
(* With Threefish *)

T == INSTANCE ThreefishProofs

\* The cipher and the exclusive or of the program: blocks of 64-bit words, and
\* for every key and size a context that threefishSetKey made.
IsThreefish ==
  /\ TextWord = T!Word
  /\ \A size \in Sizes, k \in Keys :
       \E key \in T!Block(size), tweak \in T!Block(2) : \A x \in T!Block(size) :
         LET ctx == T!threefishSetKey(key, tweak)
         IN  /\ Cipher(k, x) = T!threefishEncryptBlockWords(ctx, x)
             /\ Decipher(k, x) = T!threefishDecryptBlockWords(ctx, x)
  /\ \A size \in Sizes : \A x, y \in T!Block(size) : BlockXor(x, y) = T!XorBlock(x, y)

LEMMA ThreefishInvertible ==
  ASSUME IsThreefish
  PROVE  Invertible
<1>1. SUFFICES ASSUME NEW size \in Sizes, NEW x \in Block(size)
               PROVE  /\ \A k \in Keys : /\ Cipher(k, x) \in Block(size)
                                         /\ Decipher(k, x) \in Block(size)
                                         /\ Decipher(k, Cipher(k, x)) = x
                      /\ \A y \in Block(size) : /\ BlockXor(x, y) \in Block(size)
                                                /\ BlockXor(BlockXor(x, y), y) = x
  BY DEF Invertible
<1>2. size \in {4, 8, 16} /\ size \in Nat
  BY CbcAssumption
<1>3. Block(size) = T!Block(size)
  BY DEF IsThreefish, Block, T!Block
<1>4. ASSUME NEW k \in Keys
      PROVE  /\ Cipher(k, x) \in Block(size) /\ Decipher(k, x) \in Block(size)
             /\ Decipher(k, Cipher(k, x)) = x
  <2>1. PICK key \in T!Block(size), tweak \in T!Block(2) : \A z \in T!Block(size) :
          LET ctx == T!threefishSetKey(key, tweak)
          IN  /\ Cipher(k, z) = T!threefishEncryptBlockWords(ctx, z)
              /\ Decipher(k, z) = T!threefishDecryptBlockWords(ctx, z)
    BY DEF IsThreefish
  <2>2. PICK ctx : ctx = T!threefishSetKey(key, tweak)
    OBVIOUS
  <2>3. /\ T!threefishEncryptBlockWords(ctx, x) \in T!Block(size)
        /\ T!threefishDecryptBlockWords(ctx, x) \in T!Block(size)
    BY <1>2, <1>3, <2>2, T!ThreefishKeeps
  <2>4. T!threefishDecryptBlockWords(ctx, T!threefishEncryptBlockWords(ctx, x)) = x
    BY <1>2, <1>3, <2>2, T!ThreefishInverts
  <2>5. QED
    BY <1>3, <2>1, <2>2, <2>3, <2>4
<1>5. ASSUME NEW y \in Block(size)
      PROVE  BlockXor(x, y) \in Block(size) /\ BlockXor(BlockXor(x, y), y) = x
  <2>1. T!XorBlock(x, y) \in T!Block(size) /\ T!XorBlock(T!XorBlock(x, y), y) = x
    BY <1>2, <1>3, T!XorBlockBlock, T!XorBlockTwice
  <2>2. QED
    BY <1>3, <2>1 DEF IsThreefish
<1>6. QED
  BY <1>4, <1>5

\* With Threefish, whatever the key, nothing is asked of the cipher any more:
\* what decryption writes is the file that was encrypted.
THEOREM ThreefishRestores ==
  ASSUME IsThreefish
  PROVE  Spec /\ []NoFalseKey => []RoundTrip
BY ThreefishInvertible, Restores
===============================================================================
