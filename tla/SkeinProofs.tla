------------------------------ MODULE SkeinProofs ------------------------------
(***************************************************************************)
(* What the operators of Skein do, for every key and every message, with   *)
(* any cipher that makes blocks of blocks (CipherKeeps).  A context in the *)
(* middle of a message is described by Absorbed; initialising starts it,   *)
(* updating adds to it and finishing closes it, and the digest that results*)
(* is SkeinOf of the whole (MacStarts, MacFeeds, MacEnds).                 *)
(***************************************************************************)
EXTENDS Ubi, ThreefishProofs

-----------------------------------------------------------------------------
(* Blocks and bytes *)

Bytes8(n) == [1 .. 8 * n -> Byte]

LEMMA LenOfFunction ==
  ASSUME NEW S, NEW n \in Nat, NEW s \in [1 .. n -> S]
  PROVE  s \in Seq(S) /\ Len(s) = n
OBVIOUS

LEMMA ToWordsBlock ==
  ASSUME NEW n \in Nat, NEW bytes \in Bytes8(n)
  PROVE  ToWords(bytes) \in Block(n)
<1>1. Len(bytes) \div 8 = n
  BY LenOfFunction DEF Bytes8
<1>2. ASSUME NEW w \in 1 .. n, NEW d \in 1 .. 4
      PROVE  LET k == 8 * (w - 1) + 2 * d IN bytes[k - 1] + 256 * bytes[k] \in Digit
  <2> DEFINE k == 8 * (w - 1) + 2 * d
  <2>1. k \in 1 .. 8 * n /\ k - 1 \in 1 .. 8 * n
    OBVIOUS
  <2>2. bytes[k] \in Byte /\ bytes[k - 1] \in Byte
    BY <2>1 DEF Bytes8
  <2>3. \A x, y \in Byte : x + 256 * y \in Nat /\ x + 256 * y < 65536
    BY ByteFacts, SMT
  <2> HIDE DEF k
  <2>4. bytes[k - 1] + 256 * bytes[k] \in Digit
    BY <2>2, <2>3, DigitFacts, SMT DEF Base
  <2>5. QED
    BY <2>4 DEF k
<1>3. QED
  BY <1>1, <1>2 DEF ToWords, Block, Word

LEMMA ToBytesBytes ==
  ASSUME NEW n \in Nat, NEW words \in Block(n)
  PROVE  ToBytes(words) \in Bytes8(n)
<1>1. Len(words) = n
  BY LenOfFunction DEF Block
<1>2. ASSUME NEW k \in 1 .. 8 * n
      PROVE  LET digit == words[((k - 1) \div 8) + 1][(((k - 1) % 8) \div 2) + 1]
             IN  (IF k % 2 = 1 THEN digit % 256 ELSE digit \div 256) \in Byte
  <2> DEFINE w == ((k - 1) \div 8) + 1
             d == (((k - 1) % 8) \div 2) + 1
  <2>1. w \in 1 .. n /\ d \in 1 .. 4
    OBVIOUS
  <2>2. words[w][d] \in Digit
    BY <2>1, DigitOfWord DEF Block
  <2> HIDE DEF w, d
  <2>3. words[w][d] % 256 \in Byte /\ words[w][d] \div 256 \in Byte
    BY <2>2, BytesOfDigit
  <2>4. QED
    BY <2>3 DEF w, d
<1>3. QED
  BY <1>1, <1>2 DEF ToBytes, Bytes8

LEMMA OverwriteBytes ==
  ASSUME NEW n \in Nat, NEW bytes \in Bytes8(n), NEW at \in Int, NEW piece \in Seq(Byte)
  PROVE  Overwrite(bytes, at, piece) \in Bytes8(n)
BY DEF Overwrite, Bytes8

LEMMA OverwriteAt ==
  ASSUME NEW n \in Nat, NEW bytes \in Bytes8(n), NEW at \in Int, NEW piece \in Seq(Byte),
         NEW k \in 1 .. 8 * n
  PROVE  Overwrite(bytes, at, piece)[k] =
           IF k - at \in 1 .. Len(piece) THEN piece[k - at] ELSE bytes[k]
BY DEF Overwrite, Bytes8

-----------------------------------------------------------------------------
(* Contexts *)

\* A context for blocks of n words.
Ctx(n) ==
  [size : {n}, hashBitLen : Nat, T0 : Word, type : 0 .. 63, first : BOOLEAN, final : BOOLEAN,
   bCnt : 0 .. 8 * n, X : Block(n), b : Bytes8(n), XSave : Block(n)]

\* Threefish makes blocks of blocks.
CipherKeeps(n) ==
  \A k, x \in Block(n), tweak \in Block(2) : TweakedCipher(n, k, tweak, x) \in Block(n)

\* The cipher of the program.
IsThreefish(n) ==
  \A key, x \in Block(n), tweak \in Block(2) :
    TweakedCipher(n, key, tweak, x) = threefishEncryptBlockWords(threefishSetKey(key, tweak), x)

LEMMA ThreefishCipherKeeps ==
  ASSUME NEW n \in {4, 8, 16}, IsThreefish(n)
  PROVE  CipherKeeps(n)
BY ThreefishKeeps DEF IsThreefish, CipherKeeps

LEMMA T1Word ==
  ASSUME NEW type \in 0 .. 63, NEW first \in BOOLEAN, NEW final \in BOOLEAN
  PROVE  T1(type, first, final) \in Word
<1> DEFINE d == (IF final THEN 32768 ELSE 0) + (IF first THEN 16384 ELSE 0) + 256 * type
<1>1. d \in Nat /\ d < 65536
  BY SMT
<1>2. d \in Digit /\ 0 \in Digit
  BY <1>1, DigitFacts, SMT DEF Base
<1>3. T1(type, first, final) = <<0, 0, 0, d>>
  BY DEF T1, Hex
<1> HIDE DEF d
<1>4. QED
  BY <1>2, <1>3, WordOfDigits

LEMMA TweakBlock ==
  ASSUME NEW x \in Word, NEW y \in Word
  PROVE  <<x, y>> \in Block(2)
BY DEF Block

LEMMA ProcessOneCtx ==
  ASSUME NEW n \in Nat, CipherKeeps(n), NEW c \in Ctx(n), NEW block \in Bytes8(n), NEW add \in Nat
  PROVE  LET d == ProcessOne(c, block, add)
             t0 == Add(c.T0, Small(add))
             w == ToWords(block)
         IN  /\ d \in Ctx(n)
             /\ d.T0 = t0 /\ ~d.first
             /\ d.X = XorBlock(TweakedCipher(n, c.X, <<t0, T1(c.type, c.first, c.final)>>, w), w)
             /\ d.hashBitLen = c.hashBitLen /\ d.type = c.type /\ d.final = c.final
             /\ d.bCnt = c.bCnt /\ d.b = c.b /\ d.XSave = c.XSave
<1> DEFINE t0 == Add(c.T0, Small(add))
           t1 == T1(c.type, c.first, c.final)
           w == ToWords(block)
           x == XorBlock(TweakedCipher(n, c.X, <<t0, t1>>, w), w)
<1>1. c.size = n /\ c.T0 \in Word /\ c.X \in Block(n)
      /\ c.type \in 0 .. 63 /\ c.first \in BOOLEAN /\ c.final \in BOOLEAN
  BY DEF Ctx
<1>2. t0 \in Word /\ t1 \in Word
  BY <1>1, AddWord, SmallWord, T1Word
<1>3. w \in Block(n)
  BY ToWordsBlock
<1>4. x \in Block(n)
  BY <1>1, <1>2, <1>3, TweakBlock, XorBlockBlock DEF CipherKeeps
<1>5. ProcessOne(c, block, add) = [c EXCEPT !.T0 = t0, !.first = FALSE, !.X = x]
  BY <1>1 DEF ProcessOne
<1> HIDE DEF t0, t1, w, x
<1>6. [c EXCEPT !.T0 = t0, !.first = FALSE, !.X = x] \in Ctx(n)
  BY <1>2, <1>4 DEF Ctx
<1>7. LET d == [c EXCEPT !.T0 = t0, !.first = FALSE, !.X = x] IN
      /\ d.T0 = t0 /\ ~d.first /\ d.X = x
      /\ d.hashBitLen = c.hashBitLen /\ d.type = c.type /\ d.final = c.final
      /\ d.bCnt = c.bCnt /\ d.b = c.b /\ d.XSave = c.XSave
  BY DEF Ctx
<1>8. QED
  BY <1>5, <1>6, <1>7 DEF t0, t1, w, x

-----------------------------------------------------------------------------
(* Several blocks *)

\* The recursion by which Skein_Process_Block is defined has a solution, and one only.
LEMMA ProcessBlocks ==
  ASSUME NEW c, NEW p, NEW add, NEW j \in Nat
  PROVE  /\ Skein_Process_Block(c, p, 0, add) = c
         /\ Skein_Process_Block(c, p, j + 1, add) =
              ProcessOne(Skein_Process_Block(c, p, j, add),
                         SubSeq(p, j * BlockBytes(c) + 1, (j + 1) * BlockBytes(c)), add)
<1> DEFINE block(i) == SubSeq(p, (i - 1) * BlockBytes(c) + 1, i * BlockBytes(c))
           Step(v, i) == ProcessOne(v, block(i), add)
           Is(g, m) == g = [i \in 0 .. m |-> IF i = 0 THEN c ELSE Step(g[i - 1], i)]
           F(m) == CHOOSE g : Is(g, m)
           S == {m \in Nat : \E g : Is(g, m)}
           U == {i \in Nat : \A m \in Nat : i <= m => F(i)[i] = F(m)[i]}
<1>1. \A m \in Nat : Skein_Process_Block(c, p, m, add) = F(m)[m]
  BY DEF Skein_Process_Block
<1>2. \A v : Step(v, j + 1) =
        ProcessOne(v, SubSeq(p, j * BlockBytes(c) + 1, (j + 1) * BlockBytes(c)), add)
  <2>1. (j + 1) - 1 = j
    OBVIOUS
  <2>2. QED
    BY <2>1
<1> HIDE DEF Step
<1>3. 0 \in S
  <2>1. Is([i \in 0 .. 0 |-> c], 0)
    OBVIOUS
  <2>2. QED
    BY <2>1
<1>4. ASSUME NEW m \in Nat, m \in S PROVE m + 1 \in S
  <2>1. PICK g : Is(g, m)
    BY <1>4
  <2> DEFINE h == [i \in 0 .. m + 1 |-> IF i = m + 1 THEN Step(g[m], m + 1) ELSE g[i]]
  <2>2. ASSUME NEW i \in 0 .. m + 1
        PROVE  h[i] = IF i = 0 THEN c ELSE Step(h[i - 1], i)
    <3>1. CASE i = m + 1
      BY <3>1
    <3>2. CASE i \in 0 .. m
      <4>1. h[i] = g[i] /\ (i # 0 => h[i - 1] = g[i - 1])
        BY <3>2
      <4>2. g[i] = IF i = 0 THEN c ELSE Step(g[i - 1], i)
        BY <3>2, <2>1
      <4> HIDE DEF h
      <4>3. QED
        BY <4>1, <4>2
    <3>3. QED
      BY <3>1, <3>2
  <2>3. Is(h, m + 1)
    BY <2>2
  <2> HIDE DEF h
  <2>4. QED
    BY <2>3
<1> HIDE DEF S
<1>5. \A m \in Nat : m \in S
  BY <1>3, <1>4, NatInd
<1>6. \A m \in Nat : Is(F(m), m)
  BY <1>5 DEF S
<1> HIDE DEF F
<1>7. 0 \in U
  BY <1>6
<1>8. ASSUME NEW i \in Nat, i \in U PROVE i + 1 \in U
  <2>1. SUFFICES ASSUME NEW m \in Nat, i + 1 <= m PROVE F(i + 1)[i + 1] = F(m)[i + 1]
    OBVIOUS
  <2>2. F(i)[i] = F(m)[i] /\ F(i)[i] = F(i + 1)[i]
    BY <1>8, <2>1
  <2>3. F(m)[i + 1] = Step(F(m)[i], i + 1) /\ F(i + 1)[i + 1] = Step(F(i + 1)[i], i + 1)
    BY <1>6, <2>1
  <2>4. QED
    BY <2>2, <2>3
<1> HIDE DEF U
<1>9. \A i \in Nat : i \in U
  BY <1>7, <1>8, NatInd
<1>10. F(j + 1)[j + 1] = Step(F(j)[j], j + 1)
  <2>1. F(j)[j] = F(j + 1)[j]
    BY <1>9 DEF U
  <2>2. F(j + 1)[j + 1] = Step(F(j + 1)[j], j + 1)
    BY <1>6
  <2>3. QED
    BY <2>1, <2>2
<1>11. F(0)[0] = c
  BY <1>6
<1>12. QED
  BY <1>1, <1>2, <1>10, <1>11

\* Block j + 1 of a message.
LEMMA BlockOf ==
  ASSUME NEW n \in Nat, NEW p \in Seq(Byte), NEW j \in Nat, (j + 1) * (8 * n) <= Len(p)
  PROVE  LET block == SubSeq(p, j * (8 * n) + 1, (j + 1) * (8 * n)) IN
         /\ block \in Bytes8(n)
         /\ \A k \in 1 .. 8 * n : block[k] = p[j * (8 * n) + k]
<1>1. PICK s \in Nat : s = 8 * n
  OBVIOUS
<1>2. PICK f \in Nat : f = j * s
  OBVIOUS
<1>3. (j + 1) * s = f + s /\ f + s <= Len(p)
  BY <1>1, <1>2
<1>4. \A i \in f + 1 .. f + s : p[i] \in Byte
  BY <1>3
<1>5. /\ SubSeq(p, f + 1, f + s) \in Seq(Byte)
      /\ Len(SubSeq(p, f + 1, f + s)) = s
      /\ \A i \in 1 .. s : SubSeq(p, f + 1, f + s)[i] = p[f + i]
  <2>1. f + 1 \in Int /\ f + s \in Int /\ (f + s) - (f + 1) + 1 = s /\ (s = 0 <=> f + s < f + 1)
    OBVIOUS
  <2>2. /\ SubSeq(p, f + 1, f + s) \in Seq(Byte)
        /\ Len(SubSeq(p, f + 1, f + s)) = IF f + 1 <= f + s THEN (f + s) - (f + 1) + 1 ELSE 0
        /\ \A i \in 1 .. (f + s) - (f + 1) + 1 : SubSeq(p, f + 1, f + s)[i] = p[(f + 1) + i - 1]
    BY <1>4, <2>1, SubSeqProperties
  <2>3. \A i \in 1 .. s : (f + 1) + i - 1 = f + i
    OBVIOUS
  <2>4. QED
    BY <2>1, <2>2, <2>3
<1>6. SubSeq(p, f + 1, f + s) \in [1 .. s -> Byte]
  BY <1>5, LenProperties
<1>7. QED
  BY <1>1, <1>2, <1>3, <1>5, <1>6 DEF Bytes8

LEMMA ProcessBufferIsOne ==
  ASSUME NEW n \in Nat, NEW c \in Ctx(n), NEW add \in Nat
  PROVE  ProcessBuffer(c, add) = ProcessOne(c, c.b, add)
<1>1. BlockBytes(c) = 8 * n /\ c.b \in [1 .. 8 * n -> Byte]
  BY DEF Ctx, Bytes8, BlockBytes
<1>2. c.b \in Seq(Byte) /\ Len(c.b) = 8 * n
  BY <1>1, LenOfFunction
<1>3. SubSeq(c.b, 1, 8 * n) = c.b
  BY <1>2, SubSeqFull
<1>4. /\ Skein_Process_Block(c, c.b, 0 + 1, add) =
           ProcessOne(Skein_Process_Block(c, c.b, 0, add),
                      SubSeq(c.b, 0 * BlockBytes(c) + 1, (0 + 1) * BlockBytes(c)), add)
      /\ Skein_Process_Block(c, c.b, 0, add) = c
  BY ProcessBlocks
<1>5. 0 + 1 = 1 /\ 0 * BlockBytes(c) + 1 = 1 /\ (0 + 1) * BlockBytes(c) = 8 * n
  BY <1>1
<1>6. QED
  BY <1>3, <1>4, <1>5 DEF ProcessBuffer

-----------------------------------------------------------------------------
(* Unique block iteration *)

\* The recursion by which Chain is defined has a solution, and one only.
LEMMA ChainBlocks ==
  ASSUME NEW s, NEW m, NEW t, NEW last, NEW j \in Nat
  PROVE  /\ Chain(s, m, t, 0, last) = s
         /\ Chain(s, m, t, j + 1, last) =
              ChainBlock(Chain(s, m, t, j, last), m, t, j + 1, last)
<1> DEFINE Step(v, i) == ChainBlock(v, m, t, i, last)
           Is(g, k) == g = [i \in 0 .. k |-> IF i = 0 THEN s ELSE Step(g[i - 1], i)]
           F(k) == CHOOSE g : Is(g, k)
           S == {k \in Nat : \E g : Is(g, k)}
           U == {i \in Nat : \A k \in Nat : i <= k => F(i)[i] = F(k)[i]}
<1>1. \A k \in Nat : Chain(s, m, t, k, last) = F(k)[k]
  BY DEF Chain
<1>2. \A v : Step(v, j + 1) = ChainBlock(v, m, t, j + 1, last)
  OBVIOUS
<1> HIDE DEF Step
<1>3. 0 \in S
  <2>1. Is([i \in 0 .. 0 |-> s], 0)
    OBVIOUS
  <2>2. QED
    BY <2>1
<1>4. ASSUME NEW k \in Nat, k \in S PROVE k + 1 \in S
  <2>1. PICK g : Is(g, k)
    BY <1>4
  <2> DEFINE h == [i \in 0 .. k + 1 |-> IF i = k + 1 THEN Step(g[k], k + 1) ELSE g[i]]
  <2>2. ASSUME NEW i \in 0 .. k + 1
        PROVE  h[i] = IF i = 0 THEN s ELSE Step(h[i - 1], i)
    <3>1. CASE i = k + 1
      BY <3>1
    <3>2. CASE i \in 0 .. k
      <4>1. h[i] = g[i] /\ (i # 0 => h[i - 1] = g[i - 1])
        BY <3>2
      <4>2. g[i] = IF i = 0 THEN s ELSE Step(g[i - 1], i)
        BY <3>2, <2>1
      <4> HIDE DEF h
      <4>3. QED
        BY <4>1, <4>2
    <3>3. QED
      BY <3>1, <3>2
  <2>3. Is(h, k + 1)
    BY <2>2
  <2> HIDE DEF h
  <2>4. QED
    BY <2>3
<1> HIDE DEF S
<1>5. \A k \in Nat : k \in S
  BY <1>3, <1>4, NatInd
<1>6. \A k \in Nat : Is(F(k), k)
  BY <1>5 DEF S
<1> HIDE DEF F
<1>7. 0 \in U
  BY <1>6
<1>8. ASSUME NEW i \in Nat, i \in U PROVE i + 1 \in U
  <2>1. SUFFICES ASSUME NEW k \in Nat, i + 1 <= k PROVE F(i + 1)[i + 1] = F(k)[i + 1]
    OBVIOUS
  <2>2. F(i)[i] = F(k)[i] /\ F(i)[i] = F(i + 1)[i]
    BY <1>8, <2>1
  <2>3. F(k)[i + 1] = Step(F(k)[i], i + 1) /\ F(i + 1)[i + 1] = Step(F(i + 1)[i], i + 1)
    BY <1>6, <2>1
  <2>4. QED
    BY <2>2, <2>3
<1> HIDE DEF U
<1>9. \A i \in Nat : i \in U
  BY <1>7, <1>8, NatInd
<1>10. F(j + 1)[j + 1] = Step(F(j)[j], j + 1)
  <2>1. F(j)[j] = F(j + 1)[j]
    BY <1>9 DEF U
  <2>2. F(j + 1)[j + 1] = Step(F(j + 1)[j], j + 1)
    BY <1>6
  <2>3. QED
    BY <2>1, <2>2
<1>11. F(0)[0] = s
  BY <1>6
<1>12. QED
  BY <1>1, <1>2, <1>10, <1>11

LEMMA PaddedBlockBytes ==
  ASSUME NEW n \in Nat, NEW m \in Seq(Byte), NEW i \in Nat \ {0}
  PROVE  PaddedBlock(m, n, i) \in Bytes8(n)
<1>1. 0 \in Byte
  BY ByteFacts
<1>2. ASSUME NEW k \in 1 .. 8 * n
      PROVE  LET at == 8 * n * (i - 1) + k IN (IF at <= Len(m) THEN m[at] ELSE 0) \in Byte
  <2>1. PICK f \in Nat : f = 8 * n * (i - 1)
    OBVIOUS
  <2>2. f + k \in Nat /\ f + k >= 1
    OBVIOUS
  <2>3. QED
    BY <1>1, <2>1, <2>2
<1>3. QED
  BY <1>2 DEF PaddedBlock, Bytes8

LEMMA ChainBlockBlock ==
  ASSUME NEW n \in Nat, CipherKeeps(n), NEW v \in Block(n), NEW m \in Seq(Byte), NEW t \in 0 .. 63,
         NEW i \in Nat \ {0}, NEW last \in Int
  PROVE  ChainBlock(v, m, t, i, last) \in Block(n)
<1> DEFINE position == IF 8 * n * i <= Len(m) THEN 8 * n * i ELSE Len(m)
           w == ToWords(PaddedBlock(m, n, i))
           t0 == Small(position)
           t1 == T1(t, i = 1, i = last)
<1>1. Len(v) = n
  BY LenOfFunction DEF Block
<1>2. position \in Nat
  OBVIOUS
<1>3. t0 \in Word /\ t1 \in Word
  BY <1>2, SmallWord, T1Word
<1>4. w \in Block(n)
  BY PaddedBlockBytes, ToWordsBlock
<1>5. ChainBlock(v, m, t, i, last) = XorBlock(TweakedCipher(n, v, <<t0, t1>>, w), w)
  BY <1>1 DEF ChainBlock
<1> HIDE DEF t0, t1, w
<1>6. QED
  BY <1>3, <1>4, <1>5, TweakBlock, XorBlockBlock DEF CipherKeeps

LEMMA ChainIsBlock ==
  ASSUME NEW n \in Nat, CipherKeeps(n), NEW s \in Block(n), NEW m \in Seq(Byte), NEW t \in 0 .. 63,
         NEW last \in Int
  PROVE  \A j \in Nat : Chain(s, m, t, j, last) \in Block(n)
<1>0. \A j \in Nat : Chain(s, m, t, j + 1, last) =
                      ChainBlock(Chain(s, m, t, j, last), m, t, j + 1, last)
  BY ChainBlocks
<1> DEFINE S == {j \in Nat : Chain(s, m, t, j, last) \in Block(n)}
<1>1. 0 \in S
  BY ChainBlocks
<1>2. ASSUME NEW j \in Nat, j \in S PROVE j + 1 \in S
  <2>1. Chain(s, m, t, j + 1, last) = ChainBlock(Chain(s, m, t, j, last), m, t, j + 1, last)
    BY <1>0
  <2>2. ASSUME NEW v \in Block(n) PROVE ChainBlock(v, m, t, j + 1, last) \in Block(n)
    <3>1. j + 1 \in Nat \ {0}
      OBVIOUS
    <3>2. QED
      BY <3>1, ChainBlockBlock, Zenon
  <2>3. QED
    BY <1>2, <2>1, <2>2
<1>3. \A j \in Nat : j \in S
  <2> HIDE DEF S
  <2>1. QED
    BY <1>1, <1>2, NatInd
<1>4. QED
  BY <1>3

\* The first q blocks of n words are the same.
SameBlocks(m, mm, n, q) ==
  /\ q * (8 * n) <= Len(m) /\ q * (8 * n) <= Len(mm)
  /\ \A k \in 1 .. q * (8 * n) : m[k] = mm[k]

SameChain(s, t, m, mm, q, last, llast) == Chain(s, m, t, q, last) = Chain(s, mm, t, q, llast)

\* Whole blocks of a message are chained alike whatever comes after them.
LEMMA ChainOfPrefix ==
  ASSUME NEW n \in Nat, CipherKeeps(n), NEW s \in Block(n), NEW t \in 0 .. 63,
         NEW m \in Seq(Byte), NEW mm \in Seq(Byte),
         NEW q \in Nat, SameBlocks(m, mm, n, q),
         NEW last \in Int, NEW llast \in Int, last \notin 1 .. q, llast \notin 1 .. q
  PROVE  SameChain(s, t, m, mm, q, last, llast)
<1>0. \A j \in Nat :
        /\ Chain(s, m, t, j + 1, last) = ChainBlock(Chain(s, m, t, j, last), m, t, j + 1, last)
        /\ Chain(s, mm, t, j + 1, llast) = ChainBlock(Chain(s, mm, t, j, llast), mm, t, j + 1, llast)
  BY ChainBlocks
<1> DEFINE S == {j \in Nat : j <= q => Chain(s, m, t, j, last) = Chain(s, mm, t, j, llast)}
<1>1. 0 \in S
  BY ChainBlocks
<1>2. ASSUME NEW j \in Nat, j \in S PROVE j + 1 \in S
  <2>1. SUFFICES ASSUME j + 1 <= q
                 PROVE  Chain(s, m, t, j + 1, last) = Chain(s, mm, t, j + 1, llast)
    OBVIOUS
  <2>2. PICK v : v = Chain(s, m, t, j, last)
    OBVIOUS
  <2>3. v \in Block(n) /\ v = Chain(s, mm, t, j, llast)
    BY <1>2, <2>1, <2>2, ChainIsBlock
  <2>4. Len(v) = n
    BY <2>3, LenOfFunction DEF Block
  <2>5. PICK e \in Nat : e = 8 * n * (j + 1)
    OBVIOUS
  <2>6. e <= q * (8 * n)
    <3>1. PICK bs \in Nat : bs = 8 * n
      OBVIOUS
    <3>2. \A a, b \in Nat : a <= b => bs * a <= b * bs
      OBVIOUS
    <3>3. QED
      BY <2>1, <2>5, <3>1, <3>2
  <2>7. e <= Len(m) /\ e <= Len(mm)
    <3>1. q * (8 * n) \in Nat /\ Len(m) \in Nat /\ Len(mm) \in Nat
      OBVIOUS
    <3>2. QED
      BY <2>6, <3>1 DEF SameBlocks
  <2>8. PaddedBlock(m, n, j + 1) = PaddedBlock(mm, n, j + 1)
    <3>1. 8 * n * ((j + 1) - 1) + 8 * n = e
      BY <2>5
    <3>2. PICK f \in Nat : f = 8 * n * ((j + 1) - 1)
      OBVIOUS
    <3>3. \A k \in 1 .. 8 * n : f + k \in Nat /\ f + k >= 1 /\ f + k <= e
      BY <3>1, <3>2
    <3>4. ASSUME NEW k \in 1 .. 8 * n PROVE m[f + k] = mm[f + k] /\ f + k <= Len(m) /\ f + k <= Len(mm)
      <4>1. q * (8 * n) \in Nat /\ Len(m) \in Nat /\ Len(mm) \in Nat
        OBVIOUS
      <4>2. f + k \in 1 .. q * (8 * n)
        <5>1. PICK w \in Nat : w = q * (8 * n)
          BY <4>1
        <5>2. f + k \in Nat /\ f + k >= 1 /\ f + k <= e /\ e <= w
          BY <2>6, <3>3, <5>1
        <5>3. f + k \in 1 .. w
          BY <5>2
        <5>4. QED
          BY <5>1, <5>3
      <4>3. QED
        BY <2>7, <3>3, <4>1, <4>2 DEF SameBlocks
    <3>5. QED
      BY <3>2, <3>4 DEF PaddedBlock
  <2>9. (j + 1 = last) = FALSE /\ (j + 1 = llast) = FALSE
    BY <2>1
  <2>10. ChainBlock(v, m, t, j + 1, last) = ChainBlock(v, mm, t, j + 1, llast)
    BY <2>4, <2>5, <2>7, <2>8, <2>9 DEF ChainBlock
  <2>11. /\ Chain(s, m, t, j + 1, last) = ChainBlock(Chain(s, m, t, j, last), m, t, j + 1, last)
         /\ Chain(s, mm, t, j + 1, llast) = ChainBlock(Chain(s, mm, t, j, llast), mm, t, j + 1, llast)
    BY <1>0
  <2>12. QED
    BY <2>2, <2>3, <2>10, <2>11
<1>3. \A j \in Nat : j \in S
  <2> HIDE DEF S
  <2>1. QED
    BY <1>1, <1>2, NatInd
<1>4. QED
  BY <1>3 DEF SameChain

\* A context that has processed the first q blocks of m, as blocks of type t on
\* top of s, and none of them as the last.
Chained(c, n, s, m, t, q) ==
  /\ c \in Ctx(n) /\ c.type = t /\ ~c.final
  /\ q * (8 * n) <= Len(m)
  /\ c.T0 = Small(q * (8 * n))
  /\ c.first <=> q = 0
  /\ c.X = Chain(s, m, t, q, -1)

\* What processing a block leaves alone.
SameBuffer(c, d) ==
  d.hashBitLen = c.hashBitLen /\ d.bCnt = c.bCnt /\ d.b = c.b /\ d.XSave = c.XSave

\* The next block of the message goes into the chain.
LEMMA ChainedOne ==
  ASSUME NEW n \in Nat, CipherKeeps(n), NEW s \in Block(n), NEW m \in Seq(Byte), NEW t \in 0 .. 63,
         NEW q \in Nat, NEW c, Chained(c, n, s, m, t, q),
         NEW block \in Bytes8(n), (q + 1) * (8 * n) <= Len(m),
         \A k \in 1 .. 8 * n : block[k] = m[q * (8 * n) + k]
  PROVE  /\ Chained(ProcessOne(c, block, 8 * n), n, s, m, t, q + 1)
         /\ SameBuffer(c, ProcessOne(c, block, 8 * n))
<1> DEFINE d == ProcessOne(c, block, 8 * n)
<1>1. c \in Ctx(n) /\ c.type = t /\ c.final = FALSE /\ c.size = n
  BY DEF Chained, Ctx
<1>2. PICK e \in Nat : e = q * (8 * n)
  BY SMTT(30)
<1>3. (q + 1) * (8 * n) = e + 8 * n /\ 8 * n * (q + 1) = e + 8 * n /\ 8 * n * ((q + 1) - 1) = e
  BY <1>2
<1>4. block = PaddedBlock(m, n, q + 1)
  <2>1. e + 8 * n <= Len(m) /\ Len(m) \in Nat
    BY <1>3
  <2>2. \A k \in 1 .. 8 * n : e + k <= Len(m)
    BY <2>1
  <2>3. PaddedBlock(m, n, q + 1) = [k \in 1 .. 8 * n |-> m[e + k]]
    BY <1>3, <2>2 DEF PaddedBlock
  <2>4. QED
    BY <1>2, <2>3 DEF Bytes8
<1>5. Add(c.T0, Small(8 * n)) = Small(e + 8 * n)
  <2>1. 8 * n \in Nat
    OBVIOUS
  <2>2. Add(Small(e), Small(8 * n)) = Small(e + 8 * n)
    BY <2>1, AddSmall
  <2>3. QED
    BY <1>2, <2>2 DEF Chained
<1>6. T1(c.type, c.first, c.final) = T1(t, q + 1 = 1, q + 1 = -1)
  <2>1. c.first <=> q + 1 = 1
    BY DEF Chained
  <2>2. q + 1 # -1
    OBVIOUS
  <2>3. QED
    BY <1>1, <2>1, <2>2 DEF T1
<1>7. PICK v : v = Chain(s, m, t, q, -1)
  OBVIOUS
<1>8. v \in Block(n) /\ Len(v) = n /\ c.X = v
  <2>1. -1 \in Int
    OBVIOUS
  <2>2. v \in Block(n)
    BY <1>7, <2>1, ChainIsBlock
  <2>3. QED
    BY <1>7, <2>2, LenOfFunction DEF Block, Chained
<1>9. ChainBlock(v, m, t, q + 1, -1) =
        XorBlock(TweakedCipher(n, v, <<Small(e + 8 * n), T1(t, q + 1 = 1, q + 1 = -1)>>, ToWords(block)),
                 ToWords(block))
  <2>1. (IF 8 * n * (q + 1) <= Len(m) THEN 8 * n * (q + 1) ELSE Len(m)) = e + 8 * n
    BY <1>3
  <2>2. QED
    BY <1>4, <1>8, <2>1 DEF ChainBlock
<1>10. Chain(s, m, t, q + 1, -1) = ChainBlock(v, m, t, q + 1, -1)
  BY <1>7, ChainBlocks
<1>11. /\ d \in Ctx(n)
       /\ d.T0 = Add(c.T0, Small(8 * n)) /\ ~d.first
       /\ d.X = XorBlock(TweakedCipher(n, c.X, <<Add(c.T0, Small(8 * n)), T1(c.type, c.first, c.final)>>,
                                       ToWords(block)), ToWords(block))
       /\ d.type = c.type /\ d.final = c.final /\ SameBuffer(c, d)
  <2>1. 8 * n \in Nat
    OBVIOUS
  <2>2. QED
    BY <1>1, <2>1, ProcessOneCtx DEF SameBuffer
<1> HIDE DEF d
<1>12. d.X = Chain(s, m, t, q + 1, -1)
  BY <1>5, <1>6, <1>8, <1>9, <1>10, <1>11
<1>13. d.T0 = Small((q + 1) * (8 * n))
  BY <1>3, <1>5, <1>11
<1>14. Chained(d, n, s, m, t, q + 1)
  BY <1>1, <1>11, <1>12, <1>13 DEF Chained
<1>15. QED
  BY <1>11, <1>14 DEF d

\* The first len bytes of p are those of m after the first from.
Agrees(p, m, from, len) == \A k \in 1 .. len : p[k] = m[from + k]

\* And so do several.
LEMMA ChainedMany ==
  ASSUME NEW n \in Nat, CipherKeeps(n), NEW s \in Block(n), NEW m \in Seq(Byte), NEW t \in 0 .. 63,
         NEW q \in Nat, NEW c, Chained(c, n, s, m, t, q),
         NEW p \in Seq(Byte), NEW full \in Nat, full * (8 * n) <= Len(p),
         q * (8 * n) + full * (8 * n) <= Len(m), Agrees(p, m, q * (8 * n), full * (8 * n))
  PROVE  /\ Chained(Skein_Process_Block(c, p, full, 8 * n), n, s, m, t, q + full)
         /\ SameBuffer(c, Skein_Process_Block(c, p, full, 8 * n))
<1> DEFINE D(j) == Skein_Process_Block(c, p, j, 8 * n)
           P(j) == j <= full => Chained(D(j), n, s, m, t, q + j) /\ SameBuffer(c, D(j))
           S == {j \in Nat : P(j)}
<1>1. BlockBytes(c) = 8 * n
  BY DEF Chained, Ctx, BlockBytes
<1>2. D(0) = c
  <2>1. 0 \in Nat
    OBVIOUS
  <2>2. QED
    BY <2>1, ProcessBlocks
<1>3. ASSUME NEW j \in Nat
      PROVE  D(j + 1) = ProcessOne(D(j), SubSeq(p, j * (8 * n) + 1, (j + 1) * (8 * n)), 8 * n)
  <2>1. Skein_Process_Block(c, p, j + 1, 8 * n) =
          ProcessOne(Skein_Process_Block(c, p, j, 8 * n),
                     SubSeq(p, j * BlockBytes(c) + 1, (j + 1) * BlockBytes(c)), 8 * n)
    BY ProcessBlocks
  <2>2. QED
    BY <1>1, <2>1
<1> HIDE DEF D
<1>4. P(0)
  <2>1. q + 0 = q
    OBVIOUS
  <2>2. QED
    BY <1>2, <2>1 DEF SameBuffer
<1>5. ASSUME NEW j \in Nat, P(j) PROVE P(j + 1)
  <2>1. SUFFICES ASSUME j + 1 <= full
                 PROVE  Chained(D(j + 1), n, s, m, t, q + (j + 1)) /\ SameBuffer(c, D(j + 1))
    OBVIOUS
  <2>2. Chained(D(j), n, s, m, t, q + j) /\ SameBuffer(c, D(j))
    BY <1>5, <2>1
  <2>3. PICK block : block = SubSeq(p, j * (8 * n) + 1, (j + 1) * (8 * n))
    OBVIOUS
  <2>4. PICK bs \in Nat : bs = 8 * n
    OBVIOUS
  <2>5. PICK f \in Nat : f = j * bs
    OBVIOUS
  <2>6. PICK e \in Nat : e = q * bs
    OBVIOUS
  <2>7. PICK w \in Nat : w = full * bs
    OBVIOUS
  <2>8. f + bs <= w
    <3>1. \A a, b \in Nat : a <= b => a * bs <= b * bs
      OBVIOUS
    <3>2. (j + 1) * bs <= full * bs
      BY <2>1, <3>1
    <3>3. (j + 1) * bs = f + bs
      BY <2>5
    <3>4. QED
      BY <2>7, <3>2, <3>3
  <2>9. w <= Len(p) /\ e + w <= Len(m)
    BY <2>4, <2>6, <2>7
  <2>10. (j + 1) * bs <= Len(p)
    <3>1. (j + 1) * bs = f + bs /\ Len(p) \in Nat
      BY <2>5
    <3>2. QED
      BY <2>8, <2>9, <3>1
  <2>11. block \in Bytes8(n) /\ \A k \in 1 .. 8 * n : block[k] = p[f + k]
    BY <2>3, <2>4, <2>5, <2>10, BlockOf
  <2>12. (q + j) * bs = e + f /\ (q + j + 1) * bs = e + f + bs
    BY <2>5, <2>6
  <2>13. (q + j + 1) * bs <= Len(m)
    <3>1. Len(m) \in Nat
      OBVIOUS
    <3>2. QED
      BY <2>8, <2>9, <2>12, <3>1
  <2>14. \A k \in 1 .. 8 * n : block[k] = m[(q + j) * bs + k]
    <3>1. \A k \in 1 .. w : p[k] = m[e + k]
      BY <2>4, <2>6, <2>7 DEF Agrees
    <3>2. \A k \in 1 .. 8 * n : f + k \in 1 .. w /\ e + (f + k) = (e + f) + k
      BY <2>4, <2>8
    <3>3. ASSUME NEW k \in 1 .. 8 * n PROVE block[k] = m[(q + j) * bs + k]
      <4>1. block[k] = p[f + k]
        BY <2>11
      <4>2. p[f + k] = m[e + (f + k)] /\ e + (f + k) = (e + f) + k
        BY <3>1, <3>2
      <4>3. QED
        BY <2>12, <4>1, <4>2
    <3>4. QED
      BY <3>3
  <2>15. PICK r \in Nat : r = q + j
    OBVIOUS
  <2>16. PICK d : d = D(j)
    OBVIOUS
  <2>17. Chained(d, n, s, m, t, r) /\ (r + 1) * (8 * n) <= Len(m)
         /\ \A k \in 1 .. 8 * n : block[k] = m[r * (8 * n) + k]
    BY <2>2, <2>4, <2>13, <2>14, <2>15, <2>16
  <2>18. Chained(ProcessOne(d, block, 8 * n), n, s, m, t, r + 1)
         /\ SameBuffer(d, ProcessOne(d, block, 8 * n))
    <3> HIDE DEF P
    <3>1. block \in Bytes8(n)
      BY <2>11
    <3>2. QED
      BY <2>17, <3>1, ChainedOne, ZenonT(40)
  <2>19. D(j + 1) = ProcessOne(d, block, 8 * n) /\ q + (j + 1) = r + 1
    <3> HIDE DEF P
    <3>1. q + (j + 1) = r + 1
      BY <2>15
    <3>2. D(j + 1) = ProcessOne(D(j), block, 8 * n)
      BY <1>3, <2>3
    <3>3. QED
      BY <2>16, <3>1, <3>2
  <2>20. QED
    BY <2>2, <2>16, <2>18, <2>19 DEF SameBuffer
<1> HIDE DEF P
<1>6. 0 \in S /\ \A j \in Nat : j \in S => j + 1 \in S
  <2>1. ASSUME NEW j \in Nat, j \in S PROVE j + 1 \in S
    BY <1>5, <2>1
  <2>2. QED
    BY <1>4, <2>1
<1>7. \A j \in Nat : j \in S
  <2> HIDE DEF S
  <2>1. QED
    BY <1>6, NatInd
<1>8. P(full)
  BY <1>7
<1>9. QED
  BY <1>8 DEF P, D

\* And the buffer has the bytes that come next.
Taken(c, n, s, m, t, q) ==
  /\ Chained(c, n, s, m, t, q)
  /\ q * (8 * n) + c.bCnt <= Len(m)
  /\ \A k \in 1 .. c.bCnt : c.b[k] = m[q * (8 * n) + k]

SameSaved(c, d) == d.hashBitLen = c.hashBitLen /\ d.XSave = c.XSave

\* rest comes next in m, and the buffer has room for it.
IsForBuffer(c, n, q, rest, m) ==
  /\ c.bCnt + Len(rest) <= 8 * n
  /\ q * (8 * n) + c.bCnt + Len(rest) <= Len(m)
  /\ Agrees(rest, m, q * (8 * n) + c.bCnt, Len(rest))

LEMMA KeepTakes ==
  ASSUME NEW n \in Nat, NEW s \in Block(n), NEW m \in Seq(Byte), NEW t \in 0 .. 63,
         NEW q \in Nat, NEW c, Taken(c, n, s, m, t, q),
         NEW rest \in Seq(Byte), IsForBuffer(c, n, q, rest, m)
  PROVE  /\ Taken(Keep(c, rest), n, s, m, t, q)
         /\ Keep(c, rest).bCnt = c.bCnt + Len(rest)
         /\ SameSaved(c, Keep(c, rest))
<1> DEFINE b == Overwrite(c.b, c.bCnt, rest)
           d == Keep(c, rest)
<1>1. c \in Ctx(n) /\ c.bCnt \in 0 .. 8 * n /\ c.b \in Bytes8(n)
  BY DEF Taken, Chained, Ctx
<1>2. /\ b \in Bytes8(n)
      /\ \A k \in 1 .. 8 * n : b[k] = IF k - c.bCnt \in 1 .. Len(rest) THEN rest[k - c.bCnt] ELSE c.b[k]
  <2>1. PICK at \in Int : at = c.bCnt
    BY <1>1
  <2>2. PICK bytes \in Bytes8(n) : bytes = c.b
    BY <1>1
  <2>3. Overwrite(bytes, at, rest) \in Bytes8(n)
    BY OverwriteBytes
  <2>4. ASSUME NEW k \in 1 .. 8 * n
        PROVE  Overwrite(bytes, at, rest)[k] =
                 IF k - at \in 1 .. Len(rest) THEN rest[k - at] ELSE bytes[k]
    BY OverwriteAt
  <2>5. QED
    BY <2>1, <2>2, <2>3, <2>4
<1>3. c.bCnt + Len(rest) \in 0 .. 8 * n
  BY <1>1 DEF IsForBuffer
<1>4. d = [c EXCEPT !.b = b, !.bCnt = c.bCnt + Len(rest)]
  BY DEF Keep
<1> HIDE DEF b, d
<1>5. d \in Ctx(n) /\ d.b = b /\ d.bCnt = c.bCnt + Len(rest)
  BY <1>1, <1>2, <1>3, <1>4 DEF Ctx
<1>6. /\ d.type = c.type /\ d.final = c.final /\ d.T0 = c.T0 /\ d.first = c.first /\ d.X = c.X
      /\ SameSaved(c, d)
  BY <1>1, <1>4 DEF Ctx, SameSaved
<1>7. Chained(d, n, s, m, t, q)
  BY <1>5, <1>6 DEF Taken, Chained
<1>8. ASSUME NEW k \in 1 .. d.bCnt PROVE d.b[k] = m[q * (8 * n) + k]
  <2>1. k \in 1 .. c.bCnt + Len(rest) /\ k \in 1 .. 8 * n
    BY <1>1, <1>3, <1>5
  <2>2. CASE k <= c.bCnt
    <3>1. k \in 1 .. c.bCnt /\ k - c.bCnt \notin 1 .. Len(rest)
      BY <1>1, <2>1, <2>2
    <3>2. d.b[k] = c.b[k]
      BY <1>2, <1>5, <2>1, <3>1
    <3>3. QED
      BY <3>1, <3>2 DEF Taken
  <2>3. CASE k > c.bCnt
    <3>1. k - c.bCnt \in 1 .. Len(rest)
      BY <1>1, <2>1, <2>3
    <3>2. d.b[k] = rest[k - c.bCnt]
      BY <1>2, <1>5, <2>1, <3>1
    <3>3. rest[k - c.bCnt] = m[q * (8 * n) + c.bCnt + (k - c.bCnt)]
      BY <3>1 DEF IsForBuffer, Agrees
    <3>4. q * (8 * n) + c.bCnt + (k - c.bCnt) = q * (8 * n) + k
      <4>1. q * (8 * n) \in Int /\ c.bCnt \in Int /\ k \in Int
        BY <1>1, <2>1
      <4>2. QED
        BY <4>1
    <3>5. QED
      BY <3>2, <3>3, <3>4
  <2>4. QED
    BY <1>1, <2>1, <2>2, <2>3
<1>9. q * (8 * n) + d.bCnt <= Len(m)
  <2>1. q * (8 * n) \in Int /\ c.bCnt \in Int /\ Len(rest) \in Int
    BY <1>1
  <2>2. q * (8 * n) + c.bCnt + Len(rest) <= Len(m)
    BY DEF IsForBuffer
  <2>3. QED
    BY <1>5, <2>1, <2>2
<1>10. QED
  BY <1>5, <1>6, <1>7, <1>8, <1>9 DEF Taken, d

LEMMA PieceBytes ==
  ASSUME NEW p \in Seq(Byte), NEW f \in Nat, NEW e \in Nat, f <= e, e <= Len(p)
  PROVE  SubSeq(p, f + 1, e) \in Seq(Byte) /\ Len(SubSeq(p, f + 1, e)) = e - f
<1>1. \A i \in f + 1 .. e : p[i] \in Byte
  OBVIOUS
<1>2. f + 1 \in Int /\ e \in Int /\ e - (f + 1) + 1 = e - f /\ (f + 1 <= e <=> f # e)
  OBVIOUS
<1>3. /\ SubSeq(p, f + 1, e) \in Seq(Byte)
      /\ Len(SubSeq(p, f + 1, e)) = IF f + 1 <= e THEN e - (f + 1) + 1 ELSE 0
  BY <1>1, <1>2, SubSeqProperties
<1>4. QED
  BY <1>2, <1>3

LEMMA PieceAt ==
  ASSUME NEW p \in Seq(Byte), NEW f \in Nat, NEW e \in Nat, f <= e, e <= Len(p),
         NEW k \in 1 .. e - f
  PROVE  SubSeq(p, f + 1, e)[k] = p[f + k]
<1>1. \A i \in f + 1 .. e : p[i] \in Byte
  OBVIOUS
<1>2. f + 1 \in Int /\ e \in Int /\ e - (f + 1) + 1 = e - f /\ (f + 1) + k - 1 = f + k
  OBVIOUS
<1>3. \A i \in 1 .. e - (f + 1) + 1 : SubSeq(p, f + 1, e)[i] = p[(f + 1) + i - 1]
  BY <1>1, <1>2, SubSeqProperties
<1>4. QED
  BY <1>2, <1>3

\* msg comes next in m, and the buffer has no room for it.
IsMoreThanBuffer(c, n, q, msg, m) ==
  /\ c.bCnt + Len(msg) > 8 * n
  /\ q * (8 * n) + c.bCnt + Len(msg) <= Len(m)
  /\ Agrees(msg, m, q * (8 * n) + c.bCnt, Len(msg))

\* The buffer, filled up from the message, is the next block.
LEMMA TopUpTakes ==
  ASSUME NEW n \in Nat, CipherKeeps(n), NEW s \in Block(n), NEW m \in Seq(Byte), NEW t \in 0 .. 63,
         NEW q \in Nat, NEW c, Taken(c, n, s, m, t, q),
         NEW msg \in Seq(Byte), IsMoreThanBuffer(c, n, q, msg, m)
  PROVE  /\ Taken(TopUp(c, msg), n, s, m, t, q + 1)
         /\ TopUp(c, msg).bCnt = 0
         /\ SameSaved(c, TopUp(c, msg))
<1>1. c \in Ctx(n) /\ c.bCnt \in 0 .. 8 * n /\ c.b \in Bytes8(n) /\ c.size = n
  BY DEF Taken, Chained, Ctx
<1>2. PICK bs \in Nat : bs = 8 * n
  OBVIOUS
<1>3. PICK e \in Nat : e = q * bs
  OBVIOUS
<1>4. PICK at \in Nat : at = c.bCnt /\ at <= bs
  BY <1>1, <1>2
<1>5. PICK a \in Nat : a = bs - at
  BY <1>4
<1>6. a <= Len(msg) /\ e + bs <= Len(m)
  <2>1. at + Len(msg) > bs /\ e + at + Len(msg) <= Len(m) /\ Len(msg) \in Nat /\ Len(m) \in Nat
    BY <1>2, <1>3, <1>4 DEF IsMoreThanBuffer
  <2>2. QED
    BY <1>5, <2>1
<1>7. PICK piece : piece = SubSeq(msg, 1, a)
  OBVIOUS
<1>8. piece \in Seq(Byte) /\ Len(piece) = a
  <2>1. 0 + 1 = 1 /\ a - 0 = a /\ 0 <= a /\ 0 \in Nat
    OBVIOUS
  <2>2. SubSeq(msg, 0 + 1, a) \in Seq(Byte) /\ Len(SubSeq(msg, 0 + 1, a)) = a - 0
    BY <1>6, <2>1, PieceBytes
  <2>3. QED
    BY <1>7, <2>1, <2>2
<1>9. ASSUME NEW k \in 1 .. a PROVE piece[k] = m[e + at + k]
  <2>1. 0 + 1 = 1 /\ a - 0 = a /\ 0 <= a /\ 0 \in Nat /\ k \in 1 .. a - 0 /\ 0 + k = k
    OBVIOUS
  <2>2. SubSeq(msg, 0 + 1, a)[k] = msg[0 + k]
    BY <1>6, <2>1, PieceAt
  <2>3. k \in 1 .. Len(msg)
    BY <1>6
  <2>4. msg[k] = m[e + at + k]
    BY <1>2, <1>3, <1>4, <2>3 DEF IsMoreThanBuffer, Agrees
  <2>5. QED
    BY <1>7, <2>1, <2>2, <2>4
<1>10. PICK b : b = Overwrite(c.b, at, piece)
  OBVIOUS
<1>11. PICK bytes \in Bytes8(n) : bytes = c.b
  BY <1>1
<1>12. b \in Bytes8(n)
  <2>1. Overwrite(bytes, at, piece) \in Bytes8(n)
    BY <1>8, OverwriteBytes
  <2>2. QED
    BY <1>10, <1>11, <2>1
<1>13. ASSUME NEW k \in 1 .. 8 * n PROVE b[k] = m[e + k]
  <2>1. Overwrite(bytes, at, piece)[k] = IF k - at \in 1 .. Len(piece) THEN piece[k - at] ELSE bytes[k]
    BY <1>8, OverwriteAt
  <2>2. CASE k <= at
    <3>1. k - at \notin 1 .. Len(piece) /\ k \in 1 .. c.bCnt
      BY <1>4, <1>8, <2>2
    <3>2. c.b[k] = m[q * (8 * n) + k]
      BY <3>1 DEF Taken
    <3>3. QED
      BY <1>2, <1>3, <1>10, <1>11, <2>1, <3>1, <3>2
  <2>3. CASE k > at
    <3>1. k - at \in 1 .. a /\ e + at + (k - at) = e + k
      BY <1>2, <1>5, <2>3
    <3>2. piece[k - at] = m[e + at + (k - at)]
      BY <1>9, <3>1
    <3>3. b[k] = piece[k - at]
      BY <1>8, <1>10, <1>11, <2>1, <3>1
    <3>4. QED
      BY <3>1, <3>2, <3>3
  <2>4. QED
    BY <2>2, <2>3
<1>14. PICK c1 : c1 = [c EXCEPT !.b = b]
  OBVIOUS
<1>15. /\ c1 \in Ctx(n) /\ c1.b = b
       /\ c1.type = c.type /\ c1.final = c.final /\ c1.T0 = c.T0 /\ c1.first = c.first /\ c1.X = c.X
       /\ SameSaved(c, c1)
  BY <1>1, <1>12, <1>14 DEF Ctx, SameSaved
<1>16. Chained(c1, n, s, m, t, q)
  BY <1>15 DEF Taken, Chained
<1>17. PICK d : d = ProcessOne(c1, b, 8 * n)
  OBVIOUS
<1>18. Chained(d, n, s, m, t, q + 1) /\ SameBuffer(c1, d)
  <2>1. (q + 1) * (8 * n) <= Len(m)
    <3>1. (q + 1) * (8 * n) = e + bs
      BY <1>2, <1>3
    <3>2. QED
      BY <1>6, <3>1
  <2>2. \A k \in 1 .. 8 * n : b[k] = m[q * (8 * n) + k]
    BY <1>2, <1>3, <1>13
  <2>3. QED
    BY <1>12, <1>16, <1>17, <2>1, <2>2, ChainedOne
<1>19. Filled(c, msg) = d
  <2>1. BlockBytes(c) = bs /\ BlockBytes(c) - c.bCnt = a
    BY <1>1, <1>2, <1>4, <1>5 DEF BlockBytes
  <2>2. Filled(c, msg) = ProcessBuffer(c1, bs)
    BY <1>4, <1>7, <1>10, <1>14, <2>1 DEF Filled
  <2>3. ProcessBuffer(c1, bs) = ProcessOne(c1, c1.b, bs)
    BY <1>15, ProcessBufferIsOne
  <2>4. QED
    BY <1>2, <1>15, <1>17, <2>2, <2>3
<1>20. PICK g : g = TopUp(c, msg)
  OBVIOUS
<1>21. g = [d EXCEPT !.bCnt = 0]
  BY <1>19, <1>20 DEF TopUp
<1>22. d \in Ctx(n) /\ 0 \in 0 .. 8 * n
  BY <1>18 DEF Chained
<1>23. /\ g \in Ctx(n) /\ g.bCnt = 0
       /\ g.type = d.type /\ g.final = d.final /\ g.T0 = d.T0 /\ g.first = d.first /\ g.X = d.X
       /\ SameSaved(d, g)
  BY <1>21, <1>22 DEF Ctx, SameSaved
<1>24. Chained(g, n, s, m, t, q + 1)
  BY <1>18, <1>23 DEF Chained
<1>25. (q + 1) * (8 * n) + g.bCnt <= Len(m)
  <2>1. (q + 1) * (8 * n) + 0 = e + bs
    BY <1>2, <1>3
  <2>2. QED
    BY <1>6, <1>23, <2>1
<1>26. \A k \in 1 .. g.bCnt : FALSE
  BY <1>23
<1>27. Taken(g, n, s, m, t, q + 1)
  BY <1>24, <1>25, <1>26 DEF Taken
<1>28. SameSaved(c, g)
  BY <1>15, <1>18, <1>23 DEF SameSaved, SameBuffer
<1>29. QED
  BY <1>20, <1>23, <1>27, <1>28

\* The blocks that are processed from where the message lies leave something of
\* it, a block at the most.
LEMMA FullBlocksFit ==
  ASSUME NEW bs \in Nat \ {0}, NEW c, BlockBytes(c) = bs, NEW len \in Nat
  PROVE  /\ FullBlocks(c, len) \in Nat
         /\ FullBlocks(c, len) * bs <= len
         /\ len - FullBlocks(c, len) * bs <= bs
         /\ len > 0 => len - FullBlocks(c, len) * bs > 0
         /\ len <= bs => FullBlocks(c, len) = 0
<1>1. CASE len <= bs
  <2>1. FullBlocks(c, len) = 0
    BY <1>1 DEF FullBlocks
  <2>2. QED
    BY <1>1, <2>1
<1>2. CASE len > bs
  <2>1. PICK l \in Nat : l = len - 1
    BY <1>2
  <2>2. FullBlocks(c, len) = l \div bs
    BY <1>2, <2>1 DEF FullBlocks
  <2>3. l \div bs \in Nat /\ bs * (l \div bs) <= l /\ l < bs * (l \div bs) + bs
    OBVIOUS
  <2>4. PICK f \in Nat : f = l \div bs
    BY <2>3
  <2>5. bs * f <= l /\ l < bs * f + bs /\ f * bs = bs * f
    BY <2>3, <2>4
  <2>6. QED
    BY <1>2, <2>1, <2>2, <2>4, <2>5
<1>3. QED
  BY <1>1, <1>2

\* A context that has taken all of m, and holds its last block back.
Absorbed(c, n, s, m, t) ==
  \E q \in Nat :
    /\ Taken(c, n, s, m, t, q)
    /\ q * (8 * n) + c.bCnt = Len(m)
    /\ Len(m) > 0 => c.bCnt > 0

\* msg is what comes in m after the first from bytes.
Continues(msg, m, from) ==
  from + Len(msg) = Len(m) /\ Agrees(msg, m, from, Len(msg))

\* What the update leaves to UpdateWhole.
IsForWhole(c, n, msg, m) ==
  /\ c.bCnt = 0 \/ c.bCnt + Len(msg) <= 8 * n
  /\ Len(m) > 0 => c.bCnt + Len(msg) > 0

LEMMA WholeTakes ==
  ASSUME NEW n \in Nat, n > 0, CipherKeeps(n), NEW s \in Block(n), NEW m \in Seq(Byte), NEW t \in 0 .. 63,
         NEW q \in Nat, NEW c, Taken(c, n, s, m, t, q),
         NEW msg \in Seq(Byte), Continues(msg, m, q * (8 * n) + c.bCnt), IsForWhole(c, n, msg, m)
  PROVE  Absorbed(UpdateWhole(c, msg), n, s, m, t) /\ SameSaved(c, UpdateWhole(c, msg))
<1>1. c \in Ctx(n) /\ c.bCnt \in 0 .. 8 * n /\ BlockBytes(c) = 8 * n /\ Chained(c, n, s, m, t, q)
  BY DEF Taken, Chained, Ctx, BlockBytes
<1>2. PICK bs \in Nat \ {0} : bs = 8 * n
  OBVIOUS
<1>3. PICK e \in Nat : e = q * bs
  BY <1>2
<1>4. PICK at \in Nat : at = c.bCnt
  BY <1>1
<1>5. PICK len \in Nat : len = Len(msg)
  OBVIOUS
<1>6. e + at + len = Len(m) /\ (Len(m) > 0 => at + len > 0) /\ (at = 0 \/ at + len <= bs) /\ at <= bs
  BY <1>1, <1>2, <1>3, <1>4, <1>5 DEF Continues, IsForWhole
<1>7. PICK full : full = FullBlocks(c, Len(msg))
  OBVIOUS
<1>8. /\ full \in Nat /\ full * bs <= len /\ len - full * bs <= bs
      /\ len > 0 => len - full * bs > 0
      /\ len <= bs => full = 0
  <2>1. BlockBytes(c) = bs
    BY <1>1, <1>2
  <2>2. QED
    BY <1>5, <1>7, <2>1, FullBlocksFit
<1>9. PICK w \in Nat : w = full * bs
  BY <1>2, <1>8
<1>10. w <= len /\ len - w <= bs /\ (len > 0 => len - w > 0)
  BY <1>8, <1>9
<1>11. full = 0 \/ at = 0
  BY <1>6, <1>8
<1>12. full = 0 => w = 0
  BY <1>2, <1>9
<1>13. \A k \in 1 .. len : msg[k] = m[e + at + k]
  BY <1>2, <1>3, <1>4, <1>5 DEF Continues, Agrees
<1>14. PICK d : d = Skein_Process_Block(c, msg, full, 8 * n)
  OBVIOUS
<1>15. Chained(d, n, s, m, t, q + full) /\ SameBuffer(c, d)
  <2>1. full * (8 * n) <= Len(msg)
    BY <1>2, <1>5, <1>8
  <2>2. q * (8 * n) + full * (8 * n) <= Len(m)
    <3>1. e + w <= Len(m)
      BY <1>6, <1>10
    <3>2. QED
      BY <1>2, <1>3, <1>9, <3>1
  <2>3. ASSUME NEW k \in 1 .. w PROVE msg[k] = m[e + k]
    <3>1. at = 0 /\ k \in 1 .. len
      BY <1>10, <1>11, <1>12
    <3>2. e + at + k = e + k
      BY <3>1
    <3>3. QED
      BY <1>13, <3>1, <3>2
  <2>4. Agrees(msg, m, q * (8 * n), full * (8 * n))
    BY <1>2, <1>3, <1>9, <2>3 DEF Agrees
  <2>5. full \in Nat
    BY <1>8
  <2>6. QED
    BY <1>1, <1>14, <2>1, <2>2, <2>4, <2>5, ChainedMany
<1>16. PICK r \in Nat : r = q + full
  BY <1>8
<1>17. r * (8 * n) = e + w
  BY <1>2, <1>3, <1>8, <1>9, <1>16
<1>18. d.bCnt = at /\ d.b = c.b
  BY <1>4, <1>15 DEF SameBuffer
<1>19. Taken(d, n, s, m, t, r)
  <2>1. r * (8 * n) + d.bCnt <= Len(m)
    BY <1>6, <1>10, <1>17, <1>18, SMTT(30)
  <2>2. ASSUME NEW k \in 1 .. d.bCnt PROVE d.b[k] = m[r * (8 * n) + k]
    <3>1. k \in 1 .. at /\ w = 0
      BY <1>11, <1>12, <1>18
    <3>2. c.b[k] = m[q * (8 * n) + k]
      BY <1>4, <3>1 DEF Taken
    <3>3. r * (8 * n) + k = q * (8 * n) + k
      BY <1>2, <1>3, <1>17, <3>1
    <3>4. QED
      BY <1>18, <3>2, <3>3
  <2>3. QED
    BY <1>15, <1>16, <2>1, <2>2 DEF Taken
<1>20. PICK rest : rest = SubSeq(msg, w + 1, len)
  OBVIOUS
<1>21. rest \in Seq(Byte) /\ Len(rest) = len - w
  BY <1>5, <1>10, <1>20, PieceBytes
<1>22. ASSUME NEW k \in 1 .. len - w PROVE rest[k] = m[r * (8 * n) + d.bCnt + k]
  <2>1. w + k \in Nat /\ k \in Int
    OBVIOUS
  <2>2. rest[k] = msg[w + k]
    BY <1>5, <1>10, <1>20, PieceAt
  <2>3. w + k \in 1 .. len
    BY <1>10, <2>1
  <2>4. msg[w + k] = m[e + at + (w + k)]
    BY <1>13, <2>3
  <2>5. e + at + (w + k) = (e + w) + at + k
    BY <2>1
  <2>6. QED
    BY <1>17, <1>18, <2>2, <2>4, <2>5
<1>23. PICK g : g = Keep(d, rest)
  OBVIOUS
<1>24. Taken(g, n, s, m, t, r) /\ g.bCnt = at + (len - w) /\ SameSaved(d, g)
  <2>1. at + Len(rest) <= 8 * n
    BY <1>2, <1>6, <1>10, <1>11, <1>12, <1>18, <1>21
  <2>2. r * (8 * n) + at + Len(rest) <= Len(m)
    BY <1>6, <1>10, <1>17, <1>18, <1>21
  <2>3. Taken(g, n, s, m, t, r) /\ g.bCnt = d.bCnt + Len(rest) /\ SameSaved(d, g)
    <3>1. Agrees(rest, m, r * (8 * n) + at, Len(rest))
      BY <1>18, <1>21, <1>22 DEF Agrees
    <3>2. rest \in Seq(Byte)
      BY <1>21
    <3>3. IsForBuffer(d, n, r, rest, m)
      BY <1>18, <2>1, <2>2, <3>1 DEF IsForBuffer
    <3>4. /\ Taken(Keep(d, rest), n, s, m, t, r)
          /\ Keep(d, rest).bCnt = d.bCnt + Len(rest)
          /\ SameSaved(d, Keep(d, rest))
      BY <1>19, <3>2, <3>3, KeepTakes
    <3>5. QED
      BY <1>23, <3>4
  <2>4. QED
    BY <1>18, <1>21, <2>3
<1>25. UpdateWhole(c, msg) = g
  <2>1. full * BlockBytes(c) = w
    BY <1>1, <1>2, <1>9
  <2>2. QED
    BY <1>1, <1>5, <1>7, <1>14, <1>20, <1>23, <2>1 DEF UpdateWhole
<1>26. r * (8 * n) + g.bCnt = Len(m) /\ (Len(m) > 0 => g.bCnt > 0)
  <2>1. (e + w) + (at + (len - w)) = Len(m)
    BY <1>6
  <2>2. Len(m) > 0 => at + (len - w) > 0
    BY <1>6, <1>10
  <2>3. QED
    BY <1>17, <1>24, <2>1, <2>2
<1>27. Absorbed(g, n, s, m, t)
  BY <1>24, <1>26 DEF Absorbed
<1>28. SameSaved(c, g)
  BY <1>15, <1>24 DEF SameBuffer, SameSaved
<1>29. QED
  BY <1>25, <1>27, <1>28

\* Unless nothing has been taken, something is in the buffer.
HeldBack(c, n, q) == q * (8 * n) + c.bCnt > 0 => c.bCnt > 0

\* However much has been taken before, an update takes the rest of the message.
LEMMA UpdateTakes ==
  ASSUME NEW n \in Nat, n > 0, CipherKeeps(n), NEW s \in Block(n), NEW m \in Seq(Byte), NEW t \in 0 .. 63,
         NEW q \in Nat, NEW c, Taken(c, n, s, m, t, q),
         NEW msg \in Seq(Byte), Continues(msg, m, q * (8 * n) + c.bCnt),
         HeldBack(c, n, q)
  PROVE  Absorbed(Update(c, msg), n, s, m, t) /\ SameSaved(c, Update(c, msg))
<1>1. c \in Ctx(n) /\ c.bCnt \in 0 .. 8 * n /\ BlockBytes(c) = 8 * n
  BY DEF Taken, Chained, Ctx, BlockBytes
<1>2. PICK bs \in Nat \ {0} : bs = 8 * n
  OBVIOUS
<1>3. PICK e \in Nat : e = q * bs
  BY <1>2
<1>4. PICK at \in Nat : at = c.bCnt
  BY <1>1
<1>5. PICK len \in Nat : len = Len(msg)
  OBVIOUS
<1>6. e + at + len = Len(m) /\ (e + at > 0 => at > 0) /\ at <= bs
  BY <1>1, <1>2, <1>3, <1>4, <1>5 DEF Continues, HeldBack
<1>7. \A k \in 1 .. len : msg[k] = m[e + at + k]
  BY <1>2, <1>3, <1>4, <1>5 DEF Continues, Agrees
<1>8. CASE at > 0 /\ at + len > bs
  <2>1. PICK d : d = TopUp(c, msg)
    OBVIOUS
  <2>2. Taken(d, n, s, m, t, q + 1) /\ d.bCnt = 0 /\ SameSaved(c, d)
    <3>1. at + Len(msg) > 8 * n /\ q * (8 * n) + at + Len(msg) <= Len(m)
      BY <1>2, <1>3, <1>4, <1>5, <1>6, <1>8
    <3>2. Agrees(msg, m, q * (8 * n) + at, Len(msg))
      BY <1>4 DEF Continues
    <3>3. IsMoreThanBuffer(c, n, q, msg, m)
      BY <1>4, <3>1, <3>2 DEF IsMoreThanBuffer
    <3>4. /\ Taken(TopUp(c, msg), n, s, m, t, q + 1)
          /\ TopUp(c, msg).bCnt = 0
          /\ SameSaved(c, TopUp(c, msg))
      BY <3>3, TopUpTakes
    <3>5. QED
      BY <2>1, <3>4
  <2>3. PICK a \in Nat : a = bs - at
    BY <1>6
  <2>4. a <= len /\ a < len
    BY <1>8, <2>3
  <2>5. PICK rest : rest = SubSeq(msg, a + 1, len)
    OBVIOUS
  <2>6. rest \in Seq(Byte) /\ Len(rest) = len - a
    BY <1>5, <2>4, <2>5, PieceBytes
  <2>7. PICK r \in Nat : r = q + 1
    OBVIOUS
  <2>8. r * (8 * n) = e + bs
    BY <1>2, <1>3, <2>7
  <2>9. ASSUME NEW k \in 1 .. len - a PROVE rest[k] = m[r * (8 * n) + d.bCnt + k]
    <3>1. a + k \in Nat /\ k \in Int
      OBVIOUS
    <3>2. rest[k] = msg[a + k]
      BY <1>5, <2>4, <2>5, PieceAt
    <3>3. a + k \in 1 .. len /\ e + at + (a + k) = e + bs + 0 + k
      BY <2>3, <2>4, <3>1
    <3>4. msg[a + k] = m[e + at + (a + k)]
      BY <1>7, <3>3
    <3>5. QED
      BY <2>2, <2>8, <3>2, <3>3, <3>4
  <2>10. Absorbed(UpdateWhole(d, rest), n, s, m, t) /\ SameSaved(d, UpdateWhole(d, rest))
    <3>1. r * (8 * n) + d.bCnt + Len(rest) = Len(m)
      <4>1. e + bs + 0 + (len - a) = Len(m)
        BY <1>6, <2>3
      <4>2. QED
        BY <2>2, <2>6, <2>8, <4>1
    <3>2. Len(m) > 0 => d.bCnt + Len(rest) > 0
      BY <2>2, <2>4, <2>6
    <3>3. Taken(d, n, s, m, t, r)
      BY <2>2, <2>7
    <3>4. \A k \in 1 .. Len(rest) : rest[k] = m[r * (8 * n) + d.bCnt + k]
      BY <2>6, <2>9
    <3>5. rest \in Seq(Byte) /\ d.bCnt = 0
      BY <2>2, <2>6
    <3>6. Continues(rest, m, r * (8 * n) + d.bCnt) /\ IsForWhole(d, n, rest, m)
      BY <3>1, <3>2, <3>4, <3>5 DEF Continues, IsForWhole, Agrees
    <3>7. QED
      BY <3>3, <3>5, <3>6, WholeTakes
  <2>11. Update(c, msg) = UpdateWhole(d, rest)
    <3>1. (c.bCnt > 0 /\ c.bCnt + Len(msg) > BlockBytes(c)) = TRUE
      BY <1>1, <1>2, <1>4, <1>5, <1>8
    <3>2. BlockBytes(c) - c.bCnt = a
      BY <1>1, <1>2, <1>4, <2>3
    <3>3. QED
      BY <1>5, <2>1, <2>5, <3>1, <3>2 DEF Update
  <2>12. QED
    BY <2>2, <2>10, <2>11 DEF SameSaved
<1>9. CASE ~(at > 0 /\ at + len > bs)
  <2>1. Update(c, msg) = UpdateWhole(c, msg)
    <3>1. (c.bCnt > 0 /\ c.bCnt + Len(msg) > BlockBytes(c)) = FALSE
      BY <1>1, <1>2, <1>4, <1>5, <1>9
    <3>2. QED
      BY <3>1 DEF Update
  <2>2. c.bCnt = 0 \/ c.bCnt + Len(msg) <= 8 * n
    BY <1>2, <1>4, <1>5, <1>9
  <2>3. Len(m) > 0 => c.bCnt + Len(msg) > 0
    BY <1>4, <1>5, <1>6, SMTT(30)
  <2>4. IsForWhole(c, n, msg, m)
    BY <2>2, <2>3 DEF IsForWhole
  <2>5. QED
    BY <2>1, <2>4, WholeTakes, ZenonT(40)
<1>10. QED
  BY <1>8, <1>9

\* mm is m and then msg.
Extends(mm, m, msg) ==
  /\ Len(mm) = Len(m) + Len(msg)
  /\ Agrees(m, mm, 0, Len(m))
  /\ Agrees(msg, mm, Len(m), Len(msg))

\* A message that has been taken can be gone on with.
LEMMA TakenOfLonger ==
  ASSUME NEW n \in Nat, CipherKeeps(n), NEW s \in Block(n), NEW t \in 0 .. 63,
         NEW m \in Seq(Byte), NEW mm \in Seq(Byte), NEW msg \in Seq(Byte), Extends(mm, m, msg),
         NEW q \in Nat, NEW c, Taken(c, n, s, m, t, q)
  PROVE  Taken(c, n, s, mm, t, q)
<1>1. c \in Ctx(n) /\ c.bCnt \in 0 .. 8 * n /\ Chained(c, n, s, m, t, q)
  BY DEF Taken, Chained, Ctx
<1>2. PICK e \in Nat : e = q * (8 * n)
  OBVIOUS
<1>3. PICK at \in Nat : at = c.bCnt
  BY <1>1
<1>4. e + at <= Len(m)
  BY <1>2, <1>3 DEF Taken
<1>5. PICK l \in Nat : l = Len(m)
  OBVIOUS
<1>6. l <= Len(mm)
  <2>1. Len(mm) = l + Len(msg) /\ Len(msg) \in Nat
    BY <1>5 DEF Extends
  <2>2. QED
    BY <2>1
<1>7. ASSUME NEW k \in 1 .. l PROVE m[k] = mm[k]
  <2>1. m[k] = mm[0 + k]
    BY <1>5 DEF Extends, Agrees
  <2>2. 0 + k = k
    OBVIOUS
  <2>3. QED
    BY <2>1, <2>2
<1>8. Chain(s, m, t, q, -1) = Chain(s, mm, t, q, -1)
  <2>1. q * (8 * n) <= Len(m) /\ q * (8 * n) <= Len(mm)
    BY <1>2, <1>4, <1>5, <1>6
  <2>2. \A k \in 1 .. q * (8 * n) : m[k] = mm[k]
    <3>1. e <= l
      BY <1>4, <1>5
    <3>2. \A k \in 1 .. e : m[k] = mm[k]
      BY <1>7, <3>1
    <3>3. QED
      BY <1>2, <3>2
  <2>3. PICK none \in Int : none = -1
    OBVIOUS
  <2>4. none \notin 1 .. q
    BY <2>3
  <2>5. SameBlocks(m, mm, n, q)
    BY <2>1, <2>2 DEF SameBlocks
  <2>6. SameChain(s, t, m, mm, q, none, none)
    BY <2>4, <2>5, ChainOfPrefix
  <2>7. QED
    BY <2>3, <2>6 DEF SameChain
<1>9. q * (8 * n) <= Len(mm) /\ q * (8 * n) + c.bCnt <= Len(mm)
  BY <1>2, <1>3, <1>4, <1>5, <1>6
<1>10. Chained(c, n, s, mm, t, q)
  BY <1>1, <1>8, <1>9 DEF Chained
<1>11. ASSUME NEW k \in 1 .. c.bCnt PROVE c.b[k] = mm[q * (8 * n) + k]
  <2>1. c.b[k] = m[q * (8 * n) + k]
    BY DEF Taken
  <2>2. e + k \in 1 .. l
    BY <1>3, <1>4, <1>5
  <2>3. QED
    BY <1>2, <1>7, <2>1, <2>2
<1>12. QED
  BY <1>9, <1>10, <1>11 DEF Taken

\* Updates absorb a message piece by piece.
LEMMA UpdateAbsorbs ==
  ASSUME NEW n \in Nat, n > 0, CipherKeeps(n), NEW s \in Block(n), NEW t \in 0 .. 63,
         NEW m \in Seq(Byte), NEW mm \in Seq(Byte), NEW msg \in Seq(Byte), Extends(mm, m, msg),
         NEW c, Absorbed(c, n, s, m, t)
  PROVE  Absorbed(Update(c, msg), n, s, mm, t) /\ SameSaved(c, Update(c, msg))
<1>1. PICK q \in Nat : /\ Taken(c, n, s, m, t, q)
                       /\ q * (8 * n) + c.bCnt = Len(m)
                       /\ Len(m) > 0 => c.bCnt > 0
  BY DEF Absorbed
<1>2. Taken(c, n, s, mm, t, q)
  BY <1>1, TakenOfLonger
<1>3. Continues(msg, mm, q * (8 * n) + c.bCnt)
  BY <1>1 DEF Continues, Extends
<1>4. HeldBack(c, n, q)
  BY <1>1 DEF HeldBack
<1>5. QED
  BY <1>2, <1>3, <1>4, UpdateTakes

\* The last block of m is to be processed, with its add bytes.
AtLast(c, n, s, m, t, q, block, add) ==
  /\ c \in Ctx(n) /\ c.type = t /\ c.final
  /\ c.T0 = Small(q * (8 * n))
  /\ c.first <=> q = 0
  /\ c.X = Chain(s, m, t, q, -1)
  /\ block = PaddedBlock(m, n, q + 1)
  /\ q * (8 * n) + add = Len(m)
  /\ add <= 8 * n
  /\ Len(m) > 0 => add > 0

\* d, which comes after c, has hashed m.
Ended(c, d, n, s, m, t) == d \in Ctx(n) /\ d.X = UBI(s, m, t) /\ SameSaved(c, d)

LEMMA CountIs ==
  ASSUME NEW n \in Nat, n > 0, NEW s \in Block(n), NEW m \in Seq(Byte), NEW t \in 0 .. 63, NEW q \in Nat,
         NEW c, NEW block, NEW add \in Nat, AtLast(c, n, s, m, t, q, block, add)
  PROVE  BlockCount(m, n) = q + 1
<1>1. PICK bs \in Nat : bs = 8 * n
  OBVIOUS
<1>2. PICK e \in Nat : e = q * bs
  OBVIOUS
<1>3. PICK l \in Nat : l = Len(m)
  OBVIOUS
<1>4. bs > 0 /\ e + add = l /\ add <= bs /\ (l > 0 => add > 0)
  BY <1>1, <1>2, <1>3 DEF AtLast
<1>5. CASE l = 0
  <2>1. q = 0
    <3>1. e = 0
      BY <1>4, <1>5
    <3>2. \A a \in Nat : a > 0 => a * bs >= bs
      OBVIOUS
    <3>3. QED
      BY <1>2, <1>4, <3>1, <3>2
  <2>2. m = <<>>
    BY <1>3, <1>5, EmptySeq
  <2>3. QED
    BY <2>1, <2>2 DEF BlockCount
<1>6. CASE l > 0
  <2>1. m # <<>>
    BY <1>3, <1>6
  <2>2. PICK a \in Nat : a = l + bs - 1
    BY <1>4
  <2>3. PICK r \in Nat : r = q + 1
    OBVIOUS
  <2>4. r * bs = e + bs
    BY <1>2, <2>3
  <2>5. r * bs <= a /\ a < r * bs + bs
    BY <1>4, <1>6, <2>2, <2>4
  <2>6. a \div bs = r
    BY <1>4, <2>5, DivIs
  <2>7. QED
    BY <1>1, <1>3, <2>1, <2>2, <2>3, <2>6 DEF BlockCount
<1>7. QED
  BY <1>5, <1>6

LEMMA FinalBlock ==
  ASSUME NEW n \in Nat, n > 0, CipherKeeps(n), NEW s \in Block(n), NEW m \in Seq(Byte), NEW t \in 0 .. 63,
         NEW q \in Nat, NEW c, NEW block, NEW add \in Nat, AtLast(c, n, s, m, t, q, block, add)
  PROVE  Ended(c, ProcessOne(c, block, add), n, s, m, t)
<1>1. c \in Ctx(n) /\ c.type = t /\ c.final = TRUE /\ c.size = n
  BY DEF AtLast, Ctx
<1>2. PICK e \in Nat : e = q * (8 * n)
  OBVIOUS
<1>3. e + add = Len(m) /\ add <= 8 * n
  BY <1>2 DEF AtLast
<1>4. PICK r \in Nat : r = q + 1 /\ r # 0
  OBVIOUS
<1>5. block = PaddedBlock(m, n, r) /\ block \in Bytes8(n)
  BY <1>4, PaddedBlockBytes DEF AtLast
<1>6. Add(c.T0, Small(add)) = Small(e + add)
  BY <1>2, AddSmall DEF AtLast
<1>7. T1(c.type, c.first, c.final) = T1(t, r = 1, r = r)
  <2>1. c.first <=> r = 1
    BY <1>4 DEF AtLast
  <2>2. QED
    BY <1>1, <2>1 DEF T1
<1>8. PICK v : v = Chain(s, m, t, q, r)
  OBVIOUS
<1>9. Len(s) = n
  BY LenOfFunction DEF Block
<1>10. v \in Block(n) /\ Len(v) = n
  <2>1. v \in Block(n)
    BY <1>8, ChainIsBlock
  <2>2. QED
    BY <2>1, LenOfFunction DEF Block
<1>11. c.X = v
  <2>1. PICK none \in Int : none = -1
    OBVIOUS
  <2>2. none \notin 1 .. q /\ r \in Int /\ r \notin 1 .. q
    BY <1>4, <2>1
  <2>3. SameBlocks(m, m, n, q)
    BY <1>2, <1>3 DEF SameBlocks
  <2>4. SameChain(s, t, m, m, q, none, r)
    BY <2>2, <2>3, ChainOfPrefix
  <2>5. QED
    BY <1>8, <2>1, <2>4 DEF SameChain, AtLast
<1>12. ChainBlock(v, m, t, r, r) =
         XorBlock(TweakedCipher(n, v, <<Small(e + add), T1(t, r = 1, r = r)>>, ToWords(block)),
                  ToWords(block))
  <2>1. 8 * n * r = e + 8 * n
    BY <1>2, <1>4
  <2>2. (IF 8 * n * r <= Len(m) THEN 8 * n * r ELSE Len(m)) = e + add
    BY <1>3, <2>1
  <2>3. QED
    BY <1>5, <1>10, <2>2 DEF ChainBlock
<1>13. Chain(s, m, t, r, r) = ChainBlock(v, m, t, r, r)
  <2>1. Chain(s, m, t, q + 1, r) = ChainBlock(Chain(s, m, t, q, r), m, t, q + 1, r)
    BY ChainBlocks
  <2>2. QED
    BY <1>4, <1>8, <2>1
<1>14. UBI(s, m, t) = Chain(s, m, t, r, r)
  <2>1. BlockCount(m, n) = r
    BY <1>4, CountIs
  <2>2. QED
    BY <1>9, <2>1 DEF UBI
<1>15. PICK d : d = ProcessOne(c, block, add)
  OBVIOUS
<1>16. /\ d \in Ctx(n)
       /\ d.X = XorBlock(TweakedCipher(n, c.X, <<Add(c.T0, Small(add)), T1(c.type, c.first, c.final)>>,
                                       ToWords(block)), ToWords(block))
       /\ SameSaved(c, d)
  BY <1>1, <1>5, <1>15, ProcessOneCtx DEF SameSaved
<1>17. d.X = UBI(s, m, t)
  BY <1>6, <1>7, <1>11, <1>12, <1>13, <1>14, <1>16
<1>18. QED
  BY <1>15, <1>16, <1>17 DEF Ended

\* What is held back, padded, is the last block.
LEMMA LastBlockEnds ==
  ASSUME NEW n \in Nat, n > 0, CipherKeeps(n), NEW s \in Block(n), NEW m \in Seq(Byte), NEW t \in 0 .. 63,
         NEW c, Absorbed(c, n, s, m, t)
  PROVE  Ended(c, LastBlock(c), n, s, m, t)
<1>1. PICK q \in Nat : /\ Taken(c, n, s, m, t, q)
                       /\ q * (8 * n) + c.bCnt = Len(m)
                       /\ Len(m) > 0 => c.bCnt > 0
  BY DEF Absorbed
<1>2. c \in Ctx(n) /\ c.bCnt \in 0 .. 8 * n /\ c.b \in Bytes8(n) /\ BlockBytes(c) = 8 * n
  BY <1>1 DEF Taken, Chained, Ctx, BlockBytes
<1>3. PICK e \in Nat : e = q * (8 * n)
  OBVIOUS
<1>4. PICK at \in Nat : at = c.bCnt
  BY <1>2
<1>5. at <= 8 * n /\ e + at = Len(m)
  BY <1>1, <1>2, <1>3, <1>4
<1>6. PICK b : b = PadBuffer(c)
  OBVIOUS
<1>7. PICK rest : rest = ZeroBytes(8 * n - at)
  OBVIOUS
<1>8. rest \in Seq(Byte) /\ Len(rest) = 8 * n - at
  <2>1. PICK l \in Nat : l = 8 * n - at
    <3>1. at <= 8 * n
      BY <1>5
    <3>2. 8 * n - at \in Nat
      BY <3>1
    <3>3. QED
      BY <3>2
  <2>2. 0 \in Byte
    BY ByteFacts
  <2>3. rest \in [1 .. l -> Byte]
    BY <1>7, <2>1, <2>2 DEF ZeroBytes
  <2>4. QED
    BY <2>1, <2>3, LenOfFunction
<1>9. PICK bytes \in Bytes8(n) : bytes = c.b
  BY <1>2
<1>10. b = Overwrite(bytes, at, rest)
  BY <1>2, <1>4, <1>6, <1>7, <1>9 DEF PadBuffer
<1>11. b \in Bytes8(n)
  BY <1>8, <1>10, OverwriteBytes
<1>12. ASSUME NEW k \in 1 .. 8 * n
       PROVE  b[k] = IF e + k <= Len(m) THEN m[e + k] ELSE 0
  <2>1. Overwrite(bytes, at, rest)[k] = IF k - at \in 1 .. Len(rest) THEN rest[k - at] ELSE bytes[k]
    BY <1>8, OverwriteAt
  <2>2. CASE k <= at
    <3>1. k - at \notin 1 .. Len(rest) /\ k \in 1 .. c.bCnt /\ e + k <= Len(m)
      BY <1>4, <1>5, <1>8, <2>2
    <3>2. c.b[k] = m[q * (8 * n) + k]
      BY <1>1, <3>1 DEF Taken
    <3>3. QED
      BY <1>3, <1>9, <1>10, <2>1, <3>1, <3>2
  <2>3. CASE k > at
    <3>1. k - at \in 1 .. 8 * n - at /\ ~(e + k <= Len(m))
      BY <1>5, <2>3
    <3>2. rest[k - at] = 0
      BY <1>7, <3>1 DEF ZeroBytes
    <3>3. QED
      BY <1>8, <1>10, <2>1, <3>1, <3>2
  <2>4. QED
    BY <2>2, <2>3
<1>13. b = PaddedBlock(m, n, q + 1)
  <2>1. 8 * n * ((q + 1) - 1) = e
    BY <1>3
  <2>2. b = [k \in 1 .. 8 * n |-> IF e + k <= Len(m) THEN m[e + k] ELSE 0]
    BY <1>11, <1>12 DEF Bytes8
  <2>3. QED
    BY <2>1, <2>2 DEF PaddedBlock
<1>14. PICK c1 : c1 = [c EXCEPT !.final = TRUE, !.b = b]
  OBVIOUS
<1>15. /\ c1 \in Ctx(n) /\ c1.b = b /\ c1.final = TRUE
       /\ c1.type = c.type /\ c1.T0 = c.T0 /\ c1.first = c.first /\ c1.X = c.X
       /\ SameSaved(c, c1)
  BY <1>2, <1>11, <1>14 DEF Ctx, SameSaved
<1>16. AtLast(c1, n, s, m, t, q, b, at)
  <2>1. /\ c.type = t /\ c.T0 = Small(q * (8 * n)) /\ (c.first <=> q = 0) /\ c.X = Chain(s, m, t, q, -1)
    BY <1>1 DEF Taken, Chained
  <2>2. Len(m) > 0 => at > 0
    BY <1>1, <1>4
  <2>3. QED
    BY <1>3, <1>5, <1>13, <1>15, <2>1, <2>2 DEF AtLast
<1>17. Ended(c1, ProcessOne(c1, b, at), n, s, m, t)
  BY <1>16, FinalBlock
<1>18. LastBlock(c) = ProcessOne(c1, b, at)
  <2>1. LastBlock(c) = ProcessBuffer(c1, at)
    BY <1>4, <1>6, <1>14 DEF LastBlock
  <2>2. ProcessBuffer(c1, at) = ProcessOne(c1, c1.b, at)
    BY <1>15, ProcessBufferIsOne
  <2>3. QED
    BY <1>15, <2>1, <2>2
<1>19. QED
  BY <1>15, <1>17, <1>18 DEF Ended, SameSaved

-----------------------------------------------------------------------------
(* Initialisation *)

LEMMA ProcessSingle ==
  ASSUME NEW n \in Nat, NEW c \in Ctx(n), NEW block \in Bytes8(n), NEW add \in Nat
  PROVE  Skein_Process_Block(c, block, 1, add) = ProcessOne(c, block, add)
<1>1. BlockBytes(c) = 8 * n
  BY DEF Ctx, BlockBytes
<1>2. block \in Seq(Byte) /\ Len(block) = 8 * n
  BY LenOfFunction DEF Bytes8
<1>3. SubSeq(block, 1, 8 * n) = block
  BY <1>2, SubSeqFull
<1>4. /\ Skein_Process_Block(c, block, 0 + 1, add) =
           ProcessOne(Skein_Process_Block(c, block, 0, add),
                      SubSeq(block, 0 * BlockBytes(c) + 1, (0 + 1) * BlockBytes(c)), add)
      /\ Skein_Process_Block(c, block, 0, add) = c
  BY ProcessBlocks
<1>5. 0 + 1 = 1 /\ 0 * BlockBytes(c) + 1 = 1 /\ (0 + 1) * BlockBytes(c) = 8 * n
  BY <1>1
<1>6. QED
  BY <1>3, <1>4, <1>5

LEMMA ZeroIs == Zero = <<0, 0, 0, 0>>
<1>1. 0 \div Base = 0 /\ 0 % Base = 0
  BY SMT DEF Base
<1>2. Small(0) = <<0 % Base, (0 \div Base) % Base, ((0 \div Base) \div Base) % Base,
                   (((0 \div Base) \div Base) \div Base) % Base>>
  BY SmallIs
<1>3. QED
  BY <1>1, <1>2 DEF Zero

LEMMA ZeroWord == Zero \in Word
BY SmallWord DEF Zero

\* A context that has only begun has taken the empty message.
LEMMA StartTakesNothing ==
  ASSUME NEW n \in Nat, n > 0, NEW t \in 0 .. 63, NEW c \in Ctx(n),
         c.type = t, c.T0 = Zero, c.first = TRUE, c.final = FALSE, c.bCnt = 0
  PROVE  Absorbed(c, n, c.X, <<>>, t)
<1>1. PICK q \in Nat : q = 0
  OBVIOUS
<1>2. q * (8 * n) = 0
  BY <1>1
<1>3. Len(<<>>) = 0
  OBVIOUS
<1>4. c.X = Chain(c.X, <<>>, t, q, -1)
  BY <1>1, ChainBlocks
<1>5. Chained(c, n, c.X, <<>>, t, q)
  BY <1>1, <1>2, <1>3, <1>4 DEF Chained, Zero
<1>6. q * (8 * n) + c.bCnt = 0 /\ \A k \in 1 .. c.bCnt : FALSE
  BY <1>2
<1>7. Taken(c, n, c.X, <<>>, t, q)
  BY <1>3, <1>5, <1>6 DEF Taken
<1>8. QED
  BY <1>3, <1>6, <1>7 DEF Absorbed

\* d is c after Skein_Start_New_Type.
Started(c, d, n, t, final) ==
  /\ d \in Ctx(n)
  /\ d.type = t /\ d.T0 = Zero /\ d.first = TRUE /\ d.final = final /\ d.bCnt = 0
  /\ d.X = c.X /\ SameSaved(c, d)

LEMMA StartCtx ==
  ASSUME NEW n \in Nat, NEW c \in Ctx(n), NEW t \in 0 .. 63, NEW final \in BOOLEAN
  PROVE  Started(c, Skein_Start_New_Type(c, t, final), n, t, final)
<1>1. PICK d : d = Skein_Start_New_Type(c, t, final)
  OBVIOUS
<1>2. d = [c EXCEPT !.T0 = Zero, !.type = t, !.first = TRUE, !.final = final, !.bCnt = 0]
  BY <1>1 DEF Skein_Start_New_Type
<1>3. 0 \in 0 .. 8 * n
  OBVIOUS
<1>4. d \in Ctx(n)
  BY <1>2, <1>3, ZeroWord DEF Ctx
<1>5. /\ d.type = t /\ d.T0 = Zero /\ d.first = TRUE /\ d.final = final /\ d.bCnt = 0
      /\ d.X = c.X /\ SameSaved(c, d)
  BY <1>2 DEF Ctx, SameSaved
<1>6. QED
  BY <1>1, <1>4, <1>5 DEF Started

\* The chaining variables after the key.
KeyValue(key, n) == IF key = <<>> THEN ZeroBlock(n) ELSE UBI(ZeroBlock(n), key, KEY)

LEMMA ExtendsNothing ==
  ASSUME NEW m \in Seq(Byte)
  PROVE  Extends(m, <<>>, m)
<1>1. Len(<<>>) = 0 /\ Len(m) \in Nat /\ \A k \in 1 .. 0 : FALSE
  OBVIOUS
<1>2. \A k \in 1 .. Len(m) : 0 + k = k
  OBVIOUS
<1>3. QED
  BY <1>1, <1>2 DEF Extends, Agrees

LEMMA HashKeyIs ==
  ASSUME NEW n \in Nat, n > 0, CipherKeeps(n), NEW c \in Ctx(n), NEW key \in Seq(Byte)
  PROVE  HashKey(c, key) \in Ctx(n) /\ HashKey(c, key).X = KeyValue(key, n)
<1>1. c.size = n /\ ZeroBlock(n) \in Block(n)
  BY ZeroBlockBlock DEF Ctx
<1>2. CASE key = <<>>
  <2>1. HashKey(c, key) = [c EXCEPT !.X = ZeroBlock(n)]
    BY <1>1, <1>2 DEF HashKey
  <2>2. QED
    BY <1>1, <1>2, <2>1 DEF Ctx, KeyValue
<1>3. CASE key # <<>>
  <2>1. PICK d : d = Skein_Start_New_Type(c, KEY, FALSE)
    OBVIOUS
  <2>2. /\ d \in Ctx(n)
        /\ d.type = KEY /\ d.T0 = Zero /\ d.first = TRUE /\ d.final = FALSE /\ d.bCnt = 0
    <3>1. PICK t \in 0 .. 63 : t = KEY
      BY DEF KEY
    <3>2. Started(c, Skein_Start_New_Type(c, t, FALSE), n, t, FALSE)
      BY StartCtx
    <3>3. QED
      BY <2>1, <3>1, <3>2 DEF Started
  <2>3. PICK g : g = [d EXCEPT !.hashBitLen = 64 * n, !.X = ZeroBlock(n)]
    OBVIOUS
  <2>4. /\ g \in Ctx(n) /\ g.X = ZeroBlock(n)
        /\ g.type = KEY /\ g.T0 = Zero /\ g.first = TRUE /\ g.final = FALSE /\ g.bCnt = 0
    <3>1. PICK bits \in Nat : bits = 64 * n
      OBVIOUS
    <3>2. g = [d EXCEPT !.hashBitLen = bits, !.X = ZeroBlock(n)]
      BY <2>3, <3>1
    <3>3. QED
      BY <1>1, <2>2, <3>2, ZenonT(40) DEF Ctx
  <2>5. KEY \in 0 .. 63
    BY DEF KEY
  <2>6. Absorbed(g, n, g.X, <<>>, KEY)
    BY <2>4, <2>5, StartTakesNothing
  <2>7. Absorbed(g, n, ZeroBlock(n), <<>>, KEY)
    BY <2>4, <2>6
  <2>8. PICK none \in Seq(Byte) : none = <<>>
    BY EmptySeq
  <2>9. Extends(key, none, key)
    BY <2>8, ExtendsNothing
  <2>10. PICK s \in Block(n) : s = ZeroBlock(n)
    BY <1>1
  <2>11. PICK u : u = Update(g, key)
    OBVIOUS
  <2>12. Absorbed(g, n, s, none, KEY)
    BY <2>7, <2>8, <2>10
  <2>13. Absorbed(u, n, s, key, KEY)
    BY <2>5, <2>9, <2>11, <2>12, UpdateAbsorbs
  <2>14. Ended(u, LastBlock(u), n, s, key, KEY)
    BY <2>5, <2>13, LastBlockEnds
  <2>15. HashKey(c, key) = LastBlock(u)
    BY <1>1, <1>3, <2>1, <2>3, <2>11 DEF HashKey
  <2>16. QED
    BY <1>3, <2>10, <2>14, <2>15 DEF Ended, KeyValue
<1>4. QED
  BY <1>2, <1>3

\* A message of one block, which is the first and the last.
OnlyBlock(c, d, n, m, t, block) ==
  /\ Started(c, d, n, t, TRUE)
  /\ block = PaddedBlock(m, n, 1)
  /\ Len(m) <= 8 * n

LEMMA OnlyBlockEnds ==
  ASSUME NEW n \in Nat, n > 0, CipherKeeps(n), NEW c \in Ctx(n), NEW d, NEW m \in Seq(Byte), NEW t \in 0 .. 63,
         NEW block, OnlyBlock(c, d, n, m, t, block), NEW add \in Nat, add = Len(m)
  PROVE  Ended(c, Skein_Process_Block(d, block, 1, add), n, c.X, m, t)
<1>1. /\ d \in Ctx(n) /\ d.type = t /\ d.T0 = Zero /\ d.first = TRUE /\ d.final = TRUE
      /\ d.X = c.X /\ SameSaved(c, d)
  BY DEF OnlyBlock, Started
<1>2. PICK s \in Block(n) : s = c.X
  BY DEF Ctx
<1>3. PICK q \in Nat : q = 0
  OBVIOUS
<1>4. block = PaddedBlock(m, n, q + 1) /\ block \in Bytes8(n)
  BY <1>3, PaddedBlockBytes DEF OnlyBlock
<1>5. q * (8 * n) = 0
  BY <1>3
<1>6. Chain(s, m, t, q, -1) = s
  BY <1>3, ChainBlocks
<1>7. AtLast(d, n, s, m, t, q, block, add)
  BY <1>1, <1>2, <1>3, <1>4, <1>5, <1>6 DEF AtLast, OnlyBlock, Zero
<1>8. Ended(d, ProcessOne(d, block, add), n, s, m, t)
  BY <1>7, FinalBlock
<1>9. Skein_Process_Block(d, block, 1, add) = ProcessOne(d, block, add)
  BY <1>1, <1>4, ProcessSingle
<1>10. QED
  BY <1>1, <1>2, <1>8, <1>9 DEF Ended, SameSaved

LEMMA ConfigBlock ==
  ASSUME NEW n \in Nat, NEW bits \in Nat
  PROVE  Config(n, bits) \in Block(n)
<1>1. SKEIN_SCHEMA_VER \in Word
  <2>1. 0 \in Digit /\ 1 \in Digit /\ \h3341 \in Digit /\ \h4853 \in Digit
    BY DigitFacts, SMT DEF Base
  <2>2. QED
    BY <2>1, WordOfDigits DEF SKEIN_SCHEMA_VER, Hex
<1>2. QED
  BY <1>1, SmallWord, ZeroWord DEF Config, Block

\* The configuration string: 32 bytes, and zeros up to a block.
ConfigString(n) == SubSeq(ToBytes(Config(n, 64 * n)), 1, 32)

LEMMA ConfigIsPadded ==
  ASSUME NEW n \in Nat, n >= 4
  PROVE  /\ ConfigString(n) \in Seq(Byte) /\ Len(ConfigString(n)) = 32
         /\ ToBytes(Config(n, 64 * n)) = PaddedBlock(ConfigString(n), n, 1)
<1>1. PICK bits \in Nat : bits = 64 * n
  OBVIOUS
<1>2. PICK words \in Block(n) : words = Config(n, bits)
  BY ConfigBlock
<1>3. PICK bytes \in Bytes8(n) : bytes = ToBytes(words)
  BY ToBytesBytes
<1>4. bytes \in Seq(Byte) /\ Len(bytes) = 8 * n /\ 32 <= 8 * n
  BY LenOfFunction DEF Bytes8
<1>5. PICK string : string = ConfigString(n)
  OBVIOUS
<1>6. string = SubSeq(bytes, 0 + 1, 32)
  BY <1>1, <1>2, <1>3, <1>5 DEF ConfigString
<1>7. 32 \in Nat /\ 0 \in Nat /\ 0 <= 32 /\ 32 <= Len(bytes) /\ 32 - 0 = 32
  BY <1>4
<1>8. string \in Seq(Byte) /\ Len(string) = 32
  BY <1>4, <1>6, <1>7, PieceBytes
<1>9. ASSUME NEW k \in 1 .. 32 PROVE string[k] = bytes[k]
  <2>1. k \in 1 .. 32 - 0 /\ 0 + k = k
    OBVIOUS
  <2>2. SubSeq(bytes, 0 + 1, 32)[k] = bytes[0 + k]
    BY <1>4, <1>7, <2>1, PieceAt
  <2>3. QED
    BY <1>6, <2>1, <2>2
<1>10. ASSUME NEW k \in 1 .. 8 * n, k > 32 PROVE bytes[k] = 0
  <2>1. PICK w \in 1 .. n : w = ((k - 1) \div 8) + 1 /\ w > 4
    BY <1>10
  <2>2. PICK d \in 1 .. 4 : d = (((k - 1) % 8) \div 2) + 1
    OBVIOUS
  <2>3. words[w] = <<0, 0, 0, 0>>
    BY <1>2, <2>1, ZeroIs DEF Config
  <2>4. words[w][d] = 0
    BY <2>3
  <2>5. Len(words) = n
    BY LenOfFunction DEF Block
  <2>6. bytes[k] = IF k % 2 = 1 THEN words[w][d] % 256 ELSE words[w][d] \div 256
    BY <1>3, <2>1, <2>2, <2>5 DEF ToBytes
  <2>7. QED
    BY <2>4, <2>6
<1>11. bytes = [k \in 1 .. 8 * n |-> IF k <= Len(string) THEN string[k] ELSE 0]
  <2>1. ASSUME NEW k \in 1 .. 8 * n PROVE bytes[k] = IF k <= 32 THEN string[k] ELSE 0
    BY <1>9, <1>10
  <2>2. QED
    BY <1>8, <2>1 DEF Bytes8
<1>12. 8 * n * (1 - 1) = 0 /\ \A k \in 1 .. 8 * n : 0 + k = k
  OBVIOUS
<1>13. PaddedBlock(string, n, 1) = [k \in 1 .. 8 * n |-> IF k <= Len(string) THEN string[k] ELSE 0]
  BY <1>12 DEF PaddedBlock
<1>14. QED
  BY <1>1, <1>2, <1>3, <1>5, <1>8, <1>11, <1>13

\* A context that has been initialised and is to be fed: s is what its messages
\* start from.
Fresh(c, n, s) ==
  /\ c \in Ctx(n)
  /\ c.XSave = s /\ c.hashBitLen = 64 * n
  /\ Absorbed(c, n, s, <<>>, MSG)

\* Before the chaining variables are saved.
Initialised(c, n, s) ==
  /\ c \in Ctx(n)
  /\ c.X = s /\ c.hashBitLen = 64 * n
  /\ c.type = MSG /\ c.T0 = Zero /\ c.first = TRUE /\ c.final = FALSE /\ c.bCnt = 0

LEMMA SizeFacts ==
  ASSUME NEW n \in {4, 8, 16}
  PROVE  n \in Nat /\ n > 0 /\ n >= 4
OBVIOUS

\* The configuration is hashed on top of the key.
LEMMA ConfiguredEnds ==
  ASSUME NEW n \in Nat, n >= 4, n > 0, CipherKeeps(n), NEW c \in Ctx(n), NEW bits \in Nat, bits = 64 * n
  PROVE  /\ Configured(c, bits) \in Ctx(n)
         /\ Configured(c, bits).X = UBI(c.X, ConfigString(n), CFG)
         /\ Configured(c, bits).hashBitLen = bits
<1>1. c.size = n
  BY DEF Ctx
<1>2. PICK t \in 0 .. 63 : t = CFG
  BY DEF CFG
<1>3. PICK g : g = Skein_Start_New_Type(c, t, TRUE)
  OBVIOUS
<1>4. Started(c, g, n, t, TRUE)
  BY <1>3, StartCtx
<1>5. PICK d : d = [g EXCEPT !.hashBitLen = bits]
  OBVIOUS
<1>6. /\ d \in Ctx(n) /\ d.hashBitLen = bits
      /\ d.type = t /\ d.T0 = Zero /\ d.first = TRUE /\ d.final = TRUE /\ d.bCnt = 0 /\ d.X = c.X
  BY <1>4, <1>5 DEF Started, Ctx
<1>7. PICK block : block = ToBytes(Config(n, bits))
  OBVIOUS
<1>8. PICK m \in Seq(Byte) : m = ConfigString(n)
  BY ConfigIsPadded
<1>9. Len(m) = 32 /\ block = PaddedBlock(m, n, 1) /\ Len(m) <= 8 * n
  <2>1. Len(m) = 32 /\ block = PaddedBlock(m, n, 1)
    BY <1>7, <1>8, ConfigIsPadded
  <2>2. 32 <= 8 * n
    OBVIOUS
  <2>3. QED
    BY <2>1, <2>2
<1>10. Started(d, d, n, t, TRUE)
  BY <1>6 DEF Started, SameSaved
<1>11. OnlyBlock(d, d, n, m, t, block)
  BY <1>9, <1>10 DEF OnlyBlock
<1>12. PICK add \in Nat : add = 32 /\ add = Len(m)
  BY <1>9
<1>13. Ended(d, Skein_Process_Block(d, block, 1, add), n, d.X, m, t)
  BY <1>6, <1>11, <1>12, OnlyBlockEnds
<1>14. Configured(c, bits) = Skein_Process_Block(d, block, 1, add)
  BY <1>1, <1>2, <1>3, <1>5, <1>7, <1>12 DEF Configured
<1>15. QED
  BY <1>2, <1>6, <1>8, <1>13, <1>14 DEF Ended, SameSaved

LEMMA InitExtInitialises ==
  ASSUME NEW n \in Nat, n >= 4, n > 0, CipherKeeps(n), NEW c \in Ctx(n), NEW key \in Seq(Byte),
         NEW bits \in Nat, bits = 64 * n
  PROVE  Initialised(InitExt(c, bits, key), n, StartValue(key, n))
<1>1. PICK h \in Ctx(n) : h = HashKey(c, key) /\ h.X = KeyValue(key, n)
  BY HashKeyIs
<1>2. PICK d \in Ctx(n) : /\ d = Configured(h, bits)
                          /\ d.X = UBI(h.X, ConfigString(n), CFG)
                          /\ d.hashBitLen = bits
  BY ConfiguredEnds
<1>3. PICK t \in 0 .. 63 : t = MSG
  BY DEF MSG
<1>4. PICK g : g = Skein_Start_New_Type(d, t, FALSE)
  OBVIOUS
<1>5. Started(d, g, n, t, FALSE)
  BY <1>4, StartCtx
<1>6. InitExt(c, bits, key) = g
  BY <1>1, <1>2, <1>3, <1>4 DEF InitExt
<1>7. StartValue(key, n) = UBI(h.X, ConfigString(n), CFG)
  BY <1>1 DEF StartValue, KeyValue, ConfigString
<1>8. QED
  BY <1>2, <1>3, <1>5, <1>6, <1>7 DEF Initialised, Started, SameSaved

LEMMA InitialisedIsFresh ==
  ASSUME NEW n \in Nat, n > 0, NEW s, NEW c, Initialised(c, n, s), c.XSave = s
  PROVE  Fresh(c, n, s)
<1>1. PICK t \in 0 .. 63 : t = MSG
  BY DEF MSG
<1>2. /\ c \in Ctx(n) /\ c.X = s
      /\ c.type = t /\ c.T0 = Zero /\ c.first = TRUE /\ c.final = FALSE /\ c.bCnt = 0
  BY <1>1 DEF Initialised
<1>3. Absorbed(c, n, c.X, <<>>, t)
  BY <1>2, StartTakesNothing
<1>4. QED
  BY <1>1, <1>2, <1>3 DEF Fresh, Initialised

\* skeinMacInit: whatever the context was used for before.
LEMMA MacInitIsFresh ==
  ASSUME NEW n \in {4, 8, 16}, CipherKeeps(n), NEW c \in Ctx(n), NEW key \in Seq(Byte),
         NEW bits \in Nat, bits = 64 * n
  PROVE  Fresh(skeinMacInit(c, key, bits), n, StartValue(key, n))
<1>1. n \in Nat /\ n > 0 /\ n >= 4 /\ c.size = n
  BY SizeFacts DEF Ctx
<1>2. PICK d : d = InitExt(c, bits, key)
  OBVIOUS
<1>3. PICK s : s = StartValue(key, n)
  OBVIOUS
<1>4. Initialised(d, n, s)
  BY <1>1, <1>2, <1>3, InitExtInitialises
<1>5. PICK g : g = [d EXCEPT !.XSave = d.X]
  OBVIOUS
<1>6. skeinMacInit(c, key, bits) = g
  <2>1. \/ n = 4 /\ n # 8 /\ n # 16
        \/ n # 4 /\ n = 8 /\ n # 16
        \/ n # 4 /\ n # 8 /\ n = 16
    OBVIOUS
  <2>2. (CASE c.size = 4 -> InitExt(c, bits, key)
           [] c.size = 8 -> InitExt(c, bits, key)
           [] c.size = 16 -> InitExt(c, bits, key)) = d
    BY <1>1, <1>2, <2>1
  <2>3. QED
    BY <1>5, <2>2 DEF skeinMacInit, SaveX, Skein_256_InitExt, Skein_512_InitExt, Skein1024_InitExt
<1>7. Initialised(g, n, s) /\ g.XSave = s
  BY <1>4, <1>5 DEF Initialised, Ctx
<1>8. Fresh(g, n, s)
  BY <1>1, <1>7, InitialisedIsFresh
<1>9. QED
  BY <1>3, <1>6, <1>8

\* skeinReset: the same as a new initialisation.
LEMMA ResetIsFresh ==
  ASSUME NEW n \in {4, 8, 16}, NEW c \in Ctx(n), c.hashBitLen = 64 * n
  PROVE  Fresh(skeinReset(c), n, c.XSave)
<1>1. n \in Nat /\ n > 0
  BY SizeFacts
<1>2. PICK d : d = [c EXCEPT !.X = c.XSave]
  OBVIOUS
<1>3. d \in Ctx(n) /\ d.X = c.XSave /\ d.XSave = c.XSave /\ d.hashBitLen = 64 * n
  BY <1>2 DEF Ctx
<1>4. PICK t \in 0 .. 63 : t = MSG
  BY DEF MSG
<1>5. PICK g : g = Skein_Start_New_Type(d, t, FALSE)
  OBVIOUS
<1>6. Started(d, g, n, t, FALSE)
  BY <1>1, <1>3, <1>5, StartCtx
<1>7. skeinReset(c) = g
  BY <1>2, <1>4, <1>5 DEF skeinReset
<1>8. Initialised(g, n, c.XSave) /\ g.XSave = c.XSave
  BY <1>3, <1>4, <1>6 DEF Initialised, Started, SameSaved
<1>9. Fresh(g, n, c.XSave)
  BY <1>1, <1>8, InitialisedIsFresh
<1>10. QED
  BY <1>7, <1>9

-----------------------------------------------------------------------------
(* Sequences one after the other *)

\* f is the m sequences s, of length len each, one after the other.
Flattened(f, s, m, len, T) ==
  /\ f \in Seq(T) /\ Len(f) = m * len
  /\ \A a \in 1 .. m, b \in 1 .. len : f[(a - 1) * len + b] = s[a][b]

LEMMA FlattenEquation ==
  ASSUME NEW s, NEW m \in Nat, m > 0, m = Len(s)
  PROVE  \E g : /\ g = [i \in 1 .. m |-> IF i = 1 THEN s[i] ELSE g[i - 1] \o s[i]]
                /\ FlattenSeq(s) = g[m]
<1> DEFINE Is(g, k) == g = [i \in 1 .. k |-> IF i = 1 THEN s[i] ELSE g[i - 1] \o s[i]]
           S == {k \in Nat : \E g : Is(g, k)}
<1>1. 0 \in S
  <2>1. Is([i \in 1 .. 0 |-> s], 0)
    OBVIOUS
  <2>2. QED
    BY <2>1
<1>2. ASSUME NEW k \in Nat, k \in S PROVE k + 1 \in S
  <2>1. PICK g : Is(g, k)
    BY <1>2
  <2> DEFINE h == [i \in 1 .. k + 1 |->
                     IF i = k + 1 THEN (IF k + 1 = 1 THEN s[k + 1] ELSE g[k] \o s[k + 1]) ELSE g[i]]
  <2>2. ASSUME NEW i \in 1 .. k + 1
        PROVE  h[i] = IF i = 1 THEN s[i] ELSE h[i - 1] \o s[i]
    <3>1. CASE i = k + 1
      <4>1. i # 1 => h[i - 1] = g[k]
        BY <3>1
      <4>2. h[i] = IF i = 1 THEN s[i] ELSE g[k] \o s[i]
        BY <3>1
      <4> HIDE DEF h
      <4>3. QED
        BY <4>1, <4>2
    <3>2. CASE i \in 1 .. k
      <4>1. h[i] = g[i] /\ (i # 1 => h[i - 1] = g[i - 1])
        BY <3>2
      <4>2. g[i] = IF i = 1 THEN s[i] ELSE g[i - 1] \o s[i]
        BY <3>2, <2>1
      <4> HIDE DEF h
      <4>3. QED
        BY <4>1, <4>2
    <3>3. QED
      BY <3>1, <3>2
  <2>3. Is(h, k + 1)
    BY <2>2
  <2> HIDE DEF h
  <2>4. \E f : Is(f, k + 1)
    BY <2>3
  <2> HIDE DEF Is
  <2>5. QED
    BY <2>4
<1> HIDE DEF S
<1>3. m \in S
  BY <1>1, <1>2, NatInd
<1>4. \E g : Is(g, m)
  BY <1>3 DEF S
<1>5. PICK g : g = CHOOSE h : Is(h, m)
  OBVIOUS
<1>6. Is(g, m)
  BY <1>4, <1>5
<1>7. FlattenSeq(s) = g[m]
  BY <1>5 DEF FlattenSeq
<1>8. QED
  BY <1>6, <1>7

LEMMA FlattenUniform ==
  ASSUME NEW T, NEW len \in Nat, NEW m \in Nat, NEW s \in [1 .. m -> [1 .. len -> T]]
  PROVE  Flattened(FlattenSeq(s), s, m, len, T)
<1>1. Len(s) = m
  BY LenOfFunction
<1>2. CASE m = 0
  <2>1. s = <<>>
    BY <1>2
  <2>2. FlattenSeq(s) = <<>>
    BY <1>1, <1>2, <2>1 DEF FlattenSeq
  <2>3. m * len = 0 /\ Len(<<>>) = 0 /\ <<>> \in Seq(T) /\ \A a \in 1 .. m : FALSE
    BY <1>2
  <2>4. QED
    BY <2>2, <2>3 DEF Flattened
<1>3. CASE m > 0
  <2>1. PICK g : /\ g = [i \in 1 .. m |-> IF i = 1 THEN s[i] ELSE g[i - 1] \o s[i]]
                 /\ FlattenSeq(s) = g[m]
    BY <1>1, <1>3, FlattenEquation
  <2> DEFINE P(i) == 1 <= i /\ i <= m => Flattened(g[i], s, i, len, T)
             S == {i \in Nat : P(i)}
  <2>2. 0 \in S
    OBVIOUS
  <2>3. ASSUME NEW i \in Nat, P(i) PROVE P(i + 1)
    <3>1. SUFFICES ASSUME i + 1 <= m PROVE Flattened(g[i + 1], s, i + 1, len, T)
      OBVIOUS
    <3>2. PICK piece : piece = s[i + 1]
      OBVIOUS
    <3>3. piece \in [1 .. len -> T]
      BY <3>1, <3>2
    <3>4. piece \in Seq(T) /\ Len(piece) = len
      BY <3>3, LenOfFunction
    <3>5. CASE i = 0
      <4>1. g[1] = s[1]
        BY <2>1, <1>3
      <4>2. 1 * len = len /\ \A b \in 1 .. len : (1 - 1) * len + b = b
        OBVIOUS
      <4>3. i + 1 = 1
        BY <3>5
      <4>4. Flattened(g[1], s, 1, len, T)
        <5>1. g[1] = piece /\ s[1] = piece
          BY <3>2, <4>1, <4>3
        <5>2. \A a \in 1 .. 1, b \in 1 .. len : piece[(a - 1) * len + b] = s[a][b]
          BY <4>2, <5>1
        <5>3. QED
          BY <3>4, <4>2, <5>1, <5>2 DEF Flattened
      <4>5. QED
        BY <4>3, <4>4
    <3>6. CASE i > 0
      <4>1. Flattened(g[i], s, i, len, T)
        BY <2>3, <3>1, <3>6
      <4>2. PICK f \in Seq(T) : f = g[i] /\ Len(f) = i * len
        BY <4>1 DEF Flattened
      <4>3. g[i + 1] = f \o piece
        <5>1. i + 1 # 1 /\ (i + 1) - 1 = i /\ i + 1 \in 1 .. m
          BY <3>1, <3>6
        <5>2. g[i + 1] = g[(i + 1) - 1] \o s[i + 1]
          BY <2>1, <5>1
        <5>3. QED
          BY <3>2, <4>2, <5>1, <5>2
      <4>4. PICK e \in Nat : e = i * len
        OBVIOUS
      <4>5. f \o piece \in Seq(T) /\ Len(f \o piece) = e + len
        BY <3>4, <4>2, <4>4, ConcatProperties
      <4>6. (i + 1) * len = e + len
        BY <4>4
      <4>7. ASSUME NEW a \in 1 .. i + 1, NEW b \in 1 .. len
            PROVE  (f \o piece)[(a - 1) * len + b] = s[a][b]
        <5>1. CASE a = i + 1
          <6>1. (a - 1) * len + b = e + b
            BY <4>4, <5>1
          <6>2. (f \o piece)[e + b] = piece[b]
            <7>1. e + b \in 1 .. e + len /\ ~(e + b <= e) /\ (e + b) - e = b
              OBVIOUS
            <7>2. e = Len(f) /\ e + b <= Len(f) + Len(piece) /\ e + b > Len(f)
              BY <3>4, <4>2, <4>4
            <7>3. (f \o piece)[e + b] = piece[(e + b) - Len(f)]
              BY <3>4, <7>1, <7>2
            <7>4. QED
              BY <7>1, <7>2, <7>3
          <6>3. QED
            BY <3>2, <5>1, <6>1, <6>2
        <5>2. CASE a \in 1 .. i
          <6>1. PICK k \in Nat : k = (a - 1) * len + b
            OBVIOUS
          <6>2. k >= 1 /\ k <= e
            <7>1. PICK c \in Nat : c = a - 1
              OBVIOUS
            <7>2. c + 1 <= i
              BY <5>2, <7>1
            <7>3. \A x, y \in Nat : x <= y => x * len <= y * len
              OBVIOUS
            <7>4. (c + 1) * len <= i * len
              BY <7>2, <7>3
            <7>5. (c + 1) * len = c * len + len /\ c * len \in Nat
              OBVIOUS
            <7>6. QED
              BY <4>4, <6>1, <7>1, <7>4, <7>5
          <6>3. (f \o piece)[k] = f[k]
            <7>1. k \in 1 .. e + len /\ k <= Len(f)
              BY <4>2, <4>4, <6>2
            <7>2. QED
              BY <3>4, <4>2, <4>4, <7>1, ConcatProperties
          <6>4. f[k] = s[a][b]
            BY <4>1, <4>2, <5>2, <6>1 DEF Flattened
          <6>5. QED
            BY <6>1, <6>3, <6>4
        <5>3. a = i + 1 \/ a \in 1 .. i
          OBVIOUS
        <5>4. QED
          BY <5>1, <5>2, <5>3
      <4>8. QED
        BY <4>3, <4>5, <4>6, <4>7 DEF Flattened
    <3>7. QED
      BY <3>5, <3>6
  <2> HIDE DEF P
  <2>4. ASSUME NEW i \in Nat, i \in S PROVE i + 1 \in S
    BY <2>3, <2>4
  <2>5. \A i \in Nat : i \in S
    <3> HIDE DEF S
    <3>1. QED
      BY <2>2, <2>4, NatInd
  <2>6. P(m)
    BY <2>5
  <2>7. QED
    BY <1>3, <2>1, <2>6 DEF P
<1>4. QED
  BY <1>2, <1>3

-----------------------------------------------------------------------------
(* The output *)

LEMMA OneOutputBlock ==
  ASSUME NEW n \in {4, 8, 16}, NEW c \in Ctx(n), c.hashBitLen = 64 * n
  PROVE  OutputBytes(c) = 8 * n /\ OutputBlocks(c) = 1
<1>1. n \in Nat /\ BlockBytes(c) = 8 * n
  BY SizeFacts DEF Ctx, BlockBytes
<1>2. OutputBytes(c) = 8 * n
  BY DEF OutputBytes
<1>3. (8 * n + 8 * n - 1) \div (8 * n) = 1
  OBVIOUS
<1>4. QED
  BY <1>1, <1>2, <1>3 DEF OutputBlocks

LEMMA ZeroBytesAre ==
  ASSUME NEW k \in Nat
  PROVE  ZeroBytes(k) \in Seq(Byte) /\ Len(ZeroBytes(k)) = k
<1>1. 0 \in Byte
  BY ByteFacts
<1>2. ZeroBytes(k) \in [1 .. k -> Byte]
  BY <1>1 DEF ZeroBytes
<1>3. QED
  BY <1>2, LenOfFunction

\* The counter of the one block of output is the padded number 0.
LEMMA CounterIsPadded ==
  ASSUME NEW n \in {4, 8, 16}, NEW c \in Ctx(n)
  PROVE  Counter(c, 0) = PaddedBlock(ZeroBytes(8), n, 1)
<1>1. n \in Nat /\ BlockBytes(c) = 8 * n
  BY SizeFacts DEF Ctx, BlockBytes
<1>2. PICK eight \in Seq(Byte) : eight = ZeroBytes(8) /\ Len(eight) = 8
  BY ZeroBytesAre
<1>3. \A k \in 1 .. 8 : eight[k] = 0
  BY <1>2 DEF ZeroBytes
<1>4. PICK words : words = <<Small(0)>>
  OBVIOUS
<1>5. words[1] = <<0, 0, 0, 0>> /\ Len(words) = 1
  BY <1>4, ZeroIs DEF Zero
<1>6. PICK piece : piece = ToBytes(words)
  OBVIOUS
<1>7. piece = [k \in 1 .. 8 |-> 0]
  <2>1. piece = [k \in 1 .. 8 |->
                   LET digit == words[((k - 1) \div 8) + 1][(((k - 1) % 8) \div 2) + 1]
                   IN  IF k % 2 = 1 THEN digit % 256 ELSE digit \div 256]
    BY <1>5, <1>6 DEF ToBytes
  <2>2. ASSUME NEW k \in 1 .. 8
        PROVE  words[((k - 1) \div 8) + 1][(((k - 1) % 8) \div 2) + 1] = 0
    <3>1. (k - 1) \div 8 = 0
      OBVIOUS
    <3>2. PICK d \in 1 .. 4 : d = (((k - 1) % 8) \div 2) + 1
      OBVIOUS
    <3>3. words[1][d] = 0
      BY <1>5
    <3>4. QED
      BY <3>1, <3>2, <3>3
  <2>3. 0 % 256 = 0 /\ 0 \div 256 = 0
    OBVIOUS
  <2>4. QED
    BY <2>1, <2>2, <2>3
<1>8. Counter(c, 0) = [k \in 1 .. 8 * n |-> 0]
  <2>1. ZeroBytes(BlockBytes(c)) = [k \in 1 .. 8 * n |-> 0]
    BY <1>1 DEF ZeroBytes
  <2>2. \A k \in DOMAIN piece : piece[k] = 0
    BY <1>7
  <2>3. \A k \in 1 .. 8 * n : k - 0 = k
    BY <1>1
  <2>4. Overwrite([k \in 1 .. 8 * n |-> 0], 0, piece) = [k \in 1 .. 8 * n |-> 0]
    BY <2>2, <2>3 DEF Overwrite
  <2>5. QED
    BY <1>4, <1>6, <2>1, <2>4 DEF Counter
<1>9. PaddedBlock(ZeroBytes(8), n, 1) = [k \in 1 .. 8 * n |-> 0]
  <2>1. 8 * n * (1 - 1) = 0 /\ \A k \in 1 .. 8 * n : 0 + k = k
    BY <1>1
  <2>2. \A k \in 1 .. 8 * n : (IF k <= Len(eight) THEN eight[k] ELSE 0) = 0
    BY <1>1, <1>2, <1>3
  <2>3. PaddedBlock(eight, n, 1) = [k \in 1 .. 8 * n |-> IF k <= Len(eight) THEN eight[k] ELSE 0]
    BY <2>1 DEF PaddedBlock
  <2>4. QED
    BY <1>2, <2>2, <2>3
<1>10. QED
  BY <1>8, <1>9

\* The output stage after last has hashed a message.
Stage(last, n) ==
  /\ OutputStage(last) \in Ctx(n) /\ SameSaved(last, OutputStage(last))
  /\ OutputStageBytes(last) \in Bytes8(n)
  /\ OutputStageBytes(last) = ToBytes(UBI(last.X, ZeroBytes(8), OUT))

LEMMA OutputIs ==
  ASSUME NEW n \in {4, 8, 16}, CipherKeeps(n), NEW last \in Ctx(n), last.hashBitLen = 64 * n
  PROVE  Stage(last, n)
<1>1. n \in Nat /\ n > 0 /\ 8 <= 8 * n
  BY SizeFacts
<1>2. OutputBytes(last) = 8 * n /\ OutputBlocks(last) = 1
  BY OneOutputBlock
<1>3. PICK t \in 0 .. 63 : t = OUT
  BY DEF OUT
<1>4. PICK d : d = Skein_Start_New_Type(last, t, TRUE)
  OBVIOUS
<1>5. Started(last, d, n, t, TRUE)
  BY <1>1, <1>4, StartCtx
<1>6. PICK m \in Seq(Byte) : m = ZeroBytes(8) /\ Len(m) = 8
  BY ZeroBytesAre
<1>7. PICK block : block = Counter(last, 0)
  OBVIOUS
<1>8. block = PaddedBlock(m, n, 1) /\ Len(m) <= 8 * n
  BY <1>1, <1>6, <1>7, CounterIsPadded
<1>9. block \in Bytes8(n)
  BY <1>1, <1>8, PaddedBlockBytes
<1>10. OnlyBlock(last, d, n, m, t, block)
  BY <1>5, <1>8 DEF OnlyBlock
<1>11. PICK add \in Nat : add = 8 /\ add = Len(m)
  BY <1>6
<1>12. PICK g : g = Skein_Process_Block(d, block, 1, add)
  OBVIOUS
<1>13. Ended(last, g, n, last.X, m, t)
  BY <1>1, <1>10, <1>11, <1>12, OnlyBlockEnds
<1>14. OutputBlock(last, 0) = g
  BY <1>3, <1>4, <1>7, <1>11, <1>12 DEF OutputBlock
<1>15. g \in Ctx(n) /\ g.X \in Block(n) /\ g.X = UBI(last.X, m, t) /\ SameSaved(last, g)
  BY <1>13 DEF Ended, Ctx
<1>16. OutputStage(last) = [g EXCEPT !.X = last.X, !.b = block]
  <2>1. OutputBlocks(last) - 1 = 0
    BY <1>2
  <2>2. OutputBlock(last, OutputBlocks(last) - 1) = g
    BY <1>14, <2>1
  <2>3. Counter(last, OutputBlocks(last) - 1) = block
    BY <1>7, <2>1
  <2>4. QED
    BY <2>2, <2>3 DEF OutputStage
<1>17. OutputStage(last) \in Ctx(n) /\ SameSaved(g, OutputStage(last))
  <2>1. last.X \in Block(n)
    BY DEF Ctx
  <2>2. QED
    BY <1>9, <1>15, <1>16, <2>1 DEF Ctx, SameSaved
<1>18. PICK bytes \in Bytes8(n) : bytes = ToBytes(g.X)
  BY <1>1, <1>15, ToBytesBytes
<1>19. PICK s : s = [i \in 1 .. OutputBlocks(last) |-> ToBytes(OutputBlock(last, i - 1).X)]
  OBVIOUS
<1>20. s = [i \in 1 .. 1 |-> bytes]
  <2>1. \A i \in 1 .. 1 : i - 1 = 0
    OBVIOUS
  <2>2. QED
    BY <1>2, <1>14, <1>18, <1>19, <2>1
<1>21. PICK len \in Nat : len = 8 * n
  BY <1>1
<1>22. bytes \in [1 .. len -> Byte]
  BY <1>21 DEF Bytes8
<1>23. PICK one \in Nat : one = 1
  OBVIOUS
<1>24. s \in [1 .. one -> [1 .. len -> Byte]]
  BY <1>20, <1>22, <1>23
<1>25. Flattened(FlattenSeq(s), s, one, len, Byte)
  BY <1>24, FlattenUniform
<1>26. PICK f \in Seq(Byte) : f = FlattenSeq(s) /\ Len(f) = len
  BY <1>23, <1>25 DEF Flattened
<1>27. ASSUME NEW b \in 1 .. len PROVE f[b] = bytes[b]
  <2>1. f[(1 - 1) * len + b] = s[1][b]
    BY <1>23, <1>25, <1>26 DEF Flattened
  <2>2. (1 - 1) * len + b = b /\ s[1] = bytes
    BY <1>20
  <2>3. QED
    BY <2>1, <2>2
<1>28. f = bytes
  <2>1. f \in [1 .. len -> Byte]
    BY <1>26, LenProperties
  <2>2. QED
    BY <1>22, <1>27, <2>1
<1>29. SubSeq(f, 1, len) = f
  BY <1>26, SubSeqFull
<1>30. OutputStageBytes(last) = bytes
  BY <1>2, <1>19, <1>21, <1>26, <1>28, <1>29 DEF OutputStageBytes
<1>31. QED
  BY <1>3, <1>6, <1>15, <1>17, <1>18, <1>30 DEF Stage, SameSaved

\* f is the context after Final, d the digest.
Finished(c, f, d, n, s, m) ==
  /\ f \in Ctx(n) /\ SameSaved(c, f)
  /\ d \in Bytes8(n)
  /\ d = ToBytes(UBI(UBI(s, m, MSG), ZeroBytes(8), OUT))

LEMMA FinalFinishes ==
  ASSUME NEW n \in {4, 8, 16}, CipherKeeps(n), NEW s \in Block(n), NEW m \in Seq(Byte),
         NEW c, Absorbed(c, n, s, m, MSG), c.hashBitLen = 64 * n
  PROVE  Finished(c, Final(c), Digest(c), n, s, m)
<1>1. n \in Nat /\ n > 0
  BY SizeFacts
<1>2. PICK t \in 0 .. 63 : t = MSG
  BY DEF MSG
<1>3. PICK last : last = LastBlock(c)
  OBVIOUS
<1>4. Ended(c, last, n, s, m, t)
  BY <1>1, <1>2, <1>3, LastBlockEnds
<1>5. last \in Ctx(n) /\ last.hashBitLen = 64 * n /\ last.X = UBI(s, m, MSG) /\ SameSaved(c, last)
  BY <1>2, <1>4 DEF Ended, SameSaved
<1>6. Stage(last, n)
  BY <1>5, OutputIs
<1>7. Final(c) = OutputStage(last) /\ Digest(c) = OutputStageBytes(last)
  BY <1>3 DEF Final, Digest
<1>8. QED
  BY <1>5, <1>6, <1>7 DEF Finished, Stage, SameSaved

-----------------------------------------------------------------------------
(* The calls of skeinApi *)

LEMMA CtxSize == ASSUME NEW n, NEW c \in Ctx(n) PROVE c.size = n
BY DEF Ctx

\* The block sizes are handled alike.
LEMMA OneUpdate ==
  ASSUME NEW n \in {4, 8, 16}, NEW c \in Ctx(n), NEW msg
  PROVE  skeinUpdate(c, msg) = Update(c, msg)
BY CtxSize DEF skeinUpdate, Skein_256_Update, Skein_512_Update, Skein1024_Update

LEMMA OneFinal ==
  ASSUME NEW n \in {4, 8, 16}, NEW c \in Ctx(n)
  PROVE  skeinFinal(c) = Final(c)
BY CtxSize DEF skeinFinal, Skein_256_Final, Skein_512_Final, Skein1024_Final

LEMMA PreparedCtx ==
  ASSUME NEW n \in {4, 8, 16}
  PROVE  skeinCtxPrepare(n) \in Ctx(n)
<1>1. ZeroBytes(8 * n) \in Bytes8(n)
  BY ByteFacts DEF ZeroBytes, Bytes8
<1>2. QED
  BY <1>1, ZeroWord, ZeroBlockBlock, SizeFacts DEF skeinCtxPrepare, Ctx

LEMMA AbsorbedCtx ==
  ASSUME NEW c, NEW n, NEW s, NEW m, NEW t, Absorbed(c, n, s, m, t)
  PROVE  c \in Ctx(n)
BY DEF Absorbed, Taken, Chained

\* c has been initialised with a key and fed m, in whatever pieces.
Macing(c, n, key, m) ==
  /\ Absorbed(c, n, StartValue(key, n), m, MSG)
  /\ StartValue(key, n) \in Block(n)
  /\ c.hashBitLen = 64 * n

LEMMA MacStarts ==
  ASSUME NEW n \in {4, 8, 16}, CipherKeeps(n), NEW c \in Ctx(n), NEW key \in Seq(Byte),
         NEW bits \in Nat, bits = 64 * n
  PROVE  Macing(skeinMacInit(c, key, bits), n, key, <<>>)
<1>1. PICK d : d = skeinMacInit(c, key, bits)
  OBVIOUS
<1>2. Fresh(d, n, StartValue(key, n))
  BY <1>1, MacInitIsFresh
<1>3. QED
  BY <1>1, <1>2 DEF Fresh, Macing, Ctx

LEMMA MacFeeds ==
  ASSUME NEW n \in {4, 8, 16}, CipherKeeps(n), NEW key, NEW m \in Seq(Byte), NEW mm \in Seq(Byte),
         NEW msg \in Seq(Byte), Extends(mm, m, msg), NEW c, Macing(c, n, key, m)
  PROVE  Macing(skeinUpdate(c, msg), n, key, mm)
<1>1. n \in Nat /\ n > 0 /\ c \in Ctx(n)
  BY SizeFacts, AbsorbedCtx DEF Macing
<1>2. PICK s \in Block(n) : s = StartValue(key, n)
  BY DEF Macing
<1>3. PICK t \in 0 .. 63 : t = MSG
  BY DEF MSG
<1>4. Absorbed(c, n, s, m, t)
  BY <1>2, <1>3 DEF Macing
<1>5. Absorbed(Update(c, msg), n, s, mm, t) /\ SameSaved(c, Update(c, msg))
  BY <1>1, <1>4, UpdateAbsorbs
<1>6. skeinUpdate(c, msg) = Update(c, msg)
  BY <1>1, OneUpdate
<1>7. QED
  BY <1>2, <1>3, <1>5, <1>6 DEF Macing, SameSaved

LEMMA MacEnds ==
  ASSUME NEW n \in {4, 8, 16}, CipherKeeps(n), NEW key, NEW m \in Seq(Byte),
         NEW c, Macing(c, n, key, m)
  PROVE  Digest(c) \in Bytes8(n) /\ Digest(c) = SkeinOf(key, m, n)
<1>1. PICK s \in Block(n) : s = StartValue(key, n)
  BY DEF Macing
<1>2. Absorbed(c, n, s, m, MSG) /\ c.hashBitLen = 64 * n
  BY <1>1 DEF Macing
<1>3. Finished(c, Final(c), Digest(c), n, s, m)
  BY <1>2, FinalFinishes
<1>4. QED
  BY <1>1, <1>3 DEF Finished, SkeinOf
===============================================================================
