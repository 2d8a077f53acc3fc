----------------------------- MODULE ScryptProofs ------------------------------
(***************************************************************************)
(* kdf_scrypt mixes each lane by itself and derives the whole key from the *)
(* password and the lanes, for every password, every salt and all          *)
(* parameters, with any cipher that makes blocks of blocks.                *)
(***************************************************************************)
EXTENDS Scrypt, SkeinProofs

-----------------------------------------------------------------------------
(* Salsa20/8 and BlockMix keep words of 32 bits *)

SalsaBlock == [1 .. 16 -> Word32]

LEMMA Word32Digits == \A x \in Word32 : x[1] \in Digit /\ x[2] \in Digit
BY DEF Word32

LEMMA Word32Of ==
  ASSUME NEW a \in Digit, NEW b \in Digit
  PROVE  <<a, b>> \in Word32
BY DEF Word32

LEMMA ModDigit == \A n \in Nat : n % Base \in Digit
BY SMTT(30) DEF Base, Digit

LEMMA Add32Word ==
  ASSUME NEW x \in Word32, NEW y \in Word32
  PROVE  Add32(x, y) \in Word32
<1>1. x[1] \in Nat /\ x[2] \in Nat /\ y[1] \in Nat /\ y[2] \in Nat
  BY Word32Digits, DigitNat
<1>2. PICK low \in Nat : low = x[1] + y[1]
  BY <1>1
<1>3. PICK high \in Nat : high = x[2] + y[2] + (low \div Base)
  BY <1>1, BaseFacts
<1>4. Add32(x, y) = <<low % Base, high % Base>>
  BY <1>2, <1>3 DEF Add32
<1>5. QED
  BY <1>4, ModDigit, Word32Of

LEMMA Xor32Word ==
  ASSUME NEW x \in Word32, NEW y \in Word32
  PROVE  Xor32(x, y) \in Word32
BY XorDigitDigit, Word32Digits, Word32Of DEF Xor32

LEMMA UpAndDown ==
  \A b \in {7, 9, 13, 18} :
    \E down \in Nat : Pow2[b % 16] \in Nat /\ Pow2[b % 16] > 0 /\ down > 0 /\ Pow2[b % 16] * down = Base
<1>1. Pow2[7] = 128 /\ Pow2[9] = 512 /\ Pow2[13] = 8192 /\ Pow2[2] = 4
  BY DEF Pow2
<1>2. 7 % 16 = 7 /\ 9 % 16 = 9 /\ 13 % 16 = 13 /\ 18 % 16 = 2
  OBVIOUS
<1>3. 128 * 512 = Base /\ 512 * 128 = Base /\ 8192 * 8 = Base /\ 4 * 16384 = Base
  BY SMT DEF Base
<1>4. QED
  BY <1>1, <1>2, <1>3

LEMMA RWord ==
  ASSUME NEW a \in Word32, NEW b \in {7, 9, 13, 18}
  PROVE  R(a, b) \in Word32
<1>1. PICK up \in Nat, down \in Nat : up = Pow2[b % 16] /\ up > 0 /\ down > 0 /\ up * down = Base
  BY UpAndDown
<1>2. PICK low \in Word32 : low = IF b < 16 THEN a ELSE <<a[2], a[1]>>
  BY Word32Digits, Word32Of
<1>3. low[1] \in Digit /\ low[2] \in Digit
  BY <1>2, Word32Digits
<1>4. ((low[1] * up) % Base) + ((low[2] * up) \div Base) \in Digit
  BY <1>1, <1>3, ShiftedDigit
<1>5. ((low[2] * up) % Base) + ((low[1] * up) \div Base) \in Digit
  BY <1>1, <1>3, ShiftedDigit
<1>6. R(a, b) = <<((low[1] * up) % Base) + ((low[2] * up) \div Base),
                  ((low[2] * up) % Base) + ((low[1] * up) \div Base)>>
  BY <1>1, <1>2 DEF R
<1>7. QED
  BY <1>4, <1>5, <1>6, Word32Of

LEMMA QuarterBlock ==
  ASSUME NEW x \in SalsaBlock, NEW q \in [1 .. 4 -> 1 .. 16]
  PROVE  Quarter(x, q) \in SalsaBlock
<1>1. q[1] \in 1 .. 16 /\ q[2] \in 1 .. 16 /\ q[3] \in 1 .. 16 /\ q[4] \in 1 .. 16
  OBVIOUS
<1>2. x[q[1]] \in Word32 /\ x[q[2]] \in Word32 /\ x[q[3]] \in Word32 /\ x[q[4]] \in Word32
  BY <1>1 DEF SalsaBlock
<1>3. PICK y2 \in Word32 : y2 = Xor32(x[q[2]], R(Add32(x[q[1]], x[q[4]]), 7))
  BY <1>2, Add32Word, RWord, Xor32Word
<1>4. PICK y3 \in Word32 : y3 = Xor32(x[q[3]], R(Add32(y2, x[q[1]]), 9))
  BY <1>2, Add32Word, RWord, Xor32Word
<1>5. PICK y4 \in Word32 : y4 = Xor32(x[q[4]], R(Add32(y3, y2), 13))
  BY <1>2, Add32Word, RWord, Xor32Word
<1>6. PICK y1 \in Word32 : y1 = Xor32(x[q[1]], R(Add32(y4, y3), 18))
  BY <1>2, Add32Word, RWord, Xor32Word
<1>7. Quarter(x, q) = [x EXCEPT ![q[1]] = y1, ![q[2]] = y2, ![q[3]] = y3, ![q[4]] = y4]
  BY <1>3, <1>4, <1>5, <1>6 DEF Quarter
<1>8. QED
  BY <1>1, <1>7 DEF SalsaBlock

LEMMA QuartersOfRound == \A k \in 1 .. 8 : DoubleRound[k] \in [1 .. 4 -> 1 .. 16]
BY DEF DoubleRound

LEMMA RoundsBlock ==
  ASSUME NEW x \in SalsaBlock
  PROVE  Rounds(x) \in SalsaBlock
<1> DEFINE Step(y, k) == Quarter(y, DoubleRound[((k - 1) % 8) + 1])
           g == [k \in 1 .. 32 |-> [y \in SalsaBlock |-> Step(y, k)]]
           Is(f) == f = [k \in 0 .. 32 |-> IF k = 0 THEN x ELSE Step(f[k - 1], k)]
<1>1. ASSUME NEW y \in SalsaBlock, NEW k \in 1 .. 32 PROVE Step(y, k) \in SalsaBlock
  <2>1. ((k - 1) % 8) + 1 \in 1 .. 8
    OBVIOUS
  <2>2. QED
    BY <2>1, QuartersOfRound, QuarterBlock
<1>2. Rounds(x) = (CHOOSE f : Is(f))[32]
  BY DEF Rounds
<1> HIDE DEF Step
<1>3. g \in [1 .. 32 -> [SalsaBlock -> SalsaBlock]]
  BY <1>1
<1>4. PICK n \in Nat : n = 32
  OBVIOUS
<1>5. PICK f : Recurs(f, n, x, g) /\ Within(f, n, SalsaBlock)
  BY <1>3, <1>4, Recursion
<1>6. \E h : Is(h)
  <2>1. \A k \in 1 .. 32 : f[k - 1] \in SalsaBlock
    BY <1>4, <1>5 DEF Within
  <2>2. f = [k \in 0 .. 32 |-> IF k = 0 THEN x ELSE g[k][f[k - 1]]]
    BY <1>4, <1>5 DEF Recurs
  <2>3. \A k \in 1 .. 32 : g[k][f[k - 1]] = Step(f[k - 1], k)
    BY <2>1
  <2> HIDE DEF g
  <2>4. Is(f)
    BY <2>2, <2>3
  <2>5. QED
    BY <2>4
<1>7. PICK h : h = CHOOSE f1 : Is(f1)
  OBVIOUS
<1>8. Is(h)
  BY <1>6, <1>7
<1>9. h[0] \in SalsaBlock /\ \A k \in 1 .. n : h[k - 1] \in SalsaBlock => h[k] \in SalsaBlock
  BY <1>1, <1>4, <1>8
<1>10. Within(h, n, SalsaBlock)
  BY <1>9, StaysWithin
<1>11. QED
  BY <1>2, <1>4, <1>7, <1>10 DEF Within

LEMMA SalsaIsBlock ==
  ASSUME NEW x \in SalsaBlock
  PROVE  salsa20_8(x) \in SalsaBlock
<1>1. PICK y \in SalsaBlock : y = Rounds(x)
  BY RoundsBlock
<1>2. salsa20_8(x) = [w \in 1 .. 16 |-> Add32(x[w], y[w])]
  BY <1>1 DEF salsa20_8
<1>3. QED
  BY <1>2, Add32Word DEF SalsaBlock

LEMMA XorIsBlock ==
  ASSUME NEW x \in SalsaBlock, NEW y \in SalsaBlock
  PROVE  blkxor(x, y) \in SalsaBlock
BY Xor32Word DEF SalsaBlock, blkxor

LEMMA LaneIs == \A r \in Nat : Lane(r) = [1 .. 2 * r -> SalsaBlock]
BY DEF Lane, SalsaBlock

LEMMA XorLaneLane ==
  ASSUME NEW r \in Nat, NEW x \in Lane(r), NEW y \in Lane(r)
  PROVE  XorLane(x, y) \in Lane(r)
BY LaneIs, XorIsBlock DEF XorLane

LEMMA MixLane ==
  ASSUME NEW r \in Nat \ {0}, NEW x \in Lane(r)
  PROVE  blockmix_salsa8(x, r) \in Lane(r)
<1>1. PICK n \in Nat : n = 2 * r /\ n > 0
  OBVIOUS
<1>2. x \in [1 .. n -> SalsaBlock] /\ Lane(r) = [1 .. n -> SalsaBlock]
  BY <1>1, LaneIs
<1> DEFINE Step(y, b) == salsa20_8(blkxor(y, x[b]))
           g == [b \in 1 .. n |-> [y \in SalsaBlock |-> Step(y, b)]]
           Is(f) == f = [b \in 0 .. n |-> IF b = 0 THEN x[n] ELSE Step(f[b - 1], b)]
<1>3. ASSUME NEW y \in SalsaBlock, NEW b \in 1 .. n PROVE Step(y, b) \in SalsaBlock
  <2>1. x[b] \in SalsaBlock
    BY <1>2
  <2>2. QED
    BY <2>1, XorIsBlock, SalsaIsBlock
<1>4. PICK h : h = CHOOSE f : Is(f)
  OBVIOUS
<1>5. blockmix_salsa8(x, r) = [b \in 1 .. n |-> h[IF b <= r THEN 2 * b - 1 ELSE 2 * (b - r)]]
  BY <1>1, <1>4 DEF blockmix_salsa8
<1> HIDE DEF Step
<1>6. g \in [1 .. n -> [SalsaBlock -> SalsaBlock]] /\ x[n] \in SalsaBlock
  BY <1>1, <1>2, <1>3
<1>7. PICK base \in SalsaBlock : base = x[n]
  BY <1>6
<1>8. PICK f : Recurs(f, n, base, g) /\ Within(f, n, SalsaBlock)
  BY <1>6, <1>7, Recursion
<1>9. \E f1 : Is(f1)
  <2>1. \A k \in 1 .. n : f[k - 1] \in SalsaBlock
    BY <1>8 DEF Within
  <2>2. f = [k \in 0 .. n |-> IF k = 0 THEN x[n] ELSE g[k][f[k - 1]]]
    BY <1>7, <1>8 DEF Recurs
  <2>3. \A k \in 1 .. n : g[k][f[k - 1]] = Step(f[k - 1], k)
    BY <2>1
  <2> HIDE DEF g
  <2>4. Is(f)
    BY <2>2, <2>3
  <2>5. QED
    BY <2>4
<1>10. Is(h)
  BY <1>4, <1>9
<1>11. h[0] \in SalsaBlock /\ \A k \in 1 .. n : h[k - 1] \in SalsaBlock => h[k] \in SalsaBlock
  BY <1>3, <1>6, <1>10
<1>12. Within(h, n, SalsaBlock)
  BY <1>11, StaysWithin
<1>13. \A b \in 1 .. n : h[IF b <= r THEN 2 * b - 1 ELSE 2 * (b - r)] \in SalsaBlock
  <2>1. \A b \in 1 .. n : (IF b <= r THEN 2 * b - 1 ELSE 2 * (b - r)) \in 0 .. n
    BY <1>1
  <2>2. QED
    BY <1>12, <2>1 DEF Within
<1>14. QED
  BY <1>2, <1>5, <1>13

-----------------------------------------------------------------------------
(* ROMix *)

\* The recursion by which Iterated is defined has a solution, and one only.
LEMMA IteratedOnce ==
  ASSUME NEW f, NEW x, NEW j \in Nat
  PROVE  /\ Iterated(f, x, 0) = x
         /\ Iterated(f, x, j + 1) = f[Iterated(f, x, j)]
<1> DEFINE Is(g, k) == g = [a \in 0 .. k |-> IF a = 0 THEN x ELSE f[g[a - 1]]]
           F(k) == CHOOSE g : Is(g, k)
           S == {k \in Nat : \E g : Is(g, k)}
           U == {a \in Nat : \A k \in Nat : a <= k => F(a)[a] = F(k)[a]}
<1>1. \A k \in Nat : Iterated(f, x, k) = F(k)[k]
  BY DEF Iterated
<1>3. 0 \in S
  <2>1. Is([a \in 0 .. 0 |-> x], 0)
    OBVIOUS
  <2>2. QED
    BY <2>1
<1>4. ASSUME NEW k \in Nat, k \in S PROVE k + 1 \in S
  <2>1. PICK g : Is(g, k)
    BY <1>4
  <2> DEFINE h == [a \in 0 .. k + 1 |-> IF a = k + 1 THEN f[g[k]] ELSE g[a]]
  <2>2. ASSUME NEW a \in 0 .. k + 1
        PROVE  h[a] = IF a = 0 THEN x ELSE f[h[a - 1]]
    <3>1. CASE a = k + 1
      BY <3>1
    <3>2. CASE a \in 0 .. k
      <4>1. h[a] = g[a] /\ (a # 0 => h[a - 1] = g[a - 1])
        BY <3>2
      <4>2. g[a] = IF a = 0 THEN x ELSE f[g[a - 1]]
        BY <3>2, <2>1
      <4> HIDE DEF h
      <4>3. QED
        BY <4>1, <4>2
    <3>3. QED
      BY <3>1, <3>2
  <2>3. Is(h, k + 1)
    BY <2>2
  <2> HIDE DEF h
  <2>4. QED
    BY <2>3
<1> HIDE DEF S
<1>5. \A k \in Nat : k \in S
  BY <1>3, <1>4, NatInd
<1>6. \A k \in Nat : Is(F(k), k)
  BY <1>5 DEF S
<1> HIDE DEF F
<1>7. 0 \in U
  BY <1>6
<1>8. ASSUME NEW a \in Nat, a \in U PROVE a + 1 \in U
  <2>1. SUFFICES ASSUME NEW k \in Nat, a + 1 <= k PROVE F(a + 1)[a + 1] = F(k)[a + 1]
    OBVIOUS
  <2>2. F(a)[a] = F(k)[a] /\ F(a)[a] = F(a + 1)[a]
    BY <1>8, <2>1
  <2>3. F(k)[a + 1] = f[F(k)[a]] /\ F(a + 1)[a + 1] = f[F(a + 1)[a]]
    BY <1>6, <2>1
  <2>4. QED
    BY <2>2, <2>3
<1> HIDE DEF U
<1>9. \A a \in Nat : a \in U
  BY <1>7, <1>8, NatInd
<1>10. F(j + 1)[j + 1] = f[F(j)[j]]
  <2>1. F(j)[j] = F(j + 1)[j]
    BY <1>9 DEF U
  <2>2. F(j + 1)[j + 1] = f[F(j + 1)[j]]
    BY <1>6
  <2>3. QED
    BY <2>1, <2>2
<1>11. F(0)[0] = x
  BY <1>6
<1>12. QED
  BY <1>1, <1>10, <1>11

LEMMA IteratedWithin ==
  ASSUME NEW T, NEW f \in [T -> T], NEW x \in T, NEW j \in Nat
  PROVE  Iterated(f, x, j) \in T
<1> DEFINE S == {k \in Nat : Iterated(f, x, k) \in T}
<1>1. 0 \in S
  BY IteratedOnce
<1>2. ASSUME NEW k \in Nat, k \in S PROVE k + 1 \in S
  <2>1. Iterated(f, x, k + 1) = f[Iterated(f, x, k)]
    BY IteratedOnce
  <2>2. QED
    BY <1>2, <2>1
<1> HIDE DEF S
<1>3. \A k \in Nat : k \in S
  BY <1>1, <1>2, NatInd
<1>4. QED
  BY <1>3 DEF S

LEMMA MixedOnce ==
  ASSUME NEW r \in Nat \ {0}, NEW x \in Lane(r), NEW k \in Nat
  PROVE  /\ Mixed(x, r, k) \in Lane(r)
         /\ Mixed(x, r, 0) = x
         /\ Mixed(x, r, k + 1) = blockmix_salsa8(Mixed(x, r, k), r)
<1>1. PICK T : T = Lane(r)
  OBVIOUS
<1>2. PICK f : f = [y \in T |-> blockmix_salsa8(y, r)]
  OBVIOUS
<1>3. f \in [T -> T]
  BY <1>1, <1>2, MixLane
<1>4. \A j \in Nat : Mixed(x, r, j) = Iterated(f, x, j)
  BY <1>1, <1>2 DEF Mixed
<1>5. PICK y \in T : y = Iterated(f, x, k)
  BY <1>1, <1>3, IteratedWithin
<1>6. Iterated(f, x, k + 1) = f[y] /\ Iterated(f, x, 0) = x
  BY <1>5, IteratedOnce
<1>7. f[y] = blockmix_salsa8(y, r)
  BY <1>2
<1>8. QED
  BY <1>1, <1>4, <1>5, <1>6, <1>7

\* The second loop of smix, on element k of the table V.
Loop(x, N, r) ==
  [y \in Lane(r) |-> blockmix_salsa8(XorLane(y, Mixed(x, r, integerify(y, r) % N)), r)]

\* Where X is when the second loop has run k times.
Turned(x, N, r, k) == Iterated(Loop(x, N, r), Mixed(x, r, N), k)

LEMMA IntegerNat ==
  ASSUME NEW r \in Nat \ {0}, NEW x \in Lane(r)
  PROVE  integerify(x, r) \in Nat
<1>1. x \in [1 .. 2 * r -> SalsaBlock] /\ 2 * r \in 1 .. 2 * r /\ 1 \in 1 .. 16
  BY LaneIs
<1>2. x[2 * r][1] \in Word32
  BY <1>1 DEF SalsaBlock
<1>3. QED
  BY <1>2, Word32Digits, DigitNat DEF integerify

LEMMA LoopLane ==
  ASSUME NEW r \in Nat \ {0}, NEW x \in Lane(r), NEW N \in Nat \ {0}
  PROVE  Loop(x, N, r) \in [Lane(r) -> Lane(r)]
<1>1. ASSUME NEW y \in Lane(r)
      PROVE  blockmix_salsa8(XorLane(y, Mixed(x, r, integerify(y, r) % N)), r) \in Lane(r)
  <2>1. PICK n \in Nat : n = integerify(y, r) % N
    BY IntegerNat
  <2>2. Mixed(x, r, n) \in Lane(r)
    BY MixedOnce
  <2>3. XorLane(y, Mixed(x, r, n)) \in Lane(r)
    BY <2>2, XorLaneLane
  <2>4. QED
    BY <2>1, <2>3, MixLane
<1>2. QED
  BY <1>1 DEF Loop

LEMMA TurnedOnce ==
  ASSUME NEW r \in Nat \ {0}, NEW x \in Lane(r), NEW N \in Nat \ {0}, NEW k \in Nat
  PROVE  /\ Turned(x, N, r, k) \in Lane(r)
         /\ Turned(x, N, r, 0) = Mixed(x, r, N)
         /\ Turned(x, N, r, k + 1) = Loop(x, N, r)[Turned(x, N, r, k)]
         /\ ROMix(x, N, r) = Turned(x, N, r, N)
<1>1. PICK f : f = Loop(x, N, r)
  OBVIOUS
<1>2. PICK T : T = Lane(r)
  OBVIOUS
<1>3. f \in [T -> T]
  BY <1>1, <1>2, LoopLane
<1>4. PICK y \in T : y = Mixed(x, r, N)
  BY <1>2, MixedOnce
<1>5. \A j \in Nat : Turned(x, N, r, j) = Iterated(f, y, j)
  BY <1>1, <1>4 DEF Turned
<1>6. Iterated(f, y, k) \in T
  BY <1>3, IteratedWithin
<1>7. Iterated(f, y, 0) = y /\ Iterated(f, y, k + 1) = f[Iterated(f, y, k)]
  BY IteratedOnce
<1>8. ROMix(x, N, r) = Turned(x, N, r, N)
  BY DEF ROMix, Turned, Loop
<1>9. QED
  BY <1>1, <1>2, <1>4, <1>5, <1>6, <1>7, <1>8

-----------------------------------------------------------------------------
(* PBKDF2 *)

LEMMA Counter32Bytes == \A k \in Nat : be32enc(k) \in Seq(Byte) /\ Len(be32enc(k)) = 4
<1>1. ASSUME NEW k \in Nat PROVE be32enc(k) \in Seq(Byte) /\ Len(be32enc(k)) = 4
  <2>1. PICK a \in Nat, b \in Nat, c \in Nat :
          a = k \div 16777216 /\ b = k \div Base /\ c = k \div 256
    BY SMT DEF Base
  <2>2. \A d \in Nat : d % 256 \in Byte
    BY SMT DEF Byte
  <2>3. PICK u \in Byte, v \in Byte, w \in Byte, x \in Byte :
          u = a % 256 /\ v = b % 256 /\ w = c % 256 /\ x = k % 256
    BY <2>2
  <2>4. be32enc(k) = <<u, v, w, x>>
    BY <2>1, <2>3 DEF be32enc
  <2>5. QED
    BY <2>4
<1>2. QED
  BY <1>1

\* The state after the password and the salt.
LEMMA PbkdfState ==
  ASSUME CipherKeeps(8), NEW passwd \in Seq(Byte), NEW salt \in Seq(Byte)
  PROVE  Macing(PbkdfInit(passwd, salt), 8, passwd, salt)
<1>1. PICK n \in {4, 8, 16} : n = 8
  OBVIOUS
<1>2. CipherKeeps(n)
  BY <1>1
<1>3. PICK bits \in Nat : bits = 512 /\ bits = 64 * n
  <2>1. 64 * 8 = 512
    OBVIOUS
  <2>2. QED
    BY <1>1, <2>1
<1>4. PICK c \in Ctx(n) : c = skeinCtxPrepare(n)
  BY PreparedCtx
<1>5. PICK d : d = skeinMacInit(c, passwd, bits)
  OBVIOUS
<1>6. Macing(d, n, passwd, <<>>)
  BY <1>2, <1>3, <1>5, MacStarts
<1>7. PICK none \in Seq(Byte) : none = <<>>
  BY EmptySeq
<1>8. Extends(salt, none, salt)
  BY <1>7, ExtendsNothing
<1>9. Macing(skeinUpdate(d, salt), n, passwd, salt)
  BY <1>2, <1>6, <1>7, <1>8, MacFeeds
<1>10. PbkdfInit(passwd, salt) = skeinUpdate(d, salt)
  BY <1>1, <1>3, <1>4, <1>5 DEF PbkdfInit
<1>11. QED
  BY <1>1, <1>9, <1>10

LEMMA ConcatExtends ==
  ASSUME NEW m \in Seq(Byte), NEW msg \in Seq(Byte)
  PROVE  m \o msg \in Seq(Byte) /\ Extends(m \o msg, m, msg)
<1>1. PICK mm \in Seq(Byte) : mm = m \o msg
  BY ConcatProperties
<1>2. Len(mm) = Len(m) + Len(msg)
  BY <1>1, ConcatProperties
<1>3. \A k \in 1 .. Len(m) : m[k] = mm[0 + k]
  BY <1>1
<1>4. \A k \in 1 .. Len(msg) : msg[k] = mm[Len(m) + k]
  BY <1>1
<1>5. QED
  BY <1>1, <1>2, <1>3, <1>4 DEF Extends, Agrees

\* What PBKDF2_SKEIN512 takes as the k-th block: the first half of the MAC of salt
\* and counter under the password.
Part == [1 .. 32 -> Byte]
IsPart(part, passwd, salt, k) ==
  part \in Part /\ part = SubSeq(SkeinOf(passwd, salt \o be32enc(k), 8), 1, 32)

LEMMA PbkdfBlockIs ==
  ASSUME CipherKeeps(8), NEW passwd \in Seq(Byte), NEW salt \in Seq(Byte), NEW k \in Nat,
         NEW c, Macing(c, 8, passwd, salt)
  PROVE  IsPart(PbkdfBlock(c, k), passwd, salt, k)
<1>1. PICK n \in {4, 8, 16} : n = 8
  OBVIOUS
<1>2. CipherKeeps(n) /\ Macing(c, n, passwd, salt)
  BY <1>1
<1>3. PICK count \in Seq(Byte) : count = be32enc(k)
  BY Counter32Bytes
<1>4. PICK mm \in Seq(Byte) : mm = salt \o count /\ Extends(mm, salt, count)
  BY ConcatExtends
<1>5. PICK d : d = skeinUpdate(c, count)
  OBVIOUS
<1>6. Macing(d, n, passwd, mm)
  BY <1>2, <1>4, <1>5, MacFeeds
<1>7. PICK digest \in Bytes8(n) : digest = Digest(d) /\ digest = SkeinOf(passwd, mm, n)
  BY <1>2, <1>6, MacEnds
<1>8. digest \in [1 .. 64 -> Byte]
  BY <1>1, <1>7 DEF Bytes8
<1>9. SubSeq(digest, 1, 32) \in Part
  <2>1. ASSUME NEW j \in 1 .. 32 PROVE digest[j] \in Byte
    <3>1. j \in 1 .. 64
      OBVIOUS
    <3>2. QED
      BY <1>8, <3>1
  <2>2. 1 \in Int /\ 32 \in Int
    OBVIOUS
  <2>3. SubSeq(digest, 1, 32) \in Seq(Byte)
    BY <2>1, <2>2, SubSeqProperties
  <2>4. Len(SubSeq(digest, 1, 32)) = IF 1 <= 32 THEN 32 - 1 + 1 ELSE 0
    BY <2>1, <2>2, SubSeqProperties
  <2>5. (IF 1 <= 32 THEN 32 - 1 + 1 ELSE 0) = 32
    OBVIOUS
  <2>6. SubSeq(digest, 1, 32) \in [1 .. 32 -> Byte]
    BY <2>3, <2>4, <2>5, LenProperties
  <2>7. QED
    BY <2>6 DEF Part
<1>10. PbkdfBlock(c, k) = SubSeq(digest, 1, 32)
  BY <1>3, <1>5, <1>7 DEF PbkdfBlock
<1>11. QED
  BY <1>1, <1>3, <1>4, <1>7, <1>9, <1>10 DEF IsPart

-----------------------------------------------------------------------------
(* Lanes from bytes and bytes from lanes *)

LEMMA DigitOfBytes == \A x, y \in Byte : x + 256 * y \in Digit
<1>1. \A x, y \in Byte : x + 256 * y \in Nat /\ x + 256 * y < 65536
  BY ByteFacts, SMT
<1>2. QED
  BY <1>1, DigitFacts, SMT DEF Base

HalfBlock == [1 .. 8 -> Word32]

LEMMA WordsOfPart ==
  ASSUME NEW part \in Part
  PROVE  Words32(part) \in HalfBlock
<1>1. Len(part) \div 4 = 8
  <2>1. PICK n \in Nat : n = 32
    OBVIOUS
  <2>2. part \in [1 .. n -> Byte]
    BY <2>1 DEF Part
  <2>3. Len(part) = n
    BY <2>2, LenOfFunction
  <2>4. QED
    BY <2>1, <2>3
<1>2. ASSUME NEW w \in 1 .. 8
      PROVE  <<part[4 * w - 3] + 256 * part[4 * w - 2], part[4 * w - 1] + 256 * part[4 * w]>> \in Word32
  <2>1. 4 * w - 3 \in 1 .. 32 /\ 4 * w - 2 \in 1 .. 32 /\ 4 * w - 1 \in 1 .. 32 /\ 4 * w \in 1 .. 32
    OBVIOUS
  <2>2. PICK a \in Byte, b \in Byte, c \in Byte, d \in Byte :
          a = part[4 * w - 3] /\ b = part[4 * w - 2] /\ c = part[4 * w - 1] /\ d = part[4 * w]
    BY <2>1 DEF Part
  <2>3. a + 256 * b \in Digit /\ c + 256 * d \in Digit
    BY DigitOfBytes
  <2>4. QED
    BY <2>2, <2>3, Word32Of
<1>3. QED
  BY <1>1, <1>2 DEF Words32, HalfBlock

LEMMA TwoHalves ==
  ASSUME NEW x \in HalfBlock, NEW y \in HalfBlock
  PROVE  x \o y \in SalsaBlock
<1>1. PICK n \in Nat : n = 8
  OBVIOUS
<1>2. x \in [1 .. n -> Word32] /\ y \in [1 .. n -> Word32]
  BY <1>1 DEF HalfBlock
<1>3. x \in Seq(Word32) /\ y \in Seq(Word32) /\ Len(x) = n /\ Len(y) = n
  BY <1>2, LenOfFunction
<1>4. PICK z \in Seq(Word32) : z = x \o y /\ Len(z) = n + n
  <2>1. x \o y \in Seq(Word32)
    BY <1>3, ConcatProperties
  <2>2. Len(x \o y) = Len(x) + Len(y)
    BY <1>3, ConcatProperties
  <2>3. Len(x \o y) = n + n
    BY <1>3, <2>2
  <2>4. QED
    BY <2>1, <2>3
<1>5. z \in [1 .. 16 -> Word32]
  <2>1. n + n = 16
    BY <1>1
  <2>2. QED
    BY <1>4, <2>1, LenProperties
<1>6. QED
  BY <1>4, <1>5 DEF SalsaBlock

LEMMA LanesAre ==
  ASSUME NEW r \in Nat \ {0}, NEW p \in Nat \ {0}, NEW n \in Nat, n = 4 * r * p,
         NEW half \in [1 .. n -> HalfBlock]
  PROVE  Lanes(half, r, p) \in [1 .. p -> Lane(r)]
<1>1. ASSUME NEW l \in 1 .. p, NEW b \in 1 .. 2 * r
      PROVE  LET k == 2 * (2 * r * (l - 1) + b) IN half[k - 1] \o half[k] \in SalsaBlock
  <2>1. PICK m \in Nat : m = 2 * r * (l - 1)
    OBVIOUS
  <2>2. m + 2 * r <= 2 * r * p
    <3>1. 2 * r * l <= 2 * r * p
      <4>1. PICK c \in Nat : c = 2 * r
        OBVIOUS
      <4>2. c * l <= c * p
        OBVIOUS
      <4>3. QED
        BY <4>1, <4>2
    <3>2. 2 * r * l = 2 * r * (l - 1) + 2 * r
      OBVIOUS
    <3>3. QED
      BY <2>1, <3>1, <3>2
  <2>3. PICK k \in Nat : k = 2 * (m + b)
    OBVIOUS
  <2>4. k \in 1 .. n /\ k - 1 \in 1 .. n
    <3>1. PICK e \in Nat : e = 2 * r * p
      OBVIOUS
    <3>2. n = 2 * e
      BY <3>1
    <3>3. QED
      BY <2>2, <2>3, <3>1, <3>2
  <2>5. half[k - 1] \in HalfBlock /\ half[k] \in HalfBlock
    BY <2>4
  <2>6. half[k - 1] \o half[k] \in SalsaBlock
    BY <2>5, TwoHalves
  <2>7. QED
    BY <2>1, <2>3, <2>6
<1>2. Lane(r) = [1 .. 2 * r -> SalsaBlock]
  BY LaneIs
<1>3. QED
  BY <1>1, <1>2 DEF Lanes

LEMMA LanesOfAre ==
  ASSUME CipherKeeps(8), NEW passwd \in Seq(Byte), NEW salt \in Seq(Byte),
         NEW r \in Nat \ {0}, NEW p \in Nat \ {0},
         NEW c, Macing(c, 8, passwd, salt)
  PROVE  LanesOf(c, r, p) \in [1 .. p -> Lane(r)]
<1>1. PICK n \in Nat : n = 4 * r * p
  OBVIOUS
<1>2. ASSUME NEW k \in 1 .. n PROVE Words32(PbkdfBlock(c, k)) \in HalfBlock
  <2>1. IsPart(PbkdfBlock(c, k), passwd, salt, k)
    BY PbkdfBlockIs
  <2>2. QED
    BY <2>1, WordsOfPart DEF IsPart
<1>3. PICK half \in [1 .. n -> HalfBlock] : half = [k \in 1 .. n |-> Words32(PbkdfBlock(c, k))]
  BY <1>2
<1>4. LanesOf(c, r, p) = Lanes(half, r, p)
  BY <1>1, <1>3 DEF LanesOf
<1>5. QED
  BY <1>1, <1>4, LanesAre

LEMMA BytesOfBlock ==
  ASSUME NEW block \in SalsaBlock
  PROVE  Bytes32(block) \in [1 .. 64 -> Byte]
<1>1. 4 * Len(block) = 64
  <2>1. PICK n \in Nat : n = 16
    OBVIOUS
  <2>2. block \in [1 .. n -> Word32]
    BY <2>1 DEF SalsaBlock
  <2>3. Len(block) = n
    BY <2>2, LenOfFunction
  <2>4. QED
    BY <2>1, <2>3
<1>2. ASSUME NEW k \in 1 .. 64
      PROVE  LET digit == block[((k - 1) \div 4) + 1][(((k - 1) % 4) \div 2) + 1]
             IN  (IF k % 2 = 1 THEN digit % 256 ELSE digit \div 256) \in Byte
  <2> DEFINE w == ((k - 1) \div 4) + 1
             d == (((k - 1) % 4) \div 2) + 1
  <2>1. w \in 1 .. 16 /\ d \in 1 .. 2
    OBVIOUS
  <2> HIDE DEF w, d
  <2>2. block[w][d] \in Digit
    BY <2>1 DEF SalsaBlock, Word32
  <2>3. block[w][d] % 256 \in Byte /\ block[w][d] \div 256 \in Byte
    BY <2>2, BytesOfDigit
  <2>4. QED
    BY <2>3 DEF w, d
<1>3. QED
  BY <1>1, <1>2 DEF Bytes32

LEMMA BytesOfLanes ==
  ASSUME NEW r \in Nat, NEW p \in Nat, NEW lanes \in [1 .. p -> Lane(r)]
  PROVE  BytesOf(lanes) \in Seq(Byte)
<1>1. PICK m \in Nat : m = 2 * r
  OBVIOUS
<1>2. PICK n \in Nat : n = 64
  OBVIOUS
<1>3. PICK len \in Nat : len = m * n
  OBVIOUS
<1>4. ASSUME NEW l \in 1 .. p
      PROVE  FlattenSeq([b \in DOMAIN lanes[l] |-> Bytes32(lanes[l][b])]) \in [1 .. len -> Byte]
  <2>1. lanes[l] \in [1 .. m -> SalsaBlock]
    BY <1>1, LaneIs
  <2>2. PICK s : s = [b \in DOMAIN lanes[l] |-> Bytes32(lanes[l][b])]
    OBVIOUS
  <2>3. s \in [1 .. m -> [1 .. n -> Byte]]
    BY <1>2, <2>1, <2>2, BytesOfBlock
  <2>4. Flattened(FlattenSeq(s), s, m, n, Byte)
    BY <2>3, FlattenUniform
  <2>5. PICK f \in Seq(Byte) : f = FlattenSeq(s) /\ Len(f) = len
    BY <1>3, <2>4 DEF Flattened
  <2>6. f \in [1 .. len -> Byte]
    BY <2>5, LenProperties
  <2>7. QED
    BY <2>2, <2>5, <2>6
<1>5. PICK s : s = [l \in DOMAIN lanes |-> FlattenSeq([b \in DOMAIN lanes[l] |-> Bytes32(lanes[l][b])])]
  OBVIOUS
<1>6. s \in [1 .. p -> [1 .. len -> Byte]]
  BY <1>4, <1>5
<1>7. Flattened(FlattenSeq(s), s, p, len, Byte)
  BY <1>6, FlattenUniform
<1>8. QED
  BY <1>5, <1>7 DEF Flattened, BytesOf

-----------------------------------------------------------------------------
(* The invariant *)

States == {"called", "lane", "fill", "mix", "derive", "returned"}
Results == {"0", "INTEGER_OVERFLOW", "SCRYPT_INVALID_VALUE"}

Typed ==
  /\ job \in Jobs /\ pc \in States /\ result \in Results
  /\ key \in [1 .. Len(job.key) -> Byte]
  /\ pc \notin {"derive", "returned"} => key = job.key
  /\ pc = "called" => lane = 1
  /\ pc # "returned" => ~noMemory
  /\ V \in [0 .. job.N - 1 -> Lane(job.r) \cup {<<>>}]

\* A lane is what it was, or mixed.
LaneIsApart(l) ==
  B[l] = IF l < lane THEN ROMix(start[l], job.N, job.r) ELSE start[l]

Running ==
  pc \in {"lane", "fill", "mix", "derive"} =>
    /\ job.N # 0
    /\ start \in [1 .. job.p -> Lane(job.r)] /\ B \in [1 .. job.p -> Lane(job.r)]
    /\ lane \in 1 .. job.p + 1
    /\ \A l \in 1 .. job.p : LaneIsApart(l)

\* The first k entries of V are those of the lane, and not of an earlier one.
HasTable(k) == \A j \in 0 .. job.N - 1 : j < k => V[j] = Mixed(start[lane], job.r, j)

Filling ==
  pc = "fill" => /\ lane <= job.p /\ i \in 0 .. job.N - 1 /\ HasTable(i)
                 /\ X = Mixed(start[lane], job.r, i)

Mixing ==
  pc = "mix" => /\ lane <= job.p /\ i \in 0 .. job.N /\ HasTable(job.N)
                /\ X = Turned(start[lane], job.N, job.r, i)

\* The first k blocks of the key are derived.
HasParts(k) == \A a \in 1 .. k, b \in 1 .. 32 : key[32 * (a - 1) + b] = PbkdfBlock(Pctx, a)[b]

Deriving ==
  pc = "derive" => /\ Pctx = PbkdfInit(job.key, BytesOf(B))
                   /\ Macing(Pctx, 8, job.key, BytesOf(B))
                   /\ BytesOf(B) \in Seq(Byte)
                   /\ i \in Nat /\ 32 * i <= Len(job.key)
                   /\ HasParts(i)

IInv == Typed /\ Running /\ Filling /\ Mixing /\ Deriving /\ KeyIsStretched

LEMMA JobIs ==
  ASSUME job \in Jobs
  PROVE  /\ job.key \in Seq(Byte) /\ Len(job.key) \in Nat /\ Len(job.key) % 32 = 0
         /\ job.salt \in Seq(Byte) /\ job.N \in Nat
         /\ job.r \in Nat \ {0} /\ job.p \in Nat \ {0} /\ job.r \in Nat /\ job.p \in Nat
         /\ job.key \in [1 .. Len(job.key) -> Byte]
<1>1. job.key \in Seq(Byte)
  BY ScryptAssumption
<1>2. job.key \in [1 .. Len(job.key) -> Byte] /\ Len(job.key) \in Nat
  BY <1>1, LenProperties
<1>3. QED
  BY <1>1, <1>2, ScryptAssumption

LEMMA InitInv == ASSUME Init PROVE IInv
<1>1. job \in Jobs /\ pc = "called" /\ lane = 1 /\ key = job.key /\ result = "0" /\ noMemory = FALSE
  BY DEF Init
<1>2. key \in [1 .. Len(job.key) -> Byte]
  BY <1>1, JobIs
<1>3. V \in [0 .. job.N - 1 -> Lane(job.r) \cup {<<>>}]
  BY DEF Init
<1>4. Typed
  BY <1>1, <1>2, <1>3 DEF Typed, States, Results
<1>5. QED
  BY <1>1, <1>4 DEF IInv, Running, Filling, Mixing, Deriving, KeyIsStretched

LEMMA RejectInv == ASSUME IInv, Reject PROVE IInv'
<1>1. /\ pc' = "returned" /\ key' = job.key /\ job' = job /\ V' = V /\ noMemory' = noMemory
      /\ result' \in {"INTEGER_OVERFLOW", "SCRYPT_INVALID_VALUE"} /\ key' = key
  BY DEF IInv, Typed, Reject, Return
<1>2. Typed'
  BY <1>1 DEF IInv, Typed, States, Results
<1>3. KeyIsStretched'
  BY <1>1 DEF KeyIsStretched
<1>4. QED
  BY <1>1, <1>2, <1>3 DEF IInv, Running, Filling, Mixing, Deriving

LEMMA MallocFailsInv == ASSUME IInv, MallocFails PROVE IInv'
<1>1. /\ pc' = "returned" /\ key' = job.key /\ job' = job /\ V' = V /\ noMemory'
      /\ result' = "0" /\ key' = key
  BY DEF IInv, Typed, MallocFails, Return
<1>2. Typed'
  BY <1>1 DEF IInv, Typed, States, Results
<1>3. KeyIsStretched'
  BY <1>1 DEF KeyIsStretched
<1>4. QED
  BY <1>1, <1>2, <1>3 DEF IInv, Running, Filling, Mixing, Deriving

LEMMA FirstPbkdf2Inv == ASSUME CipherKeeps(8), IInv, FirstPbkdf2 PROVE IInv'
<1>1. job \in Jobs /\ key = job.key /\ job' = job /\ pc' = "lane"
  BY DEF IInv, Typed, FirstPbkdf2
<1>2. /\ job.key \in Seq(Byte) /\ job.salt \in Seq(Byte)
      /\ job.r \in Nat \ {0} /\ job.p \in Nat \ {0}
  BY <1>1, JobIs
<1>3. PICK c : c = PbkdfInit(job.key, job.salt)
  OBVIOUS
<1>4. Macing(c, 8, job.key, job.salt)
  BY <1>2, <1>3, PbkdfState
<1>5. LanesOf(c, job.r, job.p) \in [1 .. job.p -> Lane(job.r)]
  BY <1>2, <1>4, LanesOfAre
<1>6. B' \in [1 .. job.p -> Lane(job.r)] /\ start' = B'
  BY <1>1, <1>3, <1>5 DEF FirstPbkdf2
<1>7. lane' = 1 /\ job.N # 0
  BY DEF IInv, Typed, FirstPbkdf2, Accepted, PowerOf2
<1>8. Running'
  <2>1. \A l \in 1 .. job.p : ~(l < lane')
    BY <1>7
  <2>2. 1 \in 1 .. job.p + 1
    BY <1>2
  <2>3. QED
    BY <1>1, <1>6, <1>7, <2>1, <2>2 DEF Running, LaneIsApart
<1>9. Typed'
  BY <1>1 DEF IInv, Typed, States, FirstPbkdf2
<1>10. QED
  BY <1>1, <1>8, <1>9 DEF IInv, Filling, Mixing, Deriving, KeyIsStretched

LEMMA SmixStartInv == ASSUME IInv, SmixStart PROVE IInv'
<1>1. /\ pc = "lane" /\ lane <= job.p /\ pc' = "fill" /\ i' = 0 /\ X' = B[lane]
      /\ UNCHANGED <<job, key, B, lane, V, Pctx, result, noMemory, start>>
  BY DEF SmixStart
<1>2. Running
  BY DEF IInv
<1>3. job \in Jobs /\ job.N # 0 /\ lane \in 1 .. job.p /\ start[lane] \in Lane(job.r)
  <2>1. job \in Jobs
    BY DEF IInv, Typed
  <2>2. lane \in 1 .. job.p /\ job.N # 0 /\ start \in [1 .. job.p -> Lane(job.r)]
    BY <1>1, <1>2, <2>1, JobIs DEF Running
  <2>3. QED
    BY <2>1, <2>2
<1>4. job.N \in Nat /\ job.r \in Nat \ {0}
  BY <1>3, JobIs
<1>5. Running'
  <2>1. \A l \in 1 .. job.p : LaneIsApart(l)'
    BY <1>1, <1>2 DEF Running, LaneIsApart
  <2>2. QED
    BY <1>1, <1>2, <2>1 DEF Running
<1>6. Filling'
  <2>1. X' = start[lane]
    <3>1. LaneIsApart(lane)
      BY <1>1, <1>2, <1>3 DEF Running
    <3>2. ~(lane < lane)
      BY <1>3, <1>4
    <3>3. QED
      BY <1>1, <3>1, <3>2 DEF LaneIsApart
  <2>2. Mixed(start[lane], job.r, 0) = start[lane]
    BY <1>3, <1>4, MixedOnce
  <2>3. 0 \in 0 .. job.N - 1
    BY <1>3, <1>4
  <2>4. HasTable(0)'
    BY <1>4 DEF HasTable
  <2>5. HasTable(i)'
    BY <1>1, <2>4 DEF HasTable
  <2>6. QED
    BY <1>1, <1>3, <1>4, <2>1, <2>2, <2>3, <2>5 DEF Filling
<1>7. Typed'
  BY <1>1 DEF IInv, Typed, States
<1>8. QED
  BY <1>1, <1>5, <1>6, <1>7 DEF IInv, Mixing, Deriving, KeyIsStretched

LEMMA SmixFillInv == ASSUME IInv, SmixFill PROVE IInv'
<1>1. /\ pc = "fill" /\ V' = [V EXCEPT ![i] = X] /\ X' = blockmix_salsa8(X, job.r)
      /\ UNCHANGED <<job, key, B, lane, Pctx, result, noMemory, start>>
      /\ IF i + 1 < job.N THEN i' = i + 1 /\ pc' = "fill" ELSE i' = 0 /\ pc' = "mix"
  BY DEF SmixFill
<1>2. Running /\ Filling /\ Typed
  BY DEF IInv
<1>3. job \in Jobs /\ job.N \in Nat /\ job.r \in Nat \ {0}
  BY <1>2, JobIs DEF Typed
<1>4. lane \in 1 .. job.p /\ start[lane] \in Lane(job.r) /\ job.N # 0
  <2>1. lane \in 1 .. job.p /\ start \in [1 .. job.p -> Lane(job.r)] /\ job.N # 0
    BY <1>1, <1>2, <1>3, JobIs DEF Running, Filling
  <2>2. QED
    BY <2>1
<1>5. /\ i \in 0 .. job.N - 1 /\ i \in Nat /\ i < job.N /\ lane <= job.p
      /\ HasTable(i) /\ X = Mixed(start[lane], job.r, i)
  BY <1>1, <1>2, <1>3 DEF Filling
<1>6. PICK x \in Lane(job.r) : x = start[lane]
  BY <1>4
<1>7. X \in Lane(job.r) /\ X' = Mixed(x, job.r, i + 1)
  BY <1>1, <1>3, <1>5, <1>6, MixedOnce
<1>8. V' \in [0 .. job.N - 1 -> Lane(job.r) \cup {<<>>}]
  BY <1>1, <1>2, <1>5, <1>7 DEF Typed
<1>9. \A j \in 0 .. job.N - 1 : j < i + 1 => V'[j] = Mixed(x, job.r, j)
  <2>1. SUFFICES ASSUME NEW j \in 0 .. job.N - 1, j < i + 1 PROVE V'[j] = Mixed(x, job.r, j)
    OBVIOUS
  <2>2. CASE j = i
    BY <1>1, <1>2, <1>5, <1>6, <2>2 DEF Typed
  <2>3. CASE j # i
    <3>1. j < i
      BY <1>5, <2>1, <2>3
    <3>2. V'[j] = V[j]
      BY <1>1, <1>2, <2>3 DEF Typed
    <3>3. QED
      BY <1>5, <1>6, <3>1, <3>2 DEF HasTable
  <2>4. QED
    BY <2>2, <2>3
<1>10. Running'
  <2>1. \A l \in 1 .. job.p : LaneIsApart(l)'
    BY <1>1, <1>2 DEF Running, LaneIsApart
  <2>2. QED
    BY <1>1, <1>2, <2>1 DEF Running
<1>11. Typed'
  BY <1>1, <1>2, <1>8 DEF Typed, States
<1>12. CASE i + 1 < job.N
  <2>1. i' = i + 1 /\ pc' = "fill" /\ i + 1 \in 0 .. job.N - 1
    BY <1>1, <1>3, <1>5, <1>12
  <2>2. Filling'
    BY <1>1, <1>5, <1>6, <1>7, <1>9, <2>1 DEF Filling, HasTable
  <2>3. QED
    BY <1>10, <1>11, <2>1, <2>2 DEF IInv, Mixing, Deriving, KeyIsStretched
<1>13. CASE ~(i + 1 < job.N)
  <2>1. i' = 0 /\ pc' = "mix" /\ i + 1 = job.N /\ 0 \in 0 .. job.N
    BY <1>1, <1>3, <1>5, <1>13
  <2>2. X' = Turned(x, job.N, job.r, 0)
    BY <1>3, <1>4, <1>7, <2>1, TurnedOnce
  <2>3. Mixing'
    BY <1>1, <1>5, <1>6, <1>9, <2>1, <2>2 DEF Mixing, HasTable
  <2>4. QED
    BY <1>10, <1>11, <2>1, <2>3 DEF IInv, Filling, Deriving, KeyIsStretched
<1>14. QED
  BY <1>12, <1>13

LEMMA SmixMixInv == ASSUME IInv, SmixMix PROVE IInv'
<1>1. /\ pc = "mix" /\ i < job.N /\ i' = i + 1
      /\ X' = blockmix_salsa8(XorLane(X, V[integerify(X, job.r) % job.N]), job.r)
      /\ UNCHANGED <<job, pc, key, B, lane, V, Pctx, result, noMemory, start>>
  BY DEF SmixMix
<1>2. Running /\ Mixing /\ Typed
  BY DEF IInv
<1>3. job \in Jobs /\ job.N \in Nat /\ job.r \in Nat \ {0}
  BY <1>2, JobIs DEF Typed
<1>4. lane \in 1 .. job.p /\ start[lane] \in Lane(job.r) /\ job.N \in Nat \ {0}
  <2>1. lane \in 1 .. job.p /\ start \in [1 .. job.p -> Lane(job.r)] /\ job.N # 0
    BY <1>1, <1>2, <1>3, JobIs DEF Running, Mixing
  <2>2. QED
    BY <1>3, <2>1
<1>5. PICK N \in Nat \ {0}, r \in Nat \ {0} : N = job.N /\ r = job.r
  BY <1>3, <1>4
<1>6. PICK x \in Lane(r) : x = start[lane]
  BY <1>4, <1>5
<1>7. i \in Nat /\ lane <= job.p /\ HasTable(N) /\ X = Turned(x, N, r, i)
  BY <1>1, <1>2, <1>3, <1>5, <1>6 DEF Mixing
<1>8. X \in Lane(r) /\ Turned(x, N, r, i + 1) = Loop(x, N, r)[X]
  BY <1>7, TurnedOnce
<1>9. PICK n \in 0 .. N - 1 : n = integerify(X, r) % N
  <2>1. integerify(X, r) \in Nat
    BY <1>8, IntegerNat
  <2>2. QED
    BY <2>1
<1>10. V[n] = Mixed(x, r, n)
  <2>1. n < N
    BY <1>9
  <2>2. QED
    BY <1>5, <1>6, <1>7, <2>1 DEF HasTable
<1>11. X' = Turned(x, N, r, i + 1)
  <2>1. X' = blockmix_salsa8(XorLane(X, Mixed(x, r, n)), r)
    BY <1>1, <1>5, <1>9, <1>10
  <2>2. Loop(x, N, r)[X] = blockmix_salsa8(XorLane(X, Mixed(x, r, integerify(X, r) % N)), r)
    BY <1>8 DEF Loop
  <2>3. QED
    BY <1>8, <1>9, <2>1, <2>2
<1>12. Mixing'
  <2>1. i' \in 0 .. job.N
    BY <1>1, <1>3, <1>7
  <2>2. HasTable(job.N)'
    BY <1>1, <1>5, <1>7 DEF HasTable
  <2>3. QED
    BY <1>1, <1>5, <1>6, <1>7, <1>11, <2>1, <2>2 DEF Mixing
<1>13. Running'
  <2>1. \A l \in 1 .. job.p : LaneIsApart(l)'
    BY <1>1, <1>2 DEF Running, LaneIsApart
  <2>2. QED
    BY <1>1, <1>2, <2>1 DEF Running
<1>14. Typed'
  BY <1>1, <1>2 DEF Typed
<1>15. QED
  BY <1>1, <1>12, <1>13, <1>14 DEF IInv, Filling, Deriving, KeyIsStretched

LEMMA SmixEndInv == ASSUME IInv, SmixEnd PROVE IInv'
<1>1. /\ pc = "mix" /\ i = job.N /\ B' = [B EXCEPT ![lane] = X]
      /\ lane' = lane + 1 /\ pc' = "lane"
      /\ UNCHANGED <<job, key, X, V, i, Pctx, result, noMemory, start>>
  BY DEF SmixEnd
<1>2. Running /\ Mixing /\ Typed
  BY DEF IInv
<1>3. job \in Jobs /\ job.N \in Nat /\ job.r \in Nat \ {0} /\ job.p \in Nat
  BY <1>2, JobIs DEF Typed
<1>4. /\ lane \in 1 .. job.p /\ start \in [1 .. job.p -> Lane(job.r)] /\ job.N \in Nat \ {0}
      /\ B \in [1 .. job.p -> Lane(job.r)] /\ \A l \in 1 .. job.p : LaneIsApart(l)
  BY <1>1, <1>2, <1>3 DEF Running, Mixing
<1>5. PICK N \in Nat \ {0}, r \in Nat \ {0} : N = job.N /\ r = job.r
  BY <1>3, <1>4
<1>6. PICK x \in Lane(r) : x = start[lane]
  BY <1>4, <1>5
<1>7. X = Turned(x, N, r, N)
  BY <1>1, <1>2, <1>5, <1>6 DEF Mixing
<1>8. X \in Lane(r) /\ X = ROMix(x, N, r)
  BY <1>7, TurnedOnce
<1>9. B' \in [1 .. job.p -> Lane(job.r)]
  BY <1>1, <1>4, <1>5, <1>8
<1>10. ASSUME NEW l \in 1 .. job.p PROVE LaneIsApart(l)'
  <2>1. CASE l = lane
    <3>1. B'[l] = ROMix(start[l], job.N, job.r)
      BY <1>1, <1>4, <1>5, <1>6, <1>8, <2>1
    <3>2. l < lane'
      BY <1>1, <1>4, <2>1
    <3>3. QED
      BY <1>1, <3>1, <3>2 DEF LaneIsApart
  <2>2. CASE l # lane
    <3>1. B'[l] = B[l]
      BY <1>1, <1>4, <2>2
    <3>2. l < lane' <=> l < lane
      BY <1>1, <1>3, <1>4, <2>2
    <3>3. LaneIsApart(l)
      BY <1>4
    <3>4. QED
      BY <1>1, <3>1, <3>2, <3>3 DEF LaneIsApart
  <2>3. QED
    BY <2>1, <2>2
<1>11. Running'
  <2>1. lane' \in 1 .. job.p + 1
    BY <1>1, <1>3, <1>4
  <2>2. QED
    BY <1>1, <1>2, <1>4, <1>9, <1>10, <2>1 DEF Running
<1>12. Typed'
  BY <1>1, <1>2 DEF Typed, States
<1>13. QED
  BY <1>1, <1>11, <1>12 DEF IInv, Filling, Mixing, Deriving, KeyIsStretched

LEMMA SecondPbkdf2Inv == ASSUME CipherKeeps(8), IInv, SecondPbkdf2 PROVE IInv'
<1>1. /\ pc = "lane" /\ lane > job.p /\ Pctx' = PbkdfInit(key, BytesOf(B)) /\ i' = 0 /\ pc' = "derive"
      /\ UNCHANGED <<job, key, B, lane, X, V, result, noMemory, start>>
  BY DEF SecondPbkdf2
<1>2. Running /\ Typed
  BY DEF IInv
<1>3. job \in Jobs /\ key = job.key /\ job.key \in Seq(Byte) /\ job.r \in Nat /\ job.p \in Nat
      /\ Len(job.key) \in Nat
  BY <1>1, <1>2, JobIs DEF Typed
<1>4. BytesOf(B) \in Seq(Byte)
  BY <1>1, <1>2, <1>3, BytesOfLanes DEF Running
<1>5. PICK salt \in Seq(Byte) : salt = BytesOf(B)
  BY <1>4
<1>6. Macing(PbkdfInit(job.key, salt), 8, job.key, salt)
  BY <1>3, PbkdfState
<1>7. Deriving'
  <2>1. BytesOf(B)' = salt
    BY <1>1, <1>5
  <2>2. Pctx' = PbkdfInit(job.key, salt)
    BY <1>1, <1>3, <1>5
  <2>3. HasParts(i)'
    BY <1>1 DEF HasParts
  <2>4. 32 * 0 <= Len(job.key)
    BY <1>3
  <2>5. QED
    BY <1>1, <1>6, <2>1, <2>2, <2>3, <2>4 DEF Deriving
<1>8. Running'
  <2>1. \A l \in 1 .. job.p : LaneIsApart(l)'
    BY <1>1, <1>2 DEF Running, LaneIsApart
  <2>2. QED
    BY <1>1, <1>2, <2>1 DEF Running
<1>9. Typed'
  BY <1>1, <1>2 DEF Typed, States
<1>10. QED
  BY <1>1, <1>7, <1>8, <1>9 DEF IInv, Filling, Mixing, KeyIsStretched

\* Bytes in blocks of 32, and where block a of them lies.
LEMMA WholeBlocks ==
  ASSUME NEW l \in Nat, l % 32 = 0
  PROVE  \E q \in Nat : q = l \div 32 /\ l = 32 * q
<1>1. l \div 32 \in Nat /\ l = 32 * (l \div 32)
  OBVIOUS
<1>2. QED
  BY <1>1

LEMMA SameBlock == ASSUME NEW a \in Nat, NEW b \in Nat, 32 * a <= 32 * b, 32 * a >= 32 * b PROVE a = b
OBVIOUS

LEMMA PlaceOf ==
  ASSUME NEW q \in Nat, NEW k \in 1 .. 32 * q
  PROVE  \E a \in 1 .. q, b \in 1 .. 32 : k = 32 * (a - 1) + b
<1>1. PICK c \in Nat, d \in Nat : c = (k - 1) \div 32 /\ d = (k - 1) % 32
  OBVIOUS
<1>2. k - 1 = 32 * c + d /\ d < 32
  BY <1>1
<1>3. PICK a \in Nat, b \in Nat : a = c + 1 /\ b = d + 1
  OBVIOUS
<1>4. k = 32 * (a - 1) + b /\ b \in 1 .. 32 /\ a \in 1 .. q
  BY <1>2, <1>3
<1>5. QED
  BY <1>4

LEMMA PlaceIs ==
  ASSUME NEW a \in Nat \ {0}, NEW b \in 1 .. 32, NEW n \in Nat
  PROVE  /\ a <= n => 32 * (a - 1) + b \in 1 .. 32 * n /\ 32 * (a - 1) + b <= 32 * n
         /\ a > n => 32 * (a - 1) + b > 32 * n
         /\ a = n + 1 => 32 * (a - 1) + b = 32 * n + b
OBVIOUS

LEMMA DeriveInv == ASSUME CipherKeeps(8), IInv, Derive PROVE IInv'
<1>1. /\ pc = "derive" /\ 32 * i < Len(key)
      /\ key' = Overwrite(key, 32 * i, PbkdfBlock(Pctx, i + 1)) /\ i' = i + 1
      /\ UNCHANGED <<job, pc, B, lane, X, V, Pctx, result, noMemory, start>>
  BY DEF Derive
<1>2. Running /\ Typed /\ Deriving
  BY DEF IInv
<1>3. /\ job \in Jobs /\ job.key \in Seq(Byte) /\ Len(job.key) \in Nat /\ Len(job.key) % 32 = 0
  BY <1>2, JobIs DEF Typed
<1>4. PICK len \in Nat, q \in Nat : len = Len(job.key) /\ len = 32 * q
  BY <1>3, WholeBlocks
<1>5. key \in [1 .. len -> Byte] /\ Len(key) = len
  <2>1. key \in [1 .. len -> Byte]
    BY <1>2, <1>4 DEF Typed
  <2>2. Len(key) = len
    BY <2>1, LenOfFunction
  <2>3. QED
    BY <2>1, <2>2
<1>6. i \in Nat /\ i < q /\ i + 1 <= q /\ i + 1 \in Nat
  <2>1. i \in Nat
    BY <1>1, <1>2 DEF Deriving
  <2>2. 32 * i < 32 * q
    BY <1>1, <1>4, <1>5
  <2>3. QED
    BY <2>1, <2>2
<1>7. PICK salt \in Seq(Byte) : salt = BytesOf(B) /\ Macing(Pctx, 8, job.key, salt)
  BY <1>1, <1>2 DEF Deriving
<1>8. PICK part \in Part : part = PbkdfBlock(Pctx, i + 1)
  <2>1. IsPart(PbkdfBlock(Pctx, i + 1), job.key, salt, i + 1)
    BY <1>3, <1>6, <1>7, PbkdfBlockIs
  <2>2. QED
    BY <2>1 DEF IsPart
<1>9. \A k \in 1 .. len : key'[k] = IF k - 32 * i \in 1 .. 32 THEN part[k - 32 * i] ELSE key[k]
  BY <1>1, <1>5, <1>8 DEF Overwrite, Part
<1>10. key' \in [1 .. len -> Byte]
  <2>1. \A k \in 1 .. len : (IF k - 32 * i \in 1 .. 32 THEN part[k - 32 * i] ELSE key[k]) \in Byte
    BY <1>5, <1>8 DEF Part
  <2>2. key' = [k \in 1 .. len |-> IF k - 32 * i \in 1 .. 32 THEN part[k - 32 * i] ELSE key[k]]
    BY <1>1, <1>5, <1>8 DEF Overwrite, Part
  <2>3. QED
    BY <2>1, <2>2
<1>11. ASSUME NEW a \in 1 .. i + 1, NEW b \in 1 .. 32
       PROVE  key'[32 * (a - 1) + b] = PbkdfBlock(Pctx, a)[b]
  <2>1. PICK k \in 1 .. len : k = 32 * (a - 1) + b
    <3>1. a \in Nat \ {0} /\ a <= q
      BY <1>6
    <3>2. QED
      BY <1>4, <3>1, PlaceIs
  <2>2. CASE a = i + 1
    <3>1. k - 32 * i = b
      BY <1>6, <2>1, <2>2
    <3>2. key'[k] = part[b]
      BY <1>9, <3>1
    <3>3. QED
      BY <1>8, <2>1, <2>2, <3>2
  <2>3. CASE a # i + 1
    <3>1. a \in 1 .. i
      BY <1>6, <2>3
    <3>2. ~(k - 32 * i \in 1 .. 32)
      BY <1>6, <2>1, <3>1
    <3>3. key'[k] = key[k]
      BY <1>9, <3>2
    <3>4. key[k] = PbkdfBlock(Pctx, a)[b]
      BY <1>1, <1>2, <2>1, <3>1 DEF Deriving, HasParts
    <3>5. QED
      BY <2>1, <3>3, <3>4
  <2>4. QED
    BY <2>2, <2>3
<1>12. Deriving'
  <2>1. HasParts(i)'
    BY <1>1, <1>11 DEF HasParts
  <2>2. 32 * (i + 1) <= Len(job.key)
    BY <1>4, <1>6
  <2>3. QED
    BY <1>1, <1>2, <1>6, <2>1, <2>2 DEF Deriving
<1>13. Running'
  <2>1. \A l \in 1 .. job.p : LaneIsApart(l)'
    BY <1>1, <1>2 DEF Running, LaneIsApart
  <2>2. QED
    BY <1>1, <1>2, <2>1 DEF Running
<1>14. Typed'
  BY <1>1, <1>2, <1>4, <1>10 DEF Typed
<1>15. QED
  BY <1>1, <1>12, <1>13, <1>14 DEF IInv, Filling, Mixing, KeyIsStretched

LEMMA DerivedInv == ASSUME CipherKeeps(8), IInv, Derived PROVE IInv'
<1>1. /\ pc = "derive" /\ 32 * i >= Len(key) /\ pc' = "returned" /\ result' = "0"
      /\ UNCHANGED <<job, key, B, lane, X, V, i, Pctx, noMemory, start>>
  BY DEF Derived, Return
<1>2. Typed /\ Deriving
  BY DEF IInv
<1>3. /\ job \in Jobs /\ job.key \in Seq(Byte) /\ Len(job.key) \in Nat /\ Len(job.key) % 32 = 0
  BY <1>2, JobIs DEF Typed
<1>4. PICK len \in Nat, q \in Nat : len = Len(job.key) /\ len = 32 * q /\ q = Len(job.key) \div 32
  BY <1>3, WholeBlocks
<1>5. key \in [1 .. len -> Byte] /\ Len(key) = len
  <2>1. key \in [1 .. len -> Byte]
    BY <1>2, <1>4 DEF Typed
  <2>2. Len(key) = len
    BY <2>1, LenOfFunction
  <2>3. QED
    BY <2>1, <2>2
<1>6. i = q
  <2>1. i \in Nat /\ 32 * i <= len /\ 32 * i >= len
    BY <1>1, <1>2, <1>4, <1>5 DEF Deriving
  <2>2. PICK j \in Nat : j = i
    BY <2>1
  <2>3. 32 * j <= 32 * q /\ 32 * j >= 32 * q
    BY <1>4, <2>1, <2>2
  <2>4. QED
    BY <2>2, <2>3, SameBlock
<1>7. PICK salt \in Seq(Byte) :
        salt = BytesOf(B) /\ Macing(Pctx, 8, job.key, salt) /\ Pctx = PbkdfInit(job.key, salt)
  BY <1>1, <1>2 DEF Deriving
<1>8. PICK n \in Nat : n = 32
  OBVIOUS
<1>9. PICK s : s = [k \in 1 .. q |-> PbkdfBlock(Pctx, k)]
  OBVIOUS
<1>10. s \in [1 .. q -> [1 .. n -> Byte]]
  <2>1. ASSUME NEW k \in 1 .. q PROVE PbkdfBlock(Pctx, k) \in [1 .. n -> Byte]
    <3>1. IsPart(PbkdfBlock(Pctx, k), job.key, salt, k)
      BY <1>3, <1>7, PbkdfBlockIs
    <3>2. QED
      BY <1>8, <3>1 DEF IsPart, Part
  <2>2. QED
    BY <1>9, <2>1
<1>11. Flattened(FlattenSeq(s), s, q, n, Byte)
  BY <1>10, FlattenUniform
<1>12. PICK f \in Seq(Byte) : f = FlattenSeq(s) /\ Len(f) = len
  <2>1. FlattenSeq(s) \in Seq(Byte) /\ Len(FlattenSeq(s)) = q * n
    BY <1>11 DEF Flattened
  <2>2. q * n = 32 * q
    BY <1>8
  <2>3. QED
    BY <1>4, <2>1, <2>2
<1>13. ASSUME NEW k \in 1 .. len PROVE key[k] = f[k]
  <2>1. PICK a \in 1 .. q, b \in 1 .. 32 : k = 32 * (a - 1) + b
    <3>1. k \in 1 .. 32 * q
      BY <1>4
    <3>2. QED
      BY <3>1, PlaceOf
  <2>2. key[k] = s[a][b]
    BY <1>1, <1>2, <1>6, <1>9, <2>1 DEF Deriving, HasParts
  <2>3. f[(a - 1) * n + b] = s[a][b]
    BY <1>8, <1>11, <1>12, <2>1 DEF Flattened
  <2>4. (a - 1) * n + b = k
    BY <1>8, <2>1
  <2>5. QED
    BY <2>2, <2>3, <2>4
<1>14. key = f
  <2>1. f \in [1 .. len -> Byte]
    BY <1>12, LenProperties
  <2>2. QED
    BY <1>5, <1>13, <2>1
<1>15. KeyIsStretched'
  <2>1. key = Stretched(PbkdfInit(job.key, BytesOf(B)))
    BY <1>4, <1>7, <1>9, <1>12, <1>14 DEF Stretched
  <2>2. ~noMemory
    BY <1>1, <1>2 DEF Typed
  <2>3. QED
    BY <1>1, <2>1, <2>2 DEF KeyIsStretched, Stretched
<1>16. Typed'
  BY <1>1, <1>2 DEF Typed, States, Results
<1>17. QED
  BY <1>1, <1>15, <1>16 DEF IInv, Running, Filling, Mixing, Deriving

LEMMA StutterInv == ASSUME IInv, UNCHANGED scryptVars PROVE IInv'
BY DEF scryptVars, IInv, Typed, Running, LaneIsApart, Filling, Mixing, HasTable, Deriving, HasParts,
       KeyIsStretched, Stretched

LEMMA StepInv == ASSUME CipherKeeps(8), IInv, [Next]_scryptVars PROVE IInv'
BY RejectInv, MallocFailsInv, FirstPbkdf2Inv, SmixStartInv, SmixFillInv, SmixMixInv, SmixEndInv,
   SecondPbkdf2Inv, DeriveInv, DerivedInv, StutterInv DEF Next

LEMMA AlwaysInv ==
  ASSUME CipherKeeps(8)
  PROVE  Spec => []IInv
BY InitInv, StepInv, PTL DEF Spec

-----------------------------------------------------------------------------
(* The properties *)

\* The key keeps its length and the lanes their shape, in words of 32 bits,
\* whatever the parameters.
THEOREM ScryptTypes ==
  ASSUME CipherKeeps(8)
  PROVE  Spec => []TypeOK
<1>1. IInv => TypeOK
  <2>1. SUFFICES ASSUME IInv PROVE TypeOK
    OBVIOUS
  <2>2. Typed /\ Running /\ Filling /\ Mixing
    BY <2>1 DEF IInv
  <2>3. job \in Jobs /\ job.N \in Nat /\ job.r \in Nat \ {0} /\ job.p \in Nat
    BY <2>2, JobIs DEF Typed
  <2>4. ASSUME pc \in {"fill", "mix"} PROVE X \in Lane(job.r) /\ lane \in 1 .. job.p
    <3>1. lane \in 1 .. job.p
      BY <2>2, <2>3, <2>4 DEF Running, Filling, Mixing
    <3>2. start[lane] \in Lane(job.r) /\ job.N \in Nat \ {0}
      BY <2>2, <2>3, <2>4, <3>1 DEF Running
    <3>3. CASE pc = "fill"
      <4>1. i \in Nat /\ X = Mixed(start[lane], job.r, i)
        BY <2>2, <2>3, <3>3 DEF Filling
      <4>2. QED
        BY <2>3, <3>1, <3>2, <4>1, MixedOnce
    <3>4. CASE pc = "mix"
      <4>1. i \in Nat /\ X = Turned(start[lane], job.N, job.r, i)
        BY <2>2, <2>3, <3>4 DEF Mixing
      <4>2. QED
        BY <2>3, <3>1, <3>2, <4>1, TurnedOnce
    <3>5. QED
      BY <2>4, <3>3, <3>4
  <2>5. QED
    BY <2>2, <2>4 DEF TypeOK, Typed, Running, States, Results
<1>2. QED
  BY <1>1, AlwaysInv, PTL

\* The lanes share one table and one X, and no lane shows in another: each ends
\* as ROMix of what the first PBKDF2 gave it.
THEOREM LanesAreApart ==
  ASSUME CipherKeeps(8)
  PROVE  Spec => []LanesApart
<1>1. IInv => LanesApart
  BY DEF IInv, Running, LaneIsApart, LanesApart
<1>2. QED
  BY <1>1, AlwaysInv, PTL

\* The buffer that is password and result at once ends as the key derived from the
\* password it was; a call that fails leaves it as it was.
THEOREM KeysAreStretched ==
  ASSUME CipherKeeps(8)
  PROVE  Spec => []KeyIsStretched
<1>1. IInv => KeyIsStretched
  BY DEF IInv
<1>2. QED
  BY <1>1, AlwaysInv, PTL

\* What PBKDF2_SKEIN512 derives is the MAC that Skein promises, of salt and counter
\* under the password: the first half of each.
THEOREM PbkdfIsMac ==
  ASSUME CipherKeeps(8), NEW passwd \in Seq(Byte), NEW salt \in Seq(Byte), NEW k \in Nat
  PROVE  PbkdfBlock(PbkdfInit(passwd, salt), k)
           = SubSeq(SkeinOf(passwd, salt \o be32enc(k), 8), 1, 32)
<1>1. PICK c : c = PbkdfInit(passwd, salt)
  OBVIOUS
<1>2. Macing(c, 8, passwd, salt)
  BY <1>1, PbkdfState
<1>3. IsPart(PbkdfBlock(c, k), passwd, salt, k)
  BY <1>2, PbkdfBlockIs
<1>4. QED
  BY <1>1, <1>3 DEF IsPart

\* With Threefish nothing is asked of the cipher any more: the key is the one
\* derived from the password.
THEOREM ThreefishStretches ==
  ASSUME IsThreefish(8)
  PROVE  Spec => []KeyIsStretched
<1>1. CipherKeeps(8)
  BY ThreefishCipherKeeps
<1>2. QED
  BY <1>1, KeysAreStretched
===============================================================================
