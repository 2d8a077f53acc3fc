--------------------------- MODULE ThreefishProofs ----------------------------
(***************************************************************************)
(* Threefish makes blocks of blocks, and deciphering undoes enciphering,   *)
(* for every key, tweak and block of each of the three sizes.  First what  *)
(* this needs of numbers and words, which the proofs about Skein and Scrypt*)
(* need too.                                                               *)
(***************************************************************************)
EXTENDS Threefish, SequenceTheorems, WellFoundedInduction, TLAPS

-----------------------------------------------------------------------------
(* Induction over the naturals *)

LEMMA LeastNat ==
  ASSUME NEW T, T \subseteq Nat, T # {}
  PROVE  \E n \in T : \A m \in T : ~(m < n)
<1> DEFINE R == {ss \in Nat \X Nat : ss[1] < ss[2]}
<1>1. IsWellFoundedOn(R, Nat)
  BY NatLessThanWellFounded DEF OpToRel
<1> HIDE DEF R
<1>2. \E n \in T : \A m \in T : <<m, n>> \notin R
  BY <1>1, WFMin
<1>3. QED
  BY <1>2 DEF R

LEMMA NatInd ==
  ASSUME NEW S, 0 \in S, \A n \in Nat : n \in S => n + 1 \in S
  PROVE  \A n \in Nat : n \in S
<1>1. SUFFICES ASSUME NEW m \in Nat, m \notin S PROVE FALSE
  OBVIOUS
<1> DEFINE T == {n \in Nat : n \notin S}
<1>2. PICK n \in T : \A k \in T : ~(k < n)
  BY <1>1, LeastNat
<1>3. n - 1 \in Nat /\ n - 1 \notin T
  BY <1>2
<1>4. QED
  BY <1>3

\* All that f takes on is in T.
Within(f, n, T) == \A k \in 0 .. n : f[k] \in T

LEMMA StaysWithin ==
  ASSUME NEW f, NEW T, NEW n \in Nat, f[0] \in T, \A k \in 1 .. n : f[k - 1] \in T => f[k] \in T
  PROVE  Within(f, n, T)
<1> DEFINE S == {k \in Nat : k <= n => f[k] \in T}
<1>1. 0 \in S
  OBVIOUS
<1>2. ASSUME NEW k \in Nat, k \in S PROVE k + 1 \in S
  <2>1. SUFFICES ASSUME k + 1 <= n PROVE f[k + 1] \in T
    OBVIOUS
  <2>2. k + 1 \in 1 .. n /\ (k + 1) - 1 = k /\ f[k] \in T
    BY <1>2, <2>1
  <2>3. QED
    BY <2>2
<1> HIDE DEF S
<1>3. \A k \in Nat : k \in S
  BY <1>1, <1>2, NatInd
<1>4. QED
  BY <1>3 DEF S, Within

\* A recursion over 0 .. n has a solution.
Recurs(f, n, base, g) == f = [k \in 0 .. n |-> IF k = 0 THEN base ELSE g[k][f[k - 1]]]

LEMMA Recursion ==
  ASSUME NEW T, NEW base \in T, NEW n \in Nat, NEW g \in [1 .. n -> [T -> T]]
  PROVE  \E f : Recurs(f, n, base, g) /\ Within(f, n, T)
<1> DEFINE S == {k \in Nat : k <= n => \E f : Recurs(f, k, base, g)}
<1>1. 0 \in S
  <2>1. Recurs([k \in 0 .. 0 |-> base], 0, base, g)
    BY DEF Recurs
  <2>2. QED
    BY <2>1
<1>2. ASSUME NEW k \in Nat, k \in S PROVE k + 1 \in S
  <2>1. SUFFICES ASSUME k + 1 <= n PROVE \E f : Recurs(f, k + 1, base, g)
    OBVIOUS
  <2>2. PICK f : Recurs(f, k, base, g)
    BY <1>2, <2>1
  <2> DEFINE h == [i \in 0 .. k + 1 |-> IF i = k + 1 THEN g[k + 1][f[k]] ELSE f[i]]
  <2>3. ASSUME NEW i \in 0 .. k + 1
        PROVE  h[i] = IF i = 0 THEN base ELSE g[i][h[i - 1]]
    <3>1. CASE i = k + 1
      <4>1. h[i - 1] = f[k] /\ h[i] = g[k + 1][f[k]] /\ i # 0
        BY <3>1
      <4> HIDE DEF h
      <4>2. QED
        BY <3>1, <4>1
    <3>2. CASE i \in 0 .. k
      <4>1. h[i] = f[i] /\ (i # 0 => h[i - 1] = f[i - 1])
        BY <3>2
      <4>2. f[i] = IF i = 0 THEN base ELSE g[i][f[i - 1]]
        BY <3>2, <2>2 DEF Recurs
      <4> HIDE DEF h
      <4>3. QED
        BY <4>1, <4>2
    <3>3. QED
      BY <3>1, <3>2
  <2>4. Recurs(h, k + 1, base, g)
    BY <2>3 DEF Recurs
  <2> HIDE DEF h
  <2>5. QED
    BY <2>4
<1> HIDE DEF S
<1>3. n \in S
  BY <1>1, <1>2, NatInd
<1>4. PICK f : Recurs(f, n, base, g)
  BY <1>3 DEF S
<1>5. f[0] = base
  BY <1>4 DEF Recurs
<1>6. ASSUME NEW k \in 1 .. n, f[k - 1] \in T PROVE f[k] \in T
  <2>1. f[k] = g[k][f[k - 1]]
    BY <1>4 DEF Recurs
  <2>2. QED
    BY <1>6, <2>1
<1>7. Within(f, n, T)
  BY <1>5, <1>6, StaysWithin
<1>8. QED
  BY <1>4, <1>7

(* Words *)

LEMMA BaseFacts == Base \in Nat \ {0}
BY SMT DEF Base

LEMMA DigitFacts == \A n \in Int : n \in Digit <=> 0 <= n /\ n < Base
BY BaseFacts DEF Digit

LEMMA DigitNat == Digit \subseteq Nat
BY BaseFacts DEF Digit

LEMMA ByteFacts == Byte \subseteq Nat /\ \A n \in Nat : n \in Byte <=> n <= 255
BY DEF Byte

LEMMA WordOfDigits ==
  ASSUME NEW a \in Digit, NEW b \in Digit, NEW c \in Digit, NEW d \in Digit
  PROVE  <<a, b, c, d>> \in Word
BY DEF Word

LEMMA DigitOfWord ==
  ASSUME NEW x \in Word, NEW k \in 1 .. 4
  PROVE  x[k] \in Digit
BY DEF Word

LEMMA CarryWord ==
  ASSUME NEW a \in Int, NEW b \in Int, NEW c \in Int, NEW d \in Int
  PROVE  Carry(a, b, c, d) \in Word
<1> DEFINE b1 == b + (a \div Base)
           c1 == c + (b1 \div Base)
           d1 == d + (c1 \div Base)
<1>1. b1 \in Int /\ c1 \in Int /\ d1 \in Int
  BY BaseFacts
<1>2. \A n \in Int : n % Base \in Digit
  BY BaseFacts DEF Digit
<1>3. Carry(a, b, c, d) = <<a % Base, b1 % Base, c1 % Base, d1 % Base>>
  BY DEF Carry
<1> HIDE DEF b1, c1, d1
<1>4. QED
  BY <1>1, <1>2, <1>3, WordOfDigits

LEMMA SmallWord == \A n \in Nat : Small(n) \in Word
BY CarryWord DEF Small

LEMMA AddWord == \A x, y \in Word : Add(x, y) \in Word
<1>1. SUFFICES ASSUME NEW x \in Word, NEW y \in Word PROVE Add(x, y) \in Word
  OBVIOUS
<1>2. /\ x[1] \in Digit /\ x[2] \in Digit /\ x[3] \in Digit /\ x[4] \in Digit
      /\ y[1] \in Digit /\ y[2] \in Digit /\ y[3] \in Digit /\ y[4] \in Digit
  BY DigitOfWord
<1>3. QED
  <2>1. /\ x[1] + y[1] \in Int /\ x[2] + y[2] \in Int
        /\ x[3] + y[3] \in Int /\ x[4] + y[4] \in Int
    <3>1. \A c, d \in Digit : c + d \in Int
      BY DigitNat
    <3>2. QED
      BY <1>2, <3>1
  <2>2. Carry(x[1] + y[1], x[2] + y[2], x[3] + y[3], x[4] + y[4]) \in Word
    BY <2>1, CarryWord
  <2>3. QED
    BY <2>2 DEF Add

LEMMA DigitSum ==
  ASSUME NEW i \in Nat, NEW j \in Nat, NEW c \in Nat
  PROVE  /\ (((i % Base) + (j % Base)) + c) \div Base \in Nat
         /\ (((i % Base) + (j % Base)) + c) % Base = (i + j + c) % Base
         /\ (i \div Base) + (j \div Base) + ((((i % Base) + (j % Base)) + c) \div Base) =
              (i + j + c) \div Base
BY SMT DEF Base

LEMMA SmallIs ==
  ASSUME NEW n \in Nat
  PROVE  LET n1 == n \div Base
             n2 == n1 \div Base
             n3 == n2 \div Base
         IN  Small(n) = <<n % Base, n1 % Base, n2 % Base, n3 % Base>>
<1>1. \A k \in Nat : k \div Base \in Nat /\ 0 + (k \div Base) = k \div Base
  BY BaseFacts
<1>2. QED
  BY <1>1 DEF Small, Carry

\* Counting with words is counting modulo 2^64.
LEMMA AddSmall ==
  ASSUME NEW m \in Nat, NEW n \in Nat
  PROVE  Add(Small(m), Small(n)) = Small(m + n)
<1>1. \A k \in Nat : k \div Base \in Nat
  BY BaseFacts
<1>2. PICK m1 \in Nat : m1 = m \div Base
  BY <1>1
<1>3. PICK m2 \in Nat : m2 = m1 \div Base
  BY <1>1
<1>4. PICK m3 \in Nat : m3 = m2 \div Base
  BY <1>1
<1>5. PICK n1 \in Nat : n1 = n \div Base
  BY <1>1
<1>6. PICK n2 \in Nat : n2 = n1 \div Base
  BY <1>1
<1>7. PICK n3 \in Nat : n3 = n2 \div Base
  BY <1>1
<1>8. PICK c1 \in Nat : c1 = ((m % Base) + (n % Base)) \div Base
  BY SMT DEF Base
<1>9. PICK c2 \in Nat : c2 = (((m1 % Base) + (n1 % Base)) + c1) \div Base
  BY DigitSum
<1>10. PICK c3 \in Nat : c3 = (((m2 % Base) + (n2 % Base)) + c2) \div Base
  BY DigitSum
<1>11. /\ ((m % Base) + (n % Base)) % Base = (m + n) % Base
       /\ m1 + n1 + c1 = (m + n) \div Base
  BY <1>2, <1>5, <1>8, SMT DEF Base
<1>12. /\ (((m1 % Base) + (n1 % Base)) + c1) % Base = (m1 + n1 + c1) % Base
       /\ m2 + n2 + c2 = (m1 + n1 + c1) \div Base
  BY <1>3, <1>6, <1>9, DigitSum
<1>13. /\ (((m2 % Base) + (n2 % Base)) + c2) % Base = (m2 + n2 + c2) % Base
       /\ m3 + n3 + c3 = (m2 + n2 + c2) \div Base
  BY <1>4, <1>7, <1>10, DigitSum
<1>14. (((m3 % Base) + (n3 % Base)) + c3) % Base = (m3 + n3 + c3) % Base
  BY DigitSum
<1>15. /\ Small(m) = <<m % Base, m1 % Base, m2 % Base, m3 % Base>>
       /\ Small(n) = <<n % Base, n1 % Base, n2 % Base, n3 % Base>>
  BY <1>2, <1>3, <1>4, <1>5, <1>6, <1>7, SmallIs
<1>16. Small(m + n) = <<(m + n) % Base, (m1 + n1 + c1) % Base, (m2 + n2 + c2) % Base,
                        (m3 + n3 + c3) % Base>>
  BY <1>11, <1>12, <1>13, SmallIs
<1>17. Add(Small(m), Small(n)) =
         <<((m % Base) + (n % Base)) % Base, (((m1 % Base) + (n1 % Base)) + c1) % Base,
           (((m2 % Base) + (n2 % Base)) + c2) % Base, (((m3 % Base) + (n3 % Base)) + c3) % Base>>
  <2>1. PICK x : x = Small(m)
    OBVIOUS
  <2>2. PICK y : y = Small(n)
    OBVIOUS
  <2>3. /\ x[1] = m % Base /\ x[2] = m1 % Base /\ x[3] = m2 % Base /\ x[4] = m3 % Base
        /\ y[1] = n % Base /\ y[2] = n1 % Base /\ y[3] = n2 % Base /\ y[4] = n3 % Base
    BY <1>15, <2>1, <2>2
  <2>4. QED
    BY <2>1, <2>2, <2>3, <1>8, <1>9, <1>10 DEF Add, Carry
<1>18. QED
  BY <1>11, <1>12, <1>13, <1>14, <1>16, <1>17

XorUpTo(g, n) ==
  g = [a \in 0 .. n |-> [b \in Byte |->
         IF a = 0 THEN b ELSE ((a + b) % 2) + 2 * g[a \div 2][b \div 2]]]

LEMMA XorBitsEquation ==
  XorBits = [a \in Byte |-> [b \in Byte |->
               IF a = 0 THEN b ELSE ((a + b) % 2) + 2 * XorBits[a \div 2][b \div 2]]]
<1> DEFINE S == {n \in Nat : \E g : XorUpTo(g, n)}
<1>1. 0 \in S
  <2>1. XorUpTo([a \in 0 .. 0 |-> [b \in Byte |-> b]], 0)
    BY DEF XorUpTo
  <2>2. QED
    BY <2>1
<1>2. ASSUME NEW n \in Nat, n \in S PROVE n + 1 \in S
  <2>1. PICK g : XorUpTo(g, n)
    BY <1>2
  <2> DEFINE h == [a \in 0 .. n + 1 |->
                     IF a = n + 1 THEN [b \in Byte |-> ((a + b) % 2) + 2 * g[a \div 2][b \div 2]]
                     ELSE g[a]]
  <2>2. ASSUME NEW a \in 0 .. n + 1
        PROVE  h[a] = [b \in Byte |->
                         IF a = 0 THEN b ELSE ((a + b) % 2) + 2 * h[a \div 2][b \div 2]]
    <3>2. a # 0 => h[a \div 2] = g[a \div 2]
      OBVIOUS
    <3>3. CASE a = n + 1
      <4>1. h[a] = [b \in Byte |-> ((a + b) % 2) + 2 * g[a \div 2][b \div 2]] /\ a # 0
        BY <3>3
      <4>2. PICK half : half = g[a \div 2]
        OBVIOUS
      <4>3. h[a \div 2] = half
        BY <3>2, <4>1, <4>2
      <4>4. h[a] = [b \in Byte |-> ((a + b) % 2) + 2 * half[b \div 2]]
        BY <4>1, <4>2
      <4> HIDE DEF h
      <4>5. QED
        BY <4>1, <4>3, <4>4
    <3>4. CASE a \in 0 .. n
      <4>1. h[a] = g[a]
        BY <3>4
      <4>2. g[a] = [b \in Byte |->
                      IF a = 0 THEN b ELSE ((a + b) % 2) + 2 * g[a \div 2][b \div 2]]
        BY <2>1, <3>4 DEF XorUpTo
      <4>3. PICK half : half = g[a \div 2]
        OBVIOUS
      <4>4. a # 0 => h[a \div 2] = half
        BY <3>2, <4>3
      <4>5. g[a] = [b \in Byte |-> IF a = 0 THEN b ELSE ((a + b) % 2) + 2 * half[b \div 2]]
        BY <4>2, <4>3
      <4> HIDE DEF h
      <4>6. QED
        <5>1. CASE a = 0
          BY <4>1, <4>5, <5>1
        <5>2. CASE a # 0
          BY <4>1, <4>4, <4>5, <5>2
        <5>3. QED
          BY <5>1, <5>2
    <3>5. a = n + 1 \/ a \in 0 .. n
      OBVIOUS
    <3> HIDE DEF h
    <3>6. QED
      BY <3>3, <3>4, <3>5
  <2>3. XorUpTo(h, n + 1)
    BY <2>2 DEF XorUpTo
  <2> HIDE DEF h
  <2>4. QED
    BY <2>3
<1> HIDE DEF S
<1>3. 255 \in S
  BY <1>1, <1>2, NatInd
<1>4. \E g : XorUpTo(g, 255)
  BY <1>3 DEF S
<1>5. QED
  BY <1>4 DEF XorBits, XorUpTo, Byte

\* The digits of the two numbers, doubled in range.
LEMMA XorBitsBelow ==
  ASSUME NEW m \in Nat, 2 * m <= 256,
         \A a, b \in Nat : a < m /\ b < m => XorBits[a][b] \in Nat /\ XorBits[a][b] < m
  PROVE  \A a, b \in Nat : a < 2 * m /\ b < 2 * m => XorBits[a][b] \in Nat /\ XorBits[a][b] < 2 * m
<1>1. SUFFICES ASSUME NEW a \in Nat, NEW b \in Nat, a < 2 * m, b < 2 * m
               PROVE  XorBits[a][b] \in Nat /\ XorBits[a][b] < 2 * m
  OBVIOUS
<1>2. a \in Byte /\ b \in Byte
  BY <1>1, ByteFacts
<1>3. XorBits[a][b] = IF a = 0 THEN b ELSE ((a + b) % 2) + 2 * XorBits[a \div 2][b \div 2]
  <2>1. XorBits[a] = [c \in Byte |->
                        IF a = 0 THEN c ELSE ((a + c) % 2) + 2 * XorBits[a \div 2][c \div 2]]
    BY <1>2, XorBitsEquation
  <2>2. QED
    BY <1>2, <2>1
<1>4. /\ a \div 2 \in Nat /\ a \div 2 < m
      /\ b \div 2 \in Nat /\ b \div 2 < m
  BY <1>1
<1>5. XorBits[a \div 2][b \div 2] \in Nat /\ XorBits[a \div 2][b \div 2] < m
  BY <1>4
<1>6. QED
  BY <1>1, <1>3, <1>5

LEMMA XorBitsByte == \A a, b \in Byte : XorBits[a][b] \in Byte
<1> DEFINE P(m) == \A a, b \in Nat : a < m /\ b < m => XorBits[a][b] \in Nat /\ XorBits[a][b] < m
<1>1. P(1)
  <2>1. 0 \in Byte
    BY ByteFacts
  <2>2. XorBits[0][0] = 0
    BY <2>1, XorBitsEquation
  <2>3. QED
    BY <2>2
<1>2. \A m \in Nat : P(m) /\ 2 * m <= 256 => P(2 * m)
  BY XorBitsBelow
<1> HIDE DEF P
<1>3. P(2) /\ P(4) /\ P(8) /\ P(16) /\ P(32) /\ P(64) /\ P(128) /\ P(256)
  <2>1. P(2)
    BY <1>1, <1>2
  <2>2. P(4)
    BY <2>1, <1>2
  <2>3. P(8)
    BY <2>2, <1>2
  <2>4. P(16)
    BY <2>3, <1>2
  <2>5. P(32)
    BY <2>4, <1>2
  <2>6. P(64)
    BY <2>5, <1>2
  <2>7. P(128)
    BY <2>6, <1>2
  <2>8. P(256)
    BY <2>7, <1>2
  <2>9. QED
    BY <2>1, <2>2, <2>3, <2>4, <2>5, <2>6, <2>7, <2>8
<1>4. QED
  BY <1>3, ByteFacts DEF P

LEMMA BytesOfDigit ==
  ASSUME NEW d \in Digit
  PROVE  d \div 256 \in Byte /\ d % 256 \in Byte
<1>1. d \in Nat /\ d < 65536
  BY DigitNat, DigitFacts, SMT DEF Base
<1>2. d \div 256 \in Nat /\ d % 256 \in Nat /\ d \div 256 <= 255 /\ d % 256 <= 255
  BY <1>1, SMT
<1>3. QED
  BY <1>2, ByteFacts

LEMMA XorDigitDigit == \A a, b \in Digit : XorDigit(a, b) \in Digit
<1>1. SUFFICES ASSUME NEW a \in Digit, NEW b \in Digit PROVE XorDigit(a, b) \in Digit
  OBVIOUS
<1>2. \A d \in Digit : d \div 256 \in Byte /\ d % 256 \in Byte
  BY BytesOfDigit
<1>3. \A x, y \in Byte : XorByte[x][y] \in Byte
  BY XorBitsByte DEF XorByte
<1>4. XorByte[a \div 256][b \div 256] \in Byte /\ XorByte[a % 256][b % 256] \in Byte
  BY <1>2, <1>3
<1>5. \A x, y \in Byte : 256 * x + y \in Nat /\ 256 * x + y < 65536
  BY ByteFacts, SMT
<1>6. QED
  BY <1>4, <1>5, DigitFacts, SMT DEF XorDigit, Base

LEMMA XorWord ==
  ASSUME NEW x \in Word, NEW y \in Word
  PROVE  Xor(x, y) \in Word
<1>1. /\ x[1] \in Digit /\ x[2] \in Digit /\ x[3] \in Digit /\ x[4] \in Digit
      /\ y[1] \in Digit /\ y[2] \in Digit /\ y[3] \in Digit /\ y[4] \in Digit
  BY DigitOfWord
<1>2. QED
  BY <1>1, XorDigitDigit, WordOfDigits DEF Xor

LEMMA DivIs ==
  ASSUME NEW a \in Nat, NEW b \in Nat, b > 0, NEW k \in Nat, k * b <= a, a < k * b + b
  PROVE  a \div b = k
<1>1. PICK d \in Nat : d = a \div b
  OBVIOUS
<1>2. d * b <= a /\ a < d * b + b
  <2>1. b * (a \div b) <= a /\ a < b * (a \div b) + b
    OBVIOUS
  <2>2. b * d = d * b
    OBVIOUS
  <2>3. QED
    BY <1>1, <2>1, <2>2
<1>3. \A x, y \in Nat : x < y => x * b + b <= y * b
  <2>1. ASSUME NEW x \in Nat, NEW y \in Nat, x < y PROVE x * b + b <= y * b
    <3>1. x + 1 <= y
      BY <2>1
    <3>2. \A u, v \in Nat : u <= v => u * b <= v * b
      OBVIOUS
    <3>3. (x + 1) * b <= y * b /\ (x + 1) * b = x * b + b
      BY <3>1, <3>2
    <3>4. QED
      BY <3>3
  <2>2. QED
    BY <2>1
<1>4. ~(d < k) /\ ~(k < d)
  <2>1. CASE d < k
    <3>1. d * b + b <= k * b
      BY <1>3, <2>1
    <3>2. d * b \in Nat /\ k * b \in Nat
      OBVIOUS
    <3>3. QED
      BY <1>2, <3>1, <3>2
  <2>2. CASE k < d
    <3>1. k * b + b <= d * b
      BY <1>3, <2>2
    <3>2. d * b \in Nat /\ k * b \in Nat
      OBVIOUS
    <3>3. QED
      BY <1>2, <3>1, <3>2
  <2>3. QED
    BY <2>1, <2>2
<1>5. QED
  BY <1>1, <1>4

LEMMA ModIs ==
  ASSUME NEW a \in Nat, NEW b \in Nat, b > 0, NEW k \in Nat, NEW r \in Nat, r < b, a = k * b + r
  PROVE  a \div b = k /\ a % b = r
<1>1. a \div b = k
  <2>1. k * b <= a /\ a < k * b + b
    OBVIOUS
  <2>2. QED
    BY <2>1, DivIs
<1>2. PICK x : x = a % b
  OBVIOUS
<1>3. a = b * (a \div b) + x /\ x \in Int
  BY <1>2
<1>4. b * k = k * b
  OBVIOUS
<1>5. x = r
  BY <1>1, <1>3, <1>4
<1>6. QED
  BY <1>1, <1>2, <1>5

\* A digit moved up by a power of two, and what comes in below it.
LEMMA ShiftedDigit ==
  ASSUME NEW up \in Nat, NEW down \in Nat, up > 0, down > 0, up * down = Base,
         NEW l \in Digit, NEW h \in Digit
  PROVE  /\ ((l * up) % Base) + (h \div down) \in Digit
         /\ h \div down = (h * up) \div Base
<1>0. l \in Nat /\ h \in Nat /\ h < Base /\ Base \in Nat /\ Base > 0
  BY DigitFacts, BaseFacts, DigitNat
<1>1. PICK a \in Nat, b \in Nat : l = a * down + b /\ b < down
  <2>1. l = down * (l \div down) + (l % down) /\ l % down < down /\ l % down \in Nat /\ l \div down \in Nat
    BY <1>0
  <2>2. down * (l \div down) = (l \div down) * down
    BY <2>1
  <2>3. QED
    BY <2>1, <2>2
<1>2. PICK r \in Nat : r = b * up
  OBVIOUS
<1>3. r + up <= Base
  <2>1. (b + 1) * up <= down * up
    BY <1>1
  <2>2. (b + 1) * up = b * up + up /\ down * up = up * down
    OBVIOUS
  <2>3. QED
    BY <1>2, <2>1, <2>2
<1>4. l * up = a * Base + r
  <2>1. (a * down + b) * up = a * (up * down) + b * up
    OBVIOUS
  <2>2. QED
    BY <1>1, <1>2, <2>1
<1>5. PICK x \in Nat : x = l * up
  BY <1>0
<1>6. x % Base = r
  <2>1. r < Base
    BY <1>0, <1>3
  <2>2. x = a * Base + r
    BY <1>4, <1>5
  <2>3. PICK base \in Nat : base = Base /\ base > 0
    BY <1>0
  <2>4. r < base /\ x = a * base + r
    BY <2>1, <2>2, <2>3
  <2>5. x % base = r
    BY <2>3, <2>4, ModIs
  <2>6. QED
    BY <2>3, <2>5
<1>7. PICK d \in Nat, e \in Nat : d = h \div down /\ h = d * down + e /\ e < down
  <2>1. h = down * (h \div down) + (h % down) /\ h % down < down /\ h % down \in Nat /\ h \div down \in Nat
    BY <1>0
  <2>2. down * (h \div down) = (h \div down) * down
    BY <2>1
  <2>3. QED
    BY <2>1, <2>2
<1>8. d < up
  <2>1. up <= d => up * down <= d * down
    OBVIOUS
  <2>2. QED
    BY <1>0, <1>7, <2>1
<1>9. PICK y \in Nat : y = h * up
  BY <1>0
<1>10. y \div Base = d
  <2>1. PICK z \in Nat : z = e * up
    OBVIOUS
  <2>2. z < Base
    <3>1. (e + 1) * up <= down * up
      BY <1>7
    <3>2. (e + 1) * up = e * up + up /\ down * up = up * down
      OBVIOUS
    <3>3. QED
      BY <2>1, <3>1, <3>2
  <2>3. (d * down + e) * up = d * (up * down) + e * up
    OBVIOUS
  <2>4. y = d * Base + z
    BY <1>7, <1>9, <2>1, <2>3
  <2>5. QED
    BY <1>0, <2>2, <2>4, ModIs
<1>11. r + d \in Digit
  <2>1. r + d \in Int /\ 0 <= r + d /\ r + d < Base
    BY <1>0, <1>3, <1>8
  <2>2. QED
    BY <2>1, DigitFacts
<1>12. QED
  BY <1>5, <1>6, <1>7, <1>9, <1>10, <1>11


LEMMA XorBlockBlock ==
  ASSUME NEW n \in Nat, NEW x \in Block(n), NEW y \in Block(n)
  PROVE  XorBlock(x, y) \in Block(n)
BY XorWord DEF XorBlock, Block

LEMMA ZeroBlockBlock ==
  ASSUME NEW n \in Nat
  PROVE  ZeroBlock(n) \in Block(n)
BY SmallWord DEF ZeroBlock, Block, Zero

-----------------------------------------------------------------------------
(* Words that are added, exclusive or'd and turned, and back *)

LEMMA SubWord ==
  ASSUME NEW x \in Word, NEW y \in Word
  PROVE  Sub(x, y) \in Word
<1>1. \A c, d \in Digit : c - d \in Int
  BY DigitNat
<1>2. /\ x[1] - y[1] \in Int /\ x[2] - y[2] \in Int
      /\ x[3] - y[3] \in Int /\ x[4] - y[4] \in Int
  BY <1>1, DigitOfWord
<1>3. QED
  BY <1>2, CarryWord DEF Sub

\* A digit of a sum, from which the one digit and the carry are taken again.
LEMMA BorrowDigit ==
  ASSUME NEW x \in Nat, x < Base, NEW y \in Nat, NEW c \in Nat, NEW t \in Nat, t = x + y + c
  PROVE  /\ (((t % Base) - y) + (0 - c)) % Base = x
         /\ (((t % Base) - y) + (0 - c)) \div Base = 0 - (t \div Base)
         /\ t \div Base \in Nat
BY SMT DEF Base

LEMMA DigitBound == \A d \in Digit : d \in Nat /\ d < Base
<1>1. \A d \in Digit : d \in Int
  BY DigitNat
<1>2. QED
  BY <1>1, DigitNat, DigitFacts

LEMMA SubAdd ==
  ASSUME NEW x \in Word, NEW y \in Word
  PROVE  Sub(Add(x, y), y) = x
<1>1. \A k \in 1 .. 4 : x[k] \in Nat /\ x[k] < Base /\ y[k] \in Nat
  <2>1. SUFFICES ASSUME NEW k \in 1 .. 4 PROVE x[k] \in Nat /\ x[k] < Base /\ y[k] \in Nat
    OBVIOUS
  <2>2. x[k] \in Digit /\ y[k] \in Digit
    BY DigitOfWord
  <2>3. QED
    BY <2>2, DigitBound
<1>2. PICK t1 \in Nat : t1 = x[1] + y[1]
  BY <1>1
<1>3. PICK c1 \in Nat : c1 = t1 \div Base
  BY BaseFacts
<1>4. PICK t2 \in Nat : t2 = x[2] + y[2] + c1
  BY <1>1
<1>5. PICK c2 \in Nat : c2 = t2 \div Base
  BY BaseFacts
<1>6. PICK t3 \in Nat : t3 = x[3] + y[3] + c2
  BY <1>1
<1>7. PICK c3 \in Nat : c3 = t3 \div Base
  BY BaseFacts
<1>8. PICK t4 \in Nat : t4 = x[4] + y[4] + c3
  BY <1>1
<1>9. PICK z : z = Add(x, y)
  OBVIOUS
<1>10. z[1] = t1 % Base /\ z[2] = t2 % Base /\ z[3] = t3 % Base /\ z[4] = t4 % Base
  BY <1>2, <1>3, <1>4, <1>5, <1>6, <1>7, <1>8, <1>9 DEF Add, Carry
<1>11. ((t1 % Base) - y[1]) % Base = x[1] /\ ((t1 % Base) - y[1]) \div Base = 0 - c1
  BY <1>1, <1>2, <1>3, SMT DEF Base
<1>12. /\ (((t2 % Base) - y[2]) + (0 - c1)) % Base = x[2]
       /\ (((t2 % Base) - y[2]) + (0 - c1)) \div Base = 0 - c2
  BY <1>1, <1>4, <1>5, BorrowDigit
<1>13. /\ (((t3 % Base) - y[3]) + (0 - c2)) % Base = x[3]
       /\ (((t3 % Base) - y[3]) + (0 - c2)) \div Base = 0 - c3
  BY <1>1, <1>6, <1>7, BorrowDigit
<1>14. (((t4 % Base) - y[4]) + (0 - c3)) % Base = x[4]
  BY <1>1, <1>8, BorrowDigit
<1>15. Sub(z, y) = <<x[1], x[2], x[3], x[4]>>
  BY <1>10, <1>11, <1>12, <1>13, <1>14 DEF Sub, Carry
<1>16. x = <<x[1], x[2], x[3], x[4]>>
  BY DEF Word
<1>17. QED
  BY <1>9, <1>15, <1>16

\* Exclusive or undoes itself, from the lowest bits on.
Undone(m) ==
  \A a, b \in Nat : a < m /\ b < m =>
    /\ XorBits[a][b] \in Nat /\ XorBits[a][b] < m
    /\ XorBits[XorBits[a][b]][b] = a

LEMMA XorBitsAt ==
  ASSUME NEW a \in Byte, NEW b \in Byte
  PROVE  XorBits[a][b] = IF a = 0 THEN b ELSE ((a + b) % 2) + 2 * XorBits[a \div 2][b \div 2]
<1>1. XorBits[a] = [c \in Byte |->
                      IF a = 0 THEN c ELSE ((a + c) % 2) + 2 * XorBits[a \div 2][c \div 2]]
  BY XorBitsEquation
<1>2. QED
  BY <1>1

LEMMA UndoneTwice ==
  ASSUME NEW m \in Nat, 2 * m <= 256, m > 0, Undone(m)
  PROVE  Undone(2 * m)
<1>1. SUFFICES ASSUME NEW a \in Nat, NEW b \in Nat, a < 2 * m, b < 2 * m
               PROVE  /\ XorBits[a][b] \in Nat /\ XorBits[a][b] < 2 * m
                      /\ XorBits[XorBits[a][b]][b] = a
  BY DEF Undone
<1>2. a \in Byte /\ b \in Byte
  BY <1>1, ByteFacts
<1>3. PICK r : r = XorBits[a][b]
  OBVIOUS
<1>4. PICK ah \in Nat, bh \in Nat, al \in {0, 1}, bl \in {0, 1} :
        a = 2 * ah + al /\ b = 2 * bh + bl
  <2>1. /\ a \div 2 \in Nat /\ b \div 2 \in Nat /\ a % 2 \in {0, 1} /\ b % 2 \in {0, 1}
        /\ a = 2 * (a \div 2) + (a % 2) /\ b = 2 * (b \div 2) + (b % 2)
    OBVIOUS
  <2>2. QED
    BY <2>1
<1>5. ah < m /\ bh < m /\ a \div 2 = ah /\ b \div 2 = bh
  BY <1>1, <1>4
<1>6. PICK q \in Nat : q = XorBits[ah][bh] /\ q < m /\ XorBits[q][bh] = ah
  BY <1>5 DEF Undone
<1>7. 0 < m /\ XorBits[0][bh] = bh
  <2>1. 0 \in Byte /\ bh \in Byte
    BY <1>5, ByteFacts
  <2>2. QED
    BY <2>1, XorBitsAt
<1>8. XorBits[bh][bh] = 0
  BY <1>5, <1>7 DEF Undone
<1>9. CASE a = 0
  <2>1. r = b
    BY <1>2, <1>3, <1>9, XorBitsAt
  <2>2. XorBits[b][b] = 0
    <3>1. XorBits[b][b] = IF b = 0 THEN b ELSE ((b + b) % 2) + 2 * XorBits[b \div 2][b \div 2]
      BY <1>2, XorBitsAt
    <3>2. (b + b) % 2 = 0
      OBVIOUS
    <3>3. QED
      BY <3>1, <3>2, <1>5, <1>8
  <2>3. QED
    BY <1>1, <1>3, <1>9, <2>1, <2>2
<1>10. CASE a # 0
  <2>1. r = ((a + b) % 2) + 2 * q
    BY <1>2, <1>3, <1>5, <1>6, <1>10, XorBitsAt
  <2>2. PICK bit \in {0, 1} : bit = (a + b) % 2
    OBVIOUS
  <2>3. r \in Nat /\ r < 2 * m /\ r = bit + 2 * q /\ r \div 2 = q
    <3>1. r = bit + 2 * q
      BY <2>1, <2>2
    <3>2. \A y \in {0, 1}, z \in Nat : (y + 2 * z) \div 2 = z /\ y + 2 * z \in Nat /\ y + 2 * z < 2 * (z + 1)
      OBVIOUS
    <3>3. \A z \in Nat : z < m => 2 * (z + 1) <= 2 * m
      OBVIOUS
    <3>4. 2 * (q + 1) <= 2 * m
      BY <1>6, <3>3
    <3>5. r \in Nat /\ r \div 2 = q /\ r < 2 * (q + 1)
      BY <1>6, <2>2, <3>1, <3>2
    <3>6. QED
      BY <1>6, <3>1, <3>4, <3>5
  <2>4. r \in Byte
    <3>1. r \in Nat /\ r < 2 * m
      BY <2>3
    <3>2. r <= 255
      BY <3>1
    <3>3. QED
      BY <3>1, <3>2, ByteFacts
  <2>5. XorBits[r][b] = IF r = 0 THEN b ELSE ((r + b) % 2) + 2 * ah
    <3>1. XorBits[r][b] = IF r = 0 THEN b ELSE ((r + b) % 2) + 2 * XorBits[r \div 2][b \div 2]
      BY <1>2, <2>4, XorBitsAt
    <3>2. r \div 2 = q /\ b \div 2 = bh
      BY <1>5, <2>3
    <3>3. QED
      BY <1>6, <3>1, <3>2
  <2>6. CASE r = 0
    <3>1. bit = 0 /\ q = 0
      BY <2>3, <2>6
    <3>2. ah = bh
      BY <1>6, <1>7, <3>1
    <3>3. a = b
      BY <1>4, <2>2, <3>1, <3>2
    <3>4. QED
      BY <1>3, <2>3, <2>5, <2>6, <3>3
  <2>7. CASE r # 0
    <3>1. (r + b) % 2 = al
      BY <1>4, <2>2, <2>3
    <3>2. QED
      BY <1>3, <1>4, <2>3, <2>5, <2>7, <3>1
  <2>8. QED
    BY <2>6, <2>7
<1>11. QED
  BY <1>9, <1>10

LEMMA XorBitsTwice == \A a, b \in Byte : XorBits[XorBits[a][b]][b] = a
<1>1. Undone(1)
  <2>1. 0 \in Byte
    BY ByteFacts
  <2>2. XorBits[0][0] = 0
    BY <2>1, XorBitsAt
  <2>3. QED
    BY <2>2 DEF Undone
<1>2. \A m \in Nat : m > 0 /\ Undone(m) /\ 2 * m <= 256 => Undone(2 * m)
  BY UndoneTwice
<1>3. Undone(2)
  BY <1>1, <1>2
<1>4. Undone(4)
  BY <1>3, <1>2
<1>5. Undone(8)
  BY <1>4, <1>2
<1>6. Undone(16)
  BY <1>5, <1>2
<1>7. Undone(32)
  BY <1>6, <1>2
<1>8. Undone(64)
  BY <1>7, <1>2
<1>9. Undone(128)
  BY <1>8, <1>2
<1>10. Undone(256)
  BY <1>9, <1>2
<1>11. \A a \in Byte : a \in Nat /\ a < 256
  BY DEF Byte
<1>12. QED
  BY <1>10, <1>11 DEF Undone

LEMMA XorDigitTwice ==
  ASSUME NEW a \in Digit, NEW b \in Digit
  PROVE  XorDigit(XorDigit(a, b), b) = a
<1>1. /\ a \div 256 \in Byte /\ a % 256 \in Byte
      /\ b \div 256 \in Byte /\ b % 256 \in Byte
  BY BytesOfDigit
<1>2. PICK h \in Byte : h = XorBits[a \div 256][b \div 256]
  BY <1>1, XorBitsByte
<1>3. PICK l \in Byte : l = XorBits[a % 256][b % 256]
  BY <1>1, XorBitsByte
<1>4. XorDigit(a, b) = 256 * h + l
  BY <1>1, <1>2, <1>3 DEF XorDigit, XorByte
<1>5. (256 * h + l) \div 256 = h /\ (256 * h + l) % 256 = l
  BY SMT DEF Byte
<1>6. XorBits[h][b \div 256] = a \div 256 /\ XorBits[l][b % 256] = a % 256
  BY <1>1, <1>2, <1>3, XorBitsTwice
<1>7. XorDigit(256 * h + l, b) = 256 * (a \div 256) + (a % 256)
  BY <1>1, <1>5, <1>6 DEF XorDigit, XorByte
<1>8. a \in Nat
  BY DigitNat
<1>9. QED
  BY <1>4, <1>7, <1>8

LEMMA XorTwice ==
  ASSUME NEW x \in Word, NEW y \in Word
  PROVE  Xor(Xor(x, y), y) = x
<1>1. \A k \in 1 .. 4 : XorDigit(XorDigit(x[k], y[k]), y[k]) = x[k]
  BY DigitOfWord, XorDigitTwice
<1>2. x = <<x[1], x[2], x[3], x[4]>>
  BY DEF Word
<1>3. PICK z : z = Xor(x, y)
  OBVIOUS
<1>4. /\ z[1] = XorDigit(x[1], y[1]) /\ z[2] = XorDigit(x[2], y[2])
      /\ z[3] = XorDigit(x[3], y[3]) /\ z[4] = XorDigit(x[4], y[4])
  BY <1>3 DEF Xor
<1>5. Xor(z, y) = <<x[1], x[2], x[3], x[4]>>
  BY <1>1, <1>4 DEF Xor
<1>6. QED
  BY <1>2, <1>3, <1>5

\* A digit shifted by s bits: what stays of it, and what goes over to the next.
Shifting(up, down) == up \in Nat /\ down \in Nat /\ up > 0 /\ down > 0 /\ up * down = Base

Shifted(l, h, up, down) == ((l * up) % Base) + (h \div down)

LEMMA DigitSplit ==
  ASSUME NEW up, NEW down, Shifting(up, down), NEW d \in Digit
  PROVE  \E a \in Nat, b \in Nat :
           /\ d = a * down + b /\ b < down /\ a < up
           /\ d \div down = a /\ (d * up) % Base = b * up
<1>1. up \in Nat /\ down \in Nat /\ up > 0 /\ down > 0 /\ up * down = Base
  BY DEF Shifting
<1>2. d \in Nat /\ d < Base /\ Base \in Nat /\ Base > 0
  BY DigitBound, BaseFacts
<1>3. PICK a \in Nat, b \in Nat : d = a * down + b /\ b < down /\ d \div down = a
  <2>1. d = down * (d \div down) + (d % down) /\ d % down < down /\ d % down \in Nat /\ d \div down \in Nat
    BY <1>1, <1>2
  <2>2. down * (d \div down) = (d \div down) * down
    BY <1>1, <2>1
  <2>3. QED
    BY <2>1, <2>2
<1>4. a < up
  <2>1. SUFFICES ASSUME a >= up PROVE FALSE
    BY <1>1, <1>3
  <2>2. a * down >= up * down
    <3>1. PICK c \in Nat : a = up + c
      <4>1. a - up \in Nat /\ a = up + (a - up)
        BY <1>1, <1>3, <2>1
      <4>2. QED
        BY <4>1
    <3>2. a * down = up * down + c * down /\ c * down \in Nat /\ up * down \in Nat
      BY <1>1, <3>1
    <3>3. QED
      BY <3>2
  <2>3. PICK e \in Nat : e = a * down
    BY <1>1, <1>3
  <2>4. QED
    BY <1>1, <1>2, <1>3, <2>2, <2>3
<1>5. b * up < Base /\ b * up \in Nat
  <2>1. PICK c \in Nat : down = b + c /\ c > 0
    <3>1. down - b \in Nat /\ down = b + (down - b) /\ down - b > 0
      BY <1>1, <1>3
    <3>2. QED
      BY <3>1
  <2>2. down * up = b * up + c * up /\ c * up > 0 /\ c * up \in Nat /\ b * up \in Nat
    BY <1>1, <2>1
  <2>3. down * up = up * down
    BY <1>1
  <2>4. QED
    BY <1>1, <2>2, <2>3
<1>6. d * up = a * Base + b * up
  <2>1. d * up = (a * down) * up + b * up
    BY <1>1, <1>3
  <2>2. (a * down) * up = a * (up * down)
    BY <1>1
  <2>3. QED
    BY <1>1, <2>1, <2>2
<1>7. (d * up) % Base = b * up
  <2>1. PICK x \in Nat : x = d * up
    BY <1>1, <1>2
  <2>2. PICK y \in Nat : y = b * up /\ y < Base
    BY <1>5
  <2>3. x % Base = y
    BY <1>2, <1>6, <2>1, <2>2, ModIs
  <2>4. QED
    BY <2>1, <2>2, <2>3
<1>8. QED
  BY <1>3, <1>4, <1>7

\* Two neighbours turned and turned back give the digit they share.
LEMMA ShiftedBack ==
  ASSUME NEW up, NEW down, Shifting(up, down), NEW n \in Digit, NEW h \in Digit, NEW p \in Digit
  PROVE  Shifted(Shifted(n, h, up, down), Shifted(h, p, up, down), down, up) = h
<1>1. up \in Nat /\ down \in Nat /\ up > 0 /\ down > 0 /\ up * down = Base
  BY DEF Shifting
<1>2. h \in Nat /\ h < Base /\ Base \in Nat /\ Base > 0
  BY DigitBound, BaseFacts
<1>3. PICK a \in Nat, b \in Nat : /\ h = a * down + b /\ b < down /\ a < up
                                  /\ h \div down = a /\ (h * up) % Base = b * up
  BY DigitSplit
<1>4. PICK n0 \in Nat : (n * up) % Base = n0 * up
  BY DigitSplit
<1>5. PICK p1 \in Nat : p \div down = p1 /\ p1 < up
  BY DigitSplit
<1>6. PICK s \in Nat : s = Shifted(n, h, up, down) /\ s = n0 * up + a
  <2>1. n0 * up + a \in Nat
    BY <1>1
  <2>2. QED
    BY <1>3, <1>4, <2>1 DEF Shifted
<1>7. PICK t \in Nat : t = Shifted(h, p, up, down) /\ t = b * up + p1
  <2>1. b * up + p1 \in Nat
    BY <1>1
  <2>2. QED
    BY <1>3, <1>5, <2>1 DEF Shifted
<1>8. PICK ad \in Nat : ad = a * down /\ ad < Base /\ h = ad + b
  <2>1. a * down \in Nat
    BY <1>1
  <2>2. QED
    BY <1>2, <1>3, <2>1
<1>9. s * down = n0 * Base + ad
  <2>1. s * down = (n0 * up) * down + a * down
    BY <1>1, <1>6
  <2>2. (n0 * up) * down = n0 * (up * down)
    BY <1>1
  <2>3. QED
    BY <1>1, <1>8, <2>1, <2>2
<1>10. (s * down) % Base = ad
  <2>1. PICK x \in Nat : x = s * down
    BY <1>1
  <2>2. x % Base = ad
    BY <1>2, <1>8, <1>9, <2>1, ModIs
  <2>3. QED
    BY <2>1, <2>2
<1>11. t \div up = b
  BY <1>1, <1>5, <1>7, ModIs
<1>12. QED
  BY <1>6, <1>7, <1>8, <1>10, <1>11 DEF Shifted

LEMMA Pow2Shifts ==
  ASSUME NEW s \in 1 .. 15
  PROVE  /\ Shifting(Pow2[s], Pow2[16 - s])
         /\ Base \div Pow2[s] = Pow2[16 - s] /\ Base \div Pow2[16 - s] = Pow2[s]
<1>1. /\ Pow2[1] = 2 /\ Pow2[2] = 4 /\ Pow2[3] = 8 /\ Pow2[4] = 16 /\ Pow2[5] = 32
      /\ Pow2[6] = 64 /\ Pow2[7] = 128 /\ Pow2[8] = 256 /\ Pow2[9] = 512 /\ Pow2[10] = 1024
      /\ Pow2[11] = 2048 /\ Pow2[12] = 4096 /\ Pow2[13] = 8192 /\ Pow2[14] = 16384
      /\ Pow2[15] = 32768
  BY DEF Pow2
<1>2. <<s, 16 - s>> \in
        {<<1, 15>>, <<2, 14>>, <<3, 13>>, <<4, 12>>, <<5, 11>>, <<6, 10>>, <<7, 9>>, <<8, 8>>,
         <<9, 7>>, <<10, 6>>, <<11, 5>>, <<12, 4>>, <<13, 3>>, <<14, 2>>, <<15, 1>>}
  OBVIOUS
<1>3. \A a \in {2, 4, 8, 16, 32, 64, 128, 256} :
        \A b \in {256, 512, 1024, 2048, 4096, 8192, 16384, 32768} :
          a * b = 65536 => /\ 65536 \div a = b /\ 65536 \div b = a /\ b * a = 65536
                           /\ a \in Nat /\ b \in Nat /\ a > 0 /\ b > 0
  BY SMT
<1>4. /\ 2 * 32768 = 65536 /\ 4 * 16384 = 65536 /\ 8 * 8192 = 65536 /\ 16 * 4096 = 65536
      /\ 32 * 2048 = 65536 /\ 64 * 1024 = 65536 /\ 128 * 512 = 65536 /\ 256 * 256 = 65536
  BY SMT
<1>5. \E a \in {2, 4, 8, 16, 32, 64, 128, 256} :
        \E b \in {256, 512, 1024, 2048, 4096, 8192, 16384, 32768} :
          /\ a * b = 65536
          /\ \/ Pow2[s] = a /\ Pow2[16 - s] = b
             \/ Pow2[s] = b /\ Pow2[16 - s] = a
  BY <1>1, <1>2, <1>4
<1>6. PICK a \in {2, 4, 8, 16, 32, 64, 128, 256} :
        \E b \in {256, 512, 1024, 2048, 4096, 8192, 16384, 32768} :
          /\ a * b = 65536
          /\ \/ Pow2[s] = a /\ Pow2[16 - s] = b
             \/ Pow2[s] = b /\ Pow2[16 - s] = a
  BY <1>5
<1>7. PICK b \in {256, 512, 1024, 2048, 4096, 8192, 16384, 32768} :
        /\ a * b = 65536
        /\ \/ Pow2[s] = a /\ Pow2[16 - s] = b
           \/ Pow2[s] = b /\ Pow2[16 - s] = a
  BY <1>6
<1>8. /\ 65536 \div a = b /\ 65536 \div b = a /\ b * a = 65536
      /\ a \in Nat /\ b \in Nat /\ a > 0 /\ b > 0
  BY <1>3, <1>7
<1>9. PICK x : x = Pow2[s]
  OBVIOUS
<1>10. PICK y : y = Pow2[16 - s]
  OBVIOUS
<1>11. Base = 65536
  BY DEF Base
<1>12. Shifting(x, y) /\ Base \div x = y /\ Base \div y = x
  <2>1. (x = a /\ y = b) \/ (x = b /\ y = a)
    BY <1>7, <1>9, <1>10
  <2>2. Shifting(a, b) /\ Shifting(b, a) /\ Base \div a = b /\ Base \div b = a
    <3>1. a * b = Base /\ b * a = Base
      BY <1>7, <1>8, <1>11
    <3>2. QED
      BY <1>8, <1>11, <3>1 DEF Shifting
  <2>3. QED
    BY <2>1, <2>2
<1>13. QED
  BY <1>9, <1>10, <1>12

\* The four digits after a shift by s bits and q digits.
Rotated(x, q, up, down) ==
  CASE q = 0 -> <<Shifted(x[1], x[4], up, down), Shifted(x[2], x[1], up, down),
                  Shifted(x[3], x[2], up, down), Shifted(x[4], x[3], up, down)>>
    [] q = 1 -> <<Shifted(x[4], x[3], up, down), Shifted(x[1], x[4], up, down),
                  Shifted(x[2], x[1], up, down), Shifted(x[3], x[2], up, down)>>
    [] q = 2 -> <<Shifted(x[3], x[2], up, down), Shifted(x[4], x[3], up, down),
                  Shifted(x[1], x[4], up, down), Shifted(x[2], x[1], up, down)>>
    [] q = 3 -> <<Shifted(x[2], x[1], up, down), Shifted(x[3], x[2], up, down),
                  Shifted(x[4], x[3], up, down), Shifted(x[1], x[4], up, down)>>

LEMMA RotLIs ==
  ASSUME NEW x, NEW r \in 1 .. 63, NEW q \in 0 .. 3, q = r \div 16,
         NEW up, up = Pow2[r % 16], NEW down, down = Base \div up
  PROVE  RotL(x, r) = Rotated(x, q, up, down)
<1> DEFINE digit(i) == x[((i - q - 1) % 4) + 1]
<1>1. RotL(x, r) = <<Shifted(digit(1), digit(0), up, down), Shifted(digit(2), digit(1), up, down),
                     Shifted(digit(3), digit(2), up, down), Shifted(digit(4), digit(3), up, down)>>
  <2>1. 1 - 1 = 0 /\ 2 - 1 = 1 /\ 3 - 1 = 2 /\ 4 - 1 = 3
    OBVIOUS
  <2>2. QED
    BY <2>1 DEF RotL, Shifted
<1>2. CASE q = 0
  <2>1. /\ ((0 - q - 1) % 4) + 1 = 4 /\ ((1 - q - 1) % 4) + 1 = 1 /\ ((2 - q - 1) % 4) + 1 = 2
        /\ ((3 - q - 1) % 4) + 1 = 3 /\ ((4 - q - 1) % 4) + 1 = 4
    BY <1>2
  <2>2. /\ digit(0) = x[4] /\ digit(1) = x[1] /\ digit(2) = x[2]
        /\ digit(3) = x[3] /\ digit(4) = x[4]
    BY <2>1
  <2> HIDE DEF digit
  <2>3. QED
    BY <1>1, <1>2, <2>2 DEF Rotated
<1>3. CASE q = 1
  <2>1. /\ ((0 - q - 1) % 4) + 1 = 3 /\ ((1 - q - 1) % 4) + 1 = 4 /\ ((2 - q - 1) % 4) + 1 = 1
        /\ ((3 - q - 1) % 4) + 1 = 2 /\ ((4 - q - 1) % 4) + 1 = 3
    BY <1>3
  <2>2. /\ digit(0) = x[3] /\ digit(1) = x[4] /\ digit(2) = x[1]
        /\ digit(3) = x[2] /\ digit(4) = x[3]
    BY <2>1
  <2> HIDE DEF digit
  <2>3. QED
    BY <1>1, <1>3, <2>2 DEF Rotated
<1>4. CASE q = 2
  <2>1. /\ ((0 - q - 1) % 4) + 1 = 2 /\ ((1 - q - 1) % 4) + 1 = 3 /\ ((2 - q - 1) % 4) + 1 = 4
        /\ ((3 - q - 1) % 4) + 1 = 1 /\ ((4 - q - 1) % 4) + 1 = 2
    BY <1>4
  <2>2. /\ digit(0) = x[2] /\ digit(1) = x[3] /\ digit(2) = x[4]
        /\ digit(3) = x[1] /\ digit(4) = x[2]
    BY <2>1
  <2> HIDE DEF digit
  <2>3. QED
    BY <1>1, <1>4, <2>2 DEF Rotated
<1>5. CASE q = 3
  <2>1. /\ ((0 - q - 1) % 4) + 1 = 1 /\ ((1 - q - 1) % 4) + 1 = 2 /\ ((2 - q - 1) % 4) + 1 = 3
        /\ ((3 - q - 1) % 4) + 1 = 4 /\ ((4 - q - 1) % 4) + 1 = 1
    BY <1>5
  <2>2. /\ digit(0) = x[1] /\ digit(1) = x[2] /\ digit(2) = x[3]
        /\ digit(3) = x[4] /\ digit(4) = x[1]
    BY <2>1
  <2> HIDE DEF digit
  <2>3. QED
    BY <1>1, <1>5, <2>2 DEF Rotated
<1>6. q = 0 \/ q = 1 \/ q = 2 \/ q = 3
  OBVIOUS
<1>7. QED
  BY <1>2, <1>3, <1>4, <1>5, <1>6

LEMMA RotatedWord ==
  ASSUME NEW x \in Word, NEW q \in 0 .. 3, NEW up, NEW down, Shifting(up, down)
  PROVE  Rotated(x, q, up, down) \in Word
<1>1. \A l, h \in Digit : Shifted(l, h, up, down) \in Digit
  BY ShiftedDigit DEF Shifted, Shifting
<1>2. x[1] \in Digit /\ x[2] \in Digit /\ x[3] \in Digit /\ x[4] \in Digit
  BY DigitOfWord
<1>3. \A i, j \in 1 .. 4 : Shifted(x[i], x[j], up, down) \in Digit
  BY <1>1, DigitOfWord
<1>4. q = 0 \/ q = 1 \/ q = 2 \/ q = 3
  OBVIOUS
<1>5. CASE q = 0
  BY <1>3, <1>5, WordOfDigits DEF Rotated
<1>6. CASE q = 1
  BY <1>3, <1>6, WordOfDigits DEF Rotated
<1>7. CASE q = 2
  BY <1>3, <1>7, WordOfDigits DEF Rotated
<1>8. CASE q = 3
  BY <1>3, <1>8, WordOfDigits DEF Rotated
<1>9. QED
  BY <1>4, <1>5, <1>6, <1>7, <1>8

\* Shifted digits, turned back the rest of the way.
LEMMA RotatedBack ==
  ASSUME NEW x \in Word, NEW q \in 0 .. 3, NEW up, NEW down, Shifting(up, down)
  PROVE  Rotated(Rotated(x, q, up, down), 3 - q, down, up) = x
<1>1. x[1] \in Digit /\ x[2] \in Digit /\ x[3] \in Digit /\ x[4] \in Digit
  BY DigitOfWord
<1>2. \A n, h, p \in Digit :
        Shifted(Shifted(n, h, up, down), Shifted(h, p, up, down), down, up) = h
  BY ShiftedBack
<1>3. PICK a : a = Shifted(x[1], x[4], up, down)
  OBVIOUS
<1>4. PICK b : b = Shifted(x[2], x[1], up, down)
  OBVIOUS
<1>5. PICK c : c = Shifted(x[3], x[2], up, down)
  OBVIOUS
<1>6. PICK d : d = Shifted(x[4], x[3], up, down)
  OBVIOUS
<1>7. /\ Shifted(b, a, down, up) = x[1] /\ Shifted(c, b, down, up) = x[2]
      /\ Shifted(d, c, down, up) = x[3] /\ Shifted(a, d, down, up) = x[4]
  BY <1>1, <1>2, <1>3, <1>4, <1>5, <1>6
<1>8. x = <<x[1], x[2], x[3], x[4]>>
  BY DEF Word
<1>9. PICK y : y = Rotated(x, q, up, down)
  OBVIOUS
<1>10. q = 0 \/ q = 1 \/ q = 2 \/ q = 3
  OBVIOUS
<1>11. CASE q = 0
  <2>1. y = <<a, b, c, d>>
    BY <1>3, <1>4, <1>5, <1>6, <1>9, <1>11 DEF Rotated
  <2>2. 3 - q = 3
    BY <1>11
  <2>3. Rotated(y, 3, down, up) = <<x[1], x[2], x[3], x[4]>>
    BY <1>7, <2>1 DEF Rotated
  <2>4. QED
    BY <1>8, <1>9, <2>2, <2>3
<1>12. CASE q = 1
  <2>1. y = <<d, a, b, c>>
    BY <1>3, <1>4, <1>5, <1>6, <1>9, <1>12 DEF Rotated
  <2>2. 3 - q = 2
    BY <1>12
  <2>3. Rotated(y, 2, down, up) = <<x[1], x[2], x[3], x[4]>>
    BY <1>7, <2>1 DEF Rotated
  <2>4. QED
    BY <1>8, <1>9, <2>2, <2>3
<1>13. CASE q = 2
  <2>1. y = <<c, d, a, b>>
    BY <1>3, <1>4, <1>5, <1>6, <1>9, <1>13 DEF Rotated
  <2>2. 3 - q = 1
    BY <1>13
  <2>3. Rotated(y, 1, down, up) = <<x[1], x[2], x[3], x[4]>>
    BY <1>7, <2>1 DEF Rotated
  <2>4. QED
    BY <1>8, <1>9, <2>2, <2>3
<1>14. CASE q = 3
  <2>1. y = <<b, c, d, a>>
    BY <1>3, <1>4, <1>5, <1>6, <1>9, <1>14 DEF Rotated
  <2>2. 3 - q = 0
    BY <1>14
  <2>3. Rotated(y, 0, down, up) = <<x[1], x[2], x[3], x[4]>>
    BY <1>7, <2>1 DEF Rotated
  <2>4. QED
    BY <1>8, <1>9, <2>2, <2>3
<1>15. QED
  BY <1>10, <1>11, <1>12, <1>13, <1>14

LEMMA RotationSplit ==
  ASSUME NEW r \in 1 .. 63
  PROVE  \E q \in 0 .. 3, s \in 0 .. 15 :
           /\ r \div 16 = q /\ r % 16 = s /\ r = 16 * q + s
           /\ s # 0 => (64 - r) \div 16 = 3 - q /\ (64 - r) % 16 = 16 - s
           /\ s = 0 => q # 0 /\ (64 - r) \div 16 = 4 - q /\ (64 - r) % 16 = 0
<1>1. PICK q \in Int, s \in Int : q = r \div 16 /\ s = r % 16
  OBVIOUS
<1>2. q \in 0 .. 3 /\ s \in 0 .. 15 /\ r = 16 * q + s
  BY <1>1
<1>3. s # 0 => (64 - r) \div 16 = 3 - q /\ (64 - r) % 16 = 16 - s
  BY <1>2
<1>4. s = 0 => q # 0 /\ (64 - r) \div 16 = 4 - q /\ (64 - r) % 16 = 0
  BY <1>2
<1>5. QED
  BY <1>1, <1>2, <1>3, <1>4

\* No shift within the digits.
LEMMA NotShifted ==
  /\ Pow2[0] = 1 /\ Base \div 1 = Base /\ Shifting(1, Base)
  /\ \A l, h \in Digit : Shifted(l, h, 1, Base) = l
<1>1. Pow2[0] = 1
  BY DEF Pow2
<1>2. Base \div 1 = Base /\ Shifting(1, Base)
  BY SMT DEF Base, Shifting
<1>3. \A l, h \in Nat : l < Base /\ h < Base => Shifted(l, h, 1, Base) = l
  BY SMT DEF Shifted, Base
<1>4. QED
  BY <1>1, <1>2, <1>3, DigitBound

\* RotR(RotL(x, r), r) = x, and both make words.
LEMMA Rotations ==
  ASSUME NEW x \in Word, NEW r \in 1 .. 63
  PROVE  RotL(x, r) \in Word /\ RotR(x, r) \in Word /\ RotR(RotL(x, r), r) = x
<1>1. PICK q \in 0 .. 3, s \in 0 .. 15 :
        /\ r \div 16 = q /\ r % 16 = s
        /\ s # 0 => (64 - r) \div 16 = 3 - q /\ (64 - r) % 16 = 16 - s
        /\ s = 0 => q # 0 /\ (64 - r) \div 16 = 4 - q /\ (64 - r) % 16 = 0
  BY RotationSplit
<1>2. PICK back \in 1 .. 63 : back = 64 - r
  OBVIOUS
<1>3. CASE s # 0
  <2>1. PICK p \in 0 .. 3 : p = 3 - q
    OBVIOUS
  <2>2. PICK o \in 1 .. 15 : o = 16 - s
    BY <1>3
  <2>3. s \in 1 .. 15
    BY <1>3
  <2>4. PICK up : up = Pow2[s]
    OBVIOUS
  <2>5. PICK down : down = Pow2[o]
    OBVIOUS
  <2>6. Shifting(up, down) /\ Base \div up = down /\ Base \div down = up
    BY <2>2, <2>3, <2>4, <2>5, Pow2Shifts
  <2>7. Shifting(down, up)
    BY <2>6 DEF Shifting
  <2>8. \A y : RotL(y, r) = Rotated(y, q, up, down)
    BY <1>1, <2>4, <2>6, RotLIs
  <2>9. \A y : RotL(y, back) = Rotated(y, p, down, up)
    BY <1>1, <1>2, <1>3, <2>1, <2>2, <2>5, <2>6, RotLIs
  <2>10. \A y : RotR(y, r) = Rotated(y, p, down, up)
    BY <1>2, <2>9 DEF RotR
  <2>11. Rotated(Rotated(x, q, up, down), p, down, up) = x
    BY <2>1, <2>6, RotatedBack
  <2>12. Rotated(x, q, up, down) \in Word /\ Rotated(x, p, down, up) \in Word
    BY <2>6, <2>7, RotatedWord
  <2>13. QED
    BY <2>8, <2>10, <2>11, <2>12
<1>4. CASE s = 0
  <2>1. PICK p \in 0 .. 3 : p = 4 - q
    BY <1>1, <1>4
  <2>2. \A y : RotL(y, r) = Rotated(y, q, 1, Base)
    BY <1>1, <1>4, NotShifted, RotLIs
  <2>3. \A y : RotL(y, back) = Rotated(y, p, 1, Base)
    BY <1>1, <1>2, <1>4, <2>1, NotShifted, RotLIs
  <2>4. \A y : RotR(y, r) = Rotated(y, p, 1, Base)
    BY <1>2, <2>3 DEF RotR
  <2>5. Rotated(x, q, 1, Base) \in Word /\ Rotated(x, p, 1, Base) \in Word
    BY NotShifted, RotatedWord
  <2>6. \A y \in Word, i, j \in 1 .. 4 : Shifted(y[i], y[j], 1, Base) = y[i]
    BY NotShifted, DigitOfWord
  <2>7. \A y \in Word : /\ Rotated(y, 1, 1, Base) = <<y[4], y[1], y[2], y[3]>>
                        /\ Rotated(y, 2, 1, Base) = <<y[3], y[4], y[1], y[2]>>
                        /\ Rotated(y, 3, 1, Base) = <<y[2], y[3], y[4], y[1]>>
    <3>1. SUFFICES ASSUME NEW y \in Word
                   PROVE  /\ Rotated(y, 1, 1, Base) = <<y[4], y[1], y[2], y[3]>>
                          /\ Rotated(y, 2, 1, Base) = <<y[3], y[4], y[1], y[2]>>
                          /\ Rotated(y, 3, 1, Base) = <<y[2], y[3], y[4], y[1]>>
      OBVIOUS
    <3>2. Rotated(y, 1, 1, Base) = <<y[4], y[1], y[2], y[3]>>
      BY <2>6 DEF Rotated
    <3>3. Rotated(y, 2, 1, Base) = <<y[3], y[4], y[1], y[2]>>
      BY <2>6 DEF Rotated
    <3>4. Rotated(y, 3, 1, Base) = <<y[2], y[3], y[4], y[1]>>
      BY <2>6 DEF Rotated
    <3>5. QED
      BY <3>2, <3>3, <3>4
  <2>8. PICK z \in Word : z = Rotated(x, q, 1, Base)
    BY <2>5
  <2>9. x = <<x[1], x[2], x[3], x[4]>>
    BY DEF Word
  <2>10. (q = 1 /\ p = 3) \/ (q = 2 /\ p = 2) \/ (q = 3 /\ p = 1)
    BY <1>1, <1>4, <2>1
  <2>11. Rotated(z, p, 1, Base) = x
    <3>1. CASE q = 1 /\ p = 3
      <4>1. z = <<x[4], x[1], x[2], x[3]>>
        BY <2>7, <2>8, <3>1
      <4>2. Rotated(z, 3, 1, Base) = <<z[2], z[3], z[4], z[1]>>
        BY <2>7
      <4>3. QED
        BY <2>9, <3>1, <4>1, <4>2
    <3>2. CASE q = 2 /\ p = 2
      <4>1. z = <<x[3], x[4], x[1], x[2]>>
        BY <2>7, <2>8, <3>2
      <4>2. Rotated(z, 2, 1, Base) = <<z[3], z[4], z[1], z[2]>>
        BY <2>7
      <4>3. QED
        BY <2>9, <3>2, <4>1, <4>2
    <3>3. CASE q = 3 /\ p = 1
      <4>1. z = <<x[2], x[3], x[4], x[1]>>
        BY <2>7, <2>8, <3>3
      <4>2. Rotated(z, 1, 1, Base) = <<z[4], z[1], z[2], z[3]>>
        BY <2>7
      <4>3. QED
        BY <2>9, <3>3, <4>1, <4>2
    <3>4. QED
      BY <2>10, <3>1, <3>2, <3>3
  <2>12. QED
    BY <2>2, <2>4, <2>5, <2>8, <2>11
<1>5. QED
  BY <1>3, <1>4

-----------------------------------------------------------------------------
(* Rounds *)

\* The mixes of a round: each word of the block is in one of them.
Pairing(n, round) ==
  /\ \A m \in round : /\ m[1] \in 0 .. n - 1 /\ m[2] \in 0 .. n - 1 /\ m[1] # m[2]
                      /\ m[3] \in 1 .. 63
  /\ \A w \in 0 .. n - 1 : \E m \in round : w \in {m[1], m[2]}
  /\ \A m, l \in round : {m[1], m[2]} \cap {l[1], l[2]} # {} => m = l

LEMMA MixOfWord ==
  ASSUME NEW n \in Nat, NEW round, Pairing(n, round), NEW m \in round, NEW w \in 0 .. n - 1,
         w \in {m[1], m[2]}
  PROVE  (CHOOSE l \in round : w \in {l[1], l[2]}) = m
<1>1. \A l \in round : w \in {l[1], l[2]} => l = m
  <2>1. SUFFICES ASSUME NEW l \in round, w \in {l[1], l[2]} PROVE l = m
    OBVIOUS
  <2>2. {m[1], m[2]} \cap {l[1], l[2]} # {}
    BY <2>1
  <2>3. QED
    BY <2>1, <2>2 DEF Pairing
<1>2. \E l \in round : w \in {l[1], l[2]}
  OBVIOUS
<1>3. PICK c : c = CHOOSE l \in round : w \in {l[1], l[2]}
  OBVIOUS
<1>4. c \in round /\ w \in {c[1], c[2]}
  BY <1>2, <1>3
<1>5. QED
  BY <1>1, <1>3, <1>4

LEMMA WordsOfMix ==
  ASSUME NEW n \in Nat, NEW round, Pairing(n, round), NEW m \in round
  PROVE  /\ m[1] \in 0 .. n - 1 /\ m[2] \in 0 .. n - 1 /\ m[1] # m[2] /\ m[3] \in 1 .. 63
         /\ m[1] + 1 \in 1 .. n /\ (m[1] + 1) - 1 = m[1]
         /\ m[2] + 1 \in 1 .. n /\ (m[2] + 1) - 1 = m[2]
<1>1. m[1] \in 0 .. n - 1 /\ m[2] \in 0 .. n - 1 /\ m[1] # m[2] /\ m[3] \in 1 .. 63
  BY DEF Pairing
<1>2. \A k \in 0 .. n - 1 : k + 1 \in 1 .. n /\ (k + 1) - 1 = k
  OBVIOUS
<1>3. QED
  BY <1>1, <1>2

LEMMA MixAt ==
  ASSUME NEW n \in Nat, NEW round, Pairing(n, round), NEW x, DOMAIN x = 1 .. n, NEW m \in round
  PROVE  LET sum == Add(x[m[1] + 1], x[m[2] + 1])
         IN  /\ Mix(x, round)[m[1] + 1] = sum
             /\ Mix(x, round)[m[2] + 1] = Xor(RotL(x[m[2] + 1], m[3]), sum)
<1> DEFINE pair(w) == CHOOSE l \in round : w - 1 \in {l[1], l[2]}
           sum(l) == Add(x[l[1] + 1], x[l[2] + 1])
<1>1. /\ m[1] \in 0 .. n - 1 /\ m[2] \in 0 .. n - 1 /\ m[1] # m[2]
      /\ m[1] + 1 \in 1 .. n /\ (m[1] + 1) - 1 = m[1]
      /\ m[2] + 1 \in 1 .. n /\ (m[2] + 1) - 1 = m[2]
  BY WordsOfMix
<1>2. pair(m[1] + 1) = m
  BY <1>1, MixOfWord
<1>3. pair(m[2] + 1) = m
  BY <1>1, MixOfWord
<1>4. Mix(x, round) = [w \in 1 .. n |->
                         IF w - 1 = pair(w)[1] THEN sum(pair(w))
                         ELSE Xor(RotL(x[w], pair(w)[3]), sum(pair(w)))]
  BY DEF Mix
<1> HIDE DEF pair, sum
<1>5. Mix(x, round)[m[1] + 1] = sum(m)
  BY <1>1, <1>2, <1>4
<1>6. Mix(x, round)[m[2] + 1] = Xor(RotL(x[m[2] + 1], m[3]), sum(m))
  BY <1>1, <1>3, <1>4
<1>7. QED
  BY <1>5, <1>6 DEF sum

LEMMA UnmixAt ==
  ASSUME NEW n \in Nat, NEW round, Pairing(n, round), NEW x, DOMAIN x = 1 .. n, NEW m \in round
  PROVE  LET turned == RotR(Xor(x[m[2] + 1], x[m[1] + 1]), m[3])
         IN  /\ Unmix(x, round)[m[1] + 1] = Sub(x[m[1] + 1], turned)
             /\ Unmix(x, round)[m[2] + 1] = turned
<1> DEFINE pair(w) == CHOOSE l \in round : w - 1 \in {l[1], l[2]}
           turned(l) == RotR(Xor(x[l[2] + 1], x[l[1] + 1]), l[3])
<1>1. /\ m[1] \in 0 .. n - 1 /\ m[2] \in 0 .. n - 1 /\ m[1] # m[2]
      /\ m[1] + 1 \in 1 .. n /\ (m[1] + 1) - 1 = m[1]
      /\ m[2] + 1 \in 1 .. n /\ (m[2] + 1) - 1 = m[2]
  BY WordsOfMix
<1>2. pair(m[1] + 1) = m
  BY <1>1, MixOfWord
<1>3. pair(m[2] + 1) = m
  BY <1>1, MixOfWord
<1>4. Unmix(x, round) = [w \in 1 .. n |->
                           IF w - 1 = pair(w)[1] THEN Sub(x[w], turned(pair(w)))
                           ELSE turned(pair(w))]
  BY DEF Unmix
<1> HIDE DEF pair, turned
<1>5. Unmix(x, round)[m[1] + 1] = Sub(x[m[1] + 1], turned(m))
  BY <1>1, <1>2, <1>4
<1>6. Unmix(x, round)[m[2] + 1] = turned(m)
  BY <1>1, <1>3, <1>4
<1>7. QED
  BY <1>5, <1>6 DEF turned

\* What holds of both words of every mix holds of the block.
LEMMA EveryWord ==
  ASSUME NEW n \in Nat, NEW round, Pairing(n, round), NEW w \in 1 .. n
  PROVE  \E m \in round : w = m[1] + 1 \/ w = m[2] + 1
<1>1. w - 1 \in 0 .. n - 1 /\ w = (w - 1) + 1
  OBVIOUS
<1>2. PICK m \in round : w - 1 \in {m[1], m[2]}
  BY <1>1 DEF Pairing
<1>3. QED
  BY <1>1, <1>2

LEMMA MixBlock ==
  ASSUME NEW n \in Nat, NEW round, Pairing(n, round), NEW x \in Block(n)
  PROVE  Mix(x, round) \in Block(n)
<1>1. DOMAIN x = 1 .. n /\ \A w \in 1 .. n : x[w] \in Word
  BY DEF Block
<1>2. PICK y : y = Mix(x, round)
  OBVIOUS
<1>3. \A m \in round : y[m[1] + 1] \in Word /\ y[m[2] + 1] \in Word
  <2>1. SUFFICES ASSUME NEW m \in round PROVE y[m[1] + 1] \in Word /\ y[m[2] + 1] \in Word
    OBVIOUS
  <2>2. m[1] + 1 \in 1 .. n /\ m[2] + 1 \in 1 .. n /\ m[3] \in 1 .. 63
    BY WordsOfMix
  <2>3. PICK sum \in Word : sum = Add(x[m[1] + 1], x[m[2] + 1])
    BY <1>1, <2>2, AddWord
  <2>4. RotL(x[m[2] + 1], m[3]) \in Word
    BY <1>1, <2>2, Rotations
  <2>5. y[m[1] + 1] = sum /\ y[m[2] + 1] = Xor(RotL(x[m[2] + 1], m[3]), sum)
    BY <1>1, <1>2, <2>3, MixAt
  <2>6. QED
    BY <2>4, <2>5, XorWord
<1>4. \A w \in 1 .. n : y[w] \in Word
  BY <1>3, EveryWord
<1>5. y = [w \in 1 .. n |-> y[w]]
  BY <1>1, <1>2 DEF Mix
<1>6. QED
  BY <1>2, <1>4, <1>5 DEF Block

LEMMA UnmixBlock ==
  ASSUME NEW n \in Nat, NEW round, Pairing(n, round), NEW x \in Block(n)
  PROVE  Unmix(x, round) \in Block(n)
<1>1. DOMAIN x = 1 .. n /\ \A w \in 1 .. n : x[w] \in Word
  BY DEF Block
<1>2. PICK y : y = Unmix(x, round)
  OBVIOUS
<1>3. \A m \in round : y[m[1] + 1] \in Word /\ y[m[2] + 1] \in Word
  <2>1. SUFFICES ASSUME NEW m \in round PROVE y[m[1] + 1] \in Word /\ y[m[2] + 1] \in Word
    OBVIOUS
  <2>2. m[1] + 1 \in 1 .. n /\ m[2] + 1 \in 1 .. n /\ m[3] \in 1 .. 63
    BY WordsOfMix
  <2>3. Xor(x[m[2] + 1], x[m[1] + 1]) \in Word
    BY <1>1, <2>2, XorWord
  <2>4. PICK turned \in Word : turned = RotR(Xor(x[m[2] + 1], x[m[1] + 1]), m[3])
    BY <2>2, <2>3, Rotations
  <2>5. y[m[1] + 1] = Sub(x[m[1] + 1], turned) /\ y[m[2] + 1] = turned
    BY <1>1, <1>2, <2>4, UnmixAt
  <2>6. x[m[1] + 1] \in Word
    BY <1>1, <2>2
  <2>7. QED
    BY <2>5, <2>6, SubWord
<1>4. \A w \in 1 .. n : y[w] \in Word
  BY <1>3, EveryWord
<1>5. y = [w \in 1 .. n |-> y[w]]
  BY <1>1, <1>2 DEF Unmix
<1>6. QED
  BY <1>2, <1>4, <1>5 DEF Block

LEMMA UnmixMix ==
  ASSUME NEW n \in Nat, NEW round, Pairing(n, round), NEW x \in Block(n)
  PROVE  Unmix(Mix(x, round), round) = x
<1>1. DOMAIN x = 1 .. n /\ \A w \in 1 .. n : x[w] \in Word
  BY DEF Block
<1>2. PICK y : y = Mix(x, round)
  OBVIOUS
<1>3. PICK z : z = Unmix(y, round)
  OBVIOUS
<1>4. y \in Block(n) /\ DOMAIN y = 1 .. n
  BY <1>2, MixBlock DEF Block
<1>5. z \in Block(n)
  BY <1>3, <1>4, UnmixBlock
<1>6. \A m \in round : z[m[1] + 1] = x[m[1] + 1] /\ z[m[2] + 1] = x[m[2] + 1]
  <2>1. SUFFICES ASSUME NEW m \in round
                 PROVE  z[m[1] + 1] = x[m[1] + 1] /\ z[m[2] + 1] = x[m[2] + 1]
    OBVIOUS
  <2>2. m[1] + 1 \in 1 .. n /\ m[2] + 1 \in 1 .. n /\ m[3] \in 1 .. 63
    BY WordsOfMix
  <2>3. PICK a \in Word, b \in Word : a = x[m[1] + 1] /\ b = x[m[2] + 1]
    BY <1>1, <2>2
  <2>4. PICK sum \in Word : sum = Add(a, b)
    BY AddWord
  <2>5. y[m[1] + 1] = sum /\ y[m[2] + 1] = Xor(RotL(b, m[3]), sum)
    BY <1>1, <1>2, <2>3, <2>4, MixAt
  <2>6. RotL(b, m[3]) \in Word /\ RotR(RotL(b, m[3]), m[3]) = b
    BY <2>2, Rotations
  <2>7. RotR(Xor(y[m[2] + 1], y[m[1] + 1]), m[3]) = b
    BY <2>5, <2>6, XorTwice
  <2>8. z[m[1] + 1] = Sub(sum, b) /\ z[m[2] + 1] = b
    BY <1>3, <1>4, <2>5, <2>7, UnmixAt
  <2>9. QED
    BY <2>3, <2>4, <2>8, SubAdd
<1>7. \A w \in 1 .. n : z[w] = x[w]
  BY <1>6, EveryWord
<1>8. z = x
  BY <1>5, <1>7 DEF Block
<1>9. QED
  BY <1>2, <1>3, <1>8

-----------------------------------------------------------------------------
(* The tables *)

\* Eight rounds over all words of a block, and the same ones backwards.
Table(n, table) == \A i \in 1 .. 8 : Pairing(n, table[i])
Backwards(table, back) == \A i \in 1 .. 8 : back[9 - i] = table[i]

LEMMA BackwardsTable ==
  ASSUME NEW n \in Nat, NEW table, Table(n, table), NEW back, Backwards(table, back)
  PROVE  Table(n, back)
<1>1. \A i \in 1 .. 8 : 9 - i \in 1 .. 8 /\ 9 - (9 - i) = i
  OBVIOUS
<1>2. QED
  BY <1>1 DEF Table, Backwards

LEMMA Table256 == Table(4, Mixes256)
<1>1. Pairing(4, Mixes256[1])
  <2>1. Pairing(4, {<<0, 1, 14>>, <<2, 3, 16>>})
    BY DEF Pairing
  <2>2. QED
    BY <2>1 DEF Mixes256
<1>2. Pairing(4, Mixes256[2])
  <2>1. Pairing(4, {<<0, 3, 52>>, <<2, 1, 57>>})
    BY DEF Pairing
  <2>2. QED
    BY <2>1 DEF Mixes256
<1>3. Pairing(4, Mixes256[3])
  <2>1. Pairing(4, {<<0, 1, 23>>, <<2, 3, 40>>})
    BY DEF Pairing
  <2>2. QED
    BY <2>1 DEF Mixes256
<1>4. Pairing(4, Mixes256[4])
  <2>1. Pairing(4, {<<0, 3, 5>>, <<2, 1, 37>>})
    BY DEF Pairing
  <2>2. QED
    BY <2>1 DEF Mixes256
<1>5. Pairing(4, Mixes256[5])
  <2>1. Pairing(4, {<<0, 1, 25>>, <<2, 3, 33>>})
    BY DEF Pairing
  <2>2. QED
    BY <2>1 DEF Mixes256
<1>6. Pairing(4, Mixes256[6])
  <2>1. Pairing(4, {<<0, 3, 46>>, <<2, 1, 12>>})
    BY DEF Pairing
  <2>2. QED
    BY <2>1 DEF Mixes256
<1>7. Pairing(4, Mixes256[7])
  <2>1. Pairing(4, {<<0, 1, 58>>, <<2, 3, 22>>})
    BY DEF Pairing
  <2>2. QED
    BY <2>1 DEF Mixes256
<1>8. Pairing(4, Mixes256[8])
  <2>1. Pairing(4, {<<0, 3, 32>>, <<2, 1, 32>>})
    BY DEF Pairing
  <2>2. QED
    BY <2>1 DEF Mixes256
<1>9. QED
  BY <1>1, <1>2, <1>3, <1>4, <1>5, <1>6, <1>7, <1>8 DEF Table

LEMMA Backwards256 == Backwards(Mixes256, Unmixes256)
<1>1. Unmixes256[8] = Mixes256[1]
  BY DEF Mixes256, Unmixes256
<1>2. Unmixes256[7] = Mixes256[2]
  BY DEF Mixes256, Unmixes256
<1>3. Unmixes256[6] = Mixes256[3]
  BY DEF Mixes256, Unmixes256
<1>4. Unmixes256[5] = Mixes256[4]
  BY DEF Mixes256, Unmixes256
<1>5. Unmixes256[4] = Mixes256[5]
  BY DEF Mixes256, Unmixes256
<1>6. Unmixes256[3] = Mixes256[6]
  BY DEF Mixes256, Unmixes256
<1>7. Unmixes256[2] = Mixes256[7]
  BY DEF Mixes256, Unmixes256
<1>8. Unmixes256[1] = Mixes256[8]
  BY DEF Mixes256, Unmixes256
<1>9. /\ 9 - 1 = 8 /\ 9 - 2 = 7 /\ 9 - 3 = 6 /\ 9 - 4 = 5
      /\ 9 - 5 = 4 /\ 9 - 6 = 3 /\ 9 - 7 = 2 /\ 9 - 8 = 1
  OBVIOUS
<1>10. QED
  BY <1>1, <1>2, <1>3, <1>4, <1>5, <1>6, <1>7, <1>8, <1>9 DEF Backwards

LEMMA Table512 == Table(8, Mixes512)
<1>1. Pairing(8, Mixes512[1])
  <2>1. Pairing(8, {<<0, 1, 46>>, <<2, 3, 36>>, <<4, 5, 19>>, <<6, 7, 37>>})
    BY DEF Pairing
  <2>2. QED
    BY <2>1 DEF Mixes512
<1>2. Pairing(8, Mixes512[2])
  <2>1. Pairing(8, {<<2, 1, 33>>, <<4, 7, 27>>, <<6, 5, 14>>, <<0, 3, 42>>})
    BY DEF Pairing
  <2>2. QED
    BY <2>1 DEF Mixes512
<1>3. Pairing(8, Mixes512[3])
  <2>1. Pairing(8, {<<4, 1, 17>>, <<6, 3, 49>>, <<0, 5, 36>>, <<2, 7, 39>>})
    BY DEF Pairing
  <2>2. QED
    BY <2>1 DEF Mixes512
<1>4. Pairing(8, Mixes512[4])
  <2>1. Pairing(8, {<<6, 1, 44>>, <<0, 7, 9>>, <<2, 5, 54>>, <<4, 3, 56>>})
    BY DEF Pairing
  <2>2. QED
    BY <2>1 DEF Mixes512
<1>5. Pairing(8, Mixes512[5])
  <2>1. Pairing(8, {<<0, 1, 39>>, <<2, 3, 30>>, <<4, 5, 34>>, <<6, 7, 24>>})
    BY DEF Pairing
  <2>2. QED
    BY <2>1 DEF Mixes512
<1>6. Pairing(8, Mixes512[6])
  <2>1. Pairing(8, {<<2, 1, 13>>, <<4, 7, 50>>, <<6, 5, 10>>, <<0, 3, 17>>})
    BY DEF Pairing
  <2>2. QED
    BY <2>1 DEF Mixes512
<1>7. Pairing(8, Mixes512[7])
  <2>1. Pairing(8, {<<4, 1, 25>>, <<6, 3, 29>>, <<0, 5, 39>>, <<2, 7, 43>>})
    BY DEF Pairing
  <2>2. QED
    BY <2>1 DEF Mixes512
<1>8. Pairing(8, Mixes512[8])
  <2>1. Pairing(8, {<<6, 1, 8>>, <<0, 7, 35>>, <<2, 5, 56>>, <<4, 3, 22>>})
    BY DEF Pairing
  <2>2. QED
    BY <2>1 DEF Mixes512
<1>9. QED
  BY <1>1, <1>2, <1>3, <1>4, <1>5, <1>6, <1>7, <1>8 DEF Table

LEMMA Backwards512 == Backwards(Mixes512, Unmixes512)
<1>1. Unmixes512[8] = Mixes512[1]
  BY DEF Mixes512, Unmixes512
<1>2. Unmixes512[7] = Mixes512[2]
  BY DEF Mixes512, Unmixes512
<1>3. Unmixes512[6] = Mixes512[3]
  BY DEF Mixes512, Unmixes512
<1>4. Unmixes512[5] = Mixes512[4]
  BY DEF Mixes512, Unmixes512
<1>5. Unmixes512[4] = Mixes512[5]
  BY DEF Mixes512, Unmixes512
<1>6. Unmixes512[3] = Mixes512[6]
  BY DEF Mixes512, Unmixes512
<1>7. Unmixes512[2] = Mixes512[7]
  BY DEF Mixes512, Unmixes512
<1>8. Unmixes512[1] = Mixes512[8]
  BY DEF Mixes512, Unmixes512
<1>9. /\ 9 - 1 = 8 /\ 9 - 2 = 7 /\ 9 - 3 = 6 /\ 9 - 4 = 5
      /\ 9 - 5 = 4 /\ 9 - 6 = 3 /\ 9 - 7 = 2 /\ 9 - 8 = 1
  OBVIOUS
<1>10. QED
  BY <1>1, <1>2, <1>3, <1>4, <1>5, <1>6, <1>7, <1>8, <1>9 DEF Backwards

LEMMA Table1024 == Table(16, Mixes1024)
<1>1. Pairing(16, Mixes1024[1])
  <2>1. Pairing(16,
                {<<0, 1, 24>>, <<2, 3, 13>>, <<4, 5, 8>>, <<6, 7, 47>>,
                 <<8, 9, 8>>, <<10, 11, 17>>, <<12, 13, 22>>, <<14, 15, 37>>})
    BY DEF Pairing
  <2>2. QED
    BY <2>1 DEF Mixes1024
<1>2. Pairing(16, Mixes1024[2])
  <2>1. Pairing(16,
                {<<0, 9, 38>>, <<2, 13, 19>>, <<6, 11, 10>>, <<4, 15, 55>>,
                 <<10, 7, 49>>, <<12, 3, 18>>, <<14, 5, 23>>, <<8, 1, 52>>})
    BY DEF Pairing
  <2>2. QED
    BY <2>1 DEF Mixes1024
<1>3. Pairing(16, Mixes1024[3])
  <2>1. Pairing(16,
                {<<0, 7, 33>>, <<2, 5, 4>>, <<4, 3, 51>>, <<6, 1, 13>>,
                 <<12, 15, 34>>, <<14, 13, 41>>, <<8, 11, 59>>, <<10, 9, 17>>})
    BY DEF Pairing
  <2>2. QED
    BY <2>1 DEF Mixes1024
<1>4. Pairing(16, Mixes1024[4])
  <2>1. Pairing(16,
                {<<0, 15, 5>>, <<2, 11, 20>>, <<6, 13, 48>>, <<4, 9, 41>>,
                 <<14, 1, 47>>, <<8, 5, 28>>, <<10, 3, 16>>, <<12, 7, 25>>})
    BY DEF Pairing
  <2>2. QED
    BY <2>1 DEF Mixes1024
<1>5. Pairing(16, Mixes1024[5])
  <2>1. Pairing(16,
                {<<0, 1, 41>>, <<2, 3, 9>>, <<4, 5, 37>>, <<6, 7, 31>>,
                 <<8, 9, 12>>, <<10, 11, 47>>, <<12, 13, 44>>, <<14, 15, 30>>})
    BY DEF Pairing
  <2>2. QED
    BY <2>1 DEF Mixes1024
<1>6. Pairing(16, Mixes1024[6])
  <2>1. Pairing(16,
                {<<0, 9, 16>>, <<2, 13, 34>>, <<6, 11, 56>>, <<4, 15, 51>>,
                 <<10, 7, 4>>, <<12, 3, 53>>, <<14, 5, 42>>, <<8, 1, 41>>})
    BY DEF Pairing
  <2>2. QED
    BY <2>1 DEF Mixes1024
<1>7. Pairing(16, Mixes1024[7])
  <2>1. Pairing(16,
                {<<0, 7, 31>>, <<2, 5, 44>>, <<4, 3, 47>>, <<6, 1, 46>>,
                 <<12, 15, 19>>, <<14, 13, 42>>, <<8, 11, 44>>, <<10, 9, 25>>})
    BY DEF Pairing
  <2>2. QED
    BY <2>1 DEF Mixes1024
<1>8. Pairing(16, Mixes1024[8])
  <2>1. Pairing(16,
                {<<0, 15, 9>>, <<2, 11, 48>>, <<6, 13, 35>>, <<4, 9, 52>>,
                 <<14, 1, 23>>, <<8, 5, 31>>, <<10, 3, 37>>, <<12, 7, 20>>})
    BY DEF Pairing
  <2>2. QED
    BY <2>1 DEF Mixes1024
<1>9. QED
  BY <1>1, <1>2, <1>3, <1>4, <1>5, <1>6, <1>7, <1>8 DEF Table

LEMMA Backwards1024 == Backwards(Mixes1024, Unmixes1024)
<1>1. Unmixes1024[8] = Mixes1024[1]
  BY DEF Mixes1024, Unmixes1024
<1>2. Unmixes1024[7] = Mixes1024[2]
  BY DEF Mixes1024, Unmixes1024
<1>3. Unmixes1024[6] = Mixes1024[3]
  BY DEF Mixes1024, Unmixes1024
<1>4. Unmixes1024[5] = Mixes1024[4]
  BY DEF Mixes1024, Unmixes1024
<1>5. Unmixes1024[4] = Mixes1024[5]
  BY DEF Mixes1024, Unmixes1024
<1>6. Unmixes1024[3] = Mixes1024[6]
  BY DEF Mixes1024, Unmixes1024
<1>7. Unmixes1024[2] = Mixes1024[7]
  BY DEF Mixes1024, Unmixes1024
<1>8. Unmixes1024[1] = Mixes1024[8]
  BY DEF Mixes1024, Unmixes1024
<1>9. /\ 9 - 1 = 8 /\ 9 - 2 = 7 /\ 9 - 3 = 6 /\ 9 - 4 = 5
      /\ 9 - 5 = 4 /\ 9 - 6 = 3 /\ 9 - 7 = 2 /\ 9 - 8 = 1
  OBVIOUS
<1>10. QED
  BY <1>1, <1>2, <1>3, <1>4, <1>5, <1>6, <1>7, <1>8, <1>9 DEF Backwards

-----------------------------------------------------------------------------
(* Keys *)

\* A key context for blocks of n words.
KeyCtx(n) == [stateSize : {n}, key : Block(n + 1), tweak : Block(3)]

LEMMA ConstWord == KeyScheduleConst \in Word
<1>1. \h1BD1 \in Digit /\ \h1BDA \in Digit /\ \hA9FC \in Digit /\ \h1A22 \in Digit
  BY SMT DEF Digit, Base
<1>2. QED
  BY <1>1, WordOfDigits DEF KeyScheduleConst, Hex

LEMMA SetKeyCtx ==
  ASSUME NEW n \in Nat, NEW key \in Block(n), NEW tweak \in Block(2)
  PROVE  threefishSetKey(key, tweak) \in KeyCtx(n)
<1> DEFINE g == [k \in 1 .. n |-> [y \in Word |-> Xor(y, key[k])]]
           Is(f) == f = [i \in 0 .. Len(key) |->
                           IF i = 0 THEN KeyScheduleConst ELSE Xor(f[i - 1], key[i])]
<1>1. Len(key) = n /\ key \in Seq(Word) /\ \A k \in 1 .. n : key[k] \in Word
  BY DEF Block
<1>2. g \in [1 .. n -> [Word -> Word]]
  BY <1>1, XorWord
<1>3. PICK f : Recurs(f, n, KeyScheduleConst, g) /\ Within(f, n, Word)
  BY <1>2, ConstWord, Recursion
<1>4. \E h : Is(h)
  <2>1. \A k \in 1 .. n : f[k - 1] \in Word
    BY <1>3 DEF Within
  <2>2. f = [k \in 0 .. n |-> IF k = 0 THEN KeyScheduleConst ELSE g[k][f[k - 1]]]
    BY <1>3 DEF Recurs
  <2>3. \A k \in 1 .. n : g[k][f[k - 1]] = Xor(f[k - 1], key[k])
    BY <2>1
  <2> HIDE DEF g
  <2>4. Is(f)
    BY <1>1, <2>2, <2>3
  <2>5. QED
    BY <2>4
<1>5. PICK parity : parity = CHOOSE h : Is(h)
  OBVIOUS
<1>6. Is(parity)
  BY <1>4, <1>5
<1>7. /\ parity[0] \in Word
      /\ \A k \in 1 .. n : parity[k - 1] \in Word => parity[k] \in Word
  BY <1>1, <1>6, ConstWord, XorWord
<1>8. parity[n] \in Word
  BY <1>7, StaysWithin DEF Within
<1>9. threefishSetKey(key, tweak) =
        [stateSize |-> n, key |-> Append(key, parity[n]),
         tweak |-> <<tweak[1], tweak[2], Xor(tweak[1], tweak[2])>>]
  BY <1>1, <1>5 DEF threefishSetKey
<1> HIDE DEF Is, g
<1>10. Append(key, parity[n]) \in Block(n + 1)
  <2>1. DOMAIN key = 1 .. n
    BY DEF Block
  <2>2. PICK z : z = Append(key, parity[n])
    OBVIOUS
  <2>3. z \in Seq(Word) /\ Len(z) = n + 1
    BY <1>1, <1>8, <2>2
  <2>4. z \in [1 .. n + 1 -> Word]
    BY <2>3
  <2>5. QED
    BY <2>2, <2>4 DEF Block
<1>11. <<tweak[1], tweak[2], Xor(tweak[1], tweak[2])>> \in Block(3)
  <2>1. tweak[1] \in Word /\ tweak[2] \in Word
    BY DEF Block
  <2>2. Xor(tweak[1], tweak[2]) \in Word
    BY <2>1, XorWord
  <2>3. QED
    BY <2>1, <2>2 DEF Block
<1>12. QED
  BY <1>9, <1>10, <1>11 DEF KeyCtx

LEMMA SubKeyBlock ==
  ASSUME NEW n \in Nat, NEW ctx \in KeyCtx(n), NEW s \in Nat
  PROVE  SubKey(ctx, s) \in Block(n)
<1> DEFINE k(w) == ctx.key[((s + w - 1) % (n + 1)) + 1]
<1>1. ctx.stateSize = n /\ ctx.key \in Block(n + 1) /\ ctx.tweak \in Block(3)
  BY DEF KeyCtx
<1>2. ASSUME NEW w \in 1 .. n PROVE k(w) \in Word
  <2>1. s + w - 1 \in Nat /\ n + 1 \in Nat /\ n + 1 > 0
    OBVIOUS
  <2>2. (s + w - 1) % (n + 1) \in 0 .. n
    BY <2>1
  <2>3. ((s + w - 1) % (n + 1)) + 1 \in 1 .. n + 1
    BY <2>2
  <2>4. QED
    BY <1>1, <2>3 DEF Block
<1>3. ctx.tweak[(s % 3) + 1] \in Word /\ ctx.tweak[((s + 1) % 3) + 1] \in Word
  <2>1. (s % 3) + 1 \in 1 .. 3 /\ ((s + 1) % 3) + 1 \in 1 .. 3
    OBVIOUS
  <2>2. QED
    BY <1>1, <2>1 DEF Block
<1>4. Small(s) \in Word
  BY SmallWord
<1>5. SubKey(ctx, s) =
        [w \in 1 .. n |->
           CASE w = n - 2 -> Add(k(w), ctx.tweak[(s % 3) + 1])
             [] w = n - 1 -> Add(k(w), ctx.tweak[((s + 1) % 3) + 1])
             [] w = n -> Add(k(w), Small(s))
             [] OTHER -> k(w)]
  BY <1>1 DEF SubKey
<1> HIDE DEF k
<1>6. ASSUME NEW w \in 1 .. n
      PROVE  (CASE w = n - 2 -> Add(k(w), ctx.tweak[(s % 3) + 1])
                [] w = n - 1 -> Add(k(w), ctx.tweak[((s + 1) % 3) + 1])
                [] w = n -> Add(k(w), Small(s))
                [] OTHER -> k(w)) \in Word
  <2>1. /\ k(w) \in Word
        /\ Add(k(w), ctx.tweak[(s % 3) + 1]) \in Word
        /\ Add(k(w), ctx.tweak[((s + 1) % 3) + 1]) \in Word
        /\ Add(k(w), Small(s)) \in Word
    BY <1>2, <1>3, <1>4, AddWord
  <2>2. QED
    BY <2>1
<1>7. QED
  BY <1>5, <1>6 DEF Block

LEMMA AddBlockBlock ==
  ASSUME NEW n \in Nat, NEW x \in Block(n), NEW y \in Block(n)
  PROVE  AddBlock(x, y) \in Block(n)
BY AddWord DEF AddBlock, Block

LEMMA SubBlockBlock ==
  ASSUME NEW n \in Nat, NEW x \in Block(n), NEW y \in Block(n)
  PROVE  SubBlock(x, y) \in Block(n)
BY SubWord DEF SubBlock, Block

LEMMA SubAddBlock ==
  ASSUME NEW n \in Nat, NEW x \in Block(n), NEW y \in Block(n)
  PROVE  SubBlock(AddBlock(x, y), y) = x
<1>1. DOMAIN x = 1 .. n /\ \A w \in 1 .. n : x[w] \in Word /\ y[w] \in Word
  BY DEF Block
<1>2. AddBlock(x, y) = [w \in 1 .. n |-> Add(x[w], y[w])]
  BY <1>1 DEF AddBlock
<1>3. SubBlock(AddBlock(x, y), y) = [w \in 1 .. n |-> Sub(Add(x[w], y[w]), y[w])]
  BY <1>2 DEF SubBlock
<1>4. \A w \in 1 .. n : Sub(Add(x[w], y[w]), y[w]) = x[w]
  BY <1>1, SubAdd
<1>5. QED
  BY <1>3, <1>4 DEF Block

LEMMA XorBlockTwice ==
  ASSUME NEW n \in Nat, NEW x \in Block(n), NEW y \in Block(n)
  PROVE  XorBlock(XorBlock(x, y), y) = x
<1>1. DOMAIN x = 1 .. n /\ \A w \in 1 .. n : x[w] \in Word /\ y[w] \in Word
  BY DEF Block
<1>2. XorBlock(x, y) = [w \in 1 .. n |-> Xor(x[w], y[w])]
  BY <1>1 DEF XorBlock
<1>3. XorBlock(XorBlock(x, y), y) = [w \in 1 .. n |-> Xor(Xor(x[w], y[w]), y[w])]
  BY <1>2 DEF XorBlock
<1>4. \A w \in 1 .. n : Xor(Xor(x[w], y[w]), y[w]) = x[w]
  BY <1>1, XorTwice
<1>5. QED
  BY <1>3, <1>4 DEF Block

-----------------------------------------------------------------------------
(* Four rounds *)

\* The four rounds one by one.
LEMMA MixFour ==
  ASSUME NEW n \in Nat, NEW table, Table(n, table), NEW s \in Nat, NEW x \in Block(n)
  PROVE  \E a \in Block(n), b \in Block(n), c \in Block(n) :
           /\ a = Mix(x, table[4 * (s % 2) + 1])
           /\ b = Mix(a, table[4 * (s % 2) + 2])
           /\ c = Mix(b, table[4 * (s % 2) + 3])
           /\ FourRounds(x, table, s) = Mix(c, table[4 * (s % 2) + 4])
           /\ FourRounds(x, table, s) \in Block(n)
<1> DEFINE Round(i) == table[4 * (s % 2) + i]
           g == [i \in 1 .. 4 |-> [y \in Block(n) |-> Mix(y, Round(i))]]
           Is(f) == f = [i \in 0 .. 4 |-> IF i = 0 THEN x ELSE Mix(f[i - 1], Round(i))]
<1>1. \A i \in 1 .. 4 : Pairing(n, Round(i))
  <2>1. s % 2 \in 0 .. 1
    OBVIOUS
  <2>2. \A i \in 1 .. 4 : 4 * (s % 2) + i \in 1 .. 8
    BY <2>1
  <2>3. QED
    BY <2>2 DEF Table
<1>2. FourRounds(x, table, s) = (CHOOSE f : Is(f))[4]
  BY DEF FourRounds
<1> HIDE DEF Round
<1>3. PICK m \in Nat : m = 4
  OBVIOUS
<1>4. g \in [1 .. m -> [Block(n) -> Block(n)]]
  BY <1>1, <1>3, MixBlock
<1>5. PICK f : Recurs(f, m, x, g) /\ Within(f, m, Block(n))
  BY <1>3, <1>4, Recursion
<1>6. \E h : Is(h)
  <2>1. \A i \in 1 .. 4 : f[i - 1] \in Block(n)
    BY <1>3, <1>5 DEF Within
  <2>2. f = [i \in 0 .. 4 |-> IF i = 0 THEN x ELSE g[i][f[i - 1]]]
    BY <1>3, <1>5 DEF Recurs
  <2>3. \A i \in 1 .. 4 : g[i][f[i - 1]] = Mix(f[i - 1], Round(i))
    BY <2>1
  <2> HIDE DEF g
  <2>4. Is(f)
    BY <2>2, <2>3
  <2>5. QED
    BY <2>4
<1>7. PICK after : after = CHOOSE h : Is(h)
  OBVIOUS
<1>8. Is(after)
  BY <1>6, <1>7
<1>9. /\ after[0] = x /\ after[1] = Mix(after[0], Round(1))
      /\ after[2] = Mix(after[1], Round(2)) /\ after[3] = Mix(after[2], Round(3))
      /\ after[4] = Mix(after[3], Round(4))
  BY <1>8
<1>10. after[1] \in Block(n)
  BY <1>1, <1>9, MixBlock
<1>11. after[2] \in Block(n)
  BY <1>1, <1>9, <1>10, MixBlock
<1>12. after[3] \in Block(n)
  BY <1>1, <1>9, <1>11, MixBlock
<1>13. after[4] \in Block(n)
  BY <1>1, <1>9, <1>12, MixBlock
<1> HIDE DEF Is, g
<1>14. FourRounds(x, table, s) = after[4]
  BY <1>2, <1>7
<1>15. QED
  BY <1>9, <1>10, <1>11, <1>12, <1>13, <1>14 DEF Round

\* The four rounds one by one.
LEMMA UnmixFour ==
  ASSUME NEW n \in Nat, NEW table, Table(n, table), NEW s \in Nat, NEW x \in Block(n)
  PROVE  \E a \in Block(n), b \in Block(n), c \in Block(n) :
           /\ a = Unmix(x, table[4 * (s % 2) + 1])
           /\ b = Unmix(a, table[4 * (s % 2) + 2])
           /\ c = Unmix(b, table[4 * (s % 2) + 3])
           /\ FourRoundsBack(x, table, s) = Unmix(c, table[4 * (s % 2) + 4])
           /\ FourRoundsBack(x, table, s) \in Block(n)
<1> DEFINE Round(i) == table[4 * (s % 2) + i]
           g == [i \in 1 .. 4 |-> [y \in Block(n) |-> Unmix(y, Round(i))]]
           Is(f) == f = [i \in 0 .. 4 |-> IF i = 0 THEN x ELSE Unmix(f[i - 1], Round(i))]
<1>1. \A i \in 1 .. 4 : Pairing(n, Round(i))
  <2>1. s % 2 \in 0 .. 1
    OBVIOUS
  <2>2. \A i \in 1 .. 4 : 4 * (s % 2) + i \in 1 .. 8
    BY <2>1
  <2>3. QED
    BY <2>2 DEF Table
<1>2. FourRoundsBack(x, table, s) = (CHOOSE f : Is(f))[4]
  BY DEF FourRoundsBack
<1> HIDE DEF Round
<1>3. PICK m \in Nat : m = 4
  OBVIOUS
<1>4. g \in [1 .. m -> [Block(n) -> Block(n)]]
  BY <1>1, <1>3, UnmixBlock
<1>5. PICK f : Recurs(f, m, x, g) /\ Within(f, m, Block(n))
  BY <1>3, <1>4, Recursion
<1>6. \E h : Is(h)
  <2>1. \A i \in 1 .. 4 : f[i - 1] \in Block(n)
    BY <1>3, <1>5 DEF Within
  <2>2. f = [i \in 0 .. 4 |-> IF i = 0 THEN x ELSE g[i][f[i - 1]]]
    BY <1>3, <1>5 DEF Recurs
  <2>3. \A i \in 1 .. 4 : g[i][f[i - 1]] = Unmix(f[i - 1], Round(i))
    BY <2>1
  <2> HIDE DEF g
  <2>4. Is(f)
    BY <2>2, <2>3
  <2>5. QED
    BY <2>4
<1>7. PICK after : after = CHOOSE h : Is(h)
  OBVIOUS
<1>8. Is(after)
  BY <1>6, <1>7
<1>9. /\ after[0] = x /\ after[1] = Unmix(after[0], Round(1))
      /\ after[2] = Unmix(after[1], Round(2)) /\ after[3] = Unmix(after[2], Round(3))
      /\ after[4] = Unmix(after[3], Round(4))
  BY <1>8
<1>10. after[1] \in Block(n)
  BY <1>1, <1>9, UnmixBlock
<1>11. after[2] \in Block(n)
  BY <1>1, <1>9, <1>10, UnmixBlock
<1>12. after[3] \in Block(n)
  BY <1>1, <1>9, <1>11, UnmixBlock
<1>13. after[4] \in Block(n)
  BY <1>1, <1>9, <1>12, UnmixBlock
<1> HIDE DEF Is, g
<1>14. FourRoundsBack(x, table, s) = after[4]
  BY <1>2, <1>7
<1>15. QED
  BY <1>9, <1>10, <1>11, <1>12, <1>13, <1>14 DEF Round

\* Four rounds of one half of the table are undone by the other half of the
\* table that has the rounds backwards.
LEMMA FourRoundsUndone ==
  ASSUME NEW n \in Nat, NEW table, Table(n, table), NEW back, Backwards(table, back),
         NEW s \in Nat, NEW t \in Nat, (s % 2) + (t % 2) = 1, NEW x \in Block(n)
  PROVE  FourRoundsBack(FourRounds(x, table, s), back, t) = x
<1> DEFINE there(i) == table[4 * (s % 2) + i]
           again(i) == back[4 * (t % 2) + i]
<1>1. \A i \in 1 .. 4 : Pairing(n, there(i)) /\ again(i) = there(5 - i)
  <2>1. s % 2 \in 0 .. 1 /\ t % 2 = 1 - (s % 2)
    OBVIOUS
  <2>2. \A i \in 1 .. 4 : /\ 4 * (s % 2) + i \in 1 .. 8 /\ 4 * (s % 2) + (5 - i) \in 1 .. 8
                          /\ 9 - (4 * (s % 2) + (5 - i)) = 4 * (t % 2) + i
    BY <2>1
  <2>3. QED
    BY <2>2 DEF Table, Backwards
<1>2. Table(n, back)
  BY BackwardsTable
<1>3. PICK a \in Block(n), b \in Block(n), c \in Block(n) :
        /\ a = Mix(x, there(1)) /\ b = Mix(a, there(2)) /\ c = Mix(b, there(3))
        /\ FourRounds(x, table, s) = Mix(c, there(4))
        /\ FourRounds(x, table, s) \in Block(n)
  BY MixFour
<1>4. PICK y \in Block(n) : y = FourRounds(x, table, s)
  BY <1>3
<1>5. PICK d \in Block(n), e \in Block(n), f \in Block(n) :
        /\ d = Unmix(y, again(1)) /\ e = Unmix(d, again(2)) /\ f = Unmix(e, again(3))
        /\ FourRoundsBack(y, back, t) = Unmix(f, again(4))
  BY <1>2, UnmixFour
<1>6. again(1) = there(4) /\ again(2) = there(3) /\ again(3) = there(2) /\ again(4) = there(1)
  <2>1. 5 - 1 = 4 /\ 5 - 2 = 3 /\ 5 - 3 = 2 /\ 5 - 4 = 1
    OBVIOUS
  <2> HIDE DEF there, again
  <2>2. QED
    BY <1>1, <2>1
<1> HIDE DEF there, again
<1>7. Pairing(n, there(1)) /\ Pairing(n, there(2)) /\ Pairing(n, there(3)) /\ Pairing(n, there(4))
  BY <1>1
<1>8. d = c
  BY <1>3, <1>4, <1>5, <1>6, <1>7, UnmixMix
<1>9. e = b
  BY <1>3, <1>5, <1>6, <1>7, <1>8, UnmixMix
<1>10. f = a
  BY <1>3, <1>5, <1>6, <1>7, <1>9, UnmixMix
<1>11. Unmix(f, again(4)) = x
  BY <1>3, <1>6, <1>7, <1>10, UnmixMix
<1>12. QED
  BY <1>4, <1>5, <1>11

-----------------------------------------------------------------------------
(* Enciphering and deciphering *)

\* What is left to do with k steps to follow, of steps that do work[s] and, before
\* the next, move[s + 1].
Rests(rest, n, T, work, move) ==
  rest = [k \in 0 .. n |->
            [x \in T |->
               IF k = 0 THEN work[n - k][x]
               ELSE rest[k - 1][move[(n - k) + 1][work[n - k][x]]]]]

\* Going on with what is left comes to the same as doing one step after the other.
Unrolls(n, T, work, move, input) ==
  /\ \E rest : Rests(rest, n, T, work, move)
  /\ \E f : /\ Within(f, n, T)
            /\ f[0] = work[0][input]
            /\ \A s \in 1 .. n : f[s] = work[s][move[s][f[s - 1]]]
            /\ \A rest : Rests(rest, n, T, work, move) => rest[n][input] = f[n]

LEMMA Unrolled ==
  ASSUME NEW T, NEW n \in Nat, NEW work \in [0 .. n -> [T -> T]],
         NEW move \in [1 .. n -> [T -> T]], NEW input \in T
  PROVE  Unrolls(n, T, work, move, input)
<1> DEFINE Left(k) == [x \in T |-> move[(n - k) + 1][work[n - k][x]]]
           h == [k \in 1 .. n |-> [r \in [T -> T] |-> [x \in T |-> r[Left(k)[x]]]]]
           g == [s \in 1 .. n |-> [x \in T |-> work[s][move[s][x]]]]
<1>1. \A k \in 1 .. n : Left(k) \in [T -> T]
  <2>1. \A k \in 1 .. n : (n - k) + 1 \in 1 .. n /\ n - k \in 0 .. n
    OBVIOUS
  <2>2. QED
    BY <2>1
<1>2. \A k \in 1 .. n, x \in T : Left(k)[x] = move[(n - k) + 1][work[n - k][x]]
  OBVIOUS
<1>3. g \in [1 .. n -> [T -> T]] /\ \A s \in 1 .. n, x \in T : g[s][x] = work[s][move[s][x]]
  <2>1. \A s \in 1 .. n : s \in 0 .. n
    OBVIOUS
  <2>2. QED
    BY <2>1
<1> HIDE DEF Left
<1>4. h \in [1 .. n -> [[T -> T] -> [T -> T]]]
      /\ \A k \in 1 .. n, r \in [T -> T], x \in T : h[k][r][x] = r[Left(k)[x]]
  BY <1>1
<1> HIDE DEF g
<1>5. work[0] \in [T -> T] /\ work[n] \in [T -> T] /\ work[0][input] \in T
  OBVIOUS
<1>6. \E rest : Rests(rest, n, T, work, move)
  <2>1. PICK rest : Recurs(rest, n, work[n], h) /\ Within(rest, n, [T -> T])
    <3> HIDE DEF h
    <3>1. QED
      BY <1>4, <1>5, Recursion
  <2>2. ASSUME NEW k \in 0 .. n
        PROVE  rest[k] = [x \in T |->
                            IF k = 0 THEN work[n - k][x]
                            ELSE rest[k - 1][move[(n - k) + 1][work[n - k][x]]]]
    <3>1. CASE k = 0
      <4>1. rest[k] = work[n] /\ n - k = n
        BY <2>1, <3>1 DEF Recurs
      <4>2. QED
        BY <1>5, <3>1, <4>1
    <3>2. CASE k # 0
      <4>1. k \in 1 .. n /\ k - 1 \in 0 .. n
        BY <3>2
      <4>2. rest[k - 1] \in [T -> T]
        BY <2>1, <4>1 DEF Within
      <4>3. rest[k] = h[k][rest[k - 1]]
        BY <2>1, <3>2 DEF Recurs
      <4>4. rest[k] = [x \in T |-> rest[k - 1][Left(k)[x]]]
        BY <4>1, <4>2, <4>3
      <4> HIDE DEF h
      <4>5. QED
        BY <1>2, <3>2, <4>1, <4>4
    <3>3. QED
      BY <3>1, <3>2
  <2>3. DOMAIN rest = 0 .. n /\ rest = [k \in 0 .. n |-> rest[k]]
    BY <2>1 DEF Recurs
  <2>4. Rests(rest, n, T, work, move)
    BY <2>2, <2>3 DEF Rests
  <2>5. QED
    BY <2>4
<1>7. PICK f : Recurs(f, n, work[0][input], g) /\ Within(f, n, T)
  BY <1>3, <1>5, Recursion
<1>8. f[0] = work[0][input] /\ \A s \in 1 .. n : f[s] = work[s][move[s][f[s - 1]]]
  <2>1. \A s \in 1 .. n : s - 1 \in 0 .. n /\ s # 0 /\ s \in 0 .. n
    OBVIOUS
  <2>2. \A s \in 1 .. n : f[s - 1] \in T /\ f[s] = g[s][f[s - 1]]
    BY <1>7, <2>1 DEF Within, Recurs
  <2>3. f[0] = work[0][input]
    BY <1>7 DEF Recurs
  <2>4. QED
    BY <1>3, <2>2, <2>3
<1>9. ASSUME NEW rest, Rests(rest, n, T, work, move) PROVE rest[n][input] = f[n]
  <2> DEFINE Enters(s) == IF s = 0 THEN input ELSE move[s][f[s - 1]]
             Met == {k \in 0 .. n : rest[k][Enters(n - k)] = f[n]}
             S == {k \in Nat : k <= n => k \in Met}
  <2>1. \A s \in 0 .. n : Enters(s) \in T /\ work[s][Enters(s)] = f[s]
    <3>1. SUFFICES ASSUME NEW s \in 0 .. n PROVE Enters(s) \in T /\ work[s][Enters(s)] = f[s]
      OBVIOUS
    <3>2. CASE s = 0
      BY <1>8, <3>2
    <3>3. CASE s # 0
      <4>1. s \in 1 .. n /\ s - 1 \in 0 .. n
        BY <3>3
      <4>2. f[s - 1] \in T /\ f[s] = work[s][move[s][f[s - 1]]]
        BY <1>7, <1>8, <4>1 DEF Within
      <4>3. QED
        BY <3>3, <4>1, <4>2
    <3>4. QED
      BY <3>2, <3>3
  <2>2. ASSUME NEW k \in 0 .. n, NEW x \in T
        PROVE  rest[k][x] = IF k = 0 THEN work[n - k][x]
                            ELSE rest[k - 1][move[(n - k) + 1][work[n - k][x]]]
    <3>1. rest[k] = [y \in T |->
                       IF k = 0 THEN work[n - k][y]
                       ELSE rest[k - 1][move[(n - k) + 1][work[n - k][y]]]]
      BY <1>9 DEF Rests
    <3>2. QED
      BY <3>1
  <2>3. 0 \in Met
    <3>1. 0 \in 0 .. n /\ n - 0 = n /\ n \in 0 .. n
      OBVIOUS
    <3> HIDE DEF Enters
    <3>2. rest[0][Enters(n)] = work[n][Enters(n)]
      BY <2>1, <2>2, <3>1
    <3>3. QED
      BY <2>1, <3>1, <3>2
  <2>4. ASSUME NEW k \in 1 .. n, k - 1 \in Met PROVE k \in Met
    <3>1. /\ k \in 0 .. n /\ k # 0 /\ n - k \in 0 .. n /\ (n - k) + 1 = n - (k - 1)
          /\ (n - k) + 1 # 0 /\ ((n - k) + 1) - 1 = n - k
      OBVIOUS
    <3>2. Enters((n - k) + 1) = move[(n - k) + 1][f[n - k]]
      BY <3>1
    <3>3. rest[k - 1][Enters((n - k) + 1)] = f[n]
      BY <2>4, <3>1
    <3> HIDE DEF Enters
    <3>4. Enters(n - k) \in T /\ work[n - k][Enters(n - k)] = f[n - k]
      BY <2>1, <3>1
    <3>5. rest[k][Enters(n - k)] = rest[k - 1][move[(n - k) + 1][work[n - k][Enters(n - k)]]]
      BY <2>2, <3>1, <3>4
    <3>6. rest[k][Enters(n - k)] = f[n]
      BY <3>2, <3>3, <3>4, <3>5
    <3>7. QED
      BY <3>1, <3>6
  <2> HIDE DEF Met
  <2>5. ASSUME NEW k \in Nat, k \in S PROVE k + 1 \in S
    <3>1. SUFFICES ASSUME k + 1 <= n PROVE k + 1 \in Met
      OBVIOUS
    <3>2. k + 1 \in 1 .. n /\ (k + 1) - 1 = k /\ k \in Met
      BY <2>5, <3>1
    <3>3. QED
      BY <2>4, <3>2
  <2>6. 0 \in S
    BY <2>3
  <2> HIDE DEF S
  <2>7. \A k \in Nat : k \in S
    BY <2>5, <2>6, NatInd
  <2>8. n \in Met
    BY <2>7 DEF S
  <2>9. rest[n][Enters(n - n)] = f[n] /\ n - n = 0
    BY <2>8 DEF Met
  <2>10. QED
    BY <2>9
<1>10. QED
  BY <1>6, <1>7, <1>8, <1>9 DEF Unrolls

\* What goes into round 4 * s of enciphering: the input, or the block that the
\* rounds before make.
Before(f, table, input, s) == IF s = 0 THEN input ELSE FourRounds(f[s - 1], table, s - 1)

LEMMA EncryptIs ==
  ASSUME NEW n \in Nat, NEW ctx \in KeyCtx(n), NEW table, Table(n, table), NEW rounds \in Nat,
         NEW last \in Nat, last = rounds \div 4, NEW input \in Block(n)
  PROVE  \E keyed : /\ Within(keyed, last, Block(n))
                    /\ \A s \in 0 .. last :
                         keyed[s] = AddBlock(Before(keyed, table, input, s), SubKey(ctx, s))
                    /\ Encrypt(ctx, rounds, table, input) = keyed[last]
<1> DEFINE T == Block(n)
           work == [s \in 0 .. last |-> [x \in T |-> AddBlock(x, SubKey(ctx, s))]]
           move == [s \in 1 .. last |-> [x \in T |-> FourRounds(x, table, s - 1)]]
           Is(rest) ==
             rest = [k \in 0 .. last |->
                       [x \in T |->
                          LET keyed == AddBlock(x, SubKey(ctx, last - k))
                          IN  IF k = 0 THEN keyed
                              ELSE rest[k - 1][FourRounds(keyed, table, last - k)]]]
<1>1. work \in [0 .. last -> [T -> T]]
  <2>1. ASSUME NEW s \in 0 .. last, NEW x \in T PROVE AddBlock(x, SubKey(ctx, s)) \in T
    <3>1. SubKey(ctx, s) \in T
      BY SubKeyBlock
    <3>2. QED
      BY <3>1, AddBlockBlock
  <2>2. QED
    BY <2>1
<1>2. move \in [1 .. last -> [T -> T]]
  <2>1. ASSUME NEW s \in 1 .. last, NEW x \in T PROVE FourRounds(x, table, s - 1) \in T
    <3>1. s - 1 \in Nat
      OBVIOUS
    <3>2. QED
      BY <3>1, MixFour
  <2>2. QED
    BY <2>1
<1>3. Encrypt(ctx, rounds, table, input) = (CHOOSE rest : Is(rest))[last][input]
  <2>1. ctx.stateSize = n
    BY DEF KeyCtx
  <2>2. QED
    BY <2>1 DEF Encrypt
<1>4. \A rest : Is(rest) <=> Rests(rest, last, T, work, move)
  <2>1. ASSUME NEW k \in 0 .. last, NEW x \in T
        PROVE  AddBlock(x, SubKey(ctx, last - k)) = work[last - k][x]
    <3>1. last - k \in 0 .. last
      OBVIOUS
    <3>2. QED
      BY <3>1
  <2>2. ASSUME NEW k \in 1 .. last, NEW x \in T
        PROVE  FourRounds(work[last - k][x], table, last - k)
                 = move[(last - k) + 1][work[last - k][x]]
    <3>1. last - k \in 0 .. last /\ (last - k) + 1 \in 1 .. last
          /\ ((last - k) + 1) - 1 = last - k
      OBVIOUS
    <3> HIDE DEF work
    <3>2. work[last - k][x] \in T
      BY <1>1, <3>1
    <3>3. QED
      BY <3>1, <3>2
  <2>3. \A k \in 0 .. last : k = 0 \/ k \in 1 .. last
    OBVIOUS
  <2> HIDE DEF work, move, T
  <2> DEFINE InCode(rest, k) ==
               [x \in T |->
                  LET keyed == AddBlock(x, SubKey(ctx, last - k))
                  IN  IF k = 0 THEN keyed
                      ELSE rest[k - 1][FourRounds(keyed, table, last - k)]]
             InLemma(rest, k) ==
               [x \in T |->
                  IF k = 0 THEN work[last - k][x]
                  ELSE rest[k - 1][move[(last - k) + 1][work[last - k][x]]]]
  <2>4. ASSUME NEW rest, NEW k \in 0 .. last PROVE InCode(rest, k) = InLemma(rest, k)
    <3>1. CASE k = 0
      BY <2>1, <3>1
    <3>2. CASE k \in 1 .. last
      <4>1. k # 0
        BY <3>2
      <4>2. QED
        BY <2>1, <2>2, <3>2, <4>1
    <3>3. QED
      BY <2>3, <3>1, <3>2
  <2>5. \A rest : Is(rest) <=> rest = [k \in 0 .. last |-> InCode(rest, k)]
    OBVIOUS
  <2>6. \A rest : Rests(rest, last, T, work, move)
                    <=> rest = [k \in 0 .. last |-> InLemma(rest, k)]
    BY DEF Rests
  <2> HIDE DEF Is, InCode, InLemma
  <2>7. \A rest : [k \in 0 .. last |-> InCode(rest, k)] = [k \in 0 .. last |-> InLemma(rest, k)]
    BY <2>4
  <2>8. QED
    BY <2>5, <2>6, <2>7
<1>5. input \in T
  OBVIOUS
<1> HIDE DEF Is, work, move, T
<1>6. Unrolls(last, T, work, move, input)
  BY <1>1, <1>2, <1>5, Unrolled
<1>7. PICK keyed :
        /\ Within(keyed, last, T)
        /\ keyed[0] = work[0][input]
        /\ \A s \in 1 .. last : keyed[s] = work[s][move[s][keyed[s - 1]]]
        /\ \A rest : Rests(rest, last, T, work, move) => rest[last][input] = keyed[last]
  BY <1>6 DEF Unrolls
<1>8. Encrypt(ctx, rounds, table, input) = keyed[last]
  <2>1. PICK rest : rest = CHOOSE r : Is(r)
    OBVIOUS
  <2>2. Is(rest)
    BY <1>4, <1>6, <2>1 DEF Unrolls
  <2>3. QED
    BY <1>3, <1>4, <1>7, <2>1, <2>2
<1>9. ASSUME NEW s \in 0 .. last
      PROVE  keyed[s] = AddBlock(Before(keyed, table, input, s), SubKey(ctx, s))
  <2>1. CASE s = 0
    <3>1. Before(keyed, table, input, s) = input
      BY <2>1 DEF Before
    <3>2. work[0][input] = AddBlock(input, SubKey(ctx, 0))
      BY <1>5 DEF work
    <3>3. QED
      BY <1>7, <2>1, <3>1, <3>2
  <2>2. CASE s # 0
    <3>1. s \in 1 .. last /\ s - 1 \in 0 .. last
      BY <2>2
    <3>2. keyed[s - 1] \in T
      BY <1>7, <3>1 DEF Within
    <3>3. PICK y \in T : y = move[s][keyed[s - 1]]
      BY <1>2, <3>1, <3>2
    <3>4. y = FourRounds(keyed[s - 1], table, s - 1)
      BY <3>1, <3>2, <3>3 DEF move
    <3>5. keyed[s] = AddBlock(y, SubKey(ctx, s))
      <4>1. keyed[s] = work[s][y]
        BY <1>7, <3>1, <3>3
      <4>2. work[s][y] = AddBlock(y, SubKey(ctx, s))
        BY DEF work
      <4>3. QED
        BY <4>1, <4>2
    <3>6. Before(keyed, table, input, s) = y
      BY <2>2, <3>4 DEF Before
    <3>7. QED
      BY <3>5, <3>6
  <2>3. QED
    BY <2>1, <2>2
<1>10. QED
  BY <1>7, <1>8, <1>9 DEF T

Behind(f, table, input, s) == IF s = 0 THEN input ELSE FourRoundsBack(f[s - 1], table, s - 1)

LEMMA DecryptIs ==
  ASSUME NEW n \in Nat, NEW ctx \in KeyCtx(n), NEW table, Table(n, table), NEW rounds \in Nat,
         NEW last \in Nat, last = rounds \div 4, NEW input \in Block(n)
  PROVE  \E freed : /\ Within(freed, last, Block(n))
                    /\ \A s \in 0 .. last :
                         freed[s] = SubBlock(Behind(freed, table, input, s), SubKey(ctx, last - s))
                    /\ Decrypt(ctx, rounds, table, input) = freed[last]
<1> DEFINE T == Block(n)
           work == [s \in 0 .. last |-> [x \in T |-> SubBlock(x, SubKey(ctx, last - s))]]
           move == [s \in 1 .. last |-> [x \in T |-> FourRoundsBack(x, table, s - 1)]]
           Is(rest) ==
             rest = [k \in 0 .. last |->
                       [x \in T |->
                          LET freed == SubBlock(x, SubKey(ctx, k))
                          IN  IF k = 0 THEN freed
                              ELSE rest[k - 1][FourRoundsBack(freed, table, last - k)]]]
<1>1. work \in [0 .. last -> [T -> T]]
  <2>1. ASSUME NEW s \in 0 .. last, NEW x \in T PROVE SubBlock(x, SubKey(ctx, last - s)) \in T
    <3>1. last - s \in Nat
      OBVIOUS
    <3>2. SubKey(ctx, last - s) \in T
      BY <3>1, SubKeyBlock
    <3>3. QED
      BY <3>2, SubBlockBlock
  <2>2. QED
    BY <2>1
<1>2. move \in [1 .. last -> [T -> T]]
  <2>1. ASSUME NEW s \in 1 .. last, NEW x \in T PROVE FourRoundsBack(x, table, s - 1) \in T
    <3>1. s - 1 \in Nat
      OBVIOUS
    <3>2. QED
      BY <3>1, UnmixFour
  <2>2. QED
    BY <2>1
<1>3. Decrypt(ctx, rounds, table, input) = (CHOOSE rest : Is(rest))[last][input]
  <2>1. ctx.stateSize = n
    BY DEF KeyCtx
  <2>2. QED
    BY <2>1 DEF Decrypt
<1>4. \A rest : Is(rest) <=> Rests(rest, last, T, work, move)
  <2>1. ASSUME NEW k \in 0 .. last, NEW x \in T
        PROVE  SubBlock(x, SubKey(ctx, k)) = work[last - k][x]
    <3>1. last - k \in 0 .. last /\ last - (last - k) = k
      OBVIOUS
    <3>2. QED
      BY <3>1
  <2>2. ASSUME NEW k \in 1 .. last, NEW x \in T
        PROVE  FourRoundsBack(work[last - k][x], table, last - k)
                 = move[(last - k) + 1][work[last - k][x]]
    <3>1. last - k \in 0 .. last /\ (last - k) + 1 \in 1 .. last
          /\ ((last - k) + 1) - 1 = last - k
      OBVIOUS
    <3> HIDE DEF work
    <3>2. work[last - k][x] \in T
      BY <1>1, <3>1
    <3>3. QED
      BY <3>1, <3>2
  <2>3. \A k \in 0 .. last : k = 0 \/ k \in 1 .. last
    OBVIOUS
  <2> HIDE DEF work, move, T
  <2> DEFINE InCode(rest, k) ==
               [x \in T |->
                  LET freed == SubBlock(x, SubKey(ctx, k))
                  IN  IF k = 0 THEN freed
                      ELSE rest[k - 1][FourRoundsBack(freed, table, last - k)]]
             InLemma(rest, k) ==
               [x \in T |->
                  IF k = 0 THEN work[last - k][x]
                  ELSE rest[k - 1][move[(last - k) + 1][work[last - k][x]]]]
  <2>4. ASSUME NEW rest, NEW k \in 0 .. last PROVE InCode(rest, k) = InLemma(rest, k)
    <3>1. CASE k = 0
      BY <2>1, <3>1
    <3>2. CASE k \in 1 .. last
      <4>1. k # 0
        BY <3>2
      <4>2. QED
        BY <2>1, <2>2, <3>2, <4>1
    <3>3. QED
      BY <2>3, <3>1, <3>2
  <2>5. \A rest : Is(rest) <=> rest = [k \in 0 .. last |-> InCode(rest, k)]
    OBVIOUS
  <2>6. \A rest : Rests(rest, last, T, work, move)
                    <=> rest = [k \in 0 .. last |-> InLemma(rest, k)]
    BY DEF Rests
  <2> HIDE DEF Is, InCode, InLemma
  <2>7. \A rest : [k \in 0 .. last |-> InCode(rest, k)] = [k \in 0 .. last |-> InLemma(rest, k)]
    BY <2>4
  <2>8. QED
    BY <2>5, <2>6, <2>7
<1>5. input \in T
  OBVIOUS
<1> HIDE DEF Is, work, move, T
<1>6. Unrolls(last, T, work, move, input)
  BY <1>1, <1>2, <1>5, Unrolled
<1>7. PICK freed :
        /\ Within(freed, last, T)
        /\ freed[0] = work[0][input]
        /\ \A s \in 1 .. last : freed[s] = work[s][move[s][freed[s - 1]]]
        /\ \A rest : Rests(rest, last, T, work, move) => rest[last][input] = freed[last]
  BY <1>6 DEF Unrolls
<1>8. Decrypt(ctx, rounds, table, input) = freed[last]
  <2>1. PICK rest : rest = CHOOSE r : Is(r)
    OBVIOUS
  <2>2. Is(rest)
    BY <1>4, <1>6, <2>1 DEF Unrolls
  <2>3. QED
    BY <1>3, <1>4, <1>7, <2>1, <2>2
<1>9. ASSUME NEW s \in 0 .. last
      PROVE  freed[s] = SubBlock(Behind(freed, table, input, s), SubKey(ctx, last - s))
  <2>1. CASE s = 0
    <3>1. Behind(freed, table, input, s) = input
      BY <2>1 DEF Behind
    <3>2. work[0][input] = SubBlock(input, SubKey(ctx, last))
      BY <1>5 DEF work
    <3>3. QED
      BY <1>7, <2>1, <3>1, <3>2
  <2>2. CASE s # 0
    <3>1. s \in 1 .. last /\ s - 1 \in 0 .. last
      BY <2>2
    <3>2. freed[s - 1] \in T
      BY <1>7, <3>1 DEF Within
    <3>3. PICK y \in T : y = move[s][freed[s - 1]]
      BY <1>2, <3>1, <3>2
    <3>4. y = FourRoundsBack(freed[s - 1], table, s - 1)
      BY <3>1, <3>2, <3>3 DEF move
    <3>5. freed[s] = SubBlock(y, SubKey(ctx, last - s))
      <4>1. freed[s] = work[s][y]
        BY <1>7, <3>1, <3>3
      <4>2. work[s][y] = SubBlock(y, SubKey(ctx, last - s))
        BY DEF work
      <4>3. QED
        BY <4>1, <4>2
    <3>6. Behind(freed, table, input, s) = y
      BY <2>2, <3>4 DEF Behind
    <3>7. QED
      BY <3>5, <3>6
  <2>3. QED
    BY <2>1, <2>2
<1>10. QED
  BY <1>7, <1>8, <1>9 DEF T

\* Deciphering meets the blocks of enciphering from the last one to the first.
LEMMA DecryptEncrypt ==
  ASSUME NEW n \in Nat, NEW ctx \in KeyCtx(n), NEW table, Table(n, table),
         NEW back, Backwards(table, back), NEW rounds \in Nat, NEW last \in Nat,
         last = rounds \div 4, last % 2 = 0, NEW input \in Block(n)
  PROVE  Decrypt(ctx, rounds, back, Encrypt(ctx, rounds, table, input)) = input
<1>1. Table(n, back)
  BY BackwardsTable
<1>2. PICK keyed : /\ Within(keyed, last, Block(n))
                   /\ \A s \in 0 .. last :
                        keyed[s] = AddBlock(Before(keyed, table, input, s), SubKey(ctx, s))
                   /\ Encrypt(ctx, rounds, table, input) = keyed[last]
  BY EncryptIs
<1>3. PICK y \in Block(n) : y = keyed[last]
  BY <1>2 DEF Within
<1>4. PICK freed : /\ Within(freed, last, Block(n))
                   /\ \A s \in 0 .. last :
                        freed[s] = SubBlock(Behind(freed, back, y, s), SubKey(ctx, last - s))
                   /\ Decrypt(ctx, rounds, back, y) = freed[last]
  BY <1>1, DecryptIs
<1> DEFINE Goes(s) == Before(keyed, table, input, s)
           Comes(s) == Behind(freed, back, y, s)
           Met == {s \in 0 .. last : freed[s] = Goes(last - s)}
<1>5. \A s \in 0 .. last : Goes(s) \in Block(n)
  <2>1. SUFFICES ASSUME NEW s \in 0 .. last PROVE Goes(s) \in Block(n)
    OBVIOUS
  <2>2. CASE s = 0
    BY <2>2 DEF Before
  <2>3. CASE s # 0
    <3>1. s - 1 \in Nat /\ s - 1 \in 0 .. last
      BY <2>3
    <3>2. keyed[s - 1] \in Block(n)
      BY <1>2, <3>1 DEF Within
    <3>3. FourRounds(keyed[s - 1], table, s - 1) \in Block(n)
      BY <3>1, <3>2, MixFour
    <3>4. QED
      BY <2>3, <3>3 DEF Before
  <2>4. QED
    BY <2>2, <2>3
\* What goes into round 4 * s comes out of it backwards.
<1>6. ASSUME NEW s \in 0 .. last, Comes(s) = keyed[last - s]
      PROVE  freed[s] = Goes(last - s)
  <2>1. last - s \in 0 .. last /\ last - s \in Nat
    OBVIOUS
  <2>2. PICK z \in Block(n) : z = Goes(last - s)
    BY <1>5, <2>1
  <2>3. PICK k \in Block(n) : k = SubKey(ctx, last - s)
    BY <2>1, SubKeyBlock
  <2>4. keyed[last - s] = AddBlock(z, k)
    BY <1>2, <2>1, <2>2, <2>3
  <2>5. freed[s] = SubBlock(AddBlock(z, k), k)
    BY <1>4, <1>6, <2>3, <2>4
  <2>6. QED
    BY <2>2, <2>5, SubAddBlock
<1>7. ASSUME NEW s \in 1 .. last, s - 1 \in Met PROVE s \in Met
  <2>1. /\ s \in 0 .. last /\ s - 1 \in Nat /\ last - s \in Nat /\ last - s \in 0 .. last
        /\ (last - (s - 1)) - 1 = last - s /\ last - (s - 1) # 0 /\ s # 0
    OBVIOUS
  <2>2. freed[s - 1] = Goes(last - (s - 1))
    BY <1>7
  <2>3. Goes(last - (s - 1)) = FourRounds(keyed[last - s], table, last - s)
    BY <2>1 DEF Before
  <2>4. PICK z \in Block(n) : z = keyed[last - s]
    BY <1>2, <2>1 DEF Within
  <2>5. ((last - s) % 2) + ((s - 1) % 2) = 1
    BY <2>1, last % 2 = 0
  <2>6. FourRoundsBack(FourRounds(z, table, last - s), back, s - 1) = z
    BY <2>1, <2>5, FourRoundsUndone
  <2>7. Comes(s) = FourRoundsBack(freed[s - 1], back, s - 1)
    BY <2>1 DEF Behind
  <2>8. Comes(s) = keyed[last - s]
    BY <2>2, <2>3, <2>4, <2>6, <2>7
  <2>9. QED
    BY <1>6, <2>1, <2>8
<1>8. 0 \in Met
  <2>1. 0 \in 0 .. last /\ last - 0 = last
    OBVIOUS
  <2>2. Comes(0) = keyed[last - 0]
    BY <1>3, <2>1 DEF Behind
  <2>3. QED
    BY <1>6, <2>1, <2>2
<1> DEFINE S == {s \in Nat : s <= last => s \in Met}
<1>9. last \in Met
  <2>1. 0 \in S
    BY <1>8
  <2>2. ASSUME NEW s \in Nat, s \in S PROVE s + 1 \in S
    <3>1. SUFFICES ASSUME s + 1 <= last PROVE s + 1 \in Met
      OBVIOUS
    <3>2. s + 1 \in 1 .. last /\ (s + 1) - 1 = s /\ s \in Met
      BY <2>2, <3>1
    <3> HIDE DEF Met
    <3>3. QED
      BY <1>7, <3>2
  <2> HIDE DEF S
  <2>3. \A s \in Nat : s \in S
    BY <2>1, <2>2, NatInd
  <2>4. QED
    BY <2>3 DEF S
<1>10. freed[last] = Goes(last - last) /\ last - last = 0
  BY <1>9
<1>11. freed[last] = input
  BY <1>10 DEF Before
<1>12. QED
  BY <1>2, <1>3, <1>4, <1>11

LEMMA EncryptKeeps ==
  ASSUME NEW n \in Nat, NEW ctx \in KeyCtx(n), NEW table, Table(n, table), NEW rounds \in Nat,
         NEW last \in Nat, last = rounds \div 4, NEW input \in Block(n)
  PROVE  Encrypt(ctx, rounds, table, input) \in Block(n)
<1>1. PICK keyed : /\ Within(keyed, last, Block(n))
                   /\ Encrypt(ctx, rounds, table, input) = keyed[last]
  BY EncryptIs
<1>2. QED
  BY <1>1 DEF Within

LEMMA DecryptKeeps ==
  ASSUME NEW n \in Nat, NEW ctx \in KeyCtx(n), NEW table, Table(n, table), NEW rounds \in Nat,
         NEW last \in Nat, last = rounds \div 4, NEW input \in Block(n)
  PROVE  Decrypt(ctx, rounds, table, input) \in Block(n)
<1>1. PICK freed : /\ Within(freed, last, Block(n))
                   /\ Decrypt(ctx, rounds, table, input) = freed[last]
  BY DecryptIs
<1>2. QED
  BY <1>1 DEF Within

\* What the two theorems below say of one size.
Kept(n) ==
  \A ctx \in KeyCtx(n), x \in Block(n) :
    /\ threefishEncryptBlockWords(ctx, x) \in Block(n)
    /\ threefishDecryptBlockWords(ctx, x) \in Block(n)
    /\ threefishDecryptBlockWords(ctx, threefishEncryptBlockWords(ctx, x)) = x

LEMMA Kept256 == Kept(4)
<1>1. PICK n \in Nat, rounds \in Nat, last \in Nat :
        n = 4 /\ rounds = 72 /\ last = 18 /\ last = rounds \div 4 /\ last % 2 = 0
  <2>1. 72 \div 4 = 18 /\ 18 % 2 = 0
    OBVIOUS
  <2>2. QED
    BY <2>1
<1>2. Table(n, Mixes256) /\ Table(n, Unmixes256)
  BY <1>1, Table256, Backwards256, BackwardsTable
<1>3. SUFFICES ASSUME NEW ctx \in KeyCtx(n), NEW x \in Block(n)
               PROVE  /\ threefishEncryptBlockWords(ctx, x) \in Block(n)
                      /\ threefishDecryptBlockWords(ctx, x) \in Block(n)
                      /\ threefishDecryptBlockWords(ctx, threefishEncryptBlockWords(ctx, x)) = x
  BY <1>1 DEF Kept
<1>4. ctx.stateSize = 4
  BY <1>1 DEF KeyCtx
<1>5. \A y : /\ threefishEncryptBlockWords(ctx, y) = Encrypt(ctx, rounds, Mixes256, y)
             /\ threefishDecryptBlockWords(ctx, y) = Decrypt(ctx, rounds, Unmixes256, y)
  BY <1>1, <1>4 DEF threefishEncryptBlockWords, threefishDecryptBlockWords,
                    threefishEncrypt256, threefishDecrypt256
<1>6. Encrypt(ctx, rounds, Mixes256, x) \in Block(n)
  BY <1>1, <1>2, EncryptKeeps
<1>7. Decrypt(ctx, rounds, Unmixes256, x) \in Block(n)
  BY <1>1, <1>2, DecryptKeeps
<1>8. Decrypt(ctx, rounds, Unmixes256, Encrypt(ctx, rounds, Mixes256, x)) = x
  BY <1>1, <1>2, Backwards256, DecryptEncrypt
<1>9. QED
  BY <1>5, <1>6, <1>7, <1>8

LEMMA Kept512 == Kept(8)
<1>1. PICK n \in Nat, rounds \in Nat, last \in Nat :
        n = 8 /\ rounds = 72 /\ last = 18 /\ last = rounds \div 4 /\ last % 2 = 0
  <2>1. 72 \div 4 = 18 /\ 18 % 2 = 0
    OBVIOUS
  <2>2. QED
    BY <2>1
<1>2. Table(n, Mixes512) /\ Table(n, Unmixes512)
  BY <1>1, Table512, Backwards512, BackwardsTable
<1>3. SUFFICES ASSUME NEW ctx \in KeyCtx(n), NEW x \in Block(n)
               PROVE  /\ threefishEncryptBlockWords(ctx, x) \in Block(n)
                      /\ threefishDecryptBlockWords(ctx, x) \in Block(n)
                      /\ threefishDecryptBlockWords(ctx, threefishEncryptBlockWords(ctx, x)) = x
  BY <1>1 DEF Kept
<1>4. ctx.stateSize = 8
  BY <1>1 DEF KeyCtx
<1>5. \A y : /\ threefishEncryptBlockWords(ctx, y) = Encrypt(ctx, rounds, Mixes512, y)
             /\ threefishDecryptBlockWords(ctx, y) = Decrypt(ctx, rounds, Unmixes512, y)
  BY <1>1, <1>4 DEF threefishEncryptBlockWords, threefishDecryptBlockWords,
                    threefishEncrypt512, threefishDecrypt512
<1>6. Encrypt(ctx, rounds, Mixes512, x) \in Block(n)
  BY <1>1, <1>2, EncryptKeeps
<1>7. Decrypt(ctx, rounds, Unmixes512, x) \in Block(n)
  BY <1>1, <1>2, DecryptKeeps
<1>8. Decrypt(ctx, rounds, Unmixes512, Encrypt(ctx, rounds, Mixes512, x)) = x
  BY <1>1, <1>2, Backwards512, DecryptEncrypt
<1>9. QED
  BY <1>5, <1>6, <1>7, <1>8

LEMMA Kept1024 == Kept(16)
<1>1. PICK n \in Nat, rounds \in Nat, last \in Nat :
        n = 16 /\ rounds = 80 /\ last = 20 /\ last = rounds \div 4 /\ last % 2 = 0
  <2>1. 80 \div 4 = 20 /\ 20 % 2 = 0
    OBVIOUS
  <2>2. QED
    BY <2>1
<1>2. Table(n, Mixes1024) /\ Table(n, Unmixes1024)
  BY <1>1, Table1024, Backwards1024, BackwardsTable
<1>3. SUFFICES ASSUME NEW ctx \in KeyCtx(n), NEW x \in Block(n)
               PROVE  /\ threefishEncryptBlockWords(ctx, x) \in Block(n)
                      /\ threefishDecryptBlockWords(ctx, x) \in Block(n)
                      /\ threefishDecryptBlockWords(ctx, threefishEncryptBlockWords(ctx, x)) = x
  BY <1>1 DEF Kept
<1>4. ctx.stateSize = 16
  BY <1>1 DEF KeyCtx
<1>5. \A y : /\ threefishEncryptBlockWords(ctx, y) = Encrypt(ctx, rounds, Mixes1024, y)
             /\ threefishDecryptBlockWords(ctx, y) = Decrypt(ctx, rounds, Unmixes1024, y)
  BY <1>1, <1>4 DEF threefishEncryptBlockWords, threefishDecryptBlockWords,
                    threefishEncrypt1024, threefishDecrypt1024
<1>6. Encrypt(ctx, rounds, Mixes1024, x) \in Block(n)
  BY <1>1, <1>2, EncryptKeeps
<1>7. Decrypt(ctx, rounds, Unmixes1024, x) \in Block(n)
  BY <1>1, <1>2, DecryptKeeps
<1>8. Decrypt(ctx, rounds, Unmixes1024, Encrypt(ctx, rounds, Mixes1024, x)) = x
  BY <1>1, <1>2, Backwards1024, DecryptEncrypt
<1>9. QED
  BY <1>5, <1>6, <1>7, <1>8

\* The block cipher makes blocks of blocks: of a key, a tweak and a block of one of the three sizes
\* threefishEncryptBlockWords and threefishDecryptBlockWords make a block of that size.
THEOREM ThreefishKeeps ==
  \A n \in {4, 8, 16} : \A key, x \in Block(n), tweak \in Block(2) :
    /\ threefishEncryptBlockWords(threefishSetKey(key, tweak), x) \in Block(n)
    /\ threefishDecryptBlockWords(threefishSetKey(key, tweak), x) \in Block(n)
<1>1. SUFFICES ASSUME NEW n \in {4, 8, 16}, NEW key \in Block(n), NEW x \in Block(n),
                      NEW tweak \in Block(2)
               PROVE  /\ threefishEncryptBlockWords(threefishSetKey(key, tweak), x) \in Block(n)
                      /\ threefishDecryptBlockWords(threefishSetKey(key, tweak), x) \in Block(n)
  OBVIOUS
<1>2. threefishSetKey(key, tweak) \in KeyCtx(n)
  BY SetKeyCtx
<1>3. Kept(n)
  BY Kept256, Kept512, Kept1024
<1>4. QED
  BY <1>2, <1>3 DEF Kept

\* Deciphering undoes enciphering: whatever the key, the tweak and the block, of any of the three
\* sizes, the unrolled rounds of threefishDecrypt256, 512 and 1024 give back the block that those of
\* threefishEncrypt256, 512 and 1024 were given.
THEOREM ThreefishInverts ==
  \A n \in {4, 8, 16} : \A key, x \in Block(n), tweak \in Block(2) :
    LET ctx == threefishSetKey(key, tweak)
    IN  threefishDecryptBlockWords(ctx, threefishEncryptBlockWords(ctx, x)) = x
<1>1. SUFFICES ASSUME NEW n \in {4, 8, 16}, NEW key \in Block(n), NEW x \in Block(n),
                      NEW tweak \in Block(2), NEW ctx, ctx = threefishSetKey(key, tweak)
               PROVE  threefishDecryptBlockWords(ctx, threefishEncryptBlockWords(ctx, x)) = x
  OBVIOUS
<1>2. ctx \in KeyCtx(n)
  BY <1>1, SetKeyCtx
<1>3. Kept(n)
  BY Kept256, Kept512, Kept1024
<1>4. QED
  BY <1>2, <1>3 DEF Kept
===============================================================================
