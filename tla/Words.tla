-------------------------------- MODULE Words ---------------------------------
(***************************************************************************)
(* uint64_t as C computes with it.  A word is the tuple of its four 16-bit *)
(* digits, lowest first, since TLC's integers have 32 bits; addition and   *)
(* subtraction are modulo 2^64.                                            *)
(***************************************************************************)
EXTENDS Integers, Sequences

Byte == 0 .. 255
Base == 65536
Digit == 0 .. Base - 1

\* The word with the given digits, highest first as one writes it.
Hex(d, c, b, a) == <<a, b, c, d>>

\* Digits that may have left their range, and the carries that put them back.
Carry(a, b, c, d) ==
  LET b1 == b + (a \div Base)
      c1 == c + (b1 \div Base)
      d1 == d + (c1 \div Base)
  IN  <<a % Base, b1 % Base, c1 % Base, d1 % Base>>

\* The word of a number.
Small(n) == Carry(n, 0, 0, 0)
Zero == Small(0)

\* Exclusive or of two bytes, from their lowest bits on, and its table.
XorBits[a \in Byte] ==
  [b \in Byte |-> IF a = 0 THEN b ELSE ((a + b) % 2) + 2 * XorBits[a \div 2][b \div 2]]

XorByte == [a \in Byte |-> [b \in Byte |-> XorBits[a][b]]]

XorDigit(a, b) == 256 * XorByte[a \div 256][b \div 256] + XorByte[a % 256][b % 256]

Xor(x, y) ==
  <<XorDigit(x[1], y[1]), XorDigit(x[2], y[2]), XorDigit(x[3], y[3]), XorDigit(x[4], y[4])>>

Add(x, y) == Carry(x[1] + y[1], x[2] + y[2], x[3] + y[3], x[4] + y[4])
Sub(x, y) == Carry(x[1] - y[1], x[2] - y[2], x[3] - y[3], x[4] - y[4])

\* (x << r) | (x >> (64 - r)) and (x >> r) | (x << (64 - r)).
Pow2 == [s \in 0 .. 15 |-> 2 ^ s]

RotL(x, r) ==
  LET up == Pow2[r % 16]
      down == Base \div up
      digit(i) == x[((i - (r \div 16) - 1) % 4) + 1]
      turned(i) == ((digit(i) * up) % Base) + (digit(i - 1) \div down)
  IN  <<turned(1), turned(2), turned(3), turned(4)>>

RotR(x, r) == RotL(x, 64 - r)

\* Blocks of n words, and their exclusive or word by word.
Word == [1 .. 4 -> Digit]
Block(n) == [1 .. n -> Word]
XorBlock(x, y) == [i \in DOMAIN x |-> Xor(x[i], y[i])]
ZeroBlock(n) == [i \in 1 .. n |-> Zero]
=============================================================================
