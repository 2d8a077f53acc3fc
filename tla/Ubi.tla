--------------------------------- MODULE Ubi ---------------------------------
(***************************************************************************)
(* What Skein promises: unique block iteration over a whole message, as the*)
(* Skein paper defines it, and the hash and the MAC built from it.         *)
(***************************************************************************)
EXTENDS Skein

\* Block i of a message of the given bytes, padded with zeros.
PaddedBlock(bytes, size, i) ==
  [k \in 1 .. 8 * size |->
     LET at == 8 * size * (i - 1) + k IN IF at <= Len(bytes) THEN bytes[at] ELSE 0]

\* The chaining value after block i: the tweak has the position, the type and
\* what is first and last.
ChainBlock(value, bytes, type, i, last) ==
  LET size == Len(value)
      position == IF 8 * size * i <= Len(bytes) THEN 8 * size * i ELSE Len(bytes)
      tweak == <<Small(position), T1(type, i = 1, i = last)>>
      w == ToWords(PaddedBlock(bytes, size, i))
  IN  XorBlock(TweakedCipher(size, value, tweak, w), w)

\* The chaining value after count blocks of a message of last blocks.
Chain(start, bytes, type, count, last) ==
  LET after[i \in 0 .. count] ==
        IF i = 0 THEN start ELSE ChainBlock(after[i - 1], bytes, type, i, last)
  IN  after[count]

BlockCount(bytes, size) ==
  IF bytes = <<>> THEN 1 ELSE (Len(bytes) + 8 * size - 1) \div (8 * size)

UBI(start, bytes, type) ==
  Chain(start, bytes, type, BlockCount(bytes, Len(start)), BlockCount(bytes, Len(start)))

\* The chaining value a message starts from: the configuration string, 32 bytes,
\* after the key.
StartValue(k, size) ==
  UBI(IF k = <<>> THEN ZeroBlock(size) ELSE UBI(ZeroBlock(size), k, KEY),
      SubSeq(ToBytes(Config(size, 64 * size)), 1, 32), CFG)

SkeinOf(k, bytes, size) ==
  ToBytes(UBI(UBI(StartValue(k, size), bytes, MSG), ZeroBytes(8), OUT))
=============================================================================
