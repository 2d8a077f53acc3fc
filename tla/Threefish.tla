------------------------------ MODULE Threefish -------------------------------
(***************************************************************************)
(* The block cipher with blocks of 4, 8 and 16 words, round for round.  A  *)
(* word b<i> of the code is x[i + 1] here, a block is a sequence of words. *)
(***************************************************************************)
EXTENDS Words

KeyScheduleConst == Hex(\h1BD1, \h1BDA, \hA9FC, \h1A22)

\* A slip: the parity starts from zero.
SetKeyWithoutConst(keyData, tweak) ==
  LET parity[i \in 0 .. Len(keyData)] ==
        IF i = 0 THEN Zero ELSE Xor(parity[i - 1], keyData[i])
  IN  [stateSize |-> Len(keyData),
       key |-> Append(keyData, parity[Len(keyData)]),
       tweak |-> <<tweak[1], tweak[2], Xor(tweak[1], tweak[2])>>]

\* A key context: the words of the key and their parity, the tweak and the
\* exclusive or of its two words.
threefishSetKey(keyData, tweak) ==
  LET parity[i \in 0 .. Len(keyData)] ==
        IF i = 0 THEN KeyScheduleConst ELSE Xor(parity[i - 1], keyData[i])
  IN  [stateSize |-> Len(keyData),
       key |-> Append(keyData, parity[Len(keyData)]),
       tweak |-> <<tweak[1], tweak[2], Xor(tweak[1], tweak[2])>>]

\* The words added before round 4 * s: the key rotated by s, the tweak on the
\* third and second last of them and s on the last.
SubKey(ctx, s) ==
  LET n == ctx.stateSize
      k(w) == ctx.key[((s + w - 1) % (n + 1)) + 1]
  IN  [w \in 1 .. n |->
         CASE w = n - 2 -> Add(k(w), ctx.tweak[(s % 3) + 1])
           [] w = n - 1 -> Add(k(w), ctx.tweak[((s + 1) % 3) + 1])
           [] w = n -> Add(k(w), Small(s))
           [] OTHER -> k(w)]

AddBlock(x, y) == [w \in DOMAIN x |-> Add(x[w], y[w])]
SubBlock(x, y) == [w \in DOMAIN x |-> Sub(x[w], y[w])]

\* bi += bj; bj = RotL(bj, r) ^ bi;   for every <<i, j, r>> of a round, which
\* between them have every word once.
Mix(x, round) ==
  [w \in DOMAIN x |->
     LET m == CHOOSE m \in round : w - 1 \in {m[1], m[2]}
         sum == Add(x[m[1] + 1], x[m[2] + 1])
     IN  IF w - 1 = m[1] THEN sum ELSE Xor(RotL(x[w], m[3]), sum)]

\* tmp = bj ^ bi; bj = RotR(tmp, r); bi -= bj;
Unmix(x, round) ==
  [w \in DOMAIN x |->
     LET m == CHOOSE m \in round : w - 1 \in {m[1], m[2]}
         turned == RotR(Xor(x[m[2] + 1], x[m[1] + 1]), m[3])
     IN  IF w - 1 = m[1] THEN Sub(x[w], turned) ELSE turned]

\* Rounds 4 * s to 4 * s + 3 use one half of the table or the other.
FourRounds(x, table, s) ==
  LET after[i \in 0 .. 4] ==
        IF i = 0 THEN x ELSE Mix(after[i - 1], table[4 * (s % 2) + i])
  IN  after[4]

FourRoundsBack(x, table, s) ==
  LET after[i \in 0 .. 4] ==
        IF i = 0 THEN x ELSE Unmix(after[i - 1], table[4 * (s % 2) + i])
  IN  after[4]

\* A subkey, four rounds, the next subkey, and a subkey after the last round:
\* rest[k] is what is done from the subkey on that k others follow.
Encrypt(ctx, rounds, table, input) ==
  LET last == rounds \div 4
      rest[k \in 0 .. last] ==
        [x \in Block(ctx.stateSize) |->
           LET keyed == AddBlock(x, SubKey(ctx, last - k))
           IN  IF k = 0 THEN keyed ELSE rest[k - 1][FourRounds(keyed, table, last - k)]]
  IN  rest[last][input]

\* The code of decryption starts from the last round and has a table of its own.
Decrypt(ctx, rounds, table, input) ==
  LET last == rounds \div 4
      rest[k \in 0 .. last] ==
        [x \in Block(ctx.stateSize) |->
           LET freed == SubBlock(x, SubKey(ctx, k))
           IN  IF k = 0 THEN freed ELSE rest[k - 1][FourRoundsBack(freed, table, last - k)]]
  IN  rest[last][input]

-----------------------------------------------------------------------------
(* The mixes of eight rounds, in the order in which the code does them. *)

Mixes256 == <<
  {<<0, 1, 14>>, <<2, 3, 16>>},
  {<<0, 3, 52>>, <<2, 1, 57>>},
  {<<0, 1, 23>>, <<2, 3, 40>>},
  {<<0, 3, 5>>, <<2, 1, 37>>},
  {<<0, 1, 25>>, <<2, 3, 33>>},
  {<<0, 3, 46>>, <<2, 1, 12>>},
  {<<0, 1, 58>>, <<2, 3, 22>>},
  {<<0, 3, 32>>, <<2, 1, 32>>}>>

Unmixes256 == <<
  {<<0, 3, 32>>, <<2, 1, 32>>},
  {<<0, 1, 58>>, <<2, 3, 22>>},
  {<<0, 3, 46>>, <<2, 1, 12>>},
  {<<0, 1, 25>>, <<2, 3, 33>>},
  {<<0, 3, 5>>, <<2, 1, 37>>},
  {<<0, 1, 23>>, <<2, 3, 40>>},
  {<<0, 3, 52>>, <<2, 1, 57>>},
  {<<0, 1, 14>>, <<2, 3, 16>>}>>

Mixes512 == <<
  {<<0, 1, 46>>, <<2, 3, 36>>, <<4, 5, 19>>, <<6, 7, 37>>},
  {<<2, 1, 33>>, <<4, 7, 27>>, <<6, 5, 14>>, <<0, 3, 42>>},
  {<<4, 1, 17>>, <<6, 3, 49>>, <<0, 5, 36>>, <<2, 7, 39>>},
  {<<6, 1, 44>>, <<0, 7, 9>>, <<2, 5, 54>>, <<4, 3, 56>>},
  {<<0, 1, 39>>, <<2, 3, 30>>, <<4, 5, 34>>, <<6, 7, 24>>},
  {<<2, 1, 13>>, <<4, 7, 50>>, <<6, 5, 10>>, <<0, 3, 17>>},
  {<<4, 1, 25>>, <<6, 3, 29>>, <<0, 5, 39>>, <<2, 7, 43>>},
  {<<6, 1, 8>>, <<0, 7, 35>>, <<2, 5, 56>>, <<4, 3, 22>>}>>

Unmixes512 == <<
  {<<4, 3, 22>>, <<2, 5, 56>>, <<0, 7, 35>>, <<6, 1, 8>>},
  {<<2, 7, 43>>, <<0, 5, 39>>, <<6, 3, 29>>, <<4, 1, 25>>},
  {<<0, 3, 17>>, <<6, 5, 10>>, <<4, 7, 50>>, <<2, 1, 13>>},
  {<<6, 7, 24>>, <<4, 5, 34>>, <<2, 3, 30>>, <<0, 1, 39>>},
  {<<4, 3, 56>>, <<2, 5, 54>>, <<0, 7, 9>>, <<6, 1, 44>>},
  {<<2, 7, 39>>, <<0, 5, 36>>, <<6, 3, 49>>, <<4, 1, 17>>},
  {<<0, 3, 42>>, <<6, 5, 14>>, <<4, 7, 27>>, <<2, 1, 33>>},
  {<<6, 7, 37>>, <<4, 5, 19>>, <<2, 3, 36>>, <<0, 1, 46>>}>>

Mixes1024 == <<
  {<<0, 1, 24>>, <<2, 3, 13>>, <<4, 5, 8>>, <<6, 7, 47>>,
   <<8, 9, 8>>, <<10, 11, 17>>, <<12, 13, 22>>, <<14, 15, 37>>},
  {<<0, 9, 38>>, <<2, 13, 19>>, <<6, 11, 10>>, <<4, 15, 55>>,
   <<10, 7, 49>>, <<12, 3, 18>>, <<14, 5, 23>>, <<8, 1, 52>>},
  {<<0, 7, 33>>, <<2, 5, 4>>, <<4, 3, 51>>, <<6, 1, 13>>,
   <<12, 15, 34>>, <<14, 13, 41>>, <<8, 11, 59>>, <<10, 9, 17>>},
  {<<0, 15, 5>>, <<2, 11, 20>>, <<6, 13, 48>>, <<4, 9, 41>>,
   <<14, 1, 47>>, <<8, 5, 28>>, <<10, 3, 16>>, <<12, 7, 25>>},
  {<<0, 1, 41>>, <<2, 3, 9>>, <<4, 5, 37>>, <<6, 7, 31>>,
   <<8, 9, 12>>, <<10, 11, 47>>, <<12, 13, 44>>, <<14, 15, 30>>},
  {<<0, 9, 16>>, <<2, 13, 34>>, <<6, 11, 56>>, <<4, 15, 51>>,
   <<10, 7, 4>>, <<12, 3, 53>>, <<14, 5, 42>>, <<8, 1, 41>>},
  {<<0, 7, 31>>, <<2, 5, 44>>, <<4, 3, 47>>, <<6, 1, 46>>,
   <<12, 15, 19>>, <<14, 13, 42>>, <<8, 11, 44>>, <<10, 9, 25>>},
  {<<0, 15, 9>>, <<2, 11, 48>>, <<6, 13, 35>>, <<4, 9, 52>>,
   <<14, 1, 23>>, <<8, 5, 31>>, <<10, 3, 37>>, <<12, 7, 20>>}>>

Unmixes1024 == <<
  {<<12, 7, 20>>, <<10, 3, 37>>, <<8, 5, 31>>, <<14, 1, 23>>,
   <<4, 9, 52>>, <<6, 13, 35>>, <<2, 11, 48>>, <<0, 15, 9>>},
  {<<10, 9, 25>>, <<8, 11, 44>>, <<14, 13, 42>>, <<12, 15, 19>>,
   <<6, 1, 46>>, <<4, 3, 47>>, <<2, 5, 44>>, <<0, 7, 31>>},
  {<<8, 1, 41>>, <<14, 5, 42>>, <<12, 3, 53>>, <<10, 7, 4>>,
   <<4, 15, 51>>, <<6, 11, 56>>, <<2, 13, 34>>, <<0, 9, 16>>},
  {<<14, 15, 30>>, <<12, 13, 44>>, <<10, 11, 47>>, <<8, 9, 12>>,
   <<6, 7, 31>>, <<4, 5, 37>>, <<2, 3, 9>>, <<0, 1, 41>>},
  {<<12, 7, 25>>, <<10, 3, 16>>, <<8, 5, 28>>, <<14, 1, 47>>,
   <<4, 9, 41>>, <<6, 13, 48>>, <<2, 11, 20>>, <<0, 15, 5>>},
  {<<10, 9, 17>>, <<8, 11, 59>>, <<14, 13, 41>>, <<12, 15, 34>>,
   <<6, 1, 13>>, <<4, 3, 51>>, <<2, 5, 4>>, <<0, 7, 33>>},
  {<<8, 1, 52>>, <<14, 5, 23>>, <<12, 3, 18>>, <<10, 7, 49>>,
   <<4, 15, 55>>, <<6, 11, 10>>, <<2, 13, 19>>, <<0, 9, 38>>},
  {<<14, 15, 37>>, <<12, 13, 22>>, <<10, 11, 17>>, <<8, 9, 8>>,
   <<6, 7, 47>>, <<4, 5, 8>>, <<2, 3, 13>>, <<0, 1, 24>>}>>

threefishEncrypt256(ctx, input) == Encrypt(ctx, 72, Mixes256, input)
threefishDecrypt256(ctx, input) == Decrypt(ctx, 72, Unmixes256, input)
threefishEncrypt512(ctx, input) == Encrypt(ctx, 72, Mixes512, input)
threefishDecrypt512(ctx, input) == Decrypt(ctx, 72, Unmixes512, input)
threefishEncrypt1024(ctx, input) == Encrypt(ctx, 80, Mixes1024, input)
threefishDecrypt1024(ctx, input) == Decrypt(ctx, 80, Unmixes1024, input)

threefishEncryptBlockWords(ctx, input) ==
  CASE ctx.stateSize = 4 -> threefishEncrypt256(ctx, input)
    [] ctx.stateSize = 8 -> threefishEncrypt512(ctx, input)
    [] ctx.stateSize = 16 -> threefishEncrypt1024(ctx, input)

threefishDecryptBlockWords(ctx, input) ==
  CASE ctx.stateSize = 4 -> threefishDecrypt256(ctx, input)
    [] ctx.stateSize = 8 -> threefishDecrypt512(ctx, input)
    [] ctx.stateSize = 16 -> threefishDecrypt1024(ctx, input)
=============================================================================
