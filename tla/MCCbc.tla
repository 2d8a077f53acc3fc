-------------------------------- MODULE MCCbc ---------------------------------
(* Cbc with the real cipher, on files of up to two and a half chunks,      *)
(* deciphered with the same key and block size and with others.            *)
EXTENDS Cbc

CONSTANTS Lengths, Seeds

T == INSTANCE Threefish

\* A text whose words all differ, and keys made of a seed.
MCFiles ==
  {[w \in 1 .. length |-> T!Hex(w, 4369 * (w % 15), 257 * w, 40000 + w)] : length \in Lengths}

threefizer_tweak ==
  <<T!Hex(\h536, \h8616, \hC6C2, \h6E6), T!Hex(\h265, \h2064, \h6976, \h756C)>>

Context ==
  [seed \in Seeds |-> [size \in Sizes |->
     T!threefishSetKey([w \in 1 .. size |-> T!Hex(seed, 65535 - w, seed * w, w * w)],
                       threefizer_tweak)]]

MCCipher(seed, x) == T!threefishEncryptBlockWords(Context[seed][Len(x)], x)
MCDecipher(seed, x) == T!threefishDecryptBlockWords(Context[seed][Len(x)], x)
MCXor(x, y) == T!XorBlock(x, y)
MCIV(size) == [w \in 1 .. size |-> T!Hex(size, w, 7, 65535)]
MCWord == T!Word
MCZero == T!Zero
MCNum(k) == T!Small(k)
MCValue(word) == word[1] + 65536 * word[2]
MCMagic == T!Hex(\h909, \h2020, \h909, \h2009)
MCVersion == T!Hex(\h5077, \h734, \h6764, \h3229)
=============================================================================
