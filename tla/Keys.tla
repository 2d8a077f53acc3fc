--------------------------------- MODULE Keys ---------------------------------
(***************************************************************************)
(* handleKeys: which key a run works with.  A key is what it is made from: *)
(* the recipe (the secret, whether that was hashed and stretched, and the  *)
(* block size), the memory that came into it, and the salt.  Two keys are  *)
(* equal when these are: Skein and scrypt are taken for functions that do  *)
(* not collide (modules Skein and Scrypt have them).                       *)
(***************************************************************************)
EXTENDS Threefizer

CONSTANTS
  FileLength(_),   \* the length of a key file
  Junk             \* what may lie behind a password in memory

\* Whether the key goes through scrypt.
Stretched(a) == a.hash /\ ~a.legacy_hash

\* What the user said: the same for two runs that should have the same key.
Recipe(a) ==
  <<a.hash_from_file, IF a.hash_from_file THEN a.key_file ELSE a.password.text,
    a.hash, Stretched(a), a.state_size>>

KeySize(k) == k.recipe[5]

NoSalt == 0

BlockBytesOf(a) == 8 * a.state_size

\* The key is made of memory the user never wrote: noHashKey copies a block from
\* a password, however short, and a password that could not be read has 65535
\* bytes of its own.
OfJunk(a) ==
  /\ ~a.hash_from_file
  /\ \/ a.password.text = Unread
     \/ ~a.hash /\ EntryLength(a.password.text) < BlockBytesOf(a)

\* No key from a file that is too short: for a block, or to be hashed at all.
NoKey(a) ==
  a.hash_from_file /\ FileLength(a.key_file) < IF a.hash THEN 1 ELSE BlockBytesOf(a)

\* A slip: the salt of a decryption is a new one.
SaltFresh(a, file, fresh) == fresh

\* genIV and getIV: a new one, or the first block of the file, which is the IV
\* it was enciphered with if it was with blocks of that size.
SaltOf(a, file, fresh) ==
  IF a.encrypt THEN fresh
  ELSE IF file[1].kind = "header" /\ KeySize(file[1].key) = a.state_size
  THEN file[1].iv
  ELSE -1

\* The keys handleKeys may make.  kdf_scrypt reports no error when it has no
\* memory, and then leaves the key as it was.
KeysOf(a, iv) ==
  LET junk == IF OfJunk(a) THEN Junk ELSE {0}
      salts == IF Stretched(a) THEN {iv, NoSalt} ELSE {NoSalt}
  IN  {[recipe |-> Recipe(a), junk |-> j, salt |-> s] : j \in junk, s \in salts}
=============================================================================
