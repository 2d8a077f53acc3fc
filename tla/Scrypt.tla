------------------------------- MODULE Scrypt ---------------------------------
(***************************************************************************)
(* kdf_scrypt, which stretches the key of a cipher in place: the buffer of *)
(* the result is that of the password.  B is mixed lane by lane through one*)
(* V and one X, and the key derived from it again block by block.          *)
(*                                                                         *)
(* A word of 32 bits is its two 16-bit digits, lowest first; a block is 16 *)
(* of them, a lane 2 * r blocks.  Not modelled: sizes for which SIZE_MAX or*)
(* 32 bits do not suffice, which the constants of the program are far from.*)
(***************************************************************************)
EXTENDS Skein

CONSTANTS
  Jobs,     \* the calls: records [key, salt, N, r, p]
  MaxRP     \* the limit of r * p, 2^30

ASSUME ScryptAssumption ==
  /\ MaxRP \in Nat
  /\ \A j \in Jobs :
       /\ j.key \in Seq(Byte) /\ Len(j.key) % 32 = 0 /\ j.salt \in Seq(Byte)
       /\ j.N \in Nat /\ j.r \in Nat \ {0} /\ j.p \in Nat \ {0}

VARIABLES
  job,
  pc,
  key,        \* passwd and buf, cipher_key in handleKeys
  B,          \* the p lanes
  lane,       \* i of kdf_scrypt
  X, V, i,    \* of smix
  Pctx,       \* of PBKDF2_SKEIN512
  result,
  noMemory,   \* whether malloc failed
  start       \* the lanes before they are mixed, for the properties

scryptVars == <<job, pc, key, B, lane, X, V, i, Pctx, result, noMemory, start>>

-----------------------------------------------------------------------------
(* salsa20_8 and blockmix_salsa8 *)

Add32(x, y) ==
  LET low == x[1] + y[1]
  IN  <<low % Base, (x[2] + y[2] + (low \div Base)) % Base>>

Xor32(x, y) == <<XorDigit(x[1], y[1]), XorDigit(x[2], y[2])>>

\* The macro R, with 0 < b < 32.
R(a, b) ==
  LET up == Pow2[b % 16]
      low == IF b < 16 THEN a ELSE <<a[2], a[1]>>
  IN  <<((low[1] * up) % Base) + ((low[2] * up) \div Base),
        ((low[2] * up) % Base) + ((low[1] * up) \div Base)>>

\* Four updates, of words q[2], q[3], q[4] and q[1].
Quarter(x, q) ==
  LET y2 == Xor32(x[q[2]], R(Add32(x[q[1]], x[q[4]]), 7))
      y3 == Xor32(x[q[3]], R(Add32(y2, x[q[1]]), 9))
      y4 == Xor32(x[q[4]], R(Add32(y3, y2), 13))
      y1 == Xor32(x[q[1]], R(Add32(y4, y3), 18))
  IN  [x EXCEPT ![q[1]] = y1, ![q[2]] = y2, ![q[3]] = y3, ![q[4]] = y4]

\* The columns and the rows; word x[k] of the code is k + 1 here.
DoubleRound ==
  <<<<1, 5, 9, 13>>, <<6, 10, 14, 2>>, <<11, 15, 3, 7>>, <<16, 4, 8, 12>>,
    <<1, 2, 3, 4>>, <<6, 7, 8, 5>>, <<11, 12, 9, 10>>, <<16, 13, 14, 15>>>>

\* Eight rounds.
Rounds(x) ==
  LET after[k \in 0 .. 32] ==
        IF k = 0 THEN x ELSE Quarter(after[k - 1], DoubleRound[((k - 1) % 8) + 1])
  IN  after[32]

\* A slip: the input is not added in the end.
SalsaWithoutSum(x) == Rounds(x)

salsa20_8(x) ==
  LET y == Rounds(x) IN [w \in 1 .. 16 |-> Add32(x[w], y[w])]

blkxor(x, y) == [w \in DOMAIN x |-> Xor32(x[w], y[w])]

\* Every block is added to the one hashed before it and hashed; then the even
\* ones come before the odd ones.
blockmix_salsa8(blocks, r) ==
  LET hashed[b \in 0 .. 2 * r] ==
        IF b = 0 THEN blocks[2 * r] ELSE salsa20_8(blkxor(hashed[b - 1], blocks[b]))
  IN  [b \in 1 .. 2 * r |-> hashed[IF b <= r THEN 2 * b - 1 ELSE 2 * (b - r)]]

XorLane(x, y) == [b \in DOMAIN x |-> blkxor(x[b], y[b])]

\* integerify, as much of it as the mask leaves: N is at most 2^16 here.
integerify(x, r) == x[2 * r][1][1]

-----------------------------------------------------------------------------
(* PBKDF2_SKEIN512, with the one iteration that scrypt asks for *)

be32enc(k) == <<(k \div 16777216) % 256, (k \div Base) % 256, (k \div 256) % 256, k % 256>>

\* The MAC state after the password and the salt.
PbkdfInit(passwd, salt) ==
  skeinUpdate(skeinMacInit(skeinCtxPrepare(8), passwd, 512), salt)

\* Block k: a copy of the state finished with k; 32 of its 64 bytes are used.
PbkdfBlock(ctx, k) == SubSeq(Digest(skeinUpdate(ctx, be32enc(k))), 1, 32)

Words32(bytes) ==
  [w \in 1 .. Len(bytes) \div 4 |->
     <<bytes[4 * w - 3] + 256 * bytes[4 * w - 2], bytes[4 * w - 1] + 256 * bytes[4 * w]>>]

Bytes32(words) ==
  [k \in 1 .. 4 * Len(words) |->
     LET digit == words[((k - 1) \div 4) + 1][(((k - 1) % 4) \div 2) + 1]
     IN  IF k % 2 = 1 THEN digit % 256 ELSE digit \div 256]

\* 128 * r * p bytes, as lanes of blocks of words: two halves each.
Lanes(half, r, p) ==
  [l \in 1 .. p |-> [b \in 1 .. 2 * r |->
     LET k == 2 * (2 * r * (l - 1) + b) IN half[k - 1] \o half[k]]]

LanesOf(ctx, r, p) == Lanes([k \in 1 .. 4 * r * p |-> Words32(PbkdfBlock(ctx, k))], r, p)

BytesOf(lanes) == FlattenSeq([l \in DOMAIN lanes |->
                    FlattenSeq([b \in DOMAIN lanes[l] |-> Bytes32(lanes[l][b])])])

-----------------------------------------------------------------------------
(* kdf_scrypt *)

Return(value) == pc' = "returned" /\ result' = value

PowerOf2(n) == n # 0 /\ \E e \in 0 .. 16 : n = 2 ^ e

\* The checks of the parameters.
Reject ==
  /\ pc = "called"
  /\ \/ job.r * job.p >= MaxRP /\ Return("INTEGER_OVERFLOW")
     \/ job.r * job.p < MaxRP /\ ~PowerOf2(job.N) /\ Return("SCRYPT_INVALID_VALUE")
  /\ UNCHANGED <<job, key, B, lane, X, V, i, Pctx, noMemory, start>>

Accepted == job.r * job.p < MaxRP /\ PowerOf2(job.N)

\* One of the three calls of malloc fails: errno, the local one, is still 0.
MallocFails ==
  /\ pc = "called" /\ Accepted
  /\ noMemory' = TRUE
  /\ Return("0")
  /\ UNCHANGED <<job, key, B, lane, X, V, i, Pctx, start>>

FirstPbkdf2 ==
  /\ pc = "called" /\ Accepted
  /\ B' = LanesOf(PbkdfInit(key, job.salt), job.r, job.p)
  /\ pc' = "lane"
  /\ start' = B'
  /\ UNCHANGED <<job, key, lane, X, V, i, Pctx, result, noMemory>>

SmixStart ==
  /\ pc = "lane" /\ lane <= job.p
  /\ X' = B[lane] /\ i' = 0
  /\ pc' = "fill"
  /\ UNCHANGED <<job, key, B, lane, V, Pctx, result, noMemory, start>>

SmixFill ==
  /\ pc = "fill"
  /\ V' = [V EXCEPT ![i] = X]
  /\ X' = blockmix_salsa8(X, job.r)
  /\ IF i + 1 < job.N THEN i' = i + 1 /\ pc' = pc ELSE i' = 0 /\ pc' = "mix"
  /\ UNCHANGED <<job, key, B, lane, Pctx, result, noMemory, start>>

\* A slip: the block is looked up after X has been mixed.
SmixMixLate ==
  /\ pc = "mix" /\ i < job.N
  /\ LET Y == blockmix_salsa8(X, job.r)
     IN  X' = XorLane(Y, V[integerify(Y, job.r) % job.N])
  /\ i' = i + 1
  /\ UNCHANGED <<job, pc, key, B, lane, V, Pctx, result, noMemory, start>>

SmixMix ==
  /\ pc = "mix" /\ i < job.N
  /\ X' = blockmix_salsa8(XorLane(X, V[integerify(X, job.r) % job.N]), job.r)
  /\ i' = i + 1
  /\ UNCHANGED <<job, pc, key, B, lane, V, Pctx, result, noMemory, start>>

SmixEnd ==
  /\ pc = "mix" /\ i = job.N
  /\ B' = [B EXCEPT ![lane] = X]
  /\ lane' = lane + 1 /\ pc' = "lane"
  /\ UNCHANGED <<job, key, X, V, i, Pctx, result, noMemory, start>>

SecondPbkdf2 ==
  /\ pc = "lane" /\ lane > job.p
  /\ Pctx' = PbkdfInit(key, BytesOf(B))
  /\ i' = 0
  /\ pc' = "derive"
  /\ UNCHANGED <<job, key, B, lane, X, V, result, noMemory, start>>

\* A slip: the key, which has its first blocks already, is hashed anew for each.
DeriveAnew ==
  /\ pc = "derive" /\ 32 * i < Len(key)
  /\ key' = Overwrite(key, 32 * i, PbkdfBlock(PbkdfInit(key, BytesOf(B)), i + 1))
  /\ i' = i + 1
  /\ UNCHANGED <<job, pc, B, lane, X, V, Pctx, result, noMemory, start>>

\* A slip: the blocks come after the password.
DeriveBehind ==
  /\ pc = "derive" /\ 32 * i < Len(key)
  /\ key' = key \o PbkdfBlock(Pctx, i + 1)
  /\ i' = i + 1
  /\ UNCHANGED <<job, pc, B, lane, X, V, Pctx, result, noMemory, start>>

\* The next 32 bytes of the key overwrite those of the password.
Derive ==
  /\ pc = "derive" /\ 32 * i < Len(key)
  /\ key' = Overwrite(key, 32 * i, PbkdfBlock(Pctx, i + 1))
  /\ i' = i + 1
  /\ UNCHANGED <<job, pc, B, lane, X, V, Pctx, result, noMemory, start>>

Derived ==
  /\ pc = "derive" /\ 32 * i >= Len(key)
  /\ Return("0")
  /\ UNCHANGED <<job, key, B, lane, X, V, i, Pctx, noMemory, start>>

Init ==
  /\ job \in Jobs
  /\ pc = "called" /\ key = job.key
  /\ B = <<>> /\ lane = 1 /\ X = <<>> /\ i = 0
  /\ V = [k \in 0 .. job.N - 1 |-> <<>>]
  /\ Pctx = skeinCtxPrepare(8)
  /\ result = "0" /\ noMemory = FALSE /\ start = <<>>

Next ==
  \/ Reject \/ MallocFails \/ FirstPbkdf2
  \/ SmixStart \/ SmixFill \/ SmixMix \/ SmixEnd
  \/ SecondPbkdf2 \/ Derive \/ Derived

Spec == Init /\ [][Next]_scryptVars

-----------------------------------------------------------------------------
(* Properties *)

\* Key, lanes and X keep their sizes, in words of 32 bits.
Word32 == [1 .. 2 -> Digit]
Lane(r) == [1 .. 2 * r -> [1 .. 16 -> Word32]]

TypeOK ==
  /\ job \in Jobs
  /\ pc \in {"called", "lane", "fill", "mix", "derive", "returned"}
  /\ key \in [1 .. Len(job.key) -> Byte]
  /\ pc \in {"lane", "fill", "mix", "derive"} => B \in [1 .. job.p -> Lane(job.r)]
  /\ pc \in {"fill", "mix"} => X \in Lane(job.r) /\ lane \in 1 .. job.p
  /\ result \in {"0", "INTEGER_OVERFLOW", "SCRYPT_INVALID_VALUE"}

\* The reference: ROMix as the scrypt paper has it, element k of its table the
\* k-fold mix of the lane, with no table that lanes share.
Iterated(f, x, k) ==
  LET after[j \in 0 .. k] == IF j = 0 THEN x ELSE f[after[j - 1]] IN after[k]

Mixed(x, r, k) == Iterated([y \in Lane(r) |-> blockmix_salsa8(y, r)], x, k)

ROMix(x, N, r) ==
  Iterated([y \in Lane(r) |->
              blockmix_salsa8(XorLane(y, Mixed(x, r, integerify(y, r) % N)), r)],
           Mixed(x, r, N), N)

\* Whatever an earlier lane left in V and X: the lanes that are done are mixed,
\* and the others are as they were.
LanesApart ==
  pc = "lane" =>
    \A l \in 1 .. job.p : B[l] = IF l < lane THEN ROMix(start[l], job.N, job.r) ELSE start[l]

\* key.c passes one buffer as password and result: a call that returns 0 has
\* derived all of the key from what it was before and the lanes, although it is
\* overwritten while it is derived, unless there was no memory.  All others
\* leave it as it was.
Stretched(final) ==
  FlattenSeq([k \in 1 .. Len(job.key) \div 32 |-> PbkdfBlock(final, k)])

KeyIsStretched ==
  pc = "returned" => key = IF result = "0" /\ ~noMemory
                             THEN Stretched(PbkdfInit(job.key, BytesOf(B))) ELSE job.key
=============================================================================
