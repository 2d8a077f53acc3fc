-------------------------------- MODULE Skein ---------------------------------
(***************************************************************************)
(* The hash and MAC function.  A call on a SkeinCtx is an operator from the*)
(* context before it to the one after it.  The code has InitExt, Update,   *)
(* Final, Final_Pad and Process_Block three times, once for each block     *)
(* size, with nothing else different: here each is written once, with the  *)
(* size in the context.  Messages and keys are sequences of bytes, sizes   *)
(* are in words.                                                           *)
(***************************************************************************)
EXTENDS Words, SequencesExt

CONSTANT
  TweakedCipher(_, _, _, _)   \* Threefish, of the size, key, tweak and block

BlockBytes(ctx) == 8 * ctx.size

\* Skein_Get64_LSB_First and Skein_Put64_LSB_First.
ToWords(bytes) ==
  [w \in 1 .. Len(bytes) \div 8 |-> [d \in 1 .. 4 |->
     LET k == 8 * (w - 1) + 2 * d IN bytes[k - 1] + 256 * bytes[k]]]

ToBytes(words) ==
  [k \in 1 .. 8 * Len(words) |->
     LET digit == words[((k - 1) \div 8) + 1][(((k - 1) % 8) \div 2) + 1]
     IN  IF k % 2 = 1 THEN digit % 256 ELSE digit \div 256]

ZeroBytes(n) == [k \in 1 .. n |-> 0]

\* bytes with those from position at + 1 on replaced by piece.
Overwrite(bytes, at, piece) ==
  [k \in DOMAIN bytes |-> IF k - at \in DOMAIN piece THEN piece[k - at] ELSE bytes[k]]

\* The types of block, SKEIN_BLK_TYPE_*.
KEY == 0
CFG == 4
MSG == 48
OUT == 63

\* SKEIN_T1_FLAG_FIRST, SKEIN_T1_FLAG_FINAL and the type in the second tweak.
T1(type, first, final) ==
  Hex((IF final THEN 32768 ELSE 0) + (IF first THEN 16384 ELSE 0) + 256 * type, 0, 0, 0)

skeinCtxPrepare(size) ==
  [size |-> size, hashBitLen |-> 0, T0 |-> Zero, type |-> 0, first |-> FALSE,
   final |-> FALSE, bCnt |-> 0, X |-> ZeroBlock(size), b |-> ZeroBytes(8 * size),
   XSave |-> ZeroBlock(size)]

Skein_Start_New_Type(ctx, type, final) ==
  [ctx EXCEPT !.T0 = Zero, !.type = type, !.first = TRUE, !.final = final, !.bCnt = 0]

\* One block: count byteCntAdd more bytes, encipher the block under the chaining
\* variables and feed it forward.
ProcessOne(ctx, block, byteCntAdd) ==
  LET t0 == Add(ctx.T0, Small(byteCntAdd))
      tweak == <<t0, T1(ctx.type, ctx.first, ctx.final)>>
      w == ToWords(block)
  IN  [ctx EXCEPT !.T0 = t0, !.first = FALSE,
                  !.X = XorBlock(TweakedCipher(ctx.size, ctx.X, tweak, w), w)]

\* Skein_256_, Skein_512_ and Skein1024_Process_Block.
Skein_Process_Block(ctx, blkPtr, blkCnt, byteCntAdd) ==
  LET block(i) == SubSeq(blkPtr, (i - 1) * BlockBytes(ctx) + 1, i * BlockBytes(ctx))
      after[i \in 0 .. blkCnt] ==
        IF i = 0 THEN ctx ELSE ProcessOne(after[i - 1], block(i), byteCntAdd)
  IN  after[blkCnt]

\* A slip: a block that is just full is processed at once.
FullBlocksAll(ctx, length) == length \div BlockBytes(ctx)

\* The whole blocks of a message that are processed from where it lies: never
\* the last one, which Final needs.
FullBlocks(ctx, length) ==
  IF length > BlockBytes(ctx) THEN (length - 1) \div BlockBytes(ctx) ELSE 0

\* The block in the buffer.
ProcessBuffer(ctx, byteCntAdd) == Skein_Process_Block(ctx, ctx.b, 1, byteCntAdd)

Filled(ctx, msg) ==
  LET n == BlockBytes(ctx) - ctx.bCnt
  IN  ProcessBuffer([ctx EXCEPT !.b = Overwrite(@, ctx.bCnt, SubSeq(msg, 1, n))],
                    BlockBytes(ctx))

\* A slip: the buffer is still counted as full.
TopUpCounted(ctx, msg) == Filled(ctx, msg)

\* Fill the buffer up, process it and empty it.
TopUp(ctx, msg) == [Filled(ctx, msg) EXCEPT !.bCnt = 0]

\* Put what is left behind what is in the buffer.
Keep(ctx, rest) == [ctx EXCEPT !.b = Overwrite(@, ctx.bCnt, rest), !.bCnt = @ + Len(rest)]

\* Whole blocks from the message itself, and the rest into the buffer.
UpdateWhole(ctx, msg) ==
  LET full == FullBlocks(ctx, Len(msg))
      size == BlockBytes(ctx)
  IN  Keep(Skein_Process_Block(ctx, msg, full, size), SubSeq(msg, full * size + 1, Len(msg)))

\* Use the buffer up first when more than a block has come.
Update(ctx, msg) ==
  LET size == BlockBytes(ctx)
      tops == ctx.bCnt > 0 /\ ctx.bCnt + Len(msg) > size
  IN  UpdateWhole(IF tops THEN TopUp(ctx, msg) ELSE ctx,
                  IF tops THEN SubSeq(msg, size - ctx.bCnt + 1, Len(msg)) ELSE msg)

\* A slip: what an earlier message left in the buffer stays behind the last.
PadNot(ctx) == ctx.b

\* The buffer, with zeros after what was put into it.
PadBuffer(ctx) == Overwrite(ctx.b, ctx.bCnt, ZeroBytes(BlockBytes(ctx) - ctx.bCnt))

\* Skein_*_Final_Pad, and how Final begins: the last block of a message, padded
\* with zeros and tagged as final.
LastBlock(ctx) ==
  ProcessBuffer([ctx EXCEPT !.final = TRUE, !.b = PadBuffer(ctx)], ctx.bCnt)

\* The output stage: block i is the hash of the number i.
Counter(ctx, i) == Overwrite(ZeroBytes(BlockBytes(ctx)), 0, ToBytes(<<Small(i)>>))

OutputBlock(ctx, i) ==
  Skein_Process_Block(Skein_Start_New_Type(ctx, OUT, TRUE), Counter(ctx, i), 1, 8)

OutputBytes(ctx) == (ctx.hashBitLen + 7) \div 8
OutputBlocks(ctx) == (OutputBytes(ctx) + BlockBytes(ctx) - 1) \div BlockBytes(ctx)

\* The context Final leaves, its chaining variables restored, and the digest.
OutputStage(last) ==
  [OutputBlock(last, OutputBlocks(last) - 1) EXCEPT
     !.X = last.X, !.b = Counter(last, OutputBlocks(last) - 1)]

OutputStageBytes(last) ==
  SubSeq(FlattenSeq([i \in 1 .. OutputBlocks(last) |-> ToBytes(OutputBlock(last, i - 1).X)]),
         1, OutputBytes(last))

Final(ctx) == OutputStage(LastBlock(ctx))
Digest(ctx) == OutputStageBytes(LastBlock(ctx))

\* The configuration block.
SKEIN_SCHEMA_VER == Hex(0, 1, \h3341, \h4853)

Config(size, hashBitLen) ==
  [w \in 1 .. size |-> CASE w = 1 -> SKEIN_SCHEMA_VER
                         [] w = 2 -> Small(hashBitLen)
                         [] OTHER -> Zero]

\* A slip: a context used before keeps its chaining variables.
HashKeyOnTop(ctx, key) ==
  IF key = <<>>
  THEN [ctx EXCEPT !.X = ZeroBlock(ctx.size)]
  ELSE LastBlock(Update([Skein_Start_New_Type(ctx, KEY, FALSE) EXCEPT
                                       !.hashBitLen = 64 * ctx.size], key))

\* The chaining variables before the configuration block: zeros, or what the
\* key hashes to.
HashKey(ctx, key) ==
  IF key = <<>>
  THEN [ctx EXCEPT !.X = ZeroBlock(ctx.size)]
  ELSE LastBlock(Update([Skein_Start_New_Type(ctx, KEY, FALSE) EXCEPT
                                       !.hashBitLen = 64 * ctx.size,
                                       !.X = ZeroBlock(ctx.size)], key))

\* The configuration is a message of one block.
Configured(ctx, hashBitLen) ==
  Skein_Process_Block([Skein_Start_New_Type(ctx, CFG, TRUE) EXCEPT !.hashBitLen = hashBitLen],
                      ToBytes(Config(ctx.size, hashBitLen)), 1, 32)

InitExt(ctx, hashBitLen, key) ==
  Skein_Start_New_Type(Configured(HashKey(ctx, key), hashBitLen), MSG, FALSE)

-----------------------------------------------------------------------------
(* The three copies of each, and the calls of skeinApi that choose one. *)

Skein_256_InitExt(ctx, hashBitLen, key) == InitExt(ctx, hashBitLen, key)
Skein_512_InitExt(ctx, hashBitLen, key) == InitExt(ctx, hashBitLen, key)
Skein1024_InitExt(ctx, hashBitLen, key) == InitExt(ctx, hashBitLen, key)
Skein_256_Update(ctx, msg) == Update(ctx, msg)
Skein_512_Update(ctx, msg) == Update(ctx, msg)
Skein1024_Update(ctx, msg) == Update(ctx, msg)
Skein_256_Final(ctx) == Final(ctx)
Skein_512_Final(ctx) == Final(ctx)
Skein1024_Final(ctx) == Final(ctx)

SaveX(ctx) == [ctx EXCEPT !.XSave = ctx.X]

skeinMacInit(ctx, key, hashBitLen) ==
  SaveX(CASE ctx.size = 4 -> Skein_256_InitExt(ctx, hashBitLen, key)
          [] ctx.size = 8 -> Skein_512_InitExt(ctx, hashBitLen, key)
          [] ctx.size = 16 -> Skein1024_InitExt(ctx, hashBitLen, key))

skeinInit(ctx, hashBitLen) == skeinMacInit(ctx, <<>>, hashBitLen)

skeinReset(ctx) == Skein_Start_New_Type([ctx EXCEPT !.X = ctx.XSave], MSG, FALSE)

skeinUpdate(ctx, msg) ==
  CASE ctx.size = 4 -> Skein_256_Update(ctx, msg)
    [] ctx.size = 8 -> Skein_512_Update(ctx, msg)
    [] ctx.size = 16 -> Skein1024_Update(ctx, msg)

skeinFinal(ctx) ==
  CASE ctx.size = 4 -> Skein_256_Final(ctx)
    [] ctx.size = 8 -> Skein_512_Final(ctx)
    [] ctx.size = 16 -> Skein1024_Final(ctx)
=============================================================================
