---------------------------- MODULE SkeinUseProofs -----------------------------
(***************************************************************************)
(* The digest is that of the whole message, for every key, every message,  *)
(* every way it is cut into pieces and every number of uses of the context,*)
(* with any cipher that makes blocks of blocks.                            *)
(***************************************************************************)
EXTENDS SkeinUse, SkeinProofs

\* What the hash needs of the cipher.
CiphersKeep == \A size \in Sizes : CipherKeeps(size)

\* The message so far.
Fed == Bytes(0, fed)

\* What holds of a context of n words, whenever it is the program's turn.
Typed(n) ==
  /\ ctx \in Ctx(n)
  /\ key \in Seq(Byte) /\ message \in Messages
  /\ fed \in 0 .. MaxBytes(n) /\ uses \in 0 .. MaxUses
  /\ pc \in {"prepared", "open", "finished"}
  /\ pc # "finished" => digest = <<>>

\* The chaining variables that skeinReset goes back to are those of the key.
Saved(n) == ctx.XSave = StartValue(key, n) /\ ctx.hashBitLen = 64 * n

Good(n) ==
  /\ Typed(n)
  /\ pc # "prepared" => Saved(n)
  /\ pc = "open" => Absorbed(ctx, n, StartValue(key, n), Fed, MSG)
  /\ pc = "finished" => digest \in Bytes8(n) /\ digest = SkeinOf(key, Fed, n)

IInv == \E n \in Sizes : Good(n)

-----------------------------------------------------------------------------
(* Steps *)

LEMMA SizeIs ==
  ASSUME NEW n \in Sizes
  PROVE  /\ n \in {4, 8, 16} /\ n \in Nat /\ n > 0
         /\ MaxBytes(n) \in Nat /\ Keys(n) \subseteq Seq(Byte) /\ Pieces(n) \subseteq Nat
<1>1. n \in {4, 8, 16}
  BY SkeinUseAssumption
<1>2. QED
  BY <1>1, SizeFacts, SkeinUseAssumption

LEMMA BytesAre ==
  ASSUME NEW n \in Sizes, message \in Messages, NEW f \in Nat, NEW g \in Nat, f <= g, g <= MaxBytes(n)
  PROVE  /\ Bytes(f, g) \in Seq(Byte) /\ Len(Bytes(f, g)) = g - f
         /\ \A k \in 1 .. g - f : Bytes(f, g)[k] = ByteOf(message, f + k)
<1>1. PICK len \in Nat : len = g - f
  OBVIOUS
<1>2. \A k \in 1 .. len : ByteOf(message, f + k) \in Byte
  <2>1. \A k \in 1 .. len : f + k \in 1 .. MaxBytes(n)
    BY <1>1, SizeIs
  <2>2. QED
    BY <2>1, SkeinUseAssumption
<1>3. Bytes(f, g) = [k \in 1 .. len |-> ByteOf(message, f + k)]
  BY <1>1 DEF Bytes
<1>4. Bytes(f, g) \in [1 .. len -> Byte]
  BY <1>2, <1>3
<1>5. Bytes(f, g) \in Seq(Byte) /\ Len(Bytes(f, g)) = len
  BY <1>4, LenOfFunction
<1>6. QED
  BY <1>1, <1>3, <1>5

LEMMA NoBytes ==
  ASSUME NEW f \in [1 .. 0 -> Byte]
  PROVE  f = <<>>
<1>1. f \in Seq(Byte) /\ Len(f) = 0
  BY LenOfFunction
<1>2. QED
  BY <1>1, EmptySeq

\* A piece goes on where the message so far ends.
LEMMA PieceExtends ==
  ASSUME NEW n \in Sizes, message \in Messages, NEW f \in Nat, NEW g \in Nat, f <= g, g <= MaxBytes(n)
  PROVE  Extends(Bytes(0, g), Bytes(0, f), Bytes(f, g))
<1>1. f <= MaxBytes(n) /\ 0 <= g /\ 0 <= f
  BY SizeIs
<1>2. PICK mm \in Seq(Byte) : /\ mm = Bytes(0, g) /\ Len(mm) = g
                              /\ \A k \in 1 .. g : mm[k] = ByteOf(message, k)
  <2>1. (\A k \in 1 .. g : 0 + k = k) /\ g - 0 = g /\ 0 <= g /\ 0 \in Nat
    OBVIOUS
  <2>2. /\ Bytes(0, g) \in Seq(Byte) /\ Len(Bytes(0, g)) = g - 0
        /\ \A k \in 1 .. g - 0 : Bytes(0, g)[k] = ByteOf(message, 0 + k)
    BY <2>1, BytesAre
  <2>3. QED
    BY <2>1, <2>2
<1>3. PICK m \in Seq(Byte) : /\ m = Bytes(0, f) /\ Len(m) = f
                             /\ \A k \in 1 .. f : m[k] = ByteOf(message, k)
  <2>1. (\A k \in 1 .. f : 0 + k = k) /\ f - 0 = f /\ 0 \in Nat
    OBVIOUS
  <2>2. /\ Bytes(0, f) \in Seq(Byte) /\ Len(Bytes(0, f)) = f - 0
        /\ \A k \in 1 .. f - 0 : Bytes(0, f)[k] = ByteOf(message, 0 + k)
    BY <1>1, <2>1, BytesAre
  <2>3. QED
    BY <2>1, <2>2
<1>4. PICK msg \in Seq(Byte) : /\ msg = Bytes(f, g) /\ Len(msg) = g - f
                               /\ \A k \in 1 .. g - f : msg[k] = ByteOf(message, f + k)
  BY BytesAre
<1>5. \A k \in 1 .. f : m[k] = mm[0 + k]
  BY <1>2, <1>3
<1>6. \A k \in 1 .. g - f : msg[k] = mm[f + k]
  BY <1>2, <1>4
<1>7. QED
  BY <1>2, <1>3, <1>4, <1>5, <1>6, SMTT(30) DEF Extends, Agrees

-----------------------------------------------------------------------------
(* The invariant *)

LEMMA InitGood == ASSUME Init PROVE IInv
<1>1. PICK n \in Sizes : ctx = skeinCtxPrepare(n)
  BY DEF Init
<1>2. ctx \in Ctx(n)
  BY <1>1, PreparedCtx, SizeIs
<1>3. key \in Seq(Byte) /\ fed \in 0 .. MaxBytes(n) /\ uses \in 0 .. MaxUses
  BY SizeIs, SkeinUseAssumption DEF Init
<1>4. QED
  BY <1>2, <1>3 DEF IInv, Good, Typed, Init

LEMMA InitCtxGood ==
  ASSUME CiphersKeep, NEW n \in Sizes, Good(n), InitCtx
  PROVE  Good(n)'
<1>1. ctx \in Ctx(n) /\ ctx.size = n
  BY CtxSize DEF Good, Typed
<1>2. PICK k \in Keys(n) : key' = k /\ ctx' = skeinMacInit(ctx, k, 64 * n)
  BY <1>1 DEF InitCtx
<1>3. k \in Seq(Byte) /\ n \in {4, 8, 16} /\ n \in Nat
  BY SizeIs
<1>4. PICK bits \in Nat : bits = 64 * n
  BY <1>3
<1>5. Fresh(skeinMacInit(ctx, k, bits), n, StartValue(k, n))
  BY <1>1, <1>3, <1>4, MacInitIsFresh DEF CiphersKeep
<1>6. Fresh(ctx', n, StartValue(key', n))
  BY <1>2, <1>4, <1>5
<1>7. Fed' = <<>>
  <2>1. fed' - 0 = 0
    BY DEF InitCtx
  <2>2. Fed' = [kk \in 1 .. 0 |-> ByteOf(message', 0 + kk)]
    BY <2>1 DEF Fed, Bytes
  <2>3. Fed' \in [1 .. 0 -> Byte]
    BY <2>2
  <2>4. QED
    BY <2>3, NoBytes
<1>8. Typed(n)'
  BY <1>2, <1>3, <1>6, SizeIs, SkeinUseAssumption DEF InitCtx, Good, Typed, Fresh
<1>9. QED
  BY <1>6, <1>7, <1>8 DEF InitCtx, Good, Saved, Fresh

LEMMA ResetCtxGood ==
  ASSUME CiphersKeep, NEW n \in Sizes, Good(n), ResetCtx
  PROVE  Good(n)'
<1>1. ctx \in Ctx(n) /\ ctx.hashBitLen = 64 * n /\ ctx.XSave = StartValue(key, n)
  BY DEF Good, Typed, Saved, ResetCtx
<1>2. Fresh(skeinReset(ctx), n, ctx.XSave)
  BY <1>1, ResetIsFresh, SizeIs
<1>3. Fresh(ctx', n, StartValue(key', n))
  BY <1>1, <1>2 DEF ResetCtx
<1>4. Fed' = <<>>
  <2>1. fed' - 0 = 0
    BY DEF ResetCtx
  <2>2. Fed' = [k \in 1 .. 0 |-> ByteOf(message', 0 + k)]
    BY <2>1 DEF Fed, Bytes
  <2>3. Fed' \in [1 .. 0 -> Byte]
    BY <2>2
  <2>4. QED
    BY <2>3, NoBytes
<1>5. Typed(n)'
  BY <1>3, SizeIs, SkeinUseAssumption DEF ResetCtx, Good, Typed, Fresh
<1>6. QED
  BY <1>3, <1>4, <1>5 DEF ResetCtx, Good, Saved, Fresh

LEMMA FeedGood ==
  ASSUME CiphersKeep, NEW n \in Sizes, Good(n), Feed
  PROVE  Good(n)'
<1>1. ctx \in Ctx(n) /\ ctx.size = n /\ message \in Messages /\ message' = message
  BY CtxSize DEF Good, Typed, Feed
<1>2. PICK l \in Pieces(n) : /\ fed + l <= MaxBytes(n) /\ fed' = fed + l
                             /\ ctx' = skeinUpdate(ctx, Bytes(fed, fed + l))
  BY <1>1 DEF Feed
<1>3. n \in {4, 8, 16} /\ n \in Nat /\ n > 0 /\ l \in Nat /\ fed \in Nat /\ MaxBytes(n) \in Nat
  BY SizeIs DEF Good, Typed
<1>4. PICK g \in Nat : g = fed + l /\ fed <= g /\ g <= MaxBytes(n) /\ fed' = g
  BY <1>2, <1>3
<1>5. PICK s : s = StartValue(key, n)
  OBVIOUS
<1>6. Absorbed(ctx, n, s, Bytes(0, fed), MSG) /\ ctx.XSave = s /\ ctx.hashBitLen = 64 * n
  BY <1>5 DEF Good, Feed, Saved, Fed
<1>7. s \in Block(n)
  BY <1>1, <1>6 DEF Ctx
<1>8. PICK m \in Seq(Byte) : m = Bytes(0, fed)
  <2>1. fed <= MaxBytes(n) /\ 0 <= fed
    BY <1>3, <1>4
  <2>2. QED
    BY <1>1, <1>3, <2>1, BytesAre
<1>9. PICK mm \in Seq(Byte) : mm = Bytes(0, g)
  BY <1>1, <1>4, BytesAre
<1>10. PICK msg \in Seq(Byte) : msg = Bytes(fed, g)
  BY <1>1, <1>3, <1>4, BytesAre
<1>11. Extends(mm, m, msg)
  BY <1>1, <1>3, <1>4, <1>8, <1>9, <1>10, PieceExtends
<1>12. PICK t \in 0 .. 63 : t = MSG
  BY DEF MSG
<1>13. Absorbed(ctx, n, s, m, t)
  BY <1>6, <1>8, <1>12
<1>14. CipherKeeps(n)
  BY DEF CiphersKeep
<1>15. Absorbed(Update(ctx, msg), n, s, mm, t) /\ SameSaved(ctx, Update(ctx, msg))
  BY <1>3, <1>7, <1>11, <1>13, <1>14, UpdateAbsorbs
<1>16. ctx' = Update(ctx, msg)
  BY <1>1, <1>2, <1>3, <1>4, <1>10, OneUpdate
<1>17. ctx' \in Ctx(n) /\ Absorbed(ctx', n, s, mm, MSG)
  BY <1>12, <1>15, <1>16, AbsorbedCtx
<1>18. ctx'.XSave = s /\ ctx'.hashBitLen = 64 * n
  BY <1>6, <1>15, <1>16 DEF SameSaved
<1>19. Fed' = mm
  BY <1>1, <1>4, <1>9 DEF Fed, Bytes
<1>20. Typed(n)'
  BY <1>3, <1>4, <1>17 DEF Feed, Good, Typed
<1>21. key' = key
  BY DEF Feed
<1>22. QED
  BY <1>5, <1>17, <1>18, <1>19, <1>20, <1>21 DEF Feed, Good, Saved

LEMMA FinishCtxGood ==
  ASSUME CiphersKeep, NEW n \in Sizes, Good(n), FinishCtx
  PROVE  Good(n)'
<1>1. ctx \in Ctx(n) /\ message \in Messages /\ fed \in Nat /\ fed <= MaxBytes(n)
  BY SizeIs DEF Good, Typed
<1>2. n \in {4, 8, 16} /\ n \in Nat /\ n > 0 /\ CipherKeeps(n)
  BY SizeIs DEF CiphersKeep
<1>3. PICK s : s = StartValue(key, n)
  OBVIOUS
<1>4. Absorbed(ctx, n, s, Fed, MSG) /\ ctx.XSave = s /\ ctx.hashBitLen = 64 * n
  BY <1>3 DEF Good, FinishCtx, Saved
<1>5. s \in Block(n)
  BY <1>1, <1>4 DEF Ctx
<1>6. PICK m \in Seq(Byte) : m = Fed
  <2>1. 0 <= fed
    BY <1>1
  <2>2. QED
    BY <1>1, <2>1, BytesAre DEF Fed
<1>7. Finished(ctx, Final(ctx), Digest(ctx), n, s, m)
  BY <1>2, <1>4, <1>5, <1>6, FinalFinishes
<1>8. ctx' = Final(ctx) /\ digest' = Digest(ctx)
  BY <1>1, <1>2, OneFinal DEF FinishCtx
<1>9. ctx' \in Ctx(n) /\ SameSaved(ctx, ctx') /\ digest' \in Bytes8(n)
  BY <1>7, <1>8 DEF Finished
<1>10. digest' = SkeinOf(key, Fed, n)
  BY <1>3, <1>6, <1>7, <1>8 DEF Finished, SkeinOf
<1>11. key' = key /\ Fed' = Fed
  BY DEF FinishCtx, Fed, Bytes
<1>12. Typed(n)'
  BY <1>9 DEF FinishCtx, Good, Typed
<1>13. QED
  BY <1>3, <1>4, <1>9, <1>10, <1>11, <1>12 DEF FinishCtx, Good, Saved, SameSaved

LEMMA StepGood ==
  ASSUME CiphersKeep, IInv, [Next]_useVars
  PROVE  IInv'
<1>1. PICK n \in Sizes : Good(n)
  BY DEF IInv
<1>2. Good(n)'
  <2>1. CASE InitCtx
    BY <1>1, <2>1, InitCtxGood
  <2>2. CASE ResetCtx
    BY <1>1, <2>2, ResetCtxGood
  <2>3. CASE Feed
    BY <1>1, <2>3, FeedGood
  <2>4. CASE FinishCtx
    BY <1>1, <2>4, FinishCtxGood
  <2>5. CASE UNCHANGED useVars
    BY <1>1, <2>5 DEF useVars, Good, Typed, Saved, Fed, Bytes
  <2>6. QED
    BY <2>1, <2>2, <2>3, <2>4, <2>5 DEF Next
<1>3. QED
  BY <1>2 DEF IInv

LEMMA AlwaysGood == CiphersKeep => (Spec => []IInv)
<1>1. SUFFICES ASSUME CiphersKeep PROVE Spec => []IInv
  OBVIOUS
<1>2. QED
  BY <1>1, InitGood, StepGood, PTL DEF Spec

-----------------------------------------------------------------------------
(* The properties *)

\* Every buffer, chaining variable and counter keeps its size, and a digest is
\* as long as was asked for.
THEOREM ContextTypes ==
  ASSUME CiphersKeep
  PROVE  Spec => []TypeOK
<1>1. IInv => TypeOK
  <2>1. ASSUME NEW n \in Sizes, Good(n) PROVE TypeOK
    <3>1. /\ ctx \in Ctx(n) /\ ctx.size = n /\ n \in Nat /\ fed \in 0 .. MaxBytes(n) /\ uses \in 0 .. MaxUses
          /\ pc \in {"prepared", "open", "finished"}
      BY <2>1, CtxSize, SizeIs DEF Good, Typed
    <3>2. /\ ctx.X \in Block(n) /\ ctx.XSave \in Block(n) /\ ctx.T0 \in Word
          /\ ctx.bCnt \in 0 .. 8 * n /\ ctx.b \in [1 .. 8 * n -> Byte]
      BY <3>1 DEF Ctx, Bytes8
    <3>3. Len(digest) = IF pc = "finished" THEN 8 * n ELSE 0
      <4>1. CASE pc = "finished"
        <5>1. PICK l \in Nat : l = 8 * n
          BY <3>1
        <5>2. digest \in [1 .. l -> Byte]
          BY <2>1, <4>1, <5>1 DEF Good, Bytes8
        <5>3. Len(digest) = l
          BY <5>2, LenOfFunction
        <5>4. QED
          BY <4>1, <5>1, <5>3
      <4>2. CASE pc # "finished"
        BY <2>1, <4>2 DEF Good, Typed
      <4>3. QED
        BY <4>1, <4>2
    <3>4. QED
      BY <3>1, <3>2, <3>3 DEF TypeOK, BlockBytes
  <2>2. QED
    BY <2>1 DEF IInv
<1>2. QED
  BY <1>1, AlwaysGood, PTL

\* The digest skeinFinal gives is that of the whole message under the key: no cut
\* between two calls of skeinUpdate shows in it, and no earlier use of the
\* context.
THEOREM DigestsAreSkein ==
  ASSUME CiphersKeep
  PROVE  Spec => []DigestIsSkein
<1>1. IInv => DigestIsSkein
  <2>1. ASSUME NEW n \in Sizes, Good(n) PROVE DigestIsSkein
    <3>1. ctx.size = n
      BY <2>1, CtxSize DEF Good, Typed
    <3>2. QED
      BY <2>1, <3>1 DEF Good, Fed, DigestIsSkein
  <2>2. QED
    BY <2>1 DEF IInv
<1>2. QED
  BY <1>1, AlwaysGood, PTL

\* Between two updates the context has processed whole blocks, as far as it may
\* without the last, and the buffer has the rest.
THEOREM BlocksAreHeldBack ==
  ASSUME CiphersKeep
  PROVE  Spec => []HoldsBack
<1>1. IInv => HoldsBack
  <2>1. ASSUME NEW n \in Sizes, Good(n), pc = "open" PROVE HoldsBack
    <3>1. /\ ctx \in Ctx(n) /\ ctx.size = n /\ message \in Messages
          /\ n \in Nat /\ n > 0 /\ fed \in Nat /\ fed <= MaxBytes(n)
      BY <2>1, CtxSize, SizeIs DEF Good, Typed
    <3>2. PICK s : s = StartValue(key, n)
      OBVIOUS
    <3>3. PICK m \in Seq(Byte) : /\ m = Bytes(0, fed) /\ Len(m) = fed
                                 /\ \A k \in 1 .. fed : m[k] = ByteOf(message, k)
      <4>1. (\A k \in 1 .. fed : 0 + k = k) /\ fed - 0 = fed /\ 0 \in Nat /\ 0 <= fed
        BY <3>1
      <4>2. /\ Bytes(0, fed) \in Seq(Byte) /\ Len(Bytes(0, fed)) = fed - 0
            /\ \A k \in 1 .. fed - 0 : Bytes(0, fed)[k] = ByteOf(message, 0 + k)
        BY <3>1, <4>1, BytesAre
      <4>3. QED
        BY <4>1, <4>2
    <3>4. PICK q \in Nat : /\ Taken(ctx, n, s, m, MSG, q)
                           /\ q * (8 * n) + ctx.bCnt = fed
                           /\ fed > 0 => ctx.bCnt > 0
      BY <2>1, <3>2, <3>3 DEF Good, Absorbed, Fed
    <3>5. PICK at \in Nat : at = ctx.bCnt
      BY <3>1 DEF Ctx
    <3>6. PICK bs \in Nat : bs = 8 * n /\ bs > 0
      BY <3>1
    <3>7. PICK e \in Nat : e = q * bs
      OBVIOUS
    <3>8. e + at = fed /\ e = fed - at /\ at = fed - e /\ e <= fed
      BY <3>1, <3>4, <3>5, <3>6, <3>7
    <3>9. e \div bs = q /\ e % bs = 0
      <4>1. PICK none \in Nat : none = 0
        OBVIOUS
      <4>2. none < bs /\ e = q * bs + none
        BY <3>6, <3>7, <4>1
      <4>3. e \div bs = q /\ e % bs = none
        BY <3>6, <4>2, ModIs
      <4>4. QED
        BY <4>1, <4>3
    <3>10. ctx.T0 = Small(e) /\ ctx.X = Chain(s, m, MSG, q, -1)
      BY <3>4, <3>6, <3>7 DEF Taken, Chained
    <3>11. SubSeq(ctx.b, 1, at) = Bytes(e, fed)
      <4>1. \A k \in 1 .. at : ctx.b[k] = m[e + k] /\ ctx.b[k] \in Byte
        <5>1. at <= bs
          BY <3>1, <3>5, <3>6 DEF Ctx
        <5>2. ctx.b \in [1 .. bs -> Byte]
          BY <3>1, <3>6 DEF Ctx, Bytes8
        <5>3. \A k \in 1 .. at : ctx.b[k] = m[e + k]
          BY <3>4, <3>5, <3>6, <3>7 DEF Taken
        <5>4. QED
          BY <5>1, <5>2, <5>3
      <4>2. PICK a \in Seq(Byte) : /\ a = SubSeq(ctx.b, 1, at) /\ Len(a) = at
                                   /\ \A k \in 1 .. at : a[k] = ctx.b[k]
        <5>1. PICK a \in Seq(Byte) : a = SubSeq(ctx.b, 1, at)
          <6>1. 1 \in Int /\ at \in Int /\ \A k \in 1 .. at : ctx.b[k] \in Byte
            BY <4>1
          <6>2. SubSeq(ctx.b, 1, at) \in Seq(Byte)
            BY <6>1, SubSeqProperties
          <6>3. QED
            BY <6>2
        <5>2. Len(a) = IF 1 <= at THEN at - 1 + 1 ELSE 0
          BY <4>1, <5>1, SubSeqProperties
        <5>3. \A k \in 1 .. at - 1 + 1 : a[k] = ctx.b[1 + k - 1]
          <6>1. \A k \in 1 .. at - 1 + 1 : SubSeq(ctx.b, 1, at)[k] = ctx.b[1 + k - 1]
            BY <4>1, SubSeqProperties
          <6>2. QED
            BY <5>1, <6>1
        <5>4. at - 1 + 1 = at
          OBVIOUS
        <5>5. ASSUME NEW k \in 1 .. at PROVE a[k] = ctx.b[k]
          <6>1. 1 + k - 1 = k
            OBVIOUS
          <6>2. a[k] = ctx.b[1 + k - 1]
            BY <5>3, <5>4
          <6>3. QED
            BY <6>1, <6>2
        <5>6. Len(a) = at
          BY <5>2
        <5>7. QED
          BY <5>1, <5>5, <5>6
      <4>3. PICK z \in Seq(Byte) : /\ z = Bytes(e, fed) /\ Len(z) = at
                                   /\ \A k \in 1 .. at : z[k] = ByteOf(message, e + k)
        <5>1. /\ Bytes(e, fed) \in Seq(Byte) /\ Len(Bytes(e, fed)) = fed - e
              /\ \A k \in 1 .. fed - e : Bytes(e, fed)[k] = ByteOf(message, e + k)
          BY <3>1, <3>8, BytesAre
        <5>2. QED
          BY <3>8, <5>1
      <4>4. \A k \in 1 .. at : a[k] = z[k]
        <5>1. \A k \in 1 .. at : e + k \in 1 .. fed
          BY <3>1, <3>8
        <5>2. QED
          BY <3>3, <4>1, <4>2, <4>3, <5>1, ZenonT(40)
      <4>5. a \in [1 .. at -> Byte] /\ z \in [1 .. at -> Byte]
        BY <4>2, <4>3, LenProperties
      <4>6. a = z
        BY <4>4, <4>5
      <4>7. QED
        BY <4>2, <4>3, <4>6
    <3>12. fed > 0 => at > 0
      BY <3>4, <3>5
    <3>13. BlockBytes(ctx) = bs
      BY <3>1, <3>6 DEF BlockBytes
    <3>14. QED
      BY <3>1, <3>2, <3>3, <3>5, <3>8, <3>9, <3>10, <3>11, <3>12, <3>13 DEF HoldsBack
  <2>2. ASSUME NEW n \in Sizes, Good(n), pc # "open" PROVE HoldsBack
    BY <2>2 DEF HoldsBack
  <2>3. QED
    BY <2>1, <2>2 DEF IInv
<1>2. QED
  BY <1>1, AlwaysGood, PTL

\* With Threefish nothing is asked of the cipher any more: the digest is Skein's.
THEOREM ThreefishDigests ==
  ASSUME \A size \in Sizes : IsThreefish(size)
  PROVE  Spec => []DigestIsSkein
<1>1. CiphersKeep
  BY SkeinUseAssumption, ThreefishCipherKeeps DEF CiphersKeep
<1>2. QED
  BY <1>1, DigestsAreSkein
===============================================================================
