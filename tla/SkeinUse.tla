------------------------------ MODULE SkeinUse --------------------------------
(***************************************************************************)
(* A SkeinCtx as the program uses it: initialised with a key (the MAC of a *)
(* file, PBKDF2) or without one (the hash of a key file or a password), fed*)
(* in pieces of any size, finished, and initialised again.  The digest is  *)
(* compared with that of the whole message.  skeinReset, another way to    *)
(* use a context again, is here too, though the program never calls it.    *)
(***************************************************************************)
EXTENDS Ubi

CONSTANTS
  Sizes,          \* of blocks, in words
  Keys(_),        \* keys for a block size; <<>> is none
  Messages,
  ByteOf(_, _),   \* byte k of a message
  Pieces(_),      \* lengths of the pieces fed, for a block size
  MaxBytes(_),    \* bound on what is fed between Init and Final
  MaxUses         \* bound on how often the context is used

ASSUME SkeinUseAssumption ==
  /\ Sizes \subseteq {4, 8, 16} /\ MaxUses \in Nat
  /\ \A size \in Sizes :
       /\ Keys(size) \subseteq Seq(Byte) /\ Pieces(size) \subseteq Nat /\ MaxBytes(size) \in Nat
       /\ \A m \in Messages, k \in 1 .. MaxBytes(size) : ByteOf(m, k) \in Byte

VARIABLES
  ctx,
  pc,
  key, message,   \* what was asked for
  fed,            \* how many bytes of the message have been
  digest,
  uses

useVars == <<ctx, pc, key, message, fed, digest, uses>>

Bytes(from, to) == [k \in 1 .. to - from |-> ByteOf(message, from + k)]

InitCtx ==
  /\ pc \in {"prepared", "finished"}
  /\ uses < MaxUses
  /\ \E k \in Keys(ctx.size) : key' = k /\ ctx' = skeinMacInit(ctx, k, 64 * ctx.size)
  /\ pc' = "open" /\ fed' = 0 /\ digest' = <<>> /\ uses' = uses + 1
  /\ UNCHANGED message

\* Library code that nothing in the program calls.
ResetCtx ==
  /\ pc = "finished"
  /\ uses < MaxUses
  /\ ctx' = skeinReset(ctx)
  /\ pc' = "open" /\ fed' = 0 /\ digest' = <<>> /\ uses' = uses + 1
  /\ UNCHANGED <<key, message>>

Feed ==
  /\ pc = "open"
  /\ \E n \in Pieces(ctx.size) :
       /\ fed + n <= MaxBytes(ctx.size)
       /\ ctx' = skeinUpdate(ctx, Bytes(fed, fed + n))
       /\ fed' = fed + n
  /\ UNCHANGED <<pc, key, message, digest, uses>>

FinishCtx ==
  /\ pc = "open"
  /\ ctx' = skeinFinal(ctx)
  /\ digest' = Digest(ctx)
  /\ pc' = "finished"
  /\ UNCHANGED <<key, message, fed, uses>>

Init ==
  /\ \E size \in Sizes : ctx = skeinCtxPrepare(size)
  /\ pc = "prepared"
  /\ key = <<>> /\ message \in Messages /\ fed = 0 /\ digest = <<>> /\ uses = 0

Next == InitCtx \/ ResetCtx \/ Feed \/ FinishCtx

Spec == Init /\ [][Next]_useVars

-----------------------------------------------------------------------------
(* Properties *)

\* Counters and buffers keep their sizes; a digest is as long as was asked for.
TypeOK ==
  /\ pc \in {"prepared", "open", "finished"}
  /\ ctx.size \in Sizes
  /\ ctx.X \in Block(ctx.size) /\ ctx.XSave \in Block(ctx.size) /\ ctx.T0 \in Word
  /\ ctx.bCnt \in 0 .. BlockBytes(ctx)
  /\ ctx.b \in [1 .. BlockBytes(ctx) -> Byte]
  /\ fed \in 0 .. MaxBytes(ctx.size) /\ uses \in 0 .. MaxUses
  /\ Len(digest) = IF pc = "finished" THEN 8 * ctx.size ELSE 0

\* However the message was cut, what has not been processed is in the buffer and
\* is the end of what was fed; of a message that is not empty the last block, be
\* it full, is held back for Final to tag; and everything before it is in the
\* chaining variables.
HoldsBack ==
  pc = "open" =>
    LET processed == fed - ctx.bCnt
    IN  /\ fed > 0 => ctx.bCnt > 0
        /\ processed % BlockBytes(ctx) = 0
        /\ ctx.T0 = Small(processed)
        /\ SubSeq(ctx.b, 1, ctx.bCnt) = Bytes(processed, fed)
        /\ ctx.X = Chain(StartValue(key, ctx.size), Bytes(0, fed), MSG,
                         processed \div BlockBytes(ctx), -1)

\* The digest is that of the whole message under the key, whatever the context
\* was used for before.
DigestIsSkein == pc = "finished" => digest = SkeinOf(key, Bytes(0, fed), ctx.size)
=============================================================================
