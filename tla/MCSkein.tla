------------------------------- MODULE MCSkein --------------------------------
(* SkeinUse with all three block sizes: messages around a block or two, and *)
(* no key or one a little longer than a block.                              *)
EXTENDS SkeinUse

T == INSTANCE Threefish

MCCipher(size, k, tweak, x) ==
  T!threefishEncryptBlockWords(T!threefishSetKey(k, tweak), x)

MCKeys(size) == {<<>>, [k \in 1 .. 8 * size + 5 |-> (7 * k) % 256]}

\* test/skeinTests.h, TestMsg, continued at will.
TestMsg == ToBytes(<<Hex(\h4675, \h636B, \h2074, \h6865), Hex(\h204E, \h5341, 0, 0)>>)
MCByteOf(m, k) == IF k <= 16 THEN TestMsg[k] ELSE (k * k) % 251

MCPieces(size) ==
  CASE size = 4 -> {16, 29, 64} [] size = 8 -> {16, 61} [] size = 16 -> {16, 125}
MCMaxBytes(size) == IF size = 16 THEN 144 ELSE IF size = 8 THEN 128 ELSE 80

\* test/skeinTests.h, the first words of ExpectedDigest256, 512 and 1024.
ExpectedDigest ==
  [size \in {4, 8, 16} |->
     CASE size = 4 -> <<Hex(\h5210, \h757D, \hD91F, \h959F), Hex(\hC9DB, \h8488, \hA4FF, \h8595),
                        Hex(\h2B0A, \hBD0B, \h860F, \h4ECD), Hex(\hC6DF, \h366C, \hFECF, \h4769)>>
       [] size = 8 -> <<Hex(\hF750, \h4910, \hD43B, \h1EE5), Hex(\h1AA5, \hB897, \hD750, \hB2A5),
                        Hex(\hA55B, \h8E4B, \hC19D, \hAD9F), Hex(\h3EFE, \h150F, \hC5A4, \hF0D)>>
       [] size = 16 -> <<Hex(\h757A, \hCCCD, \hC060, \hFD47), Hex(\h4341, \h6CDF, \h80B8, \h35DD),
                         Hex(\hAF0F, \h1331, \h7899, \hB375), Hex(\h6820, \h6F7A, \h5D35, \hAF7)>>]

\* test/skeinTests.c, testSkeinWordHash256, 512 and 1024: the digest of the
\* sixteen bytes of TestMsg is the one the repository's tests expect.
KnownAnswer ==
  (pc = "finished" /\ key = <<>> /\ fed = 16) =>
    SubSeq(digest, 1, 32) = ToBytes(ExpectedDigest[ctx.size])
=============================================================================
