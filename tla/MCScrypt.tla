------------------------------- MODULE MCScrypt -------------------------------
(* Scrypt with keys of one and two blocks of PBKDF2, tables of two to eight *)
(* entries and one or two lanes of one or two pairs of blocks.              *)
EXTENDS Scrypt

CONSTANTS Ns, Rs, Ps

T == INSTANCE Threefish

\* PBKDF2_SKEIN512 asks for blocks of eight words only.
MCCipher(size, k, tweak, x) == T!threefishEncrypt512(T!threefishSetKey(k, tweak), x)

MCJobs ==
  {[key |-> [k \in 1 .. size |-> (N + 5 * k) % 256], salt |-> [k \in 1 .. size |-> (k * k) % 256],
    N |-> N, r |-> r, p |-> p] : size \in {32, 64}, N \in Ns, r \in Rs, p \in Ps}

\* The example of Salsa20/8 in RFC 7914, section 8.
Input ==
  <<126, 135, 154, 33, 79, 62, 201, 134, 124, 169, 64, 230, 65, 113, 143, 38,
    186, 238, 85, 91, 140, 97, 193, 181, 13, 248, 70, 17, 109, 205, 59, 29,
    238, 36, 243, 25, 223, 155, 61, 133, 20, 18, 30, 75, 90, 197, 170, 50,
    118, 2, 29, 41, 9, 199, 72, 41, 237, 235, 198, 141, 184, 184, 194, 94>>

Output ==
  <<164, 31, 133, 156, 102, 8, 204, 153, 59, 129, 202, 203, 2, 12, 239, 5,
    4, 75, 33, 129, 162, 253, 51, 125, 253, 123, 28, 99, 150, 104, 47, 41,
    180, 57, 49, 104, 227, 201, 230, 188, 254, 107, 197, 183, 160, 109, 150, 186,
    228, 36, 204, 16, 44, 145, 116, 92, 36, 173, 103, 61, 199, 97, 143, 129>>

\* salsa20_8 is the function of that name in the standard.
KnownSalsa == pc = "called" => Bytes32(salsa20_8(Words32(Input))) = Output
=============================================================================
