---------------------------- MODULE MCAlgorithms ----------------------------
(* The pure algorithms for TLC: encoders, decoders and parsers over short  *)
(* inputs, the arithmetic under the curves with small limbs, and the       *)
(* cryptography under keys and messages, with small words, blocks and      *)
(* curves.                                                                 *)
EXTENDS CsvColumns, Encodings, Field, Scalar, MCSmNumbers, Powers, SigDer, Hashes, Sm2,
        BlockCiphers, CipherModes, CryptoPack

MCInvLists == BoundedSeq(0..6, 3)

\* Signatures in DER: integers short and long, with lengths in every form, under
\* right and wrong tags, with and without something after them.
DerNumbers == {<<2, Len(c)>> \o c : c \in BoundedSeq({0, 1, 127, 128, 255}, 3)}
FewNumbers == {<<2, 1, 1>>, <<2, 1, 0>>, <<2, 2, 0, 128>>, <<2, 3, 0, 255, 255>>, <<2, 2, 0, 1>>}
OddNumbers == DerNumbers \cup
  {<<>>, <<3, 1, 1>>, <<2, 2, 1>>, <<2, 128>>, <<2, 129, 1, 1>>,
   <<2, 129, 129>> \o [k \in 1..129 |-> 1], <<2, 130, 0, 129>> \o [k \in 1..129 |-> 1]}
DerBodies == {x \o y : x \in OddNumbers, y \in FewNumbers} \cup {x \o y : x \in FewNumbers, y \in OddNumbers}
DerHeads(n) ==
  {<<t>> \o l : t \in {48, 49},
                l \in {<<130, n \div 256, n % 256>>} \cup
                      (IF n < 127 THEN {<<n>>, <<n + 1>>, <<129, n>>} ELSE {<<129, n % 256>>})}
MCSigInputs ==
  UNION {{h \o b \o e : h \in DerHeads(Len(b)), e \in {<<>>, <<0>>}} : b \in DerBodies} \cup
  BoundedSeq({48, 2, 0, 1, 128, 130, 137, 255}, 4)
MCSigScalars == {0, 1, 127, 128, 255, 256, 32767, 32768, 40000, 65520}
MCCompactInputs ==
  LET halves == {<<0, 1>>, <<255, 240>>, <<255, 241>>, <<255, 255>>, <<0, 0>>, <<128, 0>>}
  IN  {x \o y : x, y \in halves}

MCNonceInputs ==
  LET two == {<<"x", "x">>, <<"x", "y">>}
  IN  [key : two, msg : two, data : two \cup {<<>>}, algo : {<<>>, <<"x">>}]

\* y^2 = x^3 - 3x + 15 over the field of 31 elements, of prime order 29.
MCSm2G == <<3, 8>>
MCSm2Tries == [1..2 -> {0, 1, 2, 5, 7, 13, 28, 29}]
MCSm2Texts == {[i \in 1..n |-> i % 3] : n \in {0, 1, 2, 3, 5, 255, 256}}
MCSm2Numbers == [1..3 -> {0, 1, 127, 128, 255}]

\* Permutations of the bytes stand for the substitution tables.
MCAesS == [b \in Byte |-> (b * 7 + 99) % 256]
MCSm4S == [b \in Byte |-> (b * 11 + 214) % 256]
MCSm4FK == [i \in 1..4 |-> [j \in 1..32 |-> ((i * j) \div 3) % 2]]
MCSm4CK == [i \in 1..32 |-> [j \in 1..32 |-> (i + ((j * j) \div 5)) % 2]]
CipherKeys(n) == {[i \in 1..n |-> (i * k + k) % 256] : k \in {0, 1, 77}}
MCAesKeys == CipherKeys(16) \cup CipherKeys(24) \cup CipherKeys(32)
MCSm4Keys == CipherKeys(16)
MCCipherBlocks == {[i \in 1..16 |-> 0], [i \in 1..16 |-> 255]} \cup
                  {[i \in 1..16 |-> IF i = k THEN 129 ELSE i] : k \in {1, 6, 11, 16}}

\* Blocks of two bytes of three bits; a permutation of them for each of two keys.
BlockPermutation(a, c) ==
  [b \in CmBlocks |-> LET x == (a * (8 * b[1] + b[2]) + c) % 64 IN <<x \div 8, x % 8>>]
MCCmCipher == <<BlockPermutation(13, 5), BlockPermutation(43, 22)>>
MCCmIvs == {<<0, 0>>, <<3, 7>>, <<1, 6>>, <<5>>, <<>>, <<1, 2, 3>>}
MCCmTexts == {[i \in 1..n |-> (i * k) % 8] : n \in 0..7, k \in {3, 7}}
MCCmCuts == BoundedSeq(0..3, 2)
MCCmAads == {<<>>, <<1>>, <<7, 0>>, <<2, 2, 2>>}
MCCmGf == {Gf(hi, lo) : hi, lo \in 0..7}

-----------------------------------------------------------------------------
MCFields == LET v == BoundedSeq({SepC, QuoteC, 32, 120}, 2)
            IN  {<<a>> : a \in v} \cup (v \X v)
MCLines == BoundedSeq({SepC, QuoteC, 120}, 6)
MCNames == {<<97>>, <<98>>}
MCNumberTexts == BoundedSeq({48, 49, 50, 53, 55, 56}, 3) \cup
             {<<c>> \o s : c \in {43, 45}, s \in BoundedSeq({48, 49, 50, 56, 57}, 3)}
             \cup {<<120>>, <<49, 120>>}

MCByteStrings == BoundedSeq({0, 1, 61, 128, 255}, 4) \cup
                 UNION {{[k \in 1..n |-> 255], [k \in 1..n |-> 0]} : n \in 5..12}
MCHexTexts == BoundedSeq({48, 70, 102, 103, 58}, 5)
MCBase58Texts == BoundedSeq({49, 122, 32, 48}, 5) \cup
                 {[k \in 1..n |-> 122] : n \in 6..14}

MCCpTexts == {<<>>, <<7, 8>>}

Kind(k, vals) == {[kind |-> k, val |-> v] : v \in vals}
MCOidTable == <<<<1, 2, 156>>, <<1, 2, 156, 10197>>, <<1, 2>>>>
MCDerStrings == {[k \in 1..n |-> 7] : n \in {0, 1, 127, 128, 255, 256}}
MCDerValues ==
  Kind("info", DOMAIN MCOidTable) \cup Kind("boolean", {-1, 0, 1, 2}) \cup Kind("null", {0}) \cup
  Kind("integer", BoundedSeq({0, 1, 127, 128}, 4) \ {<<>>}) \cup
  Kind("int", {-2, -1, 0, 1, 127, 128, 255, 256, 32767, 32768, 8388608, 2147483647}) \cup
  Kind("bits", (0..600) \cup {65535, 65536, 16777215, 16777216}) \cup
  Kind("octets", BoundedSeq({0, 255}, 3)) \cup Kind("type", MCDerStrings) \cup
  Kind("string", MCDerStrings) \cup Kind("ints", BoundedSeq({-1, 0, 128, 300}, 3)) \cup
  Kind("oid", {<<1, 2>> \o s : s \in BoundedSeq({0, 127, 128, 16384}, 3)} \cup {<<1>>, <<2, 100>>})
MCDerTrailers == {<<>>, <<2>>, <<2, 1, 0>>, <<255, 255>>}
MCDerInputs ==
  {[kind |-> k, bytes |-> s] :
     k \in DerKinds,
     s \in {<<>>, <<99>>, <<99, 0>>} \cup
           {<<t>> \o b : t \in {KindTag[q] : q \in DerKinds},
                         b \in BoundedSeq({0, 1, 2, 127, 129, 255}, 3)} \cup
           {<<t>> \o b : t \in {2, 3, 6, 48}, b \in {h \o c : h \in {<<4>>, <<129, 4>>, <<130, 0, 4>>},
                                                  c \in BoundedSeq({0, 1, 128}, 4)}}}

-----------------------------------------------------------------------------
(* Limbs.                                                                  *)

\* p = 2^15 - 19, in four limbs.
MCF26 == [limbs |-> 4, w |-> 4, top |-> 3, r |-> <<3, 1>>, word |-> 7, acc |-> 12,
          byte |-> 3, store |-> 5, maxmag |-> 4, mulmag |-> 1, factors |-> {32749}]
\* Elements of magnitude m whose limbs are at the edges e(k, m).
Edge(f, e(_, _), m) ==
  {Fe(n, m, FALSE) : n \in {s \in [1..f.limbs -> UNION {e(k, m) : k \in 1..f.limbs}] :
                               \A k \in 1..f.limbs : s[k] \in e(k, m)}}
MCFe26 == LET edges(k, m) == {0, 1, PLimb(MCF26, k), Mask(MCF26, k), 2 * m * Mask(MCF26, k)}
          IN  Edge(MCF26, edges, 1) \cup Edge(MCF26, edges, 3)
MCPairs26 == LET edges(k, m) == {0, Mask(MCF26, k), 2 * Mask(MCF26, k)}
             IN  Edge(MCF26, edges, 1) \X Edge(MCF26, edges, 1)
\* p = 2^29 - 1, in five limbs.
MCF52 == [limbs |-> 5, w |-> 6, top |-> 5, r |-> <<1>>, word |-> 9, acc |-> 17,
          byte |-> 1, store |-> 1, maxmag |-> 4, mulmag |-> 1, factors |-> {233, 1103, 2089}]
MCFe52 == LET edges(k, m) == {0, PLimb(MCF52, k), 2 * m * Mask(MCF52, k)}
          IN  Edge(MCF52, edges, 1) \cup Edge(MCF52, edges, 3)
MCPairs52 == LET edges(k, m) == {0, 2 * Mask(MCF52, k)}
                 more(k, m) == {1, Mask(MCF52, k), 2 * Mask(MCF52, k)}
             IN  Edge(MCF52, edges, 1) \X Edge(MCF52, more, 1)

\* n = 2^32 - 83559, in eight limbs.
MCS32 == [limbs |-> 8, w |-> 4, c |-> <<7, 6, 6, 4, 1>>, byte |-> 4, factors |-> {607, 2657, 2663}]
\* Scalars near the edges: n and n / 2 with a few limbs set to each of e, below n.
Near(s, e) ==
  {d \in {[k \in 1..s.limbs |-> IF k \in ks THEN x ELSE base[k]] :
            base \in {N(s), NH(s), Zeros(s.limbs)}, x \in e, ks \in {K \in SUBSET (1..s.limbs) : Cardinality(K) <= 2}} :
     CompareLimbs(d, N(s)) < 0}
MCSc32 == {Tuple(d) : d \in Near(MCS32, {0, 1, 9, 15})}
MCScPairs32 == LET few == {Tuple(d) : d \in {e \in Near(MCS32, {0, 15}) : e[2] # e[3] \/ e[1] = e[8]}}
               IN  few \X {d \in few : d[1] # 0 /\ d[4] # d[6]}

\* The same n in four limbs.
MCS64 == [limbs |-> 4, w |-> 8, c |-> <<103, 70, 1>>, byte |-> 8, factors |-> {607, 2657, 2663}]
MCSc64 == {Tuple(d) : d \in Near(MCS64, {0, 1, 128, 255})}
MCScPairs64 == LET few == {Tuple(d) : d \in Near(MCS64, {0, 255})}
               IN  few \X few

-----------------------------------------------------------------------------

Init == CallInit /\ HashInit
\* One call is made, or one message is hashed.
NoHash == hashing.len = 0 /\ ~hashing.done /\ UNCHANGED hashing
Next ==
  \/ Fresh /\ HashNext /\ UNCHANGED last
  \/ NoHash /\ CsvColumnsNext
  \/ NoHash /\ EncodingsNext
  \/ NoHash /\ Asn1Next
  \/ NoHash /\ PowersNext
  \/ NoHash /\ SigDerNext
  \/ NoHash /\ NonceNext
  \/ NoHash /\ FieldNext
  \/ NoHash /\ Field52Next
  \/ NoHash /\ ScalarNext
  \/ NoHash /\ Scalar64Next
  \/ NoHash /\ BlockCiphersNext
  \/ NoHash /\ Sm2Next
  \/ NoHash /\ SmNumbersNext
  \/ NoHash /\ CipherModesNext
  \/ NoHash /\ CryptoPackNext

\* bytes, asn1.c and the DER of secp256k1: what a writer writes every reader of that form
\* reads back, and what is read has one encoding where the form promises one (parts of
\* Encodings, Asn1 and SigDer).
WrittenIsRead ==
  /\ EncodingRoundTrip /\ HexReadersAgree /\ Base58Fits /\ DerRoundTrip
  /\ OneElement /\ SignatureRoundTrip /\ OneEncoding

\* The arithmetic under both curves is that of the residues, at the edges of the limbs too,
\* and inverses and roots are the powers they should be (parts of Field, Scalar,
\* Powers and SmNumbers).
ArithmeticSound ==
  /\ FieldNormalForm /\ FieldArithmetic /\ FieldStorage /\ Field52NormalForm
  /\ Field52Arithmetic /\ ScalarArithmetic /\ ScalarBits /\ Scalar64Arithmetic
  /\ Scalar64Bits /\ ExponentsRight /\ BatchInverse /\ SmFieldArithmetic
  /\ SmScalarArithmetic

\* aes.c, sm4_*.c, gf128.c: ciphers and modes take back what they encrypted, at once or
\* piece by piece, use no block of a stream twice and notice a change (parts of BlockCiphers
\* and CipherModes).
CiphersSound ==
  /\ BlocksDecrypt /\ CbcRoundTrip /\ StreamsAgree /\ CountersDiffer
  /\ GcmDetectsChange /\ GaloisField
=============================================================================
