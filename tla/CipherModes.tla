---------------------------- MODULE CipherModes ----------------------------
(***************************************************************************)
(* The modes of operation of gmssl, for SM4 and AES: chained blocks (CBC)  *)
(* with padding, counters (CTR), Galois counter mode (GCM), and the        *)
(* contexts that encrypt piece by piece.  A block is CmBlock bytes of      *)
(* CmBits bits; the block ciphers are permutations (BlockCiphers).         *)
(***************************************************************************)
EXTENDS Calls, Limbs

CONSTANTS
  CmBlock,      \* 16: bytes of a block, here an even number
  CmBits,       \* 8: bits of a byte
  CmPoly,       \* 0x87: what x to the bits of a block is in the field of GHASH
  CmCipher,     \* the permutation of the blocks for each key
  CmStdIv,      \* 12: the length of an iv that is used as it is
  CmIvs,        \* bound: initial blocks and ivs
  CmTexts,      \* bound: texts
  CmCuts,       \* bound: the lengths of the pieces of a text
  CmAads,       \* bound: data that is only authenticated
  CmGf          \* bound: elements of the field multiplied

CmByte == 0..(2^CmBits - 1)
CmBlocks == [1..CmBlock -> CmByte]
ASSUME CmAssumption ==
  /\ CmBlock % 2 = 0 /\ CmStdIv < CmBlock
  /\ \A k \in DOMAIN CmCipher : {CmCipher[k][b] : b \in CmBlocks} = CmBlocks

Enc(k, b) == CmCipher[k][b]
Decipher == [k \in DOMAIN CmCipher |-> [b \in CmBlocks |-> CHOOSE a \in CmBlocks : CmCipher[k][a] = b]]
Dec(k, b) == Decipher[k][b]

XorTable == [p \in CmByte \X CmByte |->
               SumOf(Tuple([i \in 1..CmBits |-> LET at(n) == (n \div 2^(i - 1)) % 2
                                                IN  ((at(p[1]) + at(p[2])) % 2) * 2^(i - 1)]))]
XorTexts(a, b) == Tuple([i \in 1..Len(a) |-> XorTable[<<a[i], b[i]>>]])
\* The text from its byte k on, its blocks (the last may be short), and n times v.
TextFrom(s, k) == SubSeq(s, k, Len(s))
BlocksOf(s) == Tuple([i \in 1..((Len(s) + CmBlock - 1) \div CmBlock) |->
                        SubSeq(s, CmBlock * (i - 1) + 1, IF CmBlock * i < Len(s) THEN CmBlock * i ELSE Len(s))])
Repeat(v, n) == Tuple([i \in 1..n |-> v])
ZeroBlock == Repeat(0, CmBlock)

-----------------------------------------------------------------------------
(* CBC.  Each block is combined with the block of ciphertext before it.    *)

CbcEncrypt(k, iv, in) ==
  Fold(LAMBDA acc, b : LET c == Enc(k, XorTexts(b, acc.iv)) IN [iv |-> c, out |-> acc.out \o c],
       [iv |-> iv, out |-> <<>>], BlocksOf(in))
CbcDecrypt(k, iv, in) ==
  Fold(LAMBDA acc, b : [iv |-> b, out |-> acc.out \o XorTexts(Dec(k, b), acc.iv)],
       [iv |-> iv, out |-> <<>>], BlocksOf(in))

\* A text of whole blocks gets a whole block of padding.
PaddingFor(n) == CmBlock - (n % CmBlock)
sm4_cbc_padding_encrypt(k, iv, in) ==
  CbcEncrypt(k, iv, in \o Repeat(PaddingFor(Len(in)), PaddingFor(Len(in)))).out
\* Only the last byte of the padding is looked at.
sm4_cbc_padding_decrypt(k, iv, in) ==
  LET text == CbcDecrypt(k, iv, in).out
      padding == Last(text)
  IN  IF in = <<>> THEN [ret |-> 0]
      ELSE IF Len(in) % CmBlock # 0 THEN [ret |-> -1]
      ELSE IF padding \notin 1..CmBlock THEN [ret |-> -1]
      ELSE [ret |-> 1, out |-> SubSeq(text, 1, Len(text) - padding)]
\* The AES functions are the same, around aes_encrypt and aes_decrypt.
aes_cbc_padding_encrypt(k, iv, in) == sm4_cbc_padding_encrypt(k, iv, in)
aes_cbc_padding_decrypt(k, iv, in) == sm4_cbc_padding_decrypt(k, iv, in)

-----------------------------------------------------------------------------
(* CTR.                                                                    *)

\* The first byte is never touched.
ctr_incr(a) ==
  LET stop == {i \in 2..CmBlock : a[i] # 2^CmBits - 1}
      last1 == IF stop = {} THEN 2 ELSE CHOOSE i \in stop : \A j \in stop : j <= i
  IN  Tuple([i \in 1..CmBlock |-> IF i < last1 THEN a[i] ELSE IF i = last1 THEN (a[i] + 1) % 2^CmBits ELSE 0])
NextCounter(ctr) == ctr_incr(ctr)
sm4_ctr_encrypt(k, ctr, in) ==
  Fold(LAMBDA acc, b : [ctr |-> NextCounter(acc.ctr), out |-> acc.out \o XorTexts(b, Enc(k, acc.ctr))],
       [ctr |-> ctr, out |-> <<>>], BlocksOf(in))
aes_ctr_encrypt(k, ctr, in) == sm4_ctr_encrypt(k, ctr, in)

-----------------------------------------------------------------------------
(* The field of GHASH: a block is two words, the high one first.           *)

Half == (CmBlock * CmBits) \div 2
Gf(hi, lo) == [hi |-> hi, lo |-> lo]
WordOfBytes(bytes) == Fold(LAMBDA acc, b : acc * 2^CmBits + b, 0, bytes)
BytesOf(w) == Tuple([i \in 1..(CmBlock \div 2) |-> (w \div 2^(CmBits * (CmBlock \div 2 - i))) % 2^CmBits])
gf128_from_bytes(p) == Gf(WordOfBytes(SubSeq(p, 1, CmBlock \div 2)), WordOfBytes(TextFrom(p, CmBlock \div 2 + 1)))
gf128_to_bytes(a) == BytesOf(a.hi) \o BytesOf(a.lo)
XorNumbers(a, b) ==
  SumOf(Tuple([i \in 1..Half |-> LET at(n) == (n \div 2^(i - 1)) % 2 IN ((at(a) + at(b)) % 2) * 2^(i - 1)]))
gf128_add(a, b) == Gf(XorNumbers(a.hi, b.hi), XorNumbers(a.lo, b.lo))
gf128_mul2(a) ==
  LET shifted == Gf(((2 * a.hi) % 2^Half) + a.lo \div 2^(Half - 1), (2 * a.lo) % 2^Half)
  IN  IF a.hi >= 2^(Half - 1) THEN [shifted EXCEPT !.lo = XorNumbers(@, CmPoly)] ELSE shifted
\* The bits of b from the top, first those of the high word.
BitsFromTop(n) == Tuple([i \in 1..Half |-> (n \div 2^(Half - i)) % 2])
gf128_mul(a, b) ==
  Fold(LAMBDA r, bit : IF bit = 1 THEN gf128_add(gf128_mul2(r), a) ELSE gf128_mul2(r),
       Gf(0, 0), BitsFromTop(b.hi) \o BitsFromTop(b.lo))

\* A short last block is filled with zeros.
WholeBlocksOnly(s) == SelectSeq(BlocksOf(s), LAMBDA b : Len(b) = CmBlock)
Filled(s) == Tuple([i \in DOMAIN BlocksOf(s) |->
                      LET b == BlocksOf(s)[i] IN b \o Repeat(0, CmBlock - Len(b))])
ghash(h, aad, c) ==
  LET lengths == Gf((Len(aad) * CmBits) % 2^Half, (Len(c) * CmBits) % 2^Half)
      H == gf128_from_bytes(h)
      X == Fold(LAMBDA x, b : gf128_mul(gf128_add(x, gf128_from_bytes(b)), H), Gf(0, 0), Filled(aad) \o Filled(c))
  IN  gf128_to_bytes(gf128_mul(gf128_add(X, lengths), H))

-----------------------------------------------------------------------------
(* GCM.                                                                    *)

StartCounter(h, iv) ==
  IF Len(iv) = CmStdIv THEN iv \o Repeat(0, CmBlock - CmStdIv - 1) \o <<1>> ELSE ghash(h, <<>>, iv)
Tag(k, iv, aad, c, taglen) ==
  LET h == Enc(k, ZeroBlock)
  IN  SubSeq(XorTexts(Enc(k, StartCounter(h, iv)), ghash(h, aad, c)), 1, taglen)
\* The first counter is used for the tag.
GcmText(k, iv, in) == sm4_ctr_encrypt(k, ctr_incr(StartCounter(Enc(k, ZeroBlock), iv)), in).out
sm4_gcm_encrypt(k, iv, aad, in, taglen) ==
  LET c == GcmText(k, iv, in) IN [out |-> c, tag |-> Tag(k, iv, aad, c, taglen)]
sm4_gcm_decrypt(k, iv, aad, in, tag) ==
  IF Tag(k, iv, aad, in, Len(tag)) # tag THEN [ret |-> -1] ELSE [ret |-> 1, out |-> GcmText(k, iv, in)]
aes_gcm_encrypt(k, iv, aad, in, taglen) == sm4_gcm_encrypt(k, iv, aad, in, taglen)
aes_gcm_decrypt(k, iv, aad, in, tag) == sm4_gcm_decrypt(k, iv, aad, in, tag)

-----------------------------------------------------------------------------
(* Contexts: iv or counter, and the bytes that are not a block yet.        *)

Ctx(k, iv) == [key |-> k, iv |-> iv, held |-> <<>>, out |-> <<>>]
CtrBlocks(ctx, s) == LET d == sm4_ctr_encrypt(ctx.key, ctx.iv, s) IN [iv |-> d.ctr, out |-> d.out]
Through(mode, ctx, s) ==
  CASE mode = "encrypt" -> CbcEncrypt(ctx.key, ctx.iv, s)
    [] mode = "decrypt" -> CbcDecrypt(ctx.key, ctx.iv, s)
    [] mode = "ctr" -> CtrBlocks(ctx, s)
\* Whole blocks of what is held and what comes go through the mode, the rest is held.
Taken(ctx, in, whole, mode) ==
  LET all == ctx.held \o in
      done == Through(mode, ctx, SubSeq(all, 1, whole))
  IN  [ctx EXCEPT !.iv = done.iv, !.out = @ \o done.out, !.held = TextFrom(all, whole + 1)]
WholeOf(n) == CmBlock * (n \div CmBlock)
sm4_cbc_encrypt_update(ctx, in) ==
  Taken(ctx, in, WholeOf(Len(ctx.held) + Len(in)), "encrypt")
sm4_cbc_encrypt_finish(ctx) == ctx.out \o sm4_cbc_padding_encrypt(ctx.key, ctx.iv, ctx.held)
\* The last block is held back, whole: it may have the padding.  What is held is
\* used only while it is not a whole block.
KeepsNothing(n) == WholeOf(n)
AllButLast(n) == IF n = 0 THEN 0 ELSE WholeOf(n - 1)
sm4_cbc_decrypt_update(ctx, in) ==
  LET used == IF Len(ctx.held) < CmBlock THEN ctx ELSE [ctx EXCEPT !.held = <<>>]
  IN  Taken(used, in, AllButLast(Len(used.held) + Len(in)), "decrypt")
sm4_cbc_decrypt_finish(ctx) ==
  IF Len(ctx.held) # CmBlock THEN [ret |-> -1]
  ELSE LET end == sm4_cbc_padding_decrypt(ctx.key, ctx.iv, ctx.held)
       IN  IF end.ret # 1 THEN [ret |-> -1] ELSE [ret |-> 1, out |-> ctx.out \o end.out]
sm4_ctr_encrypt_update(ctx, in) ==
  Taken(ctx, in, WholeOf(Len(ctx.held) + Len(in)), "ctr")
sm4_ctr_encrypt_finish(ctx) == ctx.out \o CtrBlocks(ctx, ctx.held).out

-----------------------------------------------------------------------------

\* The pieces of s, of the lengths in cuts; what is left over is the last piece.
PiecesOf(s, cuts) ==
  LET cut(acc, n) == LET m == IF n < Len(acc.rest) THEN n ELSE Len(acc.rest)
                     IN  [rest |-> TextFrom(acc.rest, m + 1), pieces |-> Append(acc.pieces, SubSeq(acc.rest, 1, m))]
      done == Fold(cut, [rest |-> s, pieces |-> <<>>], cuts)
  IN  Append(done.pieces, done.rest)
\* Whether a further piece arrives while a whole block is held.
FullHeld(pieces) ==
  \E i \in 1..(Len(pieces) - 1) :
    LET n == SumOf([j \in 1..i |-> Len(pieces[j])]) IN n > 0 /\ n % CmBlock = 0
FullIv(iv) == Len(iv) = CmBlock

CipherModesNext ==
  Fresh /\ (\/ \E a, b \in CmGf : Call("gf", [a |-> a, b |-> b], [mul |-> gf128_mul(a, b), other |-> gf128_mul(b, a)])
            \/ \E k \in DOMAIN CmCipher, iv \in CmIvs, s \in CmTexts, cuts \in CmCuts :
                 FullIv(iv) /\
                 LET c == sm4_cbc_padding_encrypt(k, iv, s)
                     pieces == PiecesOf(c, cuts)
                 IN  Call("cbc", [text |-> s, pieces |-> pieces],
                          [c |-> c, back |-> sm4_cbc_padding_decrypt(k, iv, c),
                           aes |-> aes_cbc_padding_decrypt(k, iv, aes_cbc_padding_encrypt(k, iv, s)),
                           sent |-> sm4_cbc_encrypt_finish(Fold(sm4_cbc_encrypt_update, Ctx(k, iv), PiecesOf(s, cuts))),
                           got |-> sm4_cbc_decrypt_finish(Fold(sm4_cbc_decrypt_update, Ctx(k, iv), pieces))])
            \/ \E k \in DOMAIN CmCipher, iv \in CmIvs, s \in CmTexts, cuts \in CmCuts :
                 FullIv(iv) /\
                 Call("ctr", [text |-> s],
                      [c |-> sm4_ctr_encrypt(k, iv, s).out,
                       back |-> aes_ctr_encrypt(k, iv, sm4_ctr_encrypt(k, iv, s).out).out,
                       stream |-> XorTexts(sm4_ctr_encrypt(k, iv, s).out, s),
                       sent |-> sm4_ctr_encrypt_finish(Fold(sm4_ctr_encrypt_update, Ctx(k, iv), PiecesOf(s, cuts)))])
            \/ \E k \in DOMAIN CmCipher, iv \in CmIvs, s \in CmTexts, aad \in CmAads, taglen \in {1, CmBlock} :
                 LET sent == sm4_gcm_encrypt(k, iv, aad, s, taglen)
                 IN  Call("gcm", [key |-> k, iv |-> iv, text |-> s, aad |-> aad],
                          [sent |-> sent, same |-> aes_gcm_encrypt(k, iv, aad, s, taglen) = sent,
                           got |-> aes_gcm_decrypt(k, iv, aad, sent.out, sent.tag)]))

-----------------------------------------------------------------------------

\* What CBC with padding encrypts it decrypts, texts of whole blocks and the
\* empty text included.
CbcRoundTrip ==
  Of("cbc", LAMBDA in, out : out.back = [ret |-> 1, out |-> in.text] /\ out.aes = out.back)

\* Encrypting piece by piece gives what encrypting at once gives, and so does
\* decrypting, unless a piece arrives while a whole block is held, which
\* sm4_cbc_decrypt_update then loses.
StreamsAgree ==
  /\ Of("cbc", LAMBDA in, out : out.sent = out.c /\ (~FullHeld(in.pieces) => out.got = out.back))
  /\ Of("ctr", LAMBDA in, out : out.sent = out.c /\ out.back = in.text)

\* No block of the key stream is used for two blocks of the text.
CountersDiffer ==
  Of("ctr", LAMBDA in, out :
       LET whole == WholeBlocksOnly(out.stream)
       IN  \A i, j \in DOMAIN whole : i # j => whole[i] # whole[j])

\* GCM decrypts what it encrypted, and refuses it when one byte of the
\* ciphertext or of the authenticated data is another one (with a whole tag; if
\* the cipher maps the zero block to itself GHASH is always zero).
Changed(s) == {[s EXCEPT ![i] = (@ + d) % 2^CmBits] : i \in DOMAIN s, d \in {1, 2^(CmBits - 1)}}
GcmDetectsChange ==
  Of("gcm", LAMBDA in, out :
       /\ out.same /\ out.got = [ret |-> 1, out |-> in.text]
       /\ (Enc(in.key, ZeroBlock) # ZeroBlock /\ Len(out.sent.tag) = CmBlock) =>
            /\ \A c \in Changed(out.sent.out) :
                 sm4_gcm_decrypt(in.key, in.iv, in.aad, c, out.sent.tag).ret = -1
            /\ \A a \in Changed(in.aad) :
                 sm4_gcm_decrypt(in.key, in.iv, a, out.sent.out, out.sent.tag).ret = -1)

\* The multiplication of GHASH is that of polynomials modulo the field's.
PolyOf(a) == {i \in 0..(2 * Half - 1) : (IF i < Half THEN (a.lo \div 2^i) % 2 ELSE (a.hi \div 2^(i - Half)) % 2) = 1}
PolyTerms(p, q) == {i \in 0..(4 * Half) : Cardinality({x \in p \X q : x[1] + x[2] = i}) % 2 = 1}
Reduction == PolyOf(Gf(0, CmPoly))
PolyMod(p) ==
  Fold(LAMBDA acc, i : IF i \in acc THEN LET m == {i - 2 * Half + r : r \in Reduction} \cup {i}
                                         IN  (acc \ m) \cup (m \ acc)
                       ELSE acc, p, Tuple([n \in 1..(2 * Half) |-> 4 * Half - n]))
GaloisField == Of("gf", LAMBDA in, out : /\ PolyOf(out.mul) = PolyMod(PolyTerms(PolyOf(in.a), PolyOf(in.b)))
                                         /\ out.mul = out.other)
=============================================================================
