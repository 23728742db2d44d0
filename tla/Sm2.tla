-------------------------------- MODULE Sm2 --------------------------------
(***************************************************************************)
(* SM2 (gmssl): the curve y^2 = x^3 - 3x + b, its points in Jacobian       *)
(* coordinates, signatures, encryption and key agreement, and the class    *)
(* sm2_ecc around them.  32 bytes are the number they hold; field and      *)
(* scalar operations are on numbers (SmNumbers has them on limbs).         *)
(***************************************************************************)
EXTENDS Asn1, Limbs

CONSTANTS
  Sm2P, Sm2B, Sm2N, Sm2G,  \* the curve: p (3 modulo 4), b, the order, the generator <<x, y>>
  Sm2Bits,                 \* 256: the bits of 32 bytes
  Sm2Zs,                   \* bound: the z coordinates of points computed with
  Sm2Keys, Sm2Digests,     \* bounds: private keys and digests
  Sm2Tries,                \* bound: the random numbers drawn, in order
  Sm2Texts,                \* bound: texts to encrypt
  Sm2DigestBytes,          \* 32: the bytes of a digest
  Sm2Numbers               \* bound: numbers of three bytes, for their DER

ASSUME Sm2Assumption ==
  /\ Sm2P % 4 = 3 /\ Sm2N < Sm2P /\ Sm2P < 2^Sm2Bits
  /\ Sm2Keys \subseteq 1..(Sm2N - 1) /\ Sm2Digests \subseteq 0..(2^Sm2Bits - 1)

-----------------------------------------------------------------------------
(* Numbers: a sum is reduced once, a product completely.                   *)

Once(x, m) == IF x >= m THEN x - m ELSE x
PAdd(a, b) == Once(a + b, Sm2P)
PSub(a, b) == IF a >= b THEN a - b ELSE Sm2P - b + a
PMul(a, b) == ((a % Sm2P) * (b % Sm2P)) % Sm2P
PSqr(a) == PMul(a, a)
PNeg(a) == IF a = 0 THEN 0 ELSE Sm2P - a
PHalf(a) == (IF a % 2 = 1 THEN a + Sm2P ELSE a) \div 2
NAdd(a, b) == Once(a + b, Sm2N)
NSub(a, b) == IF a >= b THEN a - b ELSE a + Sm2N - b

\* The bits of a number from the top.
BitsDown(k) == [i \in 1..Sm2Bits |-> (k \div 2^(Sm2Bits - i)) % 2]
\* Square and multiply, by the bits of e from the top.
PowerMod(a, e, m) ==
  Fold(LAMBDA t, bit : IF bit = 1 THEN (((t * t) % m) * a) % m ELSE (t * t) % m, 1, BitsDown(e))
sm2_fp_exp(a, e) == PowerMod(a, e, Sm2P)
sm2_fn_exp(a, e) == PowerMod(a, e, Sm2N)
sm2_fn_inv(a) == sm2_fn_exp(a, Sm2N - 2)
PInv(a) == sm2_fp_exp(a, Sm2P - 2)
\* rand_range draws until the number is below n, and its callers until it is not zero.
Drawn(tries) == SelectSeq(tries, LAMBDA k : k \in 1..(Sm2N - 1))

-----------------------------------------------------------------------------
(* Points.  z = 0 is the point at infinity.                                *)

Jac(x, y, z) == [X |-> x, Y |-> y, Z |-> z]
sm2_jacobian_point_init == Jac(1, 1, 0)
sm2_jacobian_point_is_at_infinity(p) == p.Z = 0
sm2_jacobian_point_set_xy(xy) == Jac(xy[1], xy[2], 1)
\* The point at infinity gives (0, 0): the inverse of 0 is 0.
sm2_jacobian_point_get_xy(p) ==
  LET inv == PInv(p.Z)
  IN  IF p.Z = 1 THEN <<p.X, p.Y>>
      ELSE <<PMul(p.X, PSqr(inv)), PMul(PMul(p.Y, inv), PSqr(inv))>>
Affine(p) == sm2_jacobian_point_set_xy(sm2_jacobian_point_get_xy(p))

sm2_jacobian_point_is_on_curve(p) ==
  LET z2 == PSqr(p.Z)
      z4 == PSqr(z2)
      x == IF p.Z = 1 THEN p.X ELSE PMul(z4, p.X)
      b == IF p.Z = 1 THEN Sm2B ELSE PMul(PMul(z2, z4), Sm2B)
      cube == PMul(PSqr(p.X), p.X)
  IN  IF PAdd(PAdd(PAdd(PSqr(p.Y), x), x), x) = PAdd(cube, b) THEN 1 ELSE -1

sm2_jacobian_point_neg(p) == [p EXCEPT !.Y = PNeg(@)]
sm2_jacobian_point_dbl(p) ==
  LET slope == LET z2 == PSqr(p.Z)
                   t == PMul(PSub(p.X, z2), PAdd(p.X, z2))
               IN  PAdd(PAdd(t, t), t)
      y2 == PAdd(p.Y, p.Y)
      xy == PMul(PSqr(y2), p.X)
      x3 == PSub(PSqr(slope), PAdd(xy, xy))
  IN  IF p.Z = 0 THEN p
      ELSE Jac(x3, PSub(PMul(PSub(xy, x3), slope), PHalf(PSqr(PSqr(y2)))), PMul(y2, p.Z))

\* The two points have one x: they are the same or opposite.
AlwaysOpposite(q, dy) == sm2_jacobian_point_init
SameX(q, dy) ==
  IF dy = 0 THEN sm2_jacobian_point_dbl(sm2_jacobian_point_set_xy(<<q.X, q.Y>>))
  ELSE sm2_jacobian_point_init
\* q is affine (asserted) or infinite.
sm2_jacobian_point_add(p, q) ==
  LET z2 == PSqr(p.Z)
      dx == PSub(PMul(z2, q.X), p.X)
      dy == PSub(PMul(PMul(z2, p.Z), q.Y), p.Y)
      cube == PMul(PSqr(dx), dx)
      v == PMul(PSqr(dx), p.X)
      x3 == PSub(PSub(PSqr(dy), PAdd(v, v)), cube)
  IN  CASE q.Z = 0 -> p
        [] q.Z # 0 /\ p.Z = 0 -> q
        [] OTHER -> IF dx = 0 THEN SameX(q, dy)
                    ELSE Jac(x3, PSub(PMul(PSub(v, x3), dy), PMul(cube, p.Y)), PMul(p.Z, dx))
sm2_jacobian_point_sub(p, q) == sm2_jacobian_point_add(p, sm2_jacobian_point_neg(q))

AddIf(bit, d, base) == IF bit = 1 THEN sm2_jacobian_point_add(d, base) ELSE d
sm2_jacobian_point_mul(k, p) ==
  LET base == IF p.Z = 1 THEN p ELSE Affine(p)
      step(q, bit) == AddIf(bit, sm2_jacobian_point_dbl(q), base)
  IN  Fold(step, sm2_jacobian_point_init, BitsDown(k))
sm2_jacobian_point_mul_generator(k) == sm2_jacobian_point_mul(k, sm2_jacobian_point_set_xy(Sm2G))
\* t * p + s * G; t * p is made affine, also when it is at infinity.
sm2_jacobian_point_mul_sum(t, p, s) ==
  sm2_jacobian_point_add(sm2_jacobian_point_mul_generator(s), Affine(sm2_jacobian_point_mul(t, p)))

-----------------------------------------------------------------------------
(* Stored points, <<x, y>>, and their octets.                              *)

sm2_point_is_on_curve(xy) == sm2_jacobian_point_is_on_curve(sm2_jacobian_point_set_xy(xy))
\* The last check of point_from_x asks for 0, which is_on_curve never returns.
RootOf(tag, y) == IF y % 2 # tag - 2 THEN PNeg(y) ELSE y
sm2_point_from_x(x, tag) ==
  LET g == PAdd(PMul(PSub(PSqr(x), 3), x), Sm2B)
      y == sm2_fp_exp(g, (Sm2P + 1) \div 4)
  IN  IF PSqr(y) # g THEN [ret |-> -1] ELSE [ret |-> 1, point |-> <<x, RootOf(tag, y)>>]
sm2_point_from_xy(x, y) ==
  IF sm2_point_is_on_curve(<<x, y>>) = 1 THEN [ret |-> 1, point |-> <<x, y>>] ELSE [ret |-> -1]
sm2_point_mul(k, xy) ==
  sm2_jacobian_point_get_xy(sm2_jacobian_point_mul(k, sm2_jacobian_point_set_xy(xy)))
sm2_point_mul_generator(k) == sm2_jacobian_point_get_xy(sm2_jacobian_point_mul_generator(k))
sm2_point_mul_sum(k, xy, s) ==
  sm2_jacobian_point_get_xy(sm2_jacobian_point_mul_sum(k, sm2_jacobian_point_set_xy(xy), s))

\* A coordinate stands for its 32 bytes.
sm2_point_to_compressed_octets(xy) == <<2 + (xy[2] % 2), xy[1]>>
sm2_point_to_uncompressed_octets(xy) == <<4>> \o xy
sm2_point_from_octets(o) ==
  IF o[1] \in {2, 3} /\ Len(o) = 2 THEN sm2_point_from_x(o[2], o[1])
  ELSE IF o[1] = 4 /\ Len(o) = 3 THEN sm2_point_from_xy(o[2], o[3]) ELSE [ret |-> -1]
TagOctetString == 4
sm2_point_to_der(xy) == asn1_type_to_der(TagOctetString, sm2_point_to_uncompressed_octets(xy))
PointIn(d) ==
  IF d.ret # 1 THEN [ret |-> d.ret]
  ELSE IF Len(d.val) # 3 THEN [ret |-> -1] ELSE sm2_point_from_octets(d.val)
sm2_point_from_der(s) == PointIn(asn1_type_from_der(TagOctetString, s))

-----------------------------------------------------------------------------
(* Keys and signatures.                                                    *)

Sm2Key(private, public) == [private |-> private, public |-> public]
sm2_key_set_private_key(d) == Sm2Key(d, sm2_point_mul_generator(d))
sm2_key_set_public_key(xy) == Sm2Key(0, xy)
sm2_key_generate(tries) == sm2_key_set_private_key(Drawn(tries)[1])

\* get_xy without a y: a point whose z is 1 is copied, also to the y that is
\* not there, which ends the process.
XOnly(p) == [lost |-> p.Z = 1, x |-> sm2_jacobian_point_get_xy(p)[1]]

DrawAgain(r, k) == r = 0 \/ r + k = Sm2N
\* s is not looked at: it may be 0.
TrySign(acc, d, e, k, p) ==
  LET r == NAdd(e, p.x)
      kd == NSub(k, (r * d) % Sm2N)
  IN  IF p.lost THEN [acc EXCEPT !.ret = -1]
      ELSE IF DrawAgain(r, k) THEN acc
      ELSE [ret |-> 1, r |-> r, s |-> (sm2_fn_inv(NAdd(1, d)) * kd) % Sm2N]
sm2_do_sign(key, e, tries) ==
  LET try(acc, k) ==
        IF acc.ret # 0 THEN acc
        ELSE TrySign(acc, key.private, e, k, XOnly(sm2_jacobian_point_mul_generator(k)))
  IN  Fold(try, [ret |-> 0, r |-> 0, s |-> 0], Drawn(tries))   \* 0: still drawing

AnyRange(r, s) == r # 0 /\ s # 0
InRange(r, s) == r \in 1..(Sm2N - 1) /\ s \in 1..(Sm2N - 1)
Compared(e, r, p) == [lost |-> p.lost, ret |-> IF NAdd(e, p.x) = r THEN 1 ELSE 0]
sm2_do_verify(key, e, r, s) ==
  LET t == NAdd(r, s)
  IN  IF ~InRange(r, s) \/ t = 0 THEN [lost |-> FALSE, ret |-> -1]
      ELSE Compared(e, r, XOnly(sm2_jacobian_point_mul_sum(t, sm2_jacobian_point_set_xy(key.public), s)))

\* DER of numbers in three bytes (32 in the code).
Sm2NumberBytes == 3
LeftPadded(a) == [k \in 1..(Sm2NumberBytes - Len(a)) |-> 0] \o a
WholeNumber(a) == LeftPadded(a)
sm2_signature_to_der(r, s) ==
  asn1_type_to_der(TagSequence, asn1_integer_to_der_ex(TagInteger, r) \o asn1_integer_to_der_ex(TagInteger, s))
\* The value read next, or a failure.
OrFail(r, next(_)) == IF r.ret = 1 THEN next(r) ELSE [ret |-> -1]
NumberIn(s) == asn1_integer_from_der_ex(TagInteger, s)
SignatureIn(r, s, rest) ==
  IF Len(r.val) > Sm2NumberBytes \/ Len(s.val) > Sm2NumberBytes \/ s.rest # <<>> THEN [ret |-> -1]
  ELSE [ret |-> 1, r |-> WholeNumber(r.val), s |-> WholeNumber(s.val), rest |-> rest]
sm2_signature_from_der(in) ==
  Then(asn1_type_from_der(TagSequence, in), LAMBDA d :
    OrFail(NumberIn(d.val), LAMBDA r :
      OrFail(NumberIn(r.rest), LAMBDA s : SignatureIn(r, s, d.rest))))

sm2_sign(key, e, tries) ==
  OrFail(sm2_do_sign(key, e, tries), LAMBDA sig :
    [ret |-> 1, der |-> sm2_signature_to_der(LeftPadded(<<sig.r>>), LeftPadded(<<sig.s>>))])
VerifySigned(key, e, sig) ==
  IF sig.ret # 1 THEN [lost |-> FALSE, ret |-> -1]
  ELSE IF sig.rest # <<>> THEN [lost |-> FALSE, ret |-> -1]
  ELSE sm2_do_verify(key, e, BigEndian(sig.r), BigEndian(sig.s))
sm2_verify(key, e, in) == VerifySigned(key, e, sm2_signature_from_der(in))

\* A digest is the bytes digested: z, of the signer's name and public key, and
\* the data.  For the default name the z is of the whole name, whatever the length given.
DefaultId == <<"1", "2">>
sm2_compute_z(xy, id, idlen) == [name |-> IF id = DefaultId THEN id ELSE SubSeq(id, 1, idlen), pub |-> xy]
NoId == <<"none">>
SignInit(key, id, idlen) ==
  IF id = NoId THEN [ret |-> 1, key |-> key, digested |-> <<>>]
  ELSE IF idlen = 0 THEN [ret |-> -1]
  ELSE [ret |-> 1, key |-> key, digested |-> <<sm2_compute_z(key.public, id, idlen)>>]
\* sm2_sign_init and sm2_verify_init, sm2_sign_update and sm2_verify_update are the same.
SignUpdate(ctx, data) == [ctx EXCEPT !.digested = @ \o data]
DigestedBy(c) ==
  LET ctx == SignInit(c.key, c.id, c.idlen)
  IN  IF ctx.ret = 1 THEN Fold(SignUpdate, ctx, c.chunks).digested ELSE <<"refused">>

-----------------------------------------------------------------------------
(* Encryption.  A byte of text under a key stream is the byte and the      *)
(* stream bytes it is combined with: combining twice takes one off again.  *)

Plain(b) == [byte |-> b, under |-> {}]
Xor(c, t) == [c EXCEPT !.under = (@ \cup {t}) \ (@ \cap {t})]
\* Digest number counter of the shared point gives the next Sm2DigestBytes bytes.
OneDigest(xy, len) == [i \in 1..len |-> [of |-> xy, counter |-> 1, at |-> (i - 1) % Sm2DigestBytes]]
sm2_kdf(xy, len) ==
  [i \in 1..len |-> [of |-> xy, counter |-> 1 + (i - 1) \div Sm2DigestBytes, at |-> (i - 1) % Sm2DigestBytes]]
Masked(text, stream) == [i \in DOMAIN text |-> Xor(text[i], stream[i])]
SealedText(k, shared, text) ==
  [point |-> sm2_point_mul_generator(k), text |-> Masked(text, sm2_kdf(shared, Len(text))),
   hash |-> <<shared, text>>]
sm2_do_encrypt(key, text, tries) ==
  LET k == Drawn(tries)[1]
      pub == sm2_jacobian_point_set_xy(key.public)
  IN  SealedText(k, sm2_jacobian_point_get_xy(sm2_jacobian_point_mul(k, pub)), text)
OpenedText(c, shared) ==
  LET text == Masked(c.text, sm2_kdf(shared, Len(c.text)))
  IN  IF c.text = <<>> \/ c.hash # <<shared, text>> THEN [ret |-> -1] ELSE [ret |-> 1, text |-> text]
sm2_do_decrypt(key, c) == OpenedText(c, sm2_point_mul(key.private, c.point))

MaxPlaintext == 255
\* The hash is one element of its octet string, 32 bytes in the code.
sm2_ciphertext_to_der(c) ==
  asn1_type_to_der(TagSequence,
    asn1_integer_to_der_ex(TagInteger, LeftPadded(<<c.point[1]>>)) \o
    asn1_integer_to_der_ex(TagInteger, LeftPadded(<<c.point[2]>>)) \o
    asn1_type_to_der(TagOctetString, <<c.hash>>) \o asn1_type_to_der(TagOctetString, c.text))
CiphertextIn(point, hash, text, rest) ==
  IF \/ Len(hash.val) # 1 \/ Len(text.val) > MaxPlaintext \/ text.rest # <<>>
     \/ sm2_point_is_on_curve(point) # 1
  THEN [ret |-> -1]
  ELSE [ret |-> 1, rest |-> rest, c |-> [point |-> point, text |-> text.val, hash |-> hash.val[1]]]
OctetsIn(s) == asn1_type_from_der(TagOctetString, s)
sm2_ciphertext_from_der(in) ==
  LET number(r) == BigEndian(WholeNumber(r.val))
  IN  Then(asn1_type_from_der(TagSequence, in), LAMBDA d :
        OrFail(NumberIn(d.val), LAMBDA x :
          OrFail(NumberIn(x.rest), LAMBDA y :
            OrFail(OctetsIn(y.rest), LAMBDA hash :
              OrFail(OctetsIn(hash.rest), LAMBDA text :
                CiphertextIn(<<number(x), number(y)>>, hash, text, d.rest))))))
sm2_encrypt(key, text, tries) ==
  IF Len(text) \notin 1..MaxPlaintext THEN [ret |-> -1]
  ELSE [ret |-> 1, out |-> sm2_ciphertext_to_der(sm2_do_encrypt(key, text, tries))]
sm2_decrypt(key, in) ==
  OrFail(sm2_ciphertext_from_der(in), LAMBDA c :
    IF c.rest # <<>> THEN [ret |-> -1] ELSE sm2_do_decrypt(key, c.c))
sm2_ecdh(key, xy) == sm2_point_mul(key.private, xy)

-----------------------------------------------------------------------------
(* The class sm2_ecc.                                                      *)

sign_sm2(skey, e, tries) == sm2_do_sign(sm2_key_set_private_key(skey), e, tries)
verify_sm2(e, sig, pkey) == sm2_do_verify(sm2_key_set_public_key(pkey), e, sig.r, sig.s)
\* The shared key is the first bytes of a digest of the whole point.
ecdh_shared_key_sm2(skey, pkey) == sm2_ecdh(sm2_key_set_private_key(skey), pkey)

-----------------------------------------------------------------------------

AffinePoints == {xy \in (0..(Sm2P - 1)) \X (0..(Sm2P - 1)) : sm2_point_is_on_curve(xy) = 1}
Scaled(xy, z) == Jac(PMul(xy[1], PSqr(z)), PMul(xy[2], PMul(PSqr(z), z)), z)
JPoints == {Scaled(xy, z) : xy \in AffinePoints, z \in Sm2Zs} \cup {sm2_jacobian_point_init}
Seconds == {sm2_jacobian_point_set_xy(xy) : xy \in AffinePoints} \cup {sm2_jacobian_point_init}

Sm2Add(p, q) ==
  Call("sm2_add", [p |-> p, q |-> q],
       [add |-> sm2_jacobian_point_add(p, q), sub |-> sm2_jacobian_point_sub(p, q),
        dbl |-> sm2_jacobian_point_dbl(p), on |-> sm2_jacobian_point_is_on_curve(p)])
Sm2Mul(k, p, s) ==
  Call("sm2_mul", [k |-> k, p |-> p, s |-> s],
       [mul |-> sm2_jacobian_point_mul(k, p), sum |-> sm2_jacobian_point_mul_sum(k, p, s)])
Sm2Octets(o) == Call("sm2_octets", o, sm2_point_from_octets(o))
SignedAndSent(sig, sent, public, e) ==
  LET check(in) == sm2_verify(sm2_key_set_public_key(public), e, in)
  IN  [sig |-> sig, verified |-> verify_sm2(e, sig, public), sent |-> sent.ret,
       received |-> IF sent.ret = 1 THEN check(sent.der) ELSE [ret |-> 0],
       trailed |-> IF sent.ret = 1 THEN check(sent.der \o <<0>>) ELSE [ret |-> -1]]
Sm2Sign(d, e, tries) ==
  LET key == sm2_key_set_private_key(d)
  IN  Call("sm2_sign", [d |-> d, e |-> e],
           SignedAndSent(sign_sm2(d, e, tries), sm2_sign(key, e, tries), key.public, e))
Sm2Verify(d, e, r, s) ==
  Call("sm2_verify", [d |-> d, e |-> e, r |-> r, s |-> s],
       verify_sm2(e, [r |-> r, s |-> s], sm2_point_mul_generator(d)))
SentAndRead(sent, other) ==
  [sent |-> sent.ret,
   stream |-> IF sent.ret = 1 THEN {c.under : c \in Range(sm2_ciphertext_from_der(sent.out).c.text)} ELSE {},
   got |-> IF sent.ret = 1 THEN sm2_decrypt(sm2_key_set_private_key(other), sent.out) ELSE [ret |-> 0]]
Sm2Crypt(d, text, tries, other) ==
  LET key == sm2_key_set_private_key(d)
  IN  Call("sm2_crypt", [d |-> d, text |-> text, other |-> other],
           SentAndRead(sm2_encrypt(key, [i \in DOMAIN text |-> Plain(text[i])], tries), other))
Sm2Agree(a, b) ==
  Call("sm2_ecdh", [a |-> a, b |-> b],
       [there |-> ecdh_shared_key_sm2(a, sm2_point_mul_generator(b)),
        back |-> ecdh_shared_key_sm2(b, sm2_key_generate(<<0, Sm2N, a>>).public)])
Sm2Stream(a, b) == Call("sm2_stream", [a |-> a, b |-> b], [a |-> DigestedBy(a), b |-> DigestedBy(b)])
Sm2Der(r, s) == Call("sm2_der", [r |-> r, s |-> s], sm2_signature_from_der(sm2_signature_to_der(r, s)))

Sm2Chunks == {<<>>, <<<<Plain(0), Plain(1)>>>>, <<<<Plain(0)>>, <<>>, <<Plain(1)>>>>, <<<<Plain(1)>>, <<Plain(0)>>>>}
Sm2Streams ==
  [key : {Sm2Key(0, Sm2G), Sm2Key(0, <<Sm2G[1], PNeg(Sm2G[2])>>)}, idlen : 0..2,
   id : {NoId, DefaultId, <<"1", "3">>, <<"2", "1">>}, chunks : Sm2Chunks]

B32s == 0..(2^Sm2Bits - 1)
Sm2Next ==
  Fresh /\ (\/ \E r, s \in Sm2Numbers : Sm2Der(r, s)
            \/ \E p \in JPoints, q \in Seconds : Sm2Add(p, q)
            \/ \E k \in B32s \ {0}, p \in JPoints, s \in Sm2Digests : Sm2Mul(k, p, s)
            \/ \E o \in ((1..5) \X B32s) \cup ((2..4) \X B32s \X B32s) : Sm2Octets(o)
            \/ \E d \in Sm2Keys, e \in Sm2Digests, tries \in Sm2Tries : Sm2Sign(d, e, tries)
            \/ \E d \in Sm2Keys, e \in Sm2Digests, r, s \in B32s : Sm2Verify(d, e, r, s)
            \/ \E d, other \in Sm2Keys, text \in Sm2Texts, tries \in Sm2Tries :
                 Drawn(tries) # <<>> /\ Sm2Crypt(d, text, tries, other)
            \/ \E a, b \in 1..(Sm2N - 1) : Sm2Agree(a, b)
            \/ \E a, b \in Sm2Streams : Sm2Stream(a, b))

-----------------------------------------------------------------------------
(* The group: chords and tangents, "inf" the neutral element.              *)

Inf == <<0, 0, 0>>
InvP == [a \in 1..(Sm2P - 1) |-> CHOOSE b \in 1..(Sm2P - 1) : (a * b) % Sm2P = 1]
Chord(a, b) ==
  IF a = Inf THEN b ELSE IF b = Inf THEN a
  ELSE IF a[1] = b[1] /\ (a[2] + b[2]) % Sm2P = 0 THEN Inf
  ELSE LET m == IF a = b THEN ((3 * a[1] * a[1] - 3) * InvP[(2 * a[2]) % Sm2P]) % Sm2P
                ELSE ((b[2] - a[2]) * InvP[(b[1] - a[1]) % Sm2P]) % Sm2P
           x == (m * m - a[1] - b[1]) % Sm2P
       IN  <<x, (m * (a[1] - x) - a[2]) % Sm2P>>
Opposite(a) == IF a = Inf THEN Inf ELSE <<a[1], (0 - a[2]) % Sm2P>>
Multiples(a) == LET f[k \in 0..(Sm2N - 1)] == IF k = 0 THEN Inf ELSE Chord(f[k - 1], a) IN f
Multiple(k, a) == IF a = Inf THEN Inf ELSE Multiples(a)[k % Sm2N]
Means(p) == IF p.Z % Sm2P = 0 THEN Inf
            ELSE LET i == InvP[p.Z] IN <<(p.X * ((i * i) % Sm2P)) % Sm2P, (p.Y * ((i * i * i) % Sm2P)) % Sm2P>>

\* Adding, doubling and multiplying points, in whichever coordinates they come,
\* is the group of the curve, equal, opposite and infinite points included.
\* (mul_sum takes t * P to be finite: with P at infinity, or t a multiple of
\* n, it adds the pair (0, 0) instead.)
Sm2GroupLaw ==
  /\ Of("sm2_add", LAMBDA in, out :
          LET a == Means(in.p)
              b == Means(in.q)
          IN  /\ Means(out.add) = Chord(a, b) /\ Means(out.sub) = Chord(a, Opposite(b))
              /\ Means(out.dbl) = Chord(a, a) /\ out.on = 1)
  /\ Of("sm2_mul", LAMBDA in, out :
          LET a == Means(in.p)
          IN  a # Inf =>
                /\ Means(out.mul) = Multiple(in.k, a)
                /\ in.k % Sm2N # 0 => Means(out.sum) = Chord(Multiple(in.k, a), Multiple(in.s, Sm2G)))

\* Octets that are accepted are a point of the curve with the y their tag asks
\* for; both forms of every point are accepted and give it back, and so does
\* its DER.  (The x of the short form may be p or more.)
Sm2OctetsOnCurve ==
  Of("sm2_octets", LAMBDA o, out :
       /\ out.ret = 1 => /\ (out.point[2] * out.point[2]) % Sm2P =
                               (out.point[1] * ((out.point[1] * out.point[1]) % Sm2P) - 3 * out.point[1] + Sm2B) % Sm2P
                         /\ out.point[1] = o[2]
                         /\ o[1] = 4 \/ out.point[2] % 2 = o[1] - 2
       /\ (o[1] \in {2, 3} /\ \E xy \in AffinePoints : sm2_point_to_compressed_octets(xy) = o) => out.ret = 1
       /\ (o[1] = 4 /\ Len(o) = 3) =>
            (<<o[2], o[3]>> \in AffinePoints => out.ret = 1 /\ sm2_point_from_der(sm2_point_to_der(out.point)) = out))

\* A signature is accepted under the signer's public key, whichever numbers are
\* drawn, in its DER form too, to which nothing may be appended.  (Not claimed where
\* the code leaves the standard: e + x of 2n or more is reduced once only, an s of 0
\* is returned, and 1 + d has no inverse for the private key n - 1, which key
\* generation can draw.)
Sm2SignVerifies ==
  Of("sm2_sign", LAMBDA in, out :
       (out.sig.ret = 1 /\ out.sig.r < Sm2N /\ out.sig.s # 0 /\ in.d # Sm2N - 1 /\ ~out.verified.lost) =>
         out.verified.ret = 1 /\ out.received = out.verified /\ out.trailed.ret = -1)

\* A signature is accepted exactly when r and s are in range and r is e + x
\* modulo n for the point x of s * G + (r + s) * P, unless that point is at
\* infinity (the code takes its x to be 0) or e + x is 2n or more.
Sm2VerifyExact ==
  Of("sm2_verify", LAMBDA in, out :
       LET t == (in.r + in.s) % Sm2N
           q == Multiple(in.d, Sm2G)
           at == Chord(Multiple(in.s, Sm2G), Multiple(t, q))
           legal == in.r \in 1..(Sm2N - 1) /\ in.s \in 1..(Sm2N - 1) /\ t # 0
       IN  (~out.lost /\ (legal => at # Inf /\ in.e + at[1] < 2 * Sm2N)) =>
             ((out.ret = 1) <=> (legal /\ (in.e + at[1]) % Sm2N = in.r)))

\* What is encrypted for a key is decrypted with it and refused with another; no
\* byte of the key stream is used for two bytes of the text.
Sm2DecryptsOwn ==
  Of("sm2_crypt", LAMBDA in, out :
       /\ out.sent = 1 <=> Len(in.text) \in 1..MaxPlaintext
       /\ out.sent = 1 =>
            /\ IF in.other = in.d
               THEN out.got.ret = 1 /\ out.got.text = [i \in DOMAIN in.text |-> Plain(in.text[i])]
               ELSE out.got.ret = -1
            /\ Cardinality(out.stream) = Len(in.text))

\* Both ends of a key agreement have one shared key.
Sm2Agreement == Of("sm2_ecdh", LAMBDA in, out : out.there = out.back)

\* Signer and verifier sign the same digest exactly when they mean the same
\* public key, name and data, however the data is cut into updates.  (The default
\* name counts as a whole whatever length is given with it.)
Name(c) == IF c.id \in {NoId, DefaultId} THEN c.id ELSE SubSeq(c.id, 1, c.idlen)
HasName(c) == c.id = NoId \/ c.idlen > 0
Sm2SameDigest ==
  Of("sm2_stream", LAMBDA in, out :
       (HasName(in.a) /\ HasName(in.b)) =>
         ((out.a = out.b) <=> /\ Name(in.a) = Name(in.b) /\ Concat(in.a.chunks) = Concat(in.b.chunks)
                              /\ Name(in.a) # NoId => in.a.key = in.b.key))

\* A signature survives its DER form, small numbers too ("need to test when r, s
\* are rather small integers", sm2_lib.c).
Sm2SignatureDer ==
  Of("sm2_der", LAMBDA in, out : out.ret = 1 /\ out.r = in.r /\ out.s = in.s /\ out.rest = <<>>)

\* sm2_alg.c: points are added as the group does, and octets accepted are points (the two
\* parts above).
Sm2PointsSound ==
  Sm2GroupLaw /\ Sm2OctetsOnCurve

\* sm2_lib.c: what is signed verifies, through its DER and its digest too, and nothing else
\* does (the parts above).
Sm2SignaturesSound ==
  Sm2SignVerifies /\ Sm2VerifyExact /\ Sm2SignatureDer /\ Sm2SameDigest

\* sm2_lib.c and sm2_ecc: what is encrypted for a key is read with that key only, and both
\* ends of an agreement have one secret (the two parts above).
Sm2SecretsSound ==
  Sm2DecryptsOwn /\ Sm2Agreement
=============================================================================
