------------------------------- MODULE Ecdsa -------------------------------
(***************************************************************************)
(* Keys and signatures over the curve: the library's interface             *)
(* (secp256k1.c, recovery, ecdh) and the functions that the crypto classes *)
(* of host and enclave put around it.  32 bytes are the number they hold,  *)
(* which may be the order or more; a public key is the stored point, all   *)
(* zero after a failure.  The default handler of an illegal argument       *)
(* returns, so what follows the check of a callee happens.                 *)
(***************************************************************************)
EXTENDS Ecmult

CONSTANTS
  Keys, Tweaks, Messages,   \* bounds: 32 byte numbers
  Nonces                    \* bound: what the nonce function may give in one call

B32 == 0..(2 * Order - 1)
NonceFailed == 2 * Order   \* the nonce function gives up
ASSUME EcdsaAssumption == Keys \cup Tweaks \cup Messages \subseteq B32 /\ P < 2 * Order /\ Order < P

scalar_set_b32(b) == [v |-> IF b >= Order THEN b - Order ELSE b, overflow |-> b >= Order]
\* A field element of 32 bytes is refused, not reduced.
fe_set_b32(b) == [ok |-> b < P, fe |-> fe_const(b)]
IsHigh(s) == s > (Order - 1) \div 2
InvN == [s \in 0..(Order - 1) |->
           IF s = 0 THEN 0 ELSE CHOOSE t \in 1..(Order - 1) : (s * t) % Order = 1]

NoKey == <<fe_const(0), fe_const(0)>>
pubkey_save(ge) == ge_to_storage(ge)
\* The point, and whether it passes for one: only x = 0 is noticed.
pubkey_load(pk) == [ge |-> ge_from_storage(pk), ok |-> pk[1].v # 0]
Valid(sec) == ~sec.overflow /\ sec.v # 0

-----------------------------------------------------------------------------
(* Keys.                                                                   *)

ec_seckey_verify(b) == Valid(scalar_set_b32(b))
ec_pubkey_create(ctx, b) ==
  LET sec == scalar_set_b32(b)
  IN  IF Valid(sec) THEN pubkey_save(ge_set_gej(ecmult_gen(ctx, sec.v))) ELSE NoKey

EVEN == 2
ODD == 3
UNCOMPRESSED == 4
HYBRID_EVEN == 6
HYBRID_ODD == 7
Octets(tag, x, y) == [tag |-> tag, x |-> x, y |-> y]
\* The hybrid forms state the oddness of y once more.
HybridFits(o) == o.tag # UNCOMPRESSED => o.y % 2 = o.tag - HYBRID_EVEN
\* Only the long forms have a y.
eckey_pubkey_parse(o) ==
  LET x == fe_set_b32(o.x)
      y == fe_set_b32(o.y)
      whole == Ge(x.fe, y.fe)
  IN  CASE o.tag \in {EVEN, ODD} ->
             IF x.ok THEN ge_set_xo_var(x.fe, o.tag - EVEN) ELSE [ret |-> 0]
        [] o.tag \in {UNCOMPRESSED, HYBRID_EVEN, HYBRID_ODD} ->
             IF x.ok /\ y.ok /\ HybridFits(o) /\ ge_is_valid_var(whole)
             THEN [ret |-> 1, ge |-> whole] ELSE [ret |-> 0]
        [] OTHER -> [ret |-> 0]
ec_pubkey_parse(o) ==
  LET q == eckey_pubkey_parse(o) IN IF q.ret = 1 THEN pubkey_save(q.ge) ELSE NoKey
eckey_pubkey_serialize(ge, compressed) ==
  LET x == fe_normal(ge.x).v
      y == fe_normal(ge.y).v
  IN  IF compressed THEN Octets(IF y % 2 = 1 THEN ODD ELSE EVEN, x, 0) ELSE Octets(UNCOMPRESSED, x, y)
ec_pubkey_serialize(pk, compressed) ==
  LET q == pubkey_load(pk) IN IF q.ok THEN eckey_pubkey_serialize(q.ge, compressed) ELSE Octets(0, 0, 0)

\* A secret key taken as it is: one that is the order or more is reduced.
SecretOf(b) == scalar_set_b32(b).v
ec_privkey_negate(b) == (Order - SecretOf(b)) % Order
\* 0 stands for the failure: the key is then zero bytes.
eckey_privkey_tweak_add(key, tweak) == (key + tweak) % Order
TweakByZero(key, tweak) == IF tweak = 0 THEN key ELSE (key * tweak) % Order
eckey_privkey_tweak_mul(key, tweak) == IF tweak = 0 THEN 0 ELSE (key * tweak) % Order
ec_privkey_tweak_add(b, t) ==
  LET term == scalar_set_b32(t)
  IN  IF term.overflow THEN 0 ELSE eckey_privkey_tweak_add(SecretOf(b), term.v)
ec_privkey_tweak_mul(b, t) ==
  LET factor == scalar_set_b32(t)
  IN  IF factor.overflow THEN 0 ELSE eckey_privkey_tweak_mul(SecretOf(b), factor.v)

ec_pubkey_negate(pk) ==
  LET q == pubkey_load(pk) IN IF q.ok THEN pubkey_save(ge_neg(q.ge)) ELSE NoKey
Saved(gej) == IF gej.inf THEN NoKey ELSE pubkey_save(ge_set_gej(gej))
eckey_pubkey_tweak_add(ge, tweak) == Saved(ecmult(gej_set_ge(ge), 1, tweak))
eckey_pubkey_tweak_mul(ge, tweak) ==
  IF tweak = 0 THEN NoKey ELSE pubkey_save(ge_set_gej(ecmult(gej_set_ge(ge), tweak, 0)))
ec_pubkey_tweak_add(pk, t) ==
  LET term == scalar_set_b32(t)
      q == pubkey_load(pk)
  IN  IF term.overflow \/ ~q.ok THEN NoKey ELSE eckey_pubkey_tweak_add(q.ge, term.v)
ec_pubkey_tweak_mul(pk, t) ==
  LET factor == scalar_set_b32(t)
      q == pubkey_load(pk)
  IN  IF factor.overflow \/ ~q.ok THEN NoKey ELSE eckey_pubkey_tweak_mul(q.ge, factor.v)
\* The keys are added whether they loaded or not.
ec_pubkey_combine(pks) ==
  Saved(Fold(LAMBDA acc, pk : gej_add_ge(acc, pubkey_load(pk).ge), gej_set_infinity, pks))

-----------------------------------------------------------------------------
(* Signatures.                                                             *)

Sig(r, s, recid) == [r |-> r, s |-> s, recid |-> recid]
NoSig == Sig(0, 0, 0)

\* Negating s negates the point, and the oddness of its y with it.
RecidNegated(recid) == IF recid % 2 = 0 THEN recid + 1 ELSE recid - 1
SigOfPoint(point, sec, msg, nonce) ==
  LET r == scalar_set_b32(fe_normal(point.x).v)
      recid == (IF r.overflow THEN 2 ELSE 0) + (fe_normal(point.y).v % 2)
      s == (InvN[nonce] * ((r.v * sec + msg) % Order)) % Order
  IN  IF IsHigh(s) THEN Sig(r.v, Order - s, RecidNegated(recid)) ELSE Sig(r.v, s, recid)
ecdsa_sig_sign(ctx, sec, msg, nonce) == SigOfPoint(ge_set_gej(ecmult_gen(ctx, nonce)), sec, msg, nonce)
\* The nonce function is asked until it fails or gives a nonce that
\* is in range and leads to s # 0.
Accepted(acc, sig) == IF sig.s = 0 THEN acc ELSE [done |-> TRUE, ret |-> 1, sig |-> sig]
ecdsa_sign_recoverable(ctx, seckey, msg32, nonces) ==
  LET sec == scalar_set_b32(seckey)
      msg == scalar_set_b32(msg32).v
      try(acc, b) ==
        IF acc.done THEN acc
        ELSE IF b = NonceFailed THEN [acc EXCEPT !.done = TRUE]
        ELSE IF ~Valid(scalar_set_b32(b)) THEN acc
        ELSE Accepted(acc, ecdsa_sig_sign(ctx, sec.v, msg, b))
      start == [done |-> FALSE, ret |-> 0, sig |-> NoSig]
  IN  IF Valid(sec) THEN Fold(try, start, nonces) ELSE [start EXCEPT !.done = TRUE]

\* A signature without a recid: what the recoverable one converts to.
ecdsa_recoverable_signature_convert(sig) == [r |-> sig.r, s |-> sig.s]
Plain(out) == [ret |-> out.ret, sig |-> ecdsa_recoverable_signature_convert(out.sig)]
ecdsa_sign(ctx, seckey, msg32, nonces) == Plain(ecdsa_sign_recoverable(ctx, seckey, msg32, nonces))

\* x + n, or nothing when that is no field element.
PlusOrder(r) == IF r >= P - Order THEN {} ELSE {fe_plus(fe_const(r), fe_const(Order))}
OnlyPlainX(r, pr) == gej_eq_x_var(fe_const(r), pr)
\* r is the x coordinate of the point modulo n: x is r or r + n.
XMatches(r, pr) == \E x \in {fe_const(r)} \cup PlusOrder(r) : gej_eq_x_var(x, pr)
PointMatches(r, pr) == ~pr.inf /\ XMatches(r, pr)
ecdsa_sig_verify(r, s, q, m) ==
  LET sn == InvN[s]
  IN  r # 0 /\ s # 0 /\ PointMatches(r, ecmult(gej_set_ge(q), (sn * r) % Order, (sn * m) % Order))
ecdsa_verify(sig, msg32, pk) ==
  LET q == pubkey_load(pk)
  IN  ~IsHigh(sig.s) /\ q.ok /\ ecdsa_sig_verify(sig.r, sig.s, q.ge, scalar_set_b32(msg32).v)
ecdsa_signature_normalize(sig) == IF IsHigh(sig.s) THEN [sig EXCEPT !.s = Order - @] ELSE sig

ecdsa_sig_recover(r, s, m, recid) ==
  LET fx == IF recid >= 2 THEN PlusOrder(r) ELSE {fe_const(r)}
      x == ge_set_xo_var(CHOOSE f \in fx : TRUE, recid % 2)
      rn == InvN[r]
  IN  IF r = 0 \/ s = 0 \/ fx = {} THEN NoKey
      ELSE IF x.ret = 0 THEN NoKey
      ELSE Saved(ecmult(gej_set_ge(x.ge), (rn * s) % Order, (Order - ((rn * m) % Order)) % Order))
ecdsa_recover(sig, msg32) == ecdsa_sig_recover(sig.r, sig.s, scalar_set_b32(msg32).v, sig.recid)

\* 64 bytes and a recid; the parser refuses numbers that are the order or more.
ecdsa_recoverable_signature_serialize_compact(sig) ==
  [r32 |-> sig.r, s32 |-> sig.s, recid |-> sig.recid]
ecdsa_recoverable_signature_parse_compact(r32, s32, recid) ==
  LET r == scalar_set_b32(r32)
      s == scalar_set_b32(s32)
  IN  IF recid \in 0..3 /\ ~r.overflow /\ ~s.overflow
      THEN [ret |-> 1, sig |-> Sig(r.v, s.v, recid)] ELSE [ret |-> 0, sig |-> NoSig]

\* The hash is of the oddness of y and of x; the key is used whether it loaded or not.
ecdh_hash(pt) == <<2 + (fe_normal(pt.y).v % 2), fe_normal(pt.x).v>>
ecdh(pk, b) ==
  LET s == scalar_set_b32(b)
      q == pubkey_load(pk)
  IN  IF ~Valid(s) THEN [ret |-> 0, legal |-> q.ok]
      ELSE [ret |-> 1, legal |-> q.ok, secret |-> ecdh_hash(ge_set_gej(ecmult_const(q.ge, s.v)))]

-----------------------------------------------------------------------------
(* The classes of host and enclave.  The last byte of their signatures is  *)
(* 27 more than the recid.                                                 *)

RECID_BASE == 27
Message(out) ==
  LET compact == ecdsa_recoverable_signature_serialize_compact(out.sig)
  IN  [ret |-> out.ret, r32 |-> compact.r32, s32 |-> compact.s32, v |-> compact.recid + RECID_BASE]
sign_message(ctx, skey, hash, nonces) == Message(ecdsa_sign_recoverable(ctx, skey, hash, nonces))
verify_signature(sig, hash, pk) ==
  LET parsed == ecdsa_recoverable_signature_parse_compact(sig.r32, sig.s32, sig.v - RECID_BASE)
  IN  parsed.ret = 1 /\ ecdsa_verify(ecdsa_recoverable_signature_convert(parsed.sig), hash, pk)
\* The bytes of a random generator are asked for until they are a key.
gen_private_key(tries) == SelectSeq(tries, ec_seckey_verify)

-----------------------------------------------------------------------------
(* A pair of keys that its owner changes on both sides, while both succeed. *)

VARIABLE pair
PairInit == pair = [sec |-> 1, pub |-> pubkey_save(ge_const_g)]
Usable == pair.sec # 0 /\ pair.pub # NoKey
PairNext ==
  /\ Usable
  /\ \/ \E t \in Tweaks : pair' = [sec |-> ec_privkey_tweak_add(pair.sec, t),
                                  pub |-> ec_pubkey_tweak_add(pair.pub, t)]
     \/ \E t \in Tweaks : pair' = [sec |-> ec_privkey_tweak_mul(pair.sec, t),
                                  pub |-> ec_pubkey_tweak_mul(pair.pub, t)]
     \/ pair' = [sec |-> ec_privkey_negate(pair.sec), pub |-> ec_pubkey_negate(pair.pub)]
     \/ \E c \in BOOLEAN : pair' = [pair EXCEPT !.pub = ec_pubkey_parse(ec_pubkey_serialize(@, c))]

Public(b) == ec_pubkey_create(gen, b)
Checked(sig, plain, m, pub) ==
  LET made == sig.ret = 1
  IN  [sig |-> sig,
       verified |-> made /\ verify_signature(sig, m, pub) /\ ecdsa_verify(plain.sig, m, pub),
       recovered |-> IF made THEN ecdsa_recover(Sig(sig.r32, sig.s32, sig.v - RECID_BASE), m) ELSE NoKey]
Sign(b, m, nonces) ==
  Call("sign", [key |-> b, msg |-> m],
       Checked(sign_message(gen, b, m, nonces), ecdsa_sign(gen, b, m, nonces), m, Public(b)))
Verdicts(sig, m, pub) ==
  [ok |-> verify_signature(sig, m, pub),
   normalized |-> /\ sig.r32 < Order /\ sig.s32 < Order
                  /\ ecdsa_verify(ecdsa_signature_normalize([r |-> sig.r32, s |-> sig.s32]), m, pub)]
Verify(r32, s32, v, m, b) ==
  Call("verify", [r |-> r32, s |-> s32, v |-> v, msg |-> m, key |-> b],
       Verdicts([r32 |-> r32, s32 |-> s32, v |-> v], m, Public(b)))
Recover(r, s, recid, m) ==
  Call("recover", [r |-> r, s |-> s, recid |-> recid, msg |-> m],
       [key |-> ecdsa_recover(Sig(r, s, recid), m)])
Ecdh(a, b) ==
  Call("ecdh", [a |-> a, b |-> b], [there |-> ecdh(Public(a), b), back |-> ecdh(Public(b), a)])
\* With a key that did not load: what a failed call leaves, or zero bytes of a peer.
EcdhUnloaded(b) == Call("ecdh_unloaded", [b |-> b], ecdh(NoKey, b))
Parse(o) == Call("parse", o, [key |-> ec_pubkey_parse(o)])
Combine(bs) ==
  Call("combine", bs, [key |-> ec_pubkey_combine(Tuple([i \in DOMAIN bs |-> Public(bs[i])]))])
GenKey(tries) == Call("genkey", tries, [keys |-> gen_private_key(tries)])

GoodKeys == {b \in Keys : ec_seckey_verify(b)}
EcdsaNext ==
  Fresh /\ (\/ \E rv \in ((0..Order) \X {28}) \cup ({1, 4} \X {26, 31}), s \in 0..Order,
                  m \in Messages, b \in GoodKeys : Verify(rv[1], s, rv[2], m, b)
            \/ \E r \in 0..(Order - 1), s \in 0..(Order - 1), recid \in 0..3, m \in Messages :
                 Recover(r, s, recid, m)
            \/ \E b \in Keys, m \in Messages, n1 \in Nonces, n2 \in Nonces : Sign(b, m, <<n1, n2>>)
            \/ \E a \in GoodKeys, b \in B32 : Ecdh(a, b)
            \/ \E b \in Keys : EcdhUnloaded(b)
            \/ \E tag \in 1..8, x \in 0..(P + 1), y \in 0..(P + 1) : Parse(Octets(tag, x, y))
            \/ \E bs \in UNION {[1..n -> GoodKeys] : n \in 1..3} : Combine(bs)
            \/ \E t1 \in Keys, t2 \in Keys : GenKey(<<t1, t2>>))

-----------------------------------------------------------------------------
(* Properties.                                                             *)

PubPoint(pk) == IF pk[1].v = 0 THEN <<>> ELSE <<pk[1].v, pk[2].v>>

\* Both sides of a pair fail together and otherwise stay the two sides of one key:
\* whatever was done to it, the public key is the secret one times G.
PairInStep == PubPoint(pair.pub) = Multiples[pair.sec]

\* A signature that was made is low, verifies under the key of its maker, and the
\* recovery gives that key back, whichever nonces were refused before it.
SignedRight(in, out) ==
  out.sig.ret = 1 =>
    /\ out.verified /\ ~IsHigh(out.sig.s32)
    /\ PubPoint(out.recovered) = Multiples[in.key]
SignaturesRight == Of("sign", SignedRight)

\* The textbook: the point (m + r q) / s of the signature.
SigPoint(r, s, m, q) ==
  LET k == (InvN[s] * ((m % Order) + r * q)) % Order IN Multiples[k]
Accepts(r, s, m, q) ==
  LET p == SigPoint(r, s, m, q) IN r # 0 /\ s # 0 /\ p # <<>> /\ p[1] % Order = r
\* A signature is accepted exactly when it is low, in range and satisfies the
\* equation, the points whose x is the order or more included, and a high one when
\* it is made low; recovery gives
\* exactly the key for which the signature's point is the one that recid names.
VerifiedRight(in, out) ==
  LET good == in.r < Order /\ in.s < Order /\ Accepts(in.r, in.s, in.msg, in.key)
  IN  /\ out.ok <=> good /\ ~IsHigh(in.s) /\ in.v - RECID_BASE \in 0..3
      /\ out.normalized <=> good
RecoveredRight(in, out) ==
  LET point(q) == SigPoint(in.r, in.s, in.msg, q)
      fits(q) == /\ Accepts(in.r, in.s, in.msg, q)
                 /\ point(q)[2] % 2 = in.recid % 2 /\ (point(q)[1] >= Order) = (in.recid >= 2)
  IN  IF out.key = NoKey THEN \A q \in 1..(Order - 1) : ~fits(q)
      ELSE \E q \in 1..(Order - 1) : fits(q) /\ PubPoint(out.key) = Multiples[q]
VerifyExact == Of("verify", VerifiedRight) /\ Of("recover", RecoveredRight)

\* Two parties that use each other's public keys get one secret; a scalar that is
\* no key gives none.
SecretShared(in, out) ==
  /\ out.there.ret = (IF ec_seckey_verify(in.b) THEN 1 ELSE 0)
  /\ out.there.ret = 1 => out.there = out.back /\ out.there.legal
EcdhAgrees == Of("ecdh", SecretShared)

\* An illegal argument ends the program, as secp256k1.h says of the default handler
\* ("NULL restores a default handler that calls abort"), so that a call which
\* returns success met none.
LegalIfReturned(in, out) == out.ret = 1 => out.legal
IllegalAborts == Of("ecdh_unloaded", LegalIfReturned)

\* Only points of the curve are taken for keys, in each of the forms, and a sum of
\* keys is the key of the sum, or none; a generated key is one.
ParsedRight(o, out) ==
  LET points == {Multiples[k] : k \in 1..(Order - 1)}
      fits == {p \in points : /\ p[1] = o.x
                              /\ o.tag \in {EVEN, HYBRID_EVEN} => p[2] % 2 = 0
                              /\ o.tag \in {ODD, HYBRID_ODD} => p[2] % 2 = 1
                              /\ o.tag \in {UNCOMPRESSED, HYBRID_EVEN, HYBRID_ODD} => p[2] = o.y}
  IN  PubPoint(out.key) \in (IF o.tag \in {EVEN, ODD, UNCOMPRESSED, HYBRID_EVEN, HYBRID_ODD} /\ fits # {}
                            THEN fits ELSE {<<>>})
CombinedRight(bs, out) == PubPoint(out.key) = Multiples[SumOf(bs) % Order]
GeneratedRight(tries, out) ==
  \A i \in DOMAIN out.keys : out.keys[i] \in 1..(Order - 1)
KeysRight == Of("parse", ParsedRight) /\ Of("combine", CombinedRight) /\ Of("genkey", GeneratedRight)

\* secp256k1.c: the two halves of a key pair stay a pair through tweaks that fail, both ends
\* of an agreement have one secret, and keys are read as they were written (the parts above).
KeysSound ==
  PairInStep /\ EcdhAgrees /\ KeysRight

\* secp256k1.c: what is signed verifies and recovers the signer, and nothing verifies but
\* what the equation of ECDSA accepts (the two parts above).
SignaturesSound ==
  SignaturesRight /\ VerifyExact
=============================================================================
