----------------------------- MODULE SmNumbers -----------------------------
(***************************************************************************)
(* The numbers under SM2 (gmssl): eight limbs of SmW bits (32 in the code) *)
(* in words of twice that width, the field modulo                          *)
(*     p = 2^(8w) - 2^(7w) - 2^(3w) + 2^(2w) - 1                           *)
(* reduced by sums of limbs, and the scalars modulo n by Barrett's method. *)
(***************************************************************************)
EXTENDS Calls, Limbs

CONSTANTS
  SmW,             \* bits of a limb
  SmN, SmMu,       \* n and 2^(16w) \div n, in limbs (the top one of mu is larger)
  SmPFactors,      \* the prime factors of p here, distinct: p need not be prime
  SmNFactors,      \* those of n
  SmPairs,         \* bound: the pairs of field elements computed with
  SmScalarPairs    \* bound: the pairs of scalars

ASSUME SmAssumption == SmW \in Nat \ {0, 1} /\ Len(SmN) = 8 /\ Len(SmMu) = 8

Full == 2^SmW - 1
SmP == <<Full, Full, 0, Full, Full, Full, Full, Full - 1>>
SmWord(x) == x % 2^(2 * SmW)

-----------------------------------------------------------------------------
(* Limbs.  The top limb keeps its carry.                                   *)

sm2_bn_add(a, b) == Carried(Tuple([k \in DOMAIN a |-> a[k] + b[k]]), SmW)

\* Each limb borrows 2^w from the next one and gives back what it did not need.
sm2_bn_sub(a, b) ==
  LET step(acc, k) ==
        LET t == (IF k = 1 THEN Full + 1 ELSE Full + acc.up) + a[k] - b[k]
        IN  [up |-> t \div 2^SmW, out |-> Append(acc.out, t % 2^SmW)]
      low == Fold(step, [up |-> 0, out |-> <<>>], UpTo(Len(a) - 1))
  IN  Append(low.out, SmWord(Last(a) - Last(b) + low.up - 1 + 2^(2 * SmW)))
sm2_bn_cmp(a, b) == CompareLimbs(a, b)
sm2_bn_is_zero(a) == IsZeroLimbs(a)

\* The bits from the top, and bytes from the top as the limbs are written.
sm2_bn_to_bits(a) == Reverse(BitsOf(a, SmW))
sm2_bn_to_bytes(a) == Reverse(a)
sm2_bn_from_bytes(b) == Reverse(b)

\* while (r >= m) r = r - m
RECURSIVE Subtracted(_, _)
Subtracted(r, m) == IF sm2_bn_cmp(r, m) >= 0 THEN Subtracted(sm2_bn_sub(r, m), m) ELSE r
OnceSubtracted(r, m) == IF sm2_bn_cmp(r, m) >= 0 THEN sm2_bn_sub(r, m) ELSE r

-----------------------------------------------------------------------------
(* The field.                                                              *)

sm2_fp_add(a, b) == OnceSubtracted(sm2_bn_add(a, b), SmP)
sm2_fp_sub(a, b) ==
  IF sm2_bn_cmp(a, b) >= 0 THEN sm2_bn_sub(a, b) ELSE sm2_bn_add(sm2_bn_sub(SmP, b), a)
sm2_fp_tri(a) == sm2_fp_add(sm2_fp_add(a, a), a)
sm2_fp_neg(a) == IF sm2_bn_is_zero(a) THEN a ELSE sm2_bn_sub(SmP, a)
\* Half of a, or of a + p: the carry of that sum is in the top limb.
sm2_fp_div2(a) ==
  LET r == IF a[1] % 2 = 1 THEN sm2_bn_add(a, SmP) ELSE a
  IN  Tuple([k \in 1..8 |-> IF k = 8 THEN r[8] \div 2 ELSE r[k] \div 2 + (r[k + 1] % 2) * 2^(SmW - 1)])

\* The limbs (from 0) of a product that are added up in each limb of the result.
FpRows ==
  <<<<0, 8, 9, 10, 11, 12, 13, 13, 14, 14, 15, 15>>, <<1, 9, 10, 11, 12, 13, 14, 14, 15, 15>>,
    <<2>>, <<3, 8, 11, 12, 14, 15, 13, 13>>, <<4, 9, 12, 13, 15, 14, 14>>,
    <<5, 10, 13, 14, 15, 15>>, <<6, 11, 14, 15>>,
    <<7, 8, 9, 10, 11, 15, 12, 12, 13, 13, 14, 14, 15, 15>>>>
FpMinus == <<8, 9, 13, 14>>
Gathered(s, row) == SmWord(SumOf(Tuple([k \in DOMAIN row |-> s[row[k] + 1]])))

ReduceField(r) == Subtracted(r, SmP)
sm2_fp_mul(a, b) ==
  LET s == Carried(Tuple([k \in 1..16 |-> Column(a, b, k - 1)]), SmW)
      r == Carried(Tuple([k \in 1..8 |-> Gathered(s, FpRows[k])]), SmW)
      d == Gathered(s, FpMinus)
  IN  ReduceField(sm2_bn_sub(r, <<0, 0, d % 2^SmW, d \div 2^SmW, 0, 0, 0, 0>>))

-----------------------------------------------------------------------------
(* The scalars.                                                            *)

sm2_fn_add(a, b) == OnceSubtracted(sm2_bn_add(a, b), SmN)
sm2_fn_sub(a, b) ==
  IF sm2_bn_cmp(a, b) >= 0 THEN sm2_bn_sub(a, b) ELSE sm2_bn_sub(sm2_bn_add(a, SmN), b)
sm2_fn_neg(a) == IF sm2_bn_is_zero(a) THEN a ELSE sm2_bn_sub(SmN, a)

\* The product of x and y limb by limb, the sum w + s[i + j] + x[i] * y[j] in a word.
MulWords(x, y) ==
  LET row(s, i) ==
        LET cell(acc, j) ==
              LET w == SmWord(acc.w + acc.s[i + j - 1] + x[i] * y[j])
              IN  [w |-> w \div 2^SmW, s |-> [acc.s EXCEPT ![i + j - 1] = w % 2^SmW]]
            all == Fold(cell, [w |-> 0, s |-> s], UpTo(Len(y)))
        IN  [all.s EXCEPT ![i + Len(y)] = all.w]
  IN  Fold(row, Zeros(Len(x) + Len(y)), UpTo(Len(x)))

\* zh * mu \div (2^w)^9
Quotient(z) == SubSeq(MulWords(SubSeq(z, 8, 16), SmMu), 10, 17)

sm2_bn288_sub(a, b) == sm2_bn_sub(a, b)
\* r = zl - q * n, modulo (2^w)^9, its ninth limb moved into the eighth.
Remainder(z, q) ==
  LET zl == SubSeq(z, 1, 9)
      qn == SubSeq(MulWords(q, SmN), 1, 9)
      c == <<0, 0, 0, 0, 0, 0, 0, 0, 2^SmW>>
      r == IF sm2_bn_cmp(zl, qn) # 0 THEN sm2_bn288_sub(zl, qn) ELSE sm2_bn_add(sm2_bn288_sub(c, qn), zl)
  IN  [SubSeq(r, 1, 8) EXCEPT ![8] = SmWord(@ + r[9] * 2^SmW)]
ReduceScalar(r) == Subtracted(r, SmN)
sm2_fn_mul(a, b) == LET z == MulWords(a, b) IN ReduceScalar(Remainder(z, Quotient(z)))

-----------------------------------------------------------------------------

SmNumbersNext ==
  \/ Fresh /\ \E p \in SmPairs :
       Call("sm2_fp", p, [add |-> sm2_fp_add(p[1], p[2]), sub |-> sm2_fp_sub(p[1], p[2]),
                          mul |-> sm2_fp_mul(p[1], p[2]), neg |-> sm2_fp_neg(p[1]),
                          tri |-> sm2_fp_tri(p[1]), half |-> sm2_fp_div2(p[2]),
                          bits |-> sm2_bn_to_bits(p[1]), back |-> sm2_bn_from_bytes(sm2_bn_to_bytes(p[1]))])
  \/ Fresh /\ \E p \in SmScalarPairs :
       Call("sm2_fn", p, [add |-> sm2_fn_add(p[1], p[2]), sub |-> sm2_fn_sub(p[1], p[2]),
                          mul |-> sm2_fn_mul(p[1], p[2]), neg |-> sm2_fn_neg(p[1])])

-----------------------------------------------------------------------------

\* The product of x and y below q, in pieces that fit TLC's integers.
MulMod(x, y, q) == (((x * (y \div 1024)) % q) * 1024 + x * (y % 1024)) % q
SmResidue(x, q) == ValueMod(x, SmW, q)
Reduced(x, m) == /\ \A k \in DOMAIN x : x[k] \in 0..Full
                 /\ sm2_bn_cmp(x, m) < 0

\* The field operations give the residue they should, below p.
FieldResults(in, out) ==
  /\ \A q \in SmPFactors :
       LET a == SmResidue(in[1], q)
           b == SmResidue(in[2], q)
       IN  /\ SmResidue(out.add, q) = (a + b) % q /\ SmResidue(out.sub, q) = (a - b) % q
           /\ SmResidue(out.mul, q) = MulMod(a, b, q) /\ SmResidue(out.neg, q) = (0 - a) % q
           /\ SmResidue(out.tri, q) = (3 * a) % q /\ (2 * SmResidue(out.half, q)) % q = b
  /\ \A x \in {out.add, out.sub, out.mul, out.neg, out.tri, out.half} : Reduced(x, SmP)
  /\ out.back = in[1] /\ Digit(Reverse(out.bits), 1, SmW) = in[1][1]
SmFieldArithmetic == Of("sm2_fp", FieldResults)

\* No limb above the eighth of the product of a and b is full.  (One that is makes
\* the top limb of mu overflow the word: see BarrettQuotient.)
QuotientFits(a, b) == \A k \in 9..16 : MulWords(a, b)[k] # Full

\* The scalar operations give the residue they should, below n.
ScalarResults(in, out) ==
  /\ \A q \in SmNFactors :
       LET a == SmResidue(in[1], q)
           b == SmResidue(in[2], q)
       IN  /\ SmResidue(out.add, q) = (a + b) % q /\ SmResidue(out.sub, q) = (a - b) % q
           /\ SmResidue(out.neg, q) = (0 - a) % q
           /\ QuotientFits(in[1], in[2]) => SmResidue(out.mul, q) = MulMod(a, b, q)
  /\ \A x \in {out.add, out.sub, out.neg} : Reduced(x, SmN)
  /\ QuotientFits(in[1], in[2]) => Reduced(out.mul, SmN)
SmScalarArithmetic == Of("sm2_fn", ScalarResults)

\* The comment in sm2_fn_mul: "q = zh * mu // (2^32)^9", for every product of two
\* scalars.
WideProduct(x, y) == Carried(Tuple([k \in 1..(Len(x) + Len(y) + 1) |-> Column(x, y, k - 1)]), SmW)
BarrettQuotient ==
  Of("sm2_fn", LAMBDA in, out :
       LET z == MulWords(in[1], in[2])
       IN  Quotient(z) = SubSeq(WideProduct(SubSeq(z, 8, 16), SmMu), 10, 17))
=============================================================================
