------------------------------- MODULE Scalar -------------------------------
(***************************************************************************)
(* Scalars of secp256k1 modulo the group order n = 2^bits - N_C, kept      *)
(* reduced, in limbs.  The operators take the representation s and serve   *)
(* both the eight limbs of 32 bits and the four of 64; here they are used  *)
(* for the former, with narrower limbs.                                    *)
(***************************************************************************)
EXTENDS Calls, Limbs

CONSTANTS
  S32,            \* the representation: limbs, w (the bits of a limb), c (the limbs
                  \* of N_C, the last of them 1), byte, factors (of n, coprime)
  Sc32, ScPairs32 \* bounds: the scalars, and the pairs, the operations are called with

Limb(s) == 2^s.w
NC(s, k) == IF k <= Len(s.c) THEN s.c[k] ELSE 0
N(s) == Tuple([k \in 1..s.limbs |-> Limb(s) - NC(s, k) - (IF k = 1 THEN 0 ELSE 1)])
\* n shifted right by one.
NH(s) == Tuple([k \in 1..s.limbs |-> N(s)[k] \div 2 +
                  (IF k = s.limbs THEN 0 ELSE (N(s)[k + 1] % 2) * (Limb(s) \div 2))])

Modulo(s, t) == Tuple([k \in 1..s.limbs |-> t[k]])
\* Carries through the limbs and out of the top one.
Limbs1(s, t) == Carried(Append(t, 0), s.w)

scalar_check_overflow(s, d) == IF CompareLimbs(d, N(s)) >= 0 THEN 1 ELSE 0
scalar_reduce(s, d, overflow) ==
  Modulo(s, Limbs1(s, Tuple([k \in 1..s.limbs |-> d[k] + overflow * NC(s, k)])))

scalar_set_int(s, v) == Tuple(<<v>> \o Zeros(s.limbs - 1))
scalar_is_zero(d) == IsZeroLimbs(d)
scalar_is_one(s, d) == d = scalar_set_int(s, 1)
scalar_is_high(s, d) == CompareLimbs(d, NH(s)) > 0
scalar_eq(a, b) == a = b

\* Bits of one limb, and of two neighbours.
scalar_get_bits(s, d, offset, count) == (d[offset \div s.w + 1] \div 2^(offset % s.w)) % 2^count
scalar_get_bits_var(s, d, offset, count) ==
  LET at == offset \div s.w + 1
  IN  IF (offset + count - 1) \div s.w = offset \div s.w
        THEN scalar_get_bits(s, d, offset, count)
        ELSE (d[at] \div 2^(offset % s.w) + (d[at + 1] * 2^(s.w - (offset % s.w)))) % 2^count

\* The carry out of the top limb, or a sum of n or more: n is subtracted once.
scalar_add(s, a, b) ==
  LET t == Limbs1(s, Tuple([k \in 1..s.limbs |-> a[k] + b[k]]))
      over == t[s.limbs + 1] + scalar_check_overflow(s, Modulo(s, t))
  IN  [overflow |-> over, d |-> scalar_reduce(s, Modulo(s, t), over)]

\* 2^bit is added when flag is set; the caller knows that the sum stays below n.
scalar_cadd_bit(s, d, bit, flag) ==
  Modulo(s, Limbs1(s, Tuple([k \in 1..s.limbs |->
    d[k] + (IF flag /\ bit \div s.w = k - 1 THEN 2^(bit % s.w) ELSE 0)])))

scalar_set_b32(s, bytes) ==
  LET d == Regroup(Reverse(bytes), s.byte, s.w, s.limbs)
      over == scalar_check_overflow(s, d)
  IN  [overflow |-> over, d |-> scalar_reduce(s, d, over)]
scalar_get_b32(s, d) == Reverse(Regroup(d, s.w, s.byte, (s.w * s.limbs) \div s.byte))

\* n - d by complement; zero stays zero.
scalar_negate(s, d) ==
  IF scalar_is_zero(d) THEN Zeros(s.limbs)
  ELSE Modulo(s, Limbs1(s, Tuple([k \in 1..s.limbs |->
         (Limb(s) - 1 - d[k]) + N(s)[k] + (IF k = 1 THEN 1 ELSE 0)])))
scalar_cond_negate(s, d, flag) ==
  [ret |-> IF flag THEN -1 ELSE 1, d |-> IF flag THEN scalar_negate(s, d) ELSE d]

-----------------------------------------------------------------------------
(* Multiplication.                                                         *)

\* A row of n columns, extracted one limb at a time from an accumulator of
\* three limbs; what is left of it goes to the last limb with its own column.
Extracted(s, col, n) ==
  LET step(acc, k) == LET c == (acc.c + col[k - 1]) % 2^(3 * s.w)
                      IN  [c |-> c \div Limb(s), out |-> Append(acc.out, c % Limb(s))]
      r == Fold(step, [c |-> 0, out |-> <<>>], UpTo(n))
  IN  Append(r.out, (r.c + col[n]) % Limb(s))
scalar_mul_512(s, a, b) == Extracted(s, [k \in 0..(2 * s.limbs - 1) |-> Column(a, b, k)], 2 * s.limbs - 1)
\* Each pair of limbs once, by muladd2.
scalar_sqr_512(s, a) ==
  Extracted(s, [k \in 0..(2 * s.limbs - 1) |-> SumOf(Tuple([i \in 1..s.limbs |->
      LET j == k - i + 2
      IN  IF j \notin 1..s.limbs \/ j < i THEN 0
          ELSE IF i = j THEN a[i] * a[i] ELSE 2 * a[i] * a[j]]))], 2 * s.limbs - 1)

\* low + high * N_C in n + 1 limbs.
FoldHigh(s, l, n) ==
  LET high == SubSeq(l, s.limbs + 1, Len(l))
      low(k) == IF k < s.limbs THEN l[k + 1] ELSE 0
  IN  Extracted(s, [k \in 0..n |-> low(k) + Column(high, s.c, k)], n)
\* The last fold of what is above the limbs, and the final subtraction of n.
LastFold(s, p) ==
  LET t == Limbs1(s, Tuple([k \in 1..s.limbs |-> p[k] + NC(s, k) * p[s.limbs + 1]]))
  IN  scalar_reduce(s, Modulo(s, t), t[s.limbs + 1] + scalar_check_overflow(s, Modulo(s, t)))
\* Twice the limbs are folded to half as many again and one, then to one more
\* than the limbs (which holds at most 2), then to the limbs.
scalar_reduce_512(s, l) ==
  LET m == FoldHigh(s, l, s.limbs + Len(s.c) - 1)
      p == FoldHigh(s, m, s.limbs)
  IN  LastFold(s, p)

scalar_mul(s, a, b) == scalar_reduce_512(s, scalar_mul_512(s, a, b))
scalar_sqr(s, a) == scalar_reduce_512(s, scalar_sqr_512(s, a))

\* The low n bits leave, the rest moves down.
scalar_shr_int(s, d, n) ==
  [ret |-> d[1] % 2^n,
   d |-> Tuple([k \in 1..s.limbs |-> d[k] \div 2^n +
           (IF k = s.limbs THEN 0 ELSE (d[k + 1] * 2^(s.w - n)) % Limb(s))])]
scalar_split_128(s, d) ==
  LET h == s.limbs \div 2
  IN  <<SubSeq(d, 1, h) \o Zeros(h), SubSeq(d, h + 1, s.limbs) \o Zeros(h)>>

\* The product shifted right, rounded by the highest bit that leaves.
scalar_mul_shift_var(s, a, b, shift) ==
  LET l == scalar_mul_512(s, a, b)
      sl == shift \div s.w
      low == shift % s.w
      at(k) == IF k <= 2 * s.limbs THEN l[k] ELSE 0
      d == Tuple([k \in 1..s.limbs |-> (at(k + sl) \div 2^low) +
                    (IF low = 0 THEN 0 ELSE (at(k + sl + 1) * 2^(s.w - low)) % Limb(s))])
  IN  scalar_cadd_bit(s, d, 0, (l[(shift - 1) \div s.w + 1] \div 2^((shift - 1) % s.w)) % 2 = 1)

-----------------------------------------------------------------------------

ScalarUnary(op, s, d) ==
  Call(op, [s |-> s, d |-> d],
       [negated |-> scalar_negate(s, d), flagged |-> scalar_cond_negate(s, d, TRUE),
        square |-> scalar_sqr(s, d), high |-> scalar_is_high(s, d), zero |-> scalar_is_zero(d),
        one |-> scalar_is_one(s, d),
        bytes |-> scalar_set_b32(s, scalar_get_b32(s, d)),
        above |-> scalar_set_b32(s, scalar_get_b32(s, Tuple([k \in 1..s.limbs |-> Limb(s) - 1 - d[k]]))),
        window |-> [o \in 0..(s.w * s.limbs - 3) |-> scalar_get_bits_var(s, d, o, 3)],
        shifted |-> scalar_shr_int(s, d, s.w \div 2), halves |-> scalar_split_128(s, d)])
ScalarBinary(op, s, a, b, shift) ==
  Call(op, [s |-> s, a |-> a, b |-> b, shift |-> shift],
       [sum |-> scalar_add(s, a, b), product |-> scalar_mul(s, a, b), eq |-> scalar_eq(a, b),
        wide |-> scalar_mul_512(s, a, b), rounded |-> scalar_mul_shift_var(s, a, b, shift)])

ScalarNext ==
  Fresh /\ (\/ \E d \in Sc32 : ScalarUnary("sc32", S32, d)
            \/ \E e \in ScPairs32, x \in 0..3 :
                 ScalarBinary("sc32_two", S32, e[1], e[2], S32.w * S32.limbs + x))

-----------------------------------------------------------------------------
(* Properties.                                                             *)

Below(s, d) == (\A k \in 1..s.limbs : d[k] \in 0..(Limb(s) - 1)) /\ CompareLimbs(d, N(s)) < 0
Equals(s, d, v(_)) == \A q \in s.factors : (ValueMod(d, s.w, q) - v(q)) % q = 0

\* Every operation returns a number below n, of the residue it should have: a
\* scalar has one representation, whatever carries and subtractions led to it.
ScalarUnaryRight(in, out) ==
  LET s == in.s
      v(q) == ValueMod(in.d, s.w, q)
  IN  /\ Below(s, out.negated) /\ Equals(s, out.negated, LAMBDA q : -v(q))
      /\ out.flagged = [ret |-> -1, d |-> out.negated]
      /\ Below(s, out.square) /\ Equals(s, out.square, LAMBDA q : v(q) * v(q))
      /\ ~out.zero => (out.high # scalar_is_high(s, out.negated))
      /\ out.bytes = [overflow |-> 0, d |-> in.d]
      /\ Below(s, out.above.d)
ScalarBinaryRight(in, out) ==
  LET s == in.s
      a(q) == ValueMod(in.a, s.w, q)
      b(q) == ValueMod(in.b, s.w, q)
  IN  /\ Below(s, out.sum.d) /\ Equals(s, out.sum.d, LAMBDA q : a(q) + b(q))
      /\ Below(s, out.product) /\ Equals(s, out.product, LAMBDA q : a(q) * b(q))
ScalarArithmetic == Of("sc32", ScalarUnaryRight) /\ Of("sc32_two", ScalarBinaryRight)

\* Bits taken across limbs, halves and shifts are those of the number, and the
\* rounded quotient is off by at most half: twice the remainder is at most 2^shift.
ScalarBitsRight(in, out) ==
  LET s == in.s
      bits == BitsOf(in.d, s.w)
      bit(k) == IF k <= Len(bits) THEN bits[k] ELSE 0
      half == (s.w * s.limbs) \div 2
  IN  /\ \A o \in DOMAIN out.window :
           out.window[o] = bit(o + 1) + 2 * bit(o + 2) + 4 * bit(o + 3)
      /\ \A k \in 1..Len(bits) : BitsOf(out.shifted.d, s.w)[k] = bit(k + s.w \div 2)
      /\ out.shifted.ret = SumOf(Tuple([k \in 1..(s.w \div 2) |-> bit(k) * 2^(k - 1)]))
      /\ \A k \in 1..half : /\ BitsOf(out.halves[1], s.w)[k] = bit(k)
                            /\ BitsOf(out.halves[2], s.w)[k] = bit(half + k)
ScalarRounded(in, out) ==
  LET s == in.s
      n == 2 * s.limbs * s.w
      half == Tuple([k \in 1..n |-> IF k = in.shift THEN 1 ELSE 0])
      exact == AddLimbs(BitsOf(out.wide, s.w), half, 1, n + 1)
  IN  BitsOf(out.rounded, s.w) = [k \in 1..(s.w * s.limbs) |->
                                    IF k + in.shift <= n + 1 THEN exact[k + in.shift] ELSE 0]
ScalarBits == Of("sc32", ScalarBitsRight) /\ Of("sc32_two", ScalarRounded)

-----------------------------------------------------------------------------
(* Scalars in four limbs (of 64 bits in the code): N_C has three limbs, so *)
(* that the first fold of a product leaves seven limbs and the second one  *)
(* five, and every carry chain is half as long.                            *)

CONSTANTS S64, Sc64, ScPairs64

sc64_N == N(S64)
sc64_NH == NH(S64)
sc64_set_int(v) == scalar_set_int(S64, v)
sc64_get_bits(d, offset, count) == scalar_get_bits(S64, d, offset, count)
sc64_get_bits_var(d, offset, count) == scalar_get_bits_var(S64, d, offset, count)
sc64_check_overflow(d) == scalar_check_overflow(S64, d)
sc64_reduce(d, overflow) == scalar_reduce(S64, d, overflow)
sc64_add(a, b) == scalar_add(S64, a, b)
sc64_cadd_bit(d, bit, flag) == scalar_cadd_bit(S64, d, bit, flag)
sc64_set_b32(bytes) == scalar_set_b32(S64, bytes)
sc64_get_b32(d) == scalar_get_b32(S64, d)
sc64_is_zero(d) == scalar_is_zero(d)
sc64_negate(d) == scalar_negate(S64, d)
sc64_is_one(d) == scalar_is_one(S64, d)
sc64_is_high(d) == scalar_is_high(S64, d)
sc64_cond_negate(d, flag) == scalar_cond_negate(S64, d, flag)
sc64_mul_512(a, b) == scalar_mul_512(S64, a, b)
sc64_sqr_512(a) == scalar_sqr_512(S64, a)
sc64_reduce_512(l) == scalar_reduce_512(S64, l)
sc64_mul(a, b) == sc64_reduce_512(sc64_mul_512(a, b))
sc64_sqr(a) == sc64_reduce_512(sc64_sqr_512(a))
sc64_shr_int(d, n) == scalar_shr_int(S64, d, n)
sc64_split_128(d) == scalar_split_128(S64, d)
sc64_eq(a, b) == scalar_eq(a, b)
sc64_mul_shift_var(a, b, shift) == scalar_mul_shift_var(S64, a, b, shift)

-----------------------------------------------------------------------------

Unary64(d) ==
  Call("sc64", [s |-> S64, d |-> d],
       [negated |-> sc64_negate(d), flagged |-> sc64_cond_negate(d, TRUE),
        square |-> sc64_sqr(d), high |-> sc64_is_high(d), zero |-> sc64_is_zero(d),
        one |-> sc64_is_one(d), bytes |-> sc64_set_b32(sc64_get_b32(d)),
        above |-> sc64_set_b32(sc64_get_b32(Tuple([k \in 1..S64.limbs |-> Limb(S64) - 1 - d[k]]))),
        window |-> [o \in 0..(S64.w * S64.limbs - 3) |-> sc64_get_bits_var(d, o, 3)],
        shifted |-> sc64_shr_int(d, S64.w \div 2), halves |-> sc64_split_128(d),
        order |-> sc64_reduce(sc64_N, sc64_check_overflow(sc64_N)),
        next |-> sc64_cadd_bit(sc64_NH, 0, TRUE), low |-> sc64_get_bits(d, 0, 3)])
Binary64(a, b, shift) ==
  Call("sc64_two", [s |-> S64, a |-> a, b |-> b, shift |-> shift],
       [sum |-> sc64_add(a, b), product |-> sc64_mul(a, b), eq |-> sc64_eq(a, b),
        wide |-> sc64_mul_512(a, b), rounded |-> sc64_mul_shift_var(a, b, shift)])
Scalar64Next ==
  Fresh /\ (\/ \E d \in Sc64 : Unary64(d)
            \/ \E e \in ScPairs64, x \in 0..3 : Binary64(e[1], e[2], S64.w * S64.limbs + x))

\* n itself reduces to zero, n / 2 is the last scalar that is not high, and a
\* window within one limb is the same by either way to take it.
EdgesRight(in, out) ==
  /\ out.order = sc64_set_int(0)
  /\ ~sc64_is_high(sc64_NH) /\ sc64_is_high(out.next)
  /\ out.low = out.window[0]
\* The arithmetic of the four limbs: one representation, of the right residue.
Scalar64Arithmetic ==
  /\ Of("sc64", ScalarUnaryRight) /\ Of("sc64", EdgesRight)
  /\ Of("sc64_two", ScalarBinaryRight)
\* Windows, shifts, halves and rounded products of the four limbs.
Scalar64Bits == Of("sc64", ScalarBitsRight) /\ Of("sc64_two", ScalarRounded)
=============================================================================
