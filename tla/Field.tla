------------------------------- MODULE Field -------------------------------
(***************************************************************************)
(* Field elements of secp256k1 in limbs that are reduced late: a limb may  *)
(* exceed its width by the element's magnitude, and an element stands for  *)
(* its value modulo p = 2^bits - r.  The operators take the representation *)
(* f, so that they serve both the ten limbs of 26 bits and the five limbs  *)
(* of 52; here they are used for the former, with fewer and narrower limbs *)
(* (the arithmetic is the same, the numbers are small enough for TLC).     *)
(***************************************************************************)
EXTENDS Calls, Limbs

CONSTANTS
  F26,            \* the representation: limbs, w and top (the bits of a limb and
                  \* of the top limb), r (what 2^bits is congruent to, per limb),
                  \* word and acc (bits of a limb's and of an accumulator's type),
                  \* byte and store (bits of a byte and of a storage word), maxmag
                  \* and mulmag (32 and 8 in the code), factors (of p, coprime)
  Fe26, Pairs26   \* bounds: the elements, and the pairs, the operations are called with

Shift(f) == f.w - f.top
LimbMask(f) == 2^f.w - 1
TopMask(f) == 2^f.top - 1
TotalBits(f) == f.w * (f.limbs - 1) + f.top
RAt(f, k) == IF k <= Len(f.r) THEN f.r[k] ELSE 0
Mask(f, k) == IF k = f.limbs THEN TopMask(f) ELSE LimbMask(f)
Fe(n, mag, norm) == [n |-> n, mag |-> mag, norm |-> norm]

\* The limbs of p: every limb full, less r with its borrow in the low limbs.
PLimb(f, k) == IF k = 1 THEN Mask(f, k) + 1 - RAt(f, 1) ELSE Mask(f, k) - RAt(f, k)
PLimbs(f) == Tuple([k \in 1..f.limbs |-> PLimb(f, k)])

\* The raw value of reduced limbs is at least p.
AtLeastP(f, t) ==
  LET j == Len(f.r)
      carry == Fold(LAMBDA c, k : (t[k] + f.r[k] + c) \div 2^f.w, 0, UpTo(j))
  IN  carry > 0 /\ \A k \in (j + 1)..f.limbs : t[k] = Mask(f, k)

\* What the VERIFY build asserts of every element.
fe_verify(f, a) ==
  LET m == IF a.norm THEN 1 ELSE 2 * a.mag
  IN  /\ \A k \in 1..f.limbs : a.n[k] \in 0..(m * Mask(f, k))
      /\ a.mag \in 0..f.maxmag
      /\ a.norm => a.mag <= 1 /\ ~AtLeastP(f, a.n)

-----------------------------------------------------------------------------
(* Reduction.                                                              *)

FoldTop(f, t, x) ==
  Tuple([k \in 1..f.limbs |-> ((IF k = f.limbs THEN t[k] % 2^f.top ELSE t[k]) + x * RAt(f, k)) % 2^f.word])
\* What is above the top limb is folded into the low limbs, and carried up again.
FirstPass(f, t) == Carried(FoldTop(f, t, t[f.limbs] \div 2^f.top), f.w)

\* One more multiple of p is to be taken off.
MustReduce(f, t) ==
  IF t[f.limbs] \div 2^f.top > 0 \/ AtLeastP(f, t) THEN 1 ELSE 0
FinalReduction(f, t, x) ==
  LET c == Carried(Tuple([k \in 1..f.limbs |-> t[k] + x * RAt(f, k)]), f.w)
  IN  Append(Front(c), Last(c) % 2^f.top)

fe_normalize(f, a) ==
  LET t == FirstPass(f, a.n) IN Fe(FinalReduction(f, t, MustReduce(f, t)), 1, TRUE)
fe_normalize_weak(f, a) == Fe(FirstPass(f, a.n), 1, a.norm)
\* The variable-time form skips the final reduction when there is none.
fe_normalize_var(f, a) ==
  LET t == FirstPass(f, a.n)
  IN  Fe(IF MustReduce(f, t) = 1 THEN FinalReduction(f, t, 1) ELSE t, 1, TRUE)

IsRawZeroOrP(f, t) == IsZeroLimbs(t) \/ t = PLimbs(f)
fe_normalizes_to_zero(f, a) == IsRawZeroOrP(f, FirstPass(f, a.n))
\* An early answer from the lowest limb alone.
fe_normalizes_to_zero_var(f, a) ==
  LET low == (a.n[1] + (a.n[f.limbs] \div 2^f.top) * f.r[1]) % 2^f.w
  IN  low \in {0, PLimb(f, 1)} /\ IsRawZeroOrP(f, FirstPass(f, a.n))

-----------------------------------------------------------------------------
(* Construction, comparison and storage.                                   *)

fe_set_int(f, v) == Fe(<<v>> \o Zeros(f.limbs - 1), 1, TRUE)
fe_clear(f) == Fe(Zeros(f.limbs), 0, TRUE)
fe_is_zero(a) == IsZeroLimbs(a.n)
fe_is_odd(a) == a.n[1] % 2 = 1
fe_cmp_var(a, b) == CompareLimbs(a.n, b.n)

\* Bytes, the highest first.  A number of p or more is refused.
fe_set_b32(f, bytes) ==
  LET n == Regroup(Reverse(bytes), f.byte, f.w, f.limbs)
  IN  [ret |-> IF AtLeastP(f, n) THEN 0 ELSE 1, fe |-> Fe(n, 1, ~AtLeastP(f, n))]
fe_get_b32(f, a) ==
  Reverse(Regroup(a.n, f.w, f.byte, TotalBits(f) \div f.byte))

fe_to_storage(f, a) == Regroup(a.n, f.w, f.store, TotalBits(f) \div f.store)
fe_from_storage(f, s) == Fe(Regroup(s, f.store, f.w, f.limbs), 1, TRUE)
fe_storage_cmov(r, a, flag) == IF flag THEN a ELSE r
\* The magnitude is the larger one whichever is taken.
fe_cmov(r, a, flag) ==
  Fe(IF flag THEN a.n ELSE r.n, IF a.mag > r.mag THEN a.mag ELSE r.mag, r.norm /\ a.norm)

-----------------------------------------------------------------------------
(* Arithmetic.                                                             *)

\* 2 (m + 1) p - a, limb by limb: no limb underflows when a's magnitude is at most m.
fe_negate(f, a, m) ==
  Fe(Tuple([k \in 1..f.limbs |-> (PLimb(f, k) * 2 * (m + 1) - a.n[k]) % 2^f.word]), m + 1, FALSE)
fe_mul_int(f, a, v) ==
  Fe(Tuple([k \in 1..f.limbs |-> (a.n[k] * v) % 2^f.word]), a.mag * v, FALSE)
fe_add(f, r, a) ==
  Fe(Tuple([k \in 1..f.limbs |-> (r.n[k] + a.n[k]) % 2^f.word]), r.mag + a.mag, FALSE)

Acc(f, x) == x % 2^f.acc
\* One of the unrolled rounds: low column k in c, high column in d.  The digit u
\* that leaves d is folded in with r, shifted as it stands for 2^(w * limbs).
MulRound(f, col, s, k) ==
  LET d == Acc(f, s.d + col[f.limbs + k])
      u == d % 2^f.w
      c == Acc(f, Acc(f, s.c + col[k]) + u * (RAt(f, 1) * 2^Shift(f)))
  IN  [d |-> d \div 2^f.w, t |-> Append(s.t, c % 2^f.w),
       c |-> Acc(f, c \div 2^f.w + u * (RAt(f, 2) * 2^Shift(f)))]

\* The rest of d and what exceeds the top limb go to the two lowest limbs; the
\* third one takes the last carry.
MulFinish(f, s, t9) ==
  LET S == 2^Shift(f)
      c1 == Acc(f, s.c + s.d * (RAt(f, 1) * S) + t9)
      c2 == Acc(f, c1 \div 2^f.top + s.d * (RAt(f, 2) * S * S))
      d0 == Acc(f, c2 * RAt(f, 1) + s.t[1])
      d1 == Acc(f, d0 \div 2^f.w + c2 * RAt(f, 2) + s.t[2])
  IN  <<d0 % 2^f.w, d1 % 2^f.w, d1 \div 2^f.w + s.t[3]>> \o SubSeq(s.t, 4, f.limbs - 1)
        \o <<c1 % 2^f.top>>

\* col is the columns of the product, from 0.
MulColumns(f, col) ==
  LET d == Acc(f, col[f.limbs - 1])
      s == Fold(LAMBDA acc, k : MulRound(f, col, acc, k),
                    [c |-> 0, d |-> d \div 2^f.w, t |-> <<>>], [k \in 1..(f.limbs - 1) |-> k - 1])
  IN  MulFinish(f, s, d % 2^f.w)

fe_mul_inner(f, a, b) == MulColumns(f, [k \in 0..(2 * f.limbs - 2) |-> Column(a, b, k)])
\* Each pair of limbs of a square once, doubled.
SquareColumn(a, k) ==
  SumOf([i \in 1..Len(a) |->
           LET j == k - i + 2
           IN  CASE j \notin 1..Len(a) \/ j < i -> 0
                 [] i = j -> a[i] * a[i]
                 [] OTHER -> (a[i] * 2) * a[j]])
fe_sqr_inner(f, a) == MulColumns(f, [k \in 0..(2 * f.limbs - 2) |-> SquareColumn(a, k)])

fe_mul(f, a, b) == Fe(fe_mul_inner(f, a.n, b.n), 1, FALSE)
fe_sqr(f, a) == Fe(fe_sqr_inner(f, a.n), 1, FALSE)

fe_equal(f, a, b) == fe_normalizes_to_zero(f, fe_add(f, fe_negate(f, a, 1), b))
fe_equal_var(f, a, b) == fe_normalizes_to_zero_var(f, fe_add(f, fe_negate(f, a, 1), b))

-----------------------------------------------------------------------------
(* Calls on elements the VERIFY build admits, with the magnitudes the      *)
(* callers must respect.                                                   *)

FieldUnary(op, f, a) ==
  Call(op, [f |-> f, a |-> a],
       [normal |-> fe_normalize(f, a), weak |-> fe_normalize_weak(f, a),
        normal_var |-> fe_normalize_var(f, a),
        zero |-> {fe_normalizes_to_zero(f, a), fe_normalizes_to_zero_var(f, a)},
        negated |-> IF a.mag < f.maxmag THEN <<fe_negate(f, a, a.mag)>> ELSE <<>>,
        tripled |-> IF 3 * a.mag <= f.maxmag THEN <<fe_mul_int(f, a, 3)>> ELSE <<>>])

FieldBinary(op, f, a, b) ==
  Call(op, [f |-> f, a |-> a, b |-> b],
       [sum |-> fe_add(f, a, b), product |-> fe_mul(f, a, b), square |-> fe_sqr(f, a),
        moved |-> <<fe_cmov(a, b, FALSE), fe_cmov(a, b, TRUE)>>,
        equal |-> {fe_equal(f, a, b), fe_equal_var(f, a, b)},
        cmp |-> fe_cmp_var(fe_normalize(f, a), fe_normalize(f, b))])

FieldStored(op, f, a) ==
  LET n == fe_normalize(f, a)
      stored == fe_to_storage(f, n)
  IN  Call(op, [f |-> f, a |-> a],
           [fe |-> n, read |-> fe_set_b32(f, fe_get_b32(f, n)), loaded |-> fe_from_storage(f, stored),
            kept |-> fe_storage_cmov(stored, fe_to_storage(f, fe_clear(f)), FALSE) = stored,
            isZero |-> fe_is_zero(n), odd |-> fe_is_odd(n),
            above |-> fe_set_b32(f, fe_get_b32(f, Fe(a.n, 1, FALSE)))])

FieldNext ==
  Fresh /\ (\/ \E a \in Fe26 : FieldUnary("fe26", F26, a) \/ FieldStored("fe26_store", F26, a)
            \/ \E e \in Pairs26 : FieldBinary("fe26_two", F26, e[1], e[2]))

-----------------------------------------------------------------------------
(* Properties.                                                             *)

Residue(f, a, q) == ValueMod(a.n, f.w, q)
Congruent(f, a, b) == \A q \in f.factors : Residue(f, a, q) = Residue(f, b, q)
IsResidue(f, a, v(_)) == \A q \in f.factors : (Residue(f, a, q) - v(q)) % q = 0
Admitted(f, a) == fe_verify(f, a)

\* Every way to normalise an element gives limbs that the checks of the VERIFY
\* build admit, of the same residue; fully normalised, the same limbs whichever
\* way, below p, and zero exactly for the residue zero.
NormalForm(in, out) ==
  /\ Admitted(in.f, out.normal) /\ Congruent(in.f, out.normal, in.a)
  /\ out.normal_var = out.normal
  /\ Admitted(in.f, out.weak) /\ Congruent(in.f, out.weak, in.a)
  /\ out.zero = {IsResidue(in.f, in.a, LAMBDA q : 0)}
  /\ fe_is_zero(out.normal) \in out.zero
FieldNormalForm == Of("fe26", NormalForm)

\* The sum, product, square, negation and small multiple of elements within the
\* magnitudes the code allows have the right residue, and no limb and no
\* accumulator overflows: the result is admitted with the magnitude announced.
UnaryRight(in, out) ==
  /\ \A k \in DOMAIN out.negated : /\ Admitted(in.f, out.negated[k])
                                   /\ IsResidue(in.f, out.negated[k], LAMBDA q : -Residue(in.f, in.a, q))
  /\ \A k \in DOMAIN out.tripled : /\ Admitted(in.f, out.tripled[k])
                                   /\ IsResidue(in.f, out.tripled[k], LAMBDA q : 3 * Residue(in.f, in.a, q))
BinaryRight(in, out) ==
  LET a(q) == Residue(in.f, in.a, q)
      b(q) == Residue(in.f, in.b, q)
  IN  /\ Admitted(in.f, out.sum) /\ IsResidue(in.f, out.sum, LAMBDA q : a(q) + b(q))
      /\ Admitted(in.f, out.product) /\ IsResidue(in.f, out.product, LAMBDA q : a(q) * b(q))
      /\ Admitted(in.f, out.square) /\ IsResidue(in.f, out.square, LAMBDA q : a(q) * a(q))
      /\ Admitted(in.f, out.moved[1]) /\ Congruent(in.f, out.moved[1], in.a)
      /\ Admitted(in.f, out.moved[2]) /\ Congruent(in.f, out.moved[2], in.b)
      /\ out.equal = {Congruent(in.f, in.a, in.b)}
      /\ (out.cmp = 0) = Congruent(in.f, in.a, in.b)
FieldArithmetic == Of("fe26", UnaryRight) /\ Of("fe26_two", BinaryRight)

\* What is stored, in bytes or in words, is read back as it was; a number of p
\* or more is refused when read from bytes and every smaller one is accepted.
StoredRight(in, out) ==
  /\ out.read = [ret |-> 1, fe |-> out.fe]
  /\ out.loaded = out.fe /\ out.kept
  /\ out.above.ret = 1 <=> fe_normalize(in.f, out.above.fe).n = out.above.fe.n
FieldStorage == Of("fe26_store", StoredRight)

-----------------------------------------------------------------------------
(* Field elements in five limbs (of 52 bits in the code): the same late    *)
(* reduction, r within one limb, and a multiplication of its own.          *)

CONSTANTS F52, Fe52, Pairs52

fe52_verify(a) == fe_verify(F52, a)
fe52_normalize(a) == fe_normalize(F52, a)
fe52_normalize_weak(a) == fe_normalize_weak(F52, a)
fe52_normalize_var(a) == fe_normalize_var(F52, a)
fe52_normalizes_to_zero(a) == fe_normalizes_to_zero(F52, a)
fe52_normalizes_to_zero_var(a) == fe_normalizes_to_zero_var(F52, a)
fe52_set_b32(bytes) == fe_set_b32(F52, bytes)
fe52_get_b32(a) == fe_get_b32(F52, a)
fe52_to_storage(a) == fe_to_storage(F52, a)
fe52_from_storage(s) == fe_from_storage(F52, s)
fe52_negate(a, m) == fe_negate(F52, a, m)
fe52_mul_int(a, v) == fe_mul_int(F52, a, v)
fe52_add(r, a) == fe_add(F52, r, a)
fe52_cmov(r, a, flag) == fe_cmov(r, a, flag)

\* From the columns of the product: the columns 3 and 8, 4, 5 with 0, 6 with 1, 7
\* with 2; R stands for 2^(5 w), so the digit that exceeds the top limb (tx, with
\* u0) is multiplied by R shifted back.
W == 2^F52.w
R == F52.r[1] * 2^Shift(F52)
A(x) == Acc(F52, x)
Mul52(col) ==
  LET d3 == A(A(col[3]) + (A(col[8]) % W) * R)
      d4 == A(A(d3 \div W + col[4]) + (A(col[8]) \div W) * R)
      t4 == d4 % W
      d5 == A(d4 \div W + col[5])
      u0 == (d5 % W) * 2^Shift(F52) + t4 \div 2^F52.top
      c0 == A(col[0] + u0 * F52.r[1])
      d6 == A(d5 \div W + col[6])
      c1 == A(c0 \div W + col[1] + (d6 % W) * R)
      d7 == A(d6 \div W + col[7])
      c2 == A(c1 \div W + col[2] + (d7 % W) * R)
      c3 == A(c2 \div W + (d7 \div W) * R + (d3 % W))
  IN  <<c0 % W, c1 % W, c2 % W, c3 % W, c3 \div W + (t4 % 2^F52.top)>>
\* The square: a4 and a0 are doubled on the way instead of the products.
Square52(a) ==
  LET double(i) == a[i + 1] * 2
      at(i) == a[i + 1]
  IN  Mul52([k \in 0..8 |->
        CASE k = 0 -> at(0) * at(0)
          [] k = 1 -> double(0) * at(1)
          [] k = 2 -> double(0) * at(2) + at(1) * at(1)
          [] k = 3 -> double(0) * at(3) + double(1) * at(2)
          [] k = 4 -> at(0) * double(4) + double(1) * at(3) + at(2) * at(2)
          [] k = 5 -> at(1) * double(4) + double(2) * at(3)
          [] k = 6 -> at(2) * double(4) + at(3) * at(3)
          [] k = 7 -> at(3) * double(4)
          [] k = 8 -> at(4) * at(4)])
MulTopPlain(a, b) == LET m == Mul52([k \in 0..8 |-> Column(a, b, k)]) IN [m EXCEPT ![5] = @ % 2^F52.top]
fe52_mul_inner(a, b) == Mul52([k \in 0..8 |-> Column(a, b, k)])
fe52_mul(a, b) == Fe(fe52_mul_inner(a.n, b.n), 1, FALSE)
fe52_sqr(a) == Fe(Square52(a.n), 1, FALSE)

-----------------------------------------------------------------------------

Unary52(a) ==
  Call("fe52", [f |-> F52, a |-> a],
       [normal |-> fe52_normalize(a), weak |-> fe52_normalize_weak(a),
        normal_var |-> fe52_normalize_var(a),
        zero |-> {fe52_normalizes_to_zero(a), fe52_normalizes_to_zero_var(a)},
        negated |-> IF a.mag < F52.maxmag THEN <<fe52_negate(a, a.mag)>> ELSE <<>>,
        tripled |-> IF 3 * a.mag <= F52.maxmag THEN <<fe52_mul_int(a, 3)>> ELSE <<>>])
Binary52(a, b) ==
  Call("fe52_two", [f |-> F52, a |-> a, b |-> b],
       [sum |-> fe52_add(a, b), product |-> fe52_mul(a, b), square |-> fe52_sqr(a),
        moved |-> <<fe52_cmov(a, b, FALSE), fe52_cmov(a, b, TRUE)>>,
        equal |-> {fe_equal(F52, a, b), fe_equal_var(F52, a, b)},
        cmp |-> fe_cmp_var(fe52_normalize(a), fe52_normalize(b))])
Stored52(a) ==
  LET n == fe52_normalize(a)
  IN  Call("fe52_store", [f |-> F52, a |-> a],
           [fe |-> n, read |-> fe52_set_b32(fe52_get_b32(n)),
            loaded |-> fe52_from_storage(fe52_to_storage(n)), kept |-> TRUE,
            above |-> fe52_set_b32(fe52_get_b32(Fe(a.n, 1, FALSE)))])

Field52Next ==
  Fresh /\ (\/ \E a \in Fe52 : Unary52(a) \/ Stored52(a)
            \/ \E e \in Pairs52 : Binary52(e[1], e[2]))

\* The normal form, the arithmetic and the storage of the five limbs.
Field52NormalForm == Of("fe52", NormalForm) /\ Of("fe52_store", StoredRight)
\* The arithmetic of the five limbs: the residues are right and nothing overflows.
Field52Arithmetic == Of("fe52", UnaryRight) /\ Of("fe52_two", BinaryRight)
=============================================================================
