------------------------------- MODULE Ecmult -------------------------------
(***************************************************************************)
(* Multiplication of points: the tables of odd multiples, the interleaved  *)
(* walk over several expansions (Strauss), the buckets (Pippenger), the    *)
(* multiplication without branches, the blinded multiplication of the      *)
(* generator, and how many points go into one batch.  Points are those of  *)
(* Group.tla with all their coordinates.                                   *)
(***************************************************************************)
EXTENDS Calls, Limbs, Group

-----------------------------------------------------------------------------
(* The digit expansions that the multiplications of ecmult_impl.h and      *)
(* ecmult_const_impl.h walk through.  Scalars are numbers below an order n *)
(* of the given bits (256 in the code); c is the record of the two.        *)

CONSTANTS
  WnafScalars,   \* the order and the bits the expansions are checked for
  WnafWindows    \* bound: the window sizes

sc_bits(a, offset, count) == (a \div 2^offset) % 2^count
\* By complement: right below n.
sc_negate(c, a) == IF a = 0 THEN 0 ELSE (c.n - a) % 2^c.bits
sc_is_high(c, a) == a > c.n \div 2
WnafSize(c, w) == (c.bits + w - 1) \div w

\* The digit of the window becomes negative, and one is carried, from 2^(w-1) on.
WnafCarry(word, w) == (word \div 2^(w - 1)) % 2
\* Signed odd digits of windows of w bits that begin at the first bit that differs
\* from the carry; the last window is cut to the bits that are left.
ecmult_wnaf(c, a, w) ==
  LET sign == IF sc_bits(a, c.bits - 1, 1) = 1 THEN -1 ELSE 1
      s == IF sign = -1 THEN sc_negate(c, a) ELSE a
      step(acc, k) ==
        LET bit == k - 1
            now == IF w > c.bits - bit THEN c.bits - bit ELSE w
            word == sc_bits(s, bit, now) + acc.carry
            carry == WnafCarry(word, w)
        IN  IF bit < acc.bit \/ sc_bits(s, bit, 1) = acc.carry THEN acc
            ELSE [wnaf |-> [acc.wnaf EXCEPT ![k] = sign * (word - carry * 2^w)],
                  carry |-> carry, bit |-> bit + now, set |-> k]
  IN  Fold(step, [wnaf |-> Zeros(c.bits), carry |-> 0, bit |-> 0, set |-> 0], UpTo(c.bits))

\* The digit of position pos made odd by its neighbour below, and that neighbour
\* made zero again where the one below it can take it over.
FixedStep(wnaf, val, pos, w) ==
  LET here == pos + 1
      odd == IF val % 2 = 0
             THEN [wnaf EXCEPT ![pos] = @ - 2^w, ![here] = val + 1]
             ELSE [wnaf EXCEPT ![here] = val]
      unit == odd[pos]
  IN  IF pos >= 2 /\ ((unit = 1 /\ odd[pos - 1] < 0) \/ (unit = -1 /\ odd[pos - 1] > 0))
      THEN [odd EXCEPT ![pos - 1] = @ + unit * 2^w, ![pos] = 0]
      ELSE odd
\* A digit for every window; zeros above the highest window that is not zero.
wnaf_fixed(c, s, w) ==
  LET size == WnafSize(c, w)
      skew == IF s % 2 = 0 THEN 1 ELSE 0
      last_w == c.bits - (size - 1) * w
      val(pos) == sc_bits(s, pos * w, IF pos = size - 1 THEN last_w ELSE w)
      set == {pos \in 1..(size - 1) : val(pos) # 0}
      max_pos == IF set = {} THEN 0 ELSE CHOOSE pos \in set : \A p \in set : p <= pos
  IN  IF s = 0 THEN [wnaf |-> Zeros(size), skew |-> 0]
      ELSE [wnaf |-> Fold(LAMBDA acc, pos : FixedStep(acc, val(pos), pos, w),
                          [Zeros(size) EXCEPT ![1] = sc_bits(s, 0, w) + skew], UpTo(max_pos)),
            skew |-> skew]

\* Two may be added to s without passing the order.
NotMinusOne(c, s) == sc_negate(c, s) # 1
\* Odd digits only: one or two is added to make the number odd after its sign was
\* chosen, and -1 is neither raised nor counted as negated.
wnaf_const(c, scalar, w) ==
  LET flip == sc_is_high(c, scalar)
      bit == IF flip # (scalar % 2 = 1) THEN 1 ELSE 0
      raised == (IF NotMinusOne(c, scalar) THEN scalar + 2^bit ELSE scalar) % 2^c.bits
      s == IF flip THEN sc_negate(c, raised) ELSE raised
      sign == (IF flip THEN -1 ELSE 1) * (IF NotMinusOne(c, scalar) THEN 1 ELSE -1)
      step(acc, k) ==
        LET u == acc.rest % 2^w
            up == IF acc.last > 0 THEN 1 ELSE -1
            even == IF u % 2 = 0 THEN 1 ELSE 0
        IN  [wnaf |-> Append(acc.wnaf, (acc.last - up * even * 2^w) * sign),
             last |-> u + up * even, rest |-> acc.rest \div 2^w]
      all == Fold(step, [wnaf |-> <<>>, last |-> s % 2^w, rest |-> s \div 2^w], UpTo(WnafSize(c, w)))
  IN  [wnaf |-> Append(all.wnaf, all.last * sign), skew |-> 2^bit, rest |-> all.rest]

-----------------------------------------------------------------------------

Expand(a, w) ==
  Call("wnaf", [a |-> a, w |-> w],
       [wnaf |-> ecmult_wnaf(WnafScalars, a, w), fixed |-> wnaf_fixed(WnafScalars, a, w),
        const |-> wnaf_const(WnafScalars, a, w)])
WnafNext == Fresh /\ \E a \in 0..(WnafScalars.n - 1), w \in WnafWindows : Expand(a, w)

SumOfDigits(d, w) == SumOf(Tuple([k \in 1..Len(d) |-> d[k] * 2^(w * (k - 1))]))
OddWithin(d, m) == d % 2 = 1 /\ d \in -m..m

\* The expansion sums up to the scalar, modulo the order; its digits are odd, fit
\* the table of odd multiples, and each has w - 1 zeros above it: the walk over
\* it is the multiplication, and no lookup leaves the table.
WnafRight(in, out) ==
  LET r == out.wnaf
      nz == {k \in DOMAIN r.wnaf : r.wnaf[k] # 0}
  IN  /\ r.carry = 0
      /\ (SumOfDigits(r.wnaf, 1) - in.a) % WnafScalars.n = 0
      /\ \A k \in nz : OddWithin(r.wnaf[k], 2^(in.w - 1) - 1) /\ k <= r.set
      /\ \A j, k \in nz : j < k => k - j >= in.w
WnafSums == Of("wnaf", WnafRight)

\* The expansions in fixed windows sum up to the scalar and the skew the caller
\* takes off again; every digit is odd (or zero, where zero is allowed) and below
\* 2^w; the whole scalar is used up.
FixedRight(in, out) ==
  /\ SumOfDigits(out.fixed.wnaf, in.w) - out.fixed.skew = in.a
  /\ \A k \in DOMAIN out.fixed.wnaf :
       out.fixed.wnaf[k] = 0 \/ OddWithin(out.fixed.wnaf[k], 2^in.w - 1)
ConstRight(in, out) ==
  /\ out.const.rest = 0
  /\ (SumOfDigits(out.const.wnaf, in.w) - out.const.skew - in.a) % WnafScalars.n = 0
  /\ \A k \in DOMAIN out.const.wnaf : OddWithin(out.const.wnaf[k], 2^in.w - 1)
WnafSkews == Of("wnaf", FixedRight) /\ Of("wnaf", ConstRight)

-----------------------------------------------------------------------------
CONSTANTS
  Bits,              \* of a scalar: 256 in the code
  WINDOW_A, WINDOW_G,
  GenWindow, GenNums,\* bits per digit of ecmult_gen (4), and the point without a
                     \* known scalar, here GenNums * G
  Factors, FewFactors, Points \* bounds: scalars and points, as multiples of G

Sc == [n |-> Order, bits |-> Bits]
TableSize(w) == 2^(w - 2)
Nothing == -1        \* no factor of G
ToGej(k) == gej_set_ge(Affine(k))

-----------------------------------------------------------------------------
(* Tables.                                                                 *)

\* a, 3 a, 5 a, ... where 2 a, which is d, counts as affine: only the last z is that
\* of the curve, the others follow by their ratios.
WithNext(acc, next) == [prej |-> Append(acc.prej, next.gej), zr |-> Append(acc.zr, next.rzr)]
OddMultiples(n, a, d) ==
  LET d_ge == Ge(d.x, d.y)
      first == ge_set_gej_zinv(a, d.z)
      step(acc, i) == WithNext(acc, gej_add_ge_var(Last(acc.prej), Last(acc.prej), d_ge))
      t == Fold(step, [prej |-> <<Gej(first.x, first.y, a.z)>>, zr |-> <<d.z>>], UpTo(n - 1))
  IN  [t EXCEPT !.prej[n].z = @ (.) d.z]
ecmult_odd_multiples_table(n, a) == OddMultiples(n, a, gej_double_var(a, a).gej)

OnLastZ(t) == ge_globalz_set_table_gej(t.prej, t.zr)
ecmult_odd_multiples_table_globalz_windowa(a) == OnLastZ(ecmult_odd_multiples_table(TableSize(WINDOW_A), a))

\* The same multiples in affine form: y and the ratio are kept on the way up, one
\* inverse is computed at the top, and each x is recovered from the ratio.
Kept(acc, next) ==
  [pj |-> next.gej, kept |-> Append(acc.kept, <<fe_normal(next.rzr), fe_normal(acc.pj.y)>>)]
KeptUp(n, a, d) ==
  LET first == ge_set_gej_zinv(a, d.z)
      up(acc, i) == Kept(acc, gej_add_ge_var(acc.pj, [acc.pj EXCEPT !.y = fe_normal(@)], Ge(d.x, d.y)))
  IN  Fold(up, [pj |-> Gej(first.x, first.y, a.z), kept |-> <<>>], UpTo(n - 1))
RecoveredDown(n, top, zi, dx_over_dz_squared) ==
  LET down(acc, k) ==
        LET rzr == top.kept[n - k][1]
            z == acc.zi (.) rzr
            x == fe_minus(rzr (.) fe_square(z), 1) ++ dx_over_dz_squared
            y == top.kept[n - k][2] (.) (fe_square(z) (.) z)
        IN  [zi |-> z, pre |-> <<ge_to_storage(Ge(x, y))>> \o acc.pre]
  IN  Fold(down, [zi |-> zi, pre |-> <<ge_to_storage(ge_set_gej_zinv(top.pj, zi))>>], UpTo(n - 1)).pre
StoredMultiples(n, d, top) ==
  LET zi == fe_inverse(top.pj.z (.) d.z)
  IN  RecoveredDown(n, top, zi, fe_square(zi (.) top.pj.z) (.) d.x)
ecmult_odd_multiples_table_storage_var(n, a) ==
  LET d == gej_double_var(a, a).gej IN StoredMultiples(n, d, KeptUp(n, a, d))

TableGet(pre, n) == IF n > 0 THEN pre[(n - 1) \div 2 + 1] ELSE ge_neg(pre[(-n - 1) \div 2 + 1])
TableGetStorage(pre, n) ==
  IF n > 0 THEN ge_from_storage(pre[(n - 1) \div 2 + 1])
  ELSE ge_neg(ge_from_storage(pre[(-n - 1) \div 2 + 1]))
\* The context: the odd multiples of G.
ecmult_context_build == ecmult_odd_multiples_table_storage_var(TableSize(WINDOW_G), gej_set_ge(ge_const_g))

-----------------------------------------------------------------------------
(* Strauss.                                                                *)

\* The tables of all points on one z: each point but the first is first moved to
\* the z of the table before it.
WithTable(acc, a, t) ==
  [prej |-> acc.prej \o t.prej,
   zr |-> acc.zr \o (IF acc.prej = <<>> THEN t.zr ELSE [t.zr EXCEPT ![1] = @ (.) a.z])]
JointTable(points) ==
  LET onZ(acc, a) == IF acc.prej = <<>> THEN a ELSE gej_rescale(a, Last(acc.prej).z)
      step(acc, a) == WithTable(acc, a, ecmult_odd_multiples_table(TableSize(WINDOW_A), onZ(acc, a)))
  IN  IF points = <<>> THEN [table |-> <<>>, globalz |-> fe_const(1)]
      ELSE OnLastZ(Fold(step, [prej |-> <<>>, zr |-> <<>>], points))

\* One digit position: the sum so far is doubled and the digits of all terms added.
AddDigit(acc, pre, digit) == IF digit = 0 THEN acc ELSE gej_add_ge_var(acc, acc, TableGet(pre, digit)).gej
AddDigitG(acc, digit, Z) ==
  IF digit = 0 THEN acc ELSE gej_add_zinv_var(acc, acc, TableGetStorage(ecmult_context_build, digit), Z)
StraussRound(r, i, wnaf, wnafG, pre_a) ==
  LET T == TableSize(WINDOW_A)
      digit(w) == IF i <= w.set THEN w.wnaf[i] ELSE 0
      add(acc, k) == AddDigit(acc, SubSeq(pre_a.table, (k - 1) * T + 1, k * T), digit(wnaf[k]))
  IN  AddDigitG(Fold(add, gej_double_var(r, r).gej, UpTo(Len(wnaf))), digit(wnafG), pre_a.globalz)
PutBack(r, Z) == IF r.inf THEN r ELSE [r EXCEPT !.z = @ (.) Z]
StraussWalk(wnaf, wnafG, pre_a) ==
  PutBack(Fold(LAMBDA r, j : StraussRound(r, Bits + 1 - j, wnaf, wnafG, pre_a), gej_set_infinity, UpTo(Bits)),
          pre_a.globalz)
\* na[1] a[1] + ... + ng G.  Terms that vanish are left out, and the common z is put
\* back at the end.
ecmult_strauss_wnaf(a, na, ng) ==
  LET live == SelectSeq(UpTo(Len(a)), LAMBDA k : na[k] # 0 /\ ~a[k].inf)
      wnaf == Tuple([k \in DOMAIN live |-> ecmult_wnaf(Sc, na[live[k]], WINDOW_A)])
      wnafG == IF ng = Nothing THEN [wnaf |-> Zeros(Bits), set |-> 0] ELSE ecmult_wnaf(Sc, ng, WINDOW_G)
  IN  StraussWalk(wnaf, wnafG, JointTable(Tuple([k \in DOMAIN live |-> a[live[k]]])))
ecmult(a, na, ng) == ecmult_strauss_wnaf(<<a>>, <<na>>, ng)

-----------------------------------------------------------------------------
(* Pippenger.                                                              *)

SkewKept(i, skew) == FALSE
\* The lowest digit also takes the skew off.
TakeSkew(i, skew) == i = 1 /\ skew = 1
\* Each point goes to the bucket of its digit, negated for a negative one.
InBucket(b, idx, p) == [b EXCEPT ![idx] = gej_add_ge_var(b[idx], b[idx], p).gej]
Bucketed(b, p, n) ==
  IF n = 0 THEN b
  ELSE InBucket(b, IF n > 0 THEN (n - 1) \div 2 + 1 ELSE (-(n + 1)) \div 2 + 1, IF n > 0 THEN p ELSE ge_neg(p))
Unskewed(b, p, skew) == IF skew THEN InBucket(b, 1, ge_neg(p)) ELSE b
Doubled(r, times) == Fold(LAMBDA acc, k : gej_double_var(acc, acc).gej, r, UpTo(times))
Sum(x, y) == gej_add_var(x, x, y).gej
\* The buckets are summed from the top by a running sum, with the last doubling of the
\* window in between.
WithRun(r, run) == [run |-> run, r |-> Sum(r, run)]
LastBucket(s, b) == Sum(Doubled(s.r, 1), Sum(s.run, b[1]))
BucketSum(r, window, b) ==
  LET down(acc, k) == WithRun(acc.r, Sum(acc.run, b[Len(b) + 1 - k]))
  IN  LastBucket(Fold(down, [run |-> gej_set_infinity, r |-> Doubled(r, window)], UpTo(Len(b) - 1)), b)
ecmult_pippenger_wnaf(window, pt, sc) ==
  LET size == WnafSize(Sc, window + 1)
      live == SelectSeq(UpTo(Len(pt)), LAMBDA k : sc[k] # 0 /\ ~pt[k].inf)
      wnaf == Tuple([k \in DOMAIN live |-> wnaf_fixed(Sc, sc[live[k]], window + 1)])
      put(i, b, k) ==
        Bucketed(Unskewed(b, pt[live[k]], TakeSkew(i, wnaf[k].skew)), pt[live[k]], wnaf[k].wnaf[i])
      empty == Tuple([k \in 1..TableSize(window + 2) |-> gej_set_infinity])
      round(r, j) ==
        BucketSum(r, window, Fold(LAMBDA b, k : put(size + 1 - j, b, k), empty, UpTo(Len(live))))
  IN  IF live = <<>> THEN gej_set_infinity ELSE Fold(round, gej_set_infinity, UpTo(size))

-----------------------------------------------------------------------------
(* Without branches.                                                       *)

\* The table is read through to the end; the entry n / 2 stays, negated for n < 0.
ConstTableGet(pre, n) ==
  LET idx == (IF n > 0 THEN n ELSE -n) \div 2 + 1
      got == Fold(LAMBDA acc, m : Ge(fe_moved(acc.x, pre[m].x, m = idx), fe_moved(acc.y, pre[m].y, m = idx)),
                  Ge(fe_const(0), fe_const(0)), UpTo(Len(pre)))
  IN  [got EXCEPT !.y = fe_moved(@, fe_minus(@, 1), n < 0)]
ConstWalk(pre_a, wnaf) ==
  LET top == Len(wnaf)
      round(r, k) == gej_add_ge(Doubled(r, WINDOW_A - 1), ConstTableGet(pre_a, wnaf[top - k]))
  IN  Fold(round, gej_set_ge(ConstTableGet(pre_a, wnaf[top])), UpTo(top - 1))
WeakTable(table) == Tuple([k \in 1..Len(table) |-> [table[k] EXCEPT !.y = fe_weak(@)]])
\* What the skew added is taken off again: a, or 2 a.
SkewOff(a, skew) ==
  ge_neg(ge_from_storage(ge_storage_cmov(
    ge_to_storage(a), ge_to_storage(ge_set_gej(Doubled(gej_set_ge(a), 1))), skew = 2)))
ConstProduct(a, digits, t) ==
  LET r == ConstWalk(WeakTable(t.table), digits.wnaf)
  IN  gej_add_ge([r EXCEPT !.z = @ (.) t.globalz], SkewOff(a, digits.skew))
ecmult_const(a, scalar) ==
  ConstProduct(a, wnaf_const(Sc, scalar, WINDOW_A - 1), ecmult_odd_multiples_table_globalz_windowa(gej_set_ge(a)))

-----------------------------------------------------------------------------
(* The generator, blinded.                                                 *)

GenDigits == (Bits + GenWindow - 1) \div GenWindow
\* prec[j][i] = 2^j nums + i 2^(GenWindow j) G; in the last row nums appears with
\* the factor 1 - 2^j, so that a sum of one entry per row is free of it.
GenRow(g, nb) ==
  Fold(LAMBDA acc, i : Append(acc, Sum(Last(acc), g)), <<nb>>, UpTo(2^GenWindow - 1))
GenNumsBase(nb, nums, lastRow) == IF lastRow THEN Sum(gej_neg(nb), nums) ELSE nb
GenRows(nums) ==
  LET step(acc, j) ==
        [rows |-> acc.rows \o GenRow(acc.g, acc.nums), g |-> Doubled(acc.g, GenWindow),
         nums |-> GenNumsBase(Doubled(acc.nums, 1), nums, j = GenDigits - 1)]
  IN  Fold(step, [rows |-> <<>>, g |-> gej_set_ge(ge_const_g), nums |-> nums], UpTo(GenDigits)).rows
StoredAll(ges) == Tuple([k \in 1..Len(ges) |-> ge_to_storage(ges[k])])
ecmult_gen_context_build ==
  StoredAll(ge_set_all_gej_var(GenRows(gej_add_ge_var(ToGej(GenNums), ToGej(GenNums), ge_const_g).gej)))
Prec == ecmult_gen_context_build

\* From the initial point, which is the blinding scalar's multiple taken off.
ecmult_gen(ctx, gn) ==
  LET gnb == (gn + ctx.blind) % Order
      add(r, j) == gej_add_ge(r, ge_from_storage(
                     Prec[(j - 1) * 2^GenWindow + sc_bits(gnb, (j - 1) * GenWindow, GenWindow) + 1]))
  IN  Fold(add, ctx.initial, UpTo(GenDigits))

\* The new blinding value, computed with the old one.
Blinded(ctx, b) == [initial |-> ecmult_gen(ctx, b), blind |-> (Order - b) % Order]
\* Without a seed the context starts anew; s and b come from the generator of
\* random numbers, which is asked again while it gives zero.
ecmult_gen_blind(ctx, reset, s, b) ==
  LET base == IF reset THEN [initial |-> gej_neg(gej_set_ge(ge_const_g)), blind |-> 1] ELSE ctx
  IN  Blinded([base EXCEPT !.initial = gej_rescale(@, fe_const(s))], b)

VARIABLE gen    \* the context of ecmult_gen: initial and blind
\* ecmult_gen_context_build ends with a blinding without seed.
GenInit == gen \in {ecmult_gen_blind([initial |-> gej_set_infinity, blind |-> 0], TRUE, s, b) :
                      s \in Scales, b \in FewFactors \ {0}}
GenBlind == \E reset \in BOOLEAN, s \in Scales, b \in FewFactors \ {0} :
              gen' = ecmult_gen_blind(gen, reset, s, b)
GenMult(gn) == Call("gen", [gn |-> gn], [gej |-> ecmult_gen(gen, gn)])

-----------------------------------------------------------------------------
(* Batches.  The sizes are those of the structures in the 64 bit build.    *)

ALIGNMENT == 16
PIPPENGER_MAX_BUCKET_WINDOW == 12
Unbounded == 10^9
SizeOf == [ge |-> 88, gej |-> 128, fe |-> 40, scalar |-> 32, strauss_state |-> 1040,
           pippenger_point |-> 16, pippenger_state |-> 16, int |-> 4]
WindowLimits == <<1, 11, 45, 100, 275, 625, 1850, 3400, 9630, 17900, 32800>>
pippenger_bucket_window(n) ==
  Cardinality({w \in DOMAIN WindowLimits : n > WindowLimits[w]}) + 1
pippenger_bucket_window_inv(w) == IF w = PIPPENGER_MAX_BUCKET_WINDOW THEN Unbounded ELSE WindowLimits[w]

scratch_max_allocation(max_size, objects) ==
  IF max_size <= objects * ALIGNMENT THEN 0 ELSE max_size - objects * ALIGNMENT
\* What an object takes of its frame.
Aligned(size) == ((size + ALIGNMENT - 1) \div ALIGNMENT) * ALIGNMENT
\* A frame of n bytes and some for the alignment of its objects: -1 when it is
\* refused, otherwise the objects (of these sizes) that get memory in it.
scratch_frame(max_size, n, objects, sizes) ==
  LET put(acc, size) == IF acc.offset + Aligned(size) > n + objects * ALIGNMENT THEN acc
                        ELSE [offset |-> acc.offset + Aligned(size), got |-> acc.got + 1]
  IN  IF n > scratch_max_allocation(max_size, objects) THEN -1
      ELSE Fold(put, [offset |-> 0, got |-> 0], sizes).got

StraussObjects == 6
PippengerObjects == 6
\* The window of the points of a batch, 5 for the build's tables.
StraussTable == 2^3
strauss_scratch_size(n) ==
  n * ((SizeOf.ge + SizeOf.gej + SizeOf.fe) * StraussTable + SizeOf.strauss_state + SizeOf.gej + SizeOf.scalar)
StraussSizes(n) ==
  <<n * SizeOf.gej, n * SizeOf.scalar, n * StraussTable * SizeOf.gej, n * StraussTable * SizeOf.fe,
    n * StraussTable * SizeOf.ge, n * SizeOf.strauss_state>>
strauss_max_points(max_size) ==
  scratch_max_allocation(max_size, StraussObjects) \div strauss_scratch_size(1)

WnafWords(window) == (256 + window) \div (window + 1)
PippengerEntry(window) ==
  SizeOf.ge + SizeOf.scalar + SizeOf.pippenger_point + (WnafWords(window) + 1) * SizeOf.int
pippenger_scratch_size(n, window) ==
  2^window * SizeOf.gej + SizeOf.pippenger_state + (n + 1) * PippengerEntry(window)
PippengerSizes(n, window) ==
  <<(n + 1) * SizeOf.ge, (n + 1) * SizeOf.scalar, SizeOf.pippenger_state, (n + 1) * SizeOf.pippenger_point,
    (n + 1) * WnafWords(window) * SizeOf.int, 2^window * SizeOf.gej>>
\* Windows are tried from the smallest on, up to the first one that the memory
\* does not allow to use up; a larger one could allow more points, but not fewer.
pippenger_max_points(max_size) ==
  LET alloc == scratch_max_allocation(max_size, PippengerObjects)
      overhead(w) == 2^w * SizeOf.gej + PippengerEntry(w) + SizeOf.pippenger_state
      room(w) == (alloc - overhead(w)) \div PippengerEntry(w)
      most(w) == pippenger_bucket_window_inv(w)
      step(acc, w) ==
        LET n == IF room(w) > most(w) THEN most(w) ELSE room(w)
        IN  IF acc.done \/ overhead(w) > alloc THEN [acc EXCEPT !.done = TRUE]
            ELSE [res |-> IF n > acc.res THEN n ELSE acc.res, done |-> n < most(w)]
  IN  Fold(step, [res |-> 0, done |-> FALSE], UpTo(PIPPENGER_MAX_BUCKET_WINDOW)).res

ECMULT_PIPPENGER_THRESHOLD == 160
ECMULT_MAX_POINTS_PER_BATCH == 10000000
Split(n, max_points) ==
  LET batches == (n + max_points - 1) \div max_points
  IN  [batches |-> batches, points |-> (n + batches - 1) \div batches]
\* The batches of n points as offset and number of points, and how each is computed.
Batches(n, plan) ==
  LET left(i) == IF n > plan.points * (i - 1) THEN n - plan.points * (i - 1) ELSE 0
      batch(i) == [offset |-> plan.points * (i - 1),
                   n |-> IF left(i) < plan.points THEN left(i) ELSE plan.points]
  IN  Tuple([i \in 1..plan.batches |-> batch(i)])
PlanOf(n, most, strauss) ==
  LET first == Split(n, IF most > ECMULT_MAX_POINTS_PER_BATCH THEN ECMULT_MAX_POINTS_PER_BATCH ELSE most)
      buckets == first.points >= ECMULT_PIPPENGER_THRESHOLD
  IN  IF most = 0 \/ (~buckets /\ strauss = 0) THEN [ret |-> 0]
      ELSE [ret |-> 1, buckets |-> buckets, batches |-> Batches(n, IF buckets THEN first ELSE Split(n, strauss))]
\* Without points there is nothing to plan.
ecmult_multi_var(max_size, n) ==
  IF n = 0 THEN [ret |-> 1, buckets |-> FALSE, batches |-> <<>>]
  ELSE PlanOf(n, pippenger_max_points(max_size), strauss_max_points(max_size))

CONSTANTS ScratchSizes, BatchPoints   \* bounds: the memory, and the points of a call

-----------------------------------------------------------------------------

OnePoint(k, na, ng) ==
  Call("ecmult", [k |-> k, na |-> na, ng |-> ng],
       [gej |-> ecmult(Jacobian(k, 5, 6, 4), na, ng)])
TwoPoints(ks, na, ng) ==
  Call("multi", [ks |-> ks, na |-> na, ng |-> ng],
       [strauss |-> ecmult_strauss_wnaf(<<Jacobian(ks[1], 5, 1, 1), ToGej(ks[2])>>, na, ng),
        pippenger |-> LET gs == IF ng = Nothing THEN <<>> ELSE <<ng>>
                          gp == IF ng = Nothing THEN <<>> ELSE <<ge_const_g>>
                          w == pippenger_bucket_window(2)
                      IN  {ecmult_pippenger_wnaf(v, gp \o <<Affine(ks[1]), Affine(ks[2])>>, gs \o na) : v \in {1, w, w + 1}}])
Const(k, s) == k # 0 /\ Call("const", [k |-> k, s |-> s], [gej |-> ecmult_const(Affine(k), s)])
Batch(max_size, n) == Call("batch", [max_size |-> max_size, n |-> n], ecmult_multi_var(max_size, n))

EcmultNext ==
  Fresh /\ (\/ \E k \in Points, na \in Factors, ng \in FewFactors \cup {Nothing} : OnePoint(k, na, ng)
            \/ \E ks \in Points \X Points, na \in FewFactors \X FewFactors, ng \in {0, 3, Nothing} :
                 TwoPoints(ks, na, ng)
            \/ \E k \in Points, s \in 0..(Order - 1) : Const(k, s)
            \/ \E m \in ScratchSizes, n \in BatchPoints : Batch(m, n))

-----------------------------------------------------------------------------
(* Properties.                                                             *)

Holds(gej, k) ==
  /\ PointOf(gej) = Multiples[k % Order]
  /\ ~gej.inf => gej.x.ok /\ gej.y.ok /\ gej.z.ok
Ng(in) == IF in.ng = Nothing THEN 0 ELSE in.ng

\* Whatever the scalars and the points (equal, opposite, infinite ones included),
\* each way to multiply gives the multiple of G it should, without exceeding a
\* magnitude on the way.
EcmultOne(in, out) == Holds(out.gej, in.na * in.k + Ng(in))
EcmultTwo(in, out) ==
  LET k == in.na[1] * in.ks[1] + in.na[2] * in.ks[2] + Ng(in)
  IN  Holds(out.strauss, k) /\ \A p \in out.pippenger : Holds(p, k)
EcmultConst(in, out) == Holds(out.gej, in.s * in.k)
EcmultRight == Of("ecmult", EcmultOne) /\ Of("multi", EcmultTwo) /\ Of("const", EcmultConst)

\* However often the context was blinded or reset, the initial point cancels the
\* blinding scalar, and the multiplication of the generator is not changed by it.
GenRight(in, out) == Holds(out.gej, in.gn)
BlindingCancels ==
  /\ PointOf(gen.initial) = Multiples[(Order - gen.blind) % Order]
  /\ Of("gen", GenRight)

\* A call with points and memory for at least one of them is split into batches
\* that take every point once, in order; each batch, and any smaller one, gets its
\* frame and all of its objects in it (nobody looks whether they did).
BatchesFit(in, out) ==
  out.ret = 1 =>
    /\ \A i \in DOMAIN out.batches : out.batches[i].n > 0
    /\ \A i \in DOMAIN out.batches :
         out.batches[i].offset =
           IF i = 1 THEN 0 ELSE out.batches[i - 1].offset + out.batches[i - 1].n
    /\ in.n = IF out.batches = <<>> THEN 0 ELSE Last(out.batches).offset + Last(out.batches).n
    /\ \A i \in DOMAIN out.batches :
         LET n == out.batches[i].n
             w == pippenger_bucket_window(n)
         IN  IF out.buckets
             THEN scratch_frame(in.max_size, pippenger_scratch_size(n, w), PippengerObjects, PippengerSizes(n, w))
                    = PippengerObjects
             ELSE scratch_frame(in.max_size, strauss_scratch_size(n), StraussObjects, StraussSizes(n))
                    = StraussObjects
BatchesCover == Of("batch", BatchesFit)

\* Every way to multiply gives the multiple: the digits sum up to the scalar, blinding
\* cancels, batches take every point and fit their memory (the parts above and of Wnaf).
MultiplesSound ==
  WnafSums /\ WnafSkews /\ EcmultRight /\ BlindingCancels /\ BatchesCover
=============================================================================
