------------------------------- MODULE Group -------------------------------
(***************************************************************************)
(* The group of secp256k1: the curve y^2 = x^3 + B over a small field, a   *)
(* point in Jacobian coordinates in a register that the operations of      *)
(* group_impl.h change.  A field element is its residue together with the  *)
(* magnitude the VERIFY build keeps, and is "ok" while every operation on  *)
(* it respected what the field requires of its callers (Field.tla shows    *)
(* that the limbs are then right).                                         *)
(***************************************************************************)
EXTENDS Integers, Sequences, FiniteSets

CONSTANTS
  P, B, Order,        \* the field, the curve's constant and the order of G (both primes)
  Gx, Gy,             \* the generator
  Beta,               \* a cube root of one in the field
  AddedMultiples,     \* bound: the operands added, as multiples of G
  Scales              \* bound: the z coordinates of operands, and the rescalings

ASSUME CurveAssumption ==
  /\ {P, Order} \subseteq Nat /\ P > 3 /\ P % 4 = 3 /\ Order > 3
  /\ {B, Gx, Gy, Beta} \subseteq 0..(P - 1) /\ Gy^2 % P = (Gx^3 + B) % P
  /\ Scales \subseteq 1..(P - 1) /\ AddedMultiples \subseteq 0..(Order - 1)

-----------------------------------------------------------------------------
(* Field elements.                                                         *)

MaxMagnitude == 32
MulMagnitude == 8
Elem(v, m, norm, ok) == [v |-> v, m |-> m, norm |-> norm, ok |-> ok /\ m <= MaxMagnitude]
fe_const(v) == Elem(v, IF v = 0 THEN 0 ELSE 1, TRUE, TRUE)
fe_times(a, b) ==
  Elem((a.v * b.v) % P, 1, FALSE, a.ok /\ b.ok /\ a.m <= MulMagnitude /\ b.m <= MulMagnitude)
fe_square(a) == fe_times(a, a)
fe_plus(a, b) == Elem((a.v + b.v) % P, a.m + b.m, FALSE, a.ok /\ b.ok)
fe_minus(a, m) == Elem((-a.v) % P, m + 1, FALSE, a.ok /\ a.m <= m)
fe_scaled(a, k) == Elem((k * a.v) % P, k * a.m, FALSE, a.ok)
fe_weak(a) == Elem(a.v, 1, a.norm, a.ok)
fe_normal(a) == Elem(a.v, 1, TRUE, a.ok)
fe_moved(r, a, flag) ==
  Elem(IF flag THEN a.v ELSE r.v, IF a.m > r.m THEN a.m ELSE r.m, r.norm /\ a.norm, r.ok /\ a.ok)
InverseOf == [v \in 0..(P - 1) |->
                IF v = 0 THEN 0 ELSE CHOOSE w \in 1..(P - 1) : (v * w) % P = 1]
fe_inverse(a) == Elem(InverseOf[a.v], 1, FALSE, a.ok /\ a.m <= MulMagnitude)
\* A square root (the one that is a square itself) and whether there is one.
Squares == {(v * v) % P : v \in 0..(P - 1)}
RootOf == [v \in Squares |-> CHOOSE w \in Squares : (w * w) % P = v]
fe_has_root(a) == a.v \in Squares
fe_root(a) == Elem(RootOf[a.v], 1, FALSE, a.ok /\ a.m <= MulMagnitude)

a (.) b == fe_times(a, b)
a ++ b == fe_plus(a, b)

-----------------------------------------------------------------------------
(* Points.                                                                 *)

Ge(x, y) == [x |-> x, y |-> y, inf |-> FALSE]
Gej(x, y, z) == [x |-> x, y |-> y, z |-> z, inf |-> FALSE]
ge_const_g == Ge(fe_const(Gx), fe_const(Gy))
ge_set_infinity == [x |-> fe_const(0), y |-> fe_const(0), inf |-> TRUE]
gej_set_infinity == [x |-> fe_const(0), y |-> fe_const(0), z |-> fe_const(0), inf |-> TRUE]
gej_set_ge(a) == [x |-> a.x, y |-> a.y, z |-> fe_const(1), inf |-> a.inf]

ge_set_gej_zinv(a, zi) ==
  LET zi2 == fe_square(zi)
  IN  [x |-> a.x (.) zi2, y |-> a.y (.) (zi2 (.) zi), inf |-> a.inf]
\* The inverse of z, once; the operand is left in affine form too.
ge_set_gej(a) == ge_set_gej_zinv(a, fe_inverse(a.z))
ge_set_gej_var(r, a) == IF a.inf THEN [r EXCEPT !.inf = TRUE] ELSE ge_set_gej(a)
ge_neg(a) == [a EXCEPT !.y = fe_minus(fe_weak(a.y), 1)]
gej_neg(a) == [a EXCEPT !.y = fe_minus(fe_weak(a.y), 1)]
ge_mul_lambda(a) == [a EXCEPT !.x = a.x (.) fe_const(Beta)]

\* One inversion for all the points that are not infinite: the product of the
\* first ones is kept in the x of each, and taken apart from the last on.
ge_set_all_gej_var(a) ==
  LET live == {i \in DOMAIN a : ~a[i].inf}
      last_i == CHOOSE i \in live : \A j \in live : j <= i
      before(i) == CHOOSE j \in {l \in live : l < i} : \A l \in live : l < i => l <= j
      first(i) == \A l \in live : l >= i
      product[i \in live] == IF first(i) THEN a[i].z ELSE product[before(i)] (.) a[i].z
      after(i) == CHOOSE j \in {l \in live : l > i} : \A l \in live : l > i => l >= j
      u[i \in live] == IF i = last_i THEN fe_inverse(product[i]) ELSE u[after(i)] (.) a[after(i)].z
      zinv(i) == IF first(i) THEN u[i] ELSE product[before(i)] (.) u[i]
  IN  [i \in DOMAIN a |-> IF a[i].inf THEN [ge_set_infinity EXCEPT !.inf = TRUE]
                          ELSE ge_set_gej_zinv(a[i], zinv(i))]

\* All points on the z of the last one, by the ratios of successive z's.
ge_globalz_set_table_gej(a, zr) ==
  LET n == Len(a)
      zs[i \in 1..(n - 1)] == IF i = n - 1 THEN zr[n] ELSE zs[i + 1] (.) zr[i + 1]
  IN  [table |-> [i \in 1..n |-> IF i = n THEN Ge(a[n].x, a[n].y) ELSE ge_set_gej_zinv(a[i], zs[i])],
       globalz |-> a[n].z]

\* y for x: the root that is a square, or that of the given oddness.
CurveAt(x) == fe_const(B) ++ (x (.) fe_square(x))
ge_set_xquad(x) ==
  IF fe_has_root(CurveAt(x)) THEN [ret |-> 1, ge |-> Ge(x, fe_root(CurveAt(x)))] ELSE [ret |-> 0]
ge_set_xo_var(x, odd) ==
  LET r == ge_set_xquad(x)
      y == fe_normal(r.ge.y)
  IN  IF r.ret = 0 THEN r
      ELSE [ret |-> 1, ge |-> Ge(x, IF (y.v % 2) # odd THEN fe_minus(y, 1) ELSE y)]

gej_eq_x_var(x, a) == (fe_square(a.z) (.) x).v = a.x.v
gej_is_valid_var(a) ==
  LET z2 == fe_square(a.z)
      x3 == fe_weak((fe_square(a.x) (.) a.x) ++ fe_scaled(fe_square(z2) (.) z2, B))
  IN  ~a.inf /\ fe_square(a.y).v = x3.v
ge_is_valid_var(a) ==
  ~a.inf /\ fe_square(a.y).v = fe_weak((fe_square(a.x) (.) a.x) ++ fe_const(B)).v
gej_has_quad_y_var(a) == ~a.inf /\ fe_has_root(a.y (.) a.z)

-----------------------------------------------------------------------------
(* Doubling and addition.  The result goes to a register r that may be the *)
(* operand: coordinates the code does not assign keep what r had.          *)

\* The new z over the old one.
DoubleRatio(a) == fe_scaled(fe_weak(a.y), 2)
gej_double_var(r, a) ==
  LET t1 == fe_scaled(fe_square(a.x), 3)
      t2 == fe_square(t1)
      y2 == fe_scaled(fe_square(a.y), 2)
      t4 == fe_scaled(fe_square(y2), 2)
      t3 == y2 (.) a.x
  IN  IF a.inf THEN [gej |-> [r EXCEPT !.inf = TRUE], rzr |-> fe_const(1)]
      ELSE [gej |-> Gej(fe_minus(fe_scaled(t3, 4), 4) ++ t2,
                        (t1 (.) (fe_scaled(t3, 6) ++ fe_minus(t2, 1))) ++ fe_minus(t4, 2),
                        fe_scaled(a.z (.) a.y, 2)),
            rzr |-> DoubleRatio(a)]

\* The common end of the additions: h and i are the differences of the x's and
\* of the y's on one z; bz is empty when the second operand's z is one, else it.
AddedBy(r, a, u1, s1, h, i, bz) ==
  LET hz == IF bz = <<>> THEN h ELSE h (.) bz[1]
      h2 == fe_square(h)
      h3 == h (.) h2
      t == u1 (.) h2
      x == fe_minus(fe_scaled(t, 2) ++ h3, 3) ++ fe_square(i)
      y == ((fe_minus(x, 5) ++ t) (.) i) ++ fe_minus(h3 (.) s1, 1)
  IN  CASE h.v = 0 /\ i.v = 0 -> gej_double_var(r, a)
        [] h.v = 0 /\ i.v # 0 -> [gej |-> [r EXCEPT !.inf = TRUE], rzr |-> fe_const(0)]
        [] OTHER -> [gej |-> Gej(x, y, a.z (.) hz), rzr |-> hz]
AddedTo(r, a, u1, u2, s1, s2, bz) ==
  AddedBy(r, a, u1, s1, fe_minus(u1, 1) ++ u2, fe_minus(s1, 1) ++ s2, bz)

gej_add_var(r, a, b) ==
  LET z22 == fe_square(b.z)
      z12 == fe_square(a.z)
  IN  CASE a.inf -> [gej |-> b, rzr |-> fe_const(0)]
        [] b.inf /\ ~a.inf -> [gej |-> a, rzr |-> fe_const(1)]
        [] OTHER -> AddedTo(r, a, a.x (.) z22, b.x (.) z12, (a.y (.) z22) (.) b.z,
                            (b.y (.) z12) (.) a.z, <<b.z>>)

\* A second operand in affine form: its z is one.
AddAffine(r, a, az, b) ==
  LET z12 == fe_square(az)
  IN  AddedTo(r, a, fe_weak(a.x), b.x (.) z12, fe_weak(a.y), (b.y (.) z12) (.) az, <<>>)
gej_add_ge_var(r, a, b) ==
  CASE a.inf -> [gej |-> gej_set_ge(b), rzr |-> fe_const(0)]
    [] b.inf /\ ~a.inf -> [gej |-> a, rzr |-> fe_const(1)]
    [] OTHER -> AddAffine(r, a, a.z, b)
ZinvOnlyAdded(r, a, b, bzinv) ==
  CASE b.inf -> a
    [] a.inf /\ ~b.inf -> gej_set_ge(b)
    [] OTHER -> AddAffine(r, a, a.z (.) bzinv, b).gej
\* b has a z of its own, whose inverse is given: a's z is scaled by it instead.
gej_add_zinv_var(r, a, b, bzinv) ==
  CASE b.inf -> a
    [] a.inf /\ ~b.inf -> gej_set_ge(ge_set_gej_zinv(b, bzinv))
    [] OTHER -> AddAffine(r, a, a.z (.) bzinv, b).gej

\* y1 = -y2 on one z with x1 # x2, where the unified formula is 0 / 0.
Degenerate(a, b) ==
  LET zz == fe_square(a.z)
      u1 == fe_weak(a.x)
      u2 == b.x (.) zz
      t == u1 ++ u2
  IN  /\ (fe_weak(a.y) ++ ((b.y (.) zz) (.) a.z)).v = 0
      /\ (fe_square(t) ++ (u1 (.) fe_minus(u2, 1))).v = 0
\* The addition without branches; b is not infinite.
UnifiedSum(a, b, t, m, rr_alt, m_alt, degenerate) ==
  LET n1 == fe_square(m_alt)
      q == fe_minus(n1 (.) t, 1)
      n == fe_moved(fe_square(n1), m, degenerate)
      z == a.z (.) m_alt
      x == fe_weak(fe_square(rr_alt) ++ q)
      y == fe_weak(fe_minus((((fe_scaled(x, 2) ++ q) (.) rr_alt) ++ n), 3))
  IN  [x |-> fe_moved(fe_scaled(x, 4), b.x, a.inf),
       y |-> fe_moved(fe_scaled(y, 4), b.y, a.inf),
       z |-> fe_moved(fe_scaled(z, 2), fe_const(1), a.inf),
       inf |-> z.v = 0 /\ ~a.inf]
UnifiedAdd(a, b, u1, u2, s1, s2, degenerate) ==
  LET t == u1 ++ u2
      m == s1 ++ s2
      minusU2 == fe_minus(u2, 1)
      rr == fe_square(t) ++ (u1 (.) minusU2)
  IN  UnifiedSum(a, b, t, m, fe_moved(fe_scaled(s1, 2), rr, ~degenerate),
                 fe_moved(minusU2 ++ u1, m, ~degenerate), degenerate)
gej_add_ge(a, b) ==
  LET zz == fe_square(a.z)
  IN  UnifiedAdd(a, b, fe_weak(a.x), b.x (.) zz, fe_weak(a.y), (b.y (.) zz) (.) a.z, Degenerate(a, b))

gej_rescale(r, s) ==
  LET zz == fe_square(s)
  IN  [r EXCEPT !.x = @ (.) zz, !.y = (@ (.) zz) (.) s, !.z = @ (.) s]

\* Only normalised elements are stored.
ge_to_storage(a) == <<fe_normal(a.x), fe_normal(a.y)>>
ge_from_storage(s) == Ge(s[1], s[2])
ge_storage_cmov(r, a, flag) == IF flag THEN a ELSE r

-----------------------------------------------------------------------------
(* The register: a point, the multiple of G it should be, and the ratio of *)
(* its z to the one before, for the operations that return it.             *)

VARIABLES reg, mult, ratio
groupVars == <<reg, mult, ratio>>
NoRatio == <<>>

GroupInit == reg = gej_set_infinity /\ mult = 0 /\ ratio = NoRatio

\* k G by the definition of the group, in affine coordinates; <<>> is infinity.
Slope(p, q) ==
  IF p = q THEN (3 * p[1] * p[1] * InverseOf[(2 * p[2]) % P]) % P
  ELSE ((q[2] - p[2]) * InverseOf[(q[1] - p[1]) % P]) % P
TextbookSum(p, q) ==
  CASE p = <<>> -> q
    [] q = <<>> /\ p # <<>> -> p
    [] p # <<>> /\ q # <<>> /\ p[1] = q[1] /\ (p[2] + q[2]) % P = 0 -> <<>>
    [] OTHER -> LET s == Slope(p, q)
                    x == (s * s - p[1] - q[1]) % P
                IN  <<x, (s * (p[1] - x) - p[2]) % P>>
Multiples ==
  LET f[k \in 0..(Order - 1)] == IF k = 0 THEN <<>> ELSE TextbookSum(f[k - 1], <<Gx, Gy>>) IN f

\* The operands: k G in affine form, and on the z coordinate s, with the largest
\* magnitudes the register itself has.
Affine(k) == LET p == Multiples[k]
             IN  IF p = <<>> THEN ge_set_infinity ELSE Ge(fe_const(p[1]), fe_const(p[2]))
Jacobian(k, s, mx, my) ==
  LET p == Multiples[k]
  IN  IF p = <<>> THEN gej_set_infinity
      ELSE Gej(Elem((p[1] * s * s) % P, mx, FALSE, TRUE), Elem((p[2] * s * s * s) % P, my, FALSE, TRUE),
               Elem(s, 2, FALSE, TRUE))

Becomes(gej, k, rzr) == reg' = gej /\ mult' = k % Order /\ ratio' = rzr

Double == LET d == gej_double_var(reg, reg) IN Becomes(d.gej, 2 * mult, <<reg.z, d.rzr>>)
Add(k, s) == LET d == gej_add_var(reg, reg, Jacobian(k, s, 6, 4))
             IN  Becomes(d.gej, mult + k, IF reg.inf THEN NoRatio ELSE <<reg.z, d.rzr>>)
AddGeVar(k) == \E b \in {Affine(k), ge_neg(Affine((Order - k) % Order))} :
                 LET d == gej_add_ge_var(reg, reg, b)
                 IN  Becomes(d.gej, mult + k, IF reg.inf THEN NoRatio ELSE <<reg.z, d.rzr>>)
AddGe(k) == \E b \in {Affine(k), ge_neg(Affine((Order - k) % Order))} :
              ~b.inf /\ Becomes(gej_add_ge(reg, b), mult + k, NoRatio)
AddZinv(k, s) ==
  LET j == Jacobian(k, s, 1, 1)
      b == [x |-> j.x, y |-> j.y, inf |-> j.inf]
  IN  Becomes(gej_add_zinv_var(reg, reg, b, fe_const(InverseOf[s])), mult + k, NoRatio)
Negate == Becomes(gej_neg(reg), Order - mult, NoRatio)
Rescale(s) == Becomes(gej_rescale(reg, fe_const(s)), mult, NoRatio)
ToAffine == Becomes(gej_set_ge(ge_set_gej(reg)), mult, NoRatio)
SetInfinity == Becomes(gej_set_infinity, 0, NoRatio)

GroupNext ==
  \/ Double \/ Negate \/ ToAffine \/ SetInfinity
  \/ \E k \in AddedMultiples : AddGeVar(k) \/ AddGe(k)
  \/ \E k \in AddedMultiples, s \in Scales : Add(k, s) \/ AddZinv(k, s)
  \/ \E s \in Scales : Rescale(s)

-----------------------------------------------------------------------------
(* Properties.                                                             *)

Inv2(z) == InverseOf[(z * z) % P]
PointOf(a) ==
  IF a.inf THEN <<>>
  ELSE <<(a.x.v * Inv2(a.z.v)) % P, (a.y.v * Inv2(a.z.v) * InverseOf[a.z.v]) % P>>

\* Whatever sequence of operations led to it, the register holds the multiple of
\* G it should: the formulas agree with the group in the cases they single out
\* too (equal operands, opposite ones, infinity, y1 = -y2), and coordinates left
\* over from an earlier point never come back.
GroupLaw == PointOf(reg) = Multiples[mult]

\* No sequence of operations exceeds the magnitudes that the limbs can hold: every
\* factor has magnitude at most 8, every negation is told at least the magnitude
\* of its operand, and nothing grows from one operation to the next.
MagnitudesHeld ==
  /\ reg.x.ok /\ reg.y.ok /\ reg.z.ok
  /\ reg.x.m <= 6 /\ reg.y.m <= 4 /\ reg.z.m <= 2

\* The ratio that doubling and addition return is that of the new z to the old
\* one; the tables that share one z are built from it.
RatioOfZ == (ratio # NoRatio /\ ~reg.inf) =>
              (ratio[1].v * ratio[2].v) % P = reg.z.v /\ ratio[2].ok

\* What is asked of the register without leaving its coordinates is what the
\* affine point would answer, and a point is found again from its x.
ObserversAgree ==
  LET p == Multiples[mult]
      stored == ge_to_storage(ge_set_gej_var(ge_set_infinity, reg))
  IN  IF mult = 0 THEN ~gej_is_valid_var(reg) /\ ~gej_has_quad_y_var(reg)
      ELSE /\ gej_is_valid_var(reg) /\ ge_is_valid_var(ge_set_gej(reg))
           /\ ~gej_is_valid_var([reg EXCEPT !.x.v = (@ + 1) % P]) \/
                <<((reg.x.v + 1) * Inv2(reg.z.v)) % P, p[2]>> \in {Multiples[k] : k \in 1..(Order - 1)}
           /\ \A x \in 0..(P - 1) : gej_eq_x_var(fe_const(x), reg) <=> x = p[1]
           /\ gej_has_quad_y_var(reg) <=> p[2] \in Squares
           /\ ge_set_xo_var(fe_const(p[1]), p[2] % 2).ge.y.v = p[2]
           /\ ge_from_storage(ge_storage_cmov(stored, ge_to_storage(ge_const_g), FALSE))
                = Ge(Elem(p[1], 1, TRUE, TRUE), Elem(p[2], 1, TRUE, TRUE))

\* group_impl.h: every sequence of operations keeps the register on the multiple it should
\* hold, within the magnitudes the limbs bear, and the reported ratios and the comparisons
\* are right (the parts above).
GroupSound ==
  GroupLaw /\ MagnitudesHeld /\ RatioOfZ /\ ObserversAgree
=============================================================================
