------------------------------- MODULE Limbs -------------------------------
(***************************************************************************)
(* Numbers as sequences of limbs, the lowest first.                        *)
(***************************************************************************)
EXTENDS Integers, Sequences, SequencesExt

\* The same sequence, as a tuple.
Tuple(s) == SubSeq(s, 1, Len(s))

\* Fold from the first element on, by a recursive function: the sequences here
\* are folded far too often for a fold that chooses its elements from a set.  (The
\* comparison has TLC evaluate each step before the next one, not inside it.)
Fold(op(_, _), base, s) ==
  LET f[i \in 0..Len(s)] ==
        IF i = 0 THEN base
        ELSE LET acc == f[i - 1] IN IF acc = acc THEN op(acc, s[i]) ELSE acc
  IN  f[Len(s)]
Plus(x, y) == x + y
SumOf(s) == Fold(Plus, 0, s)
UpTo(n) == Tuple([k \in 1..n |-> k])

\* The number of limbs of w bits, modulo q.
ValueMod(x, w, q) == Fold(LAMBDA acc, d : (acc * 2^w + d) % q, 0, Reverse(x))

\* The bits of a number given in digits of w bits, and n digits of w bits of them.
BitsOf(x, w) ==
  Tuple([k \in 1..(w * Len(x)) |-> (x[(k - 1) \div w + 1] \div 2^((k - 1) % w)) % 2])
Digit(bits, k, w) ==
  SumOf([j \in 1..w |-> IF (k - 1) * w + j > Len(bits) THEN 0
                        ELSE bits[(k - 1) * w + j] * 2^(j - 1)])
Regroup(x, w, v, n) == LET b == BitsOf(x, w) IN Tuple([k \in 1..n |-> Digit(b, k, v)])

\* Column k (from 0) of the product: the sum of a[i] * b[k - i].
Column(a, b, k) ==
  SumOf([i \in 1..Len(a) |-> IF k - i + 2 \in 1..Len(b) THEN a[i] * b[k - i + 2] ELSE 0])

\* Carries from limb to limb; the last limb keeps what arrives.
Carried(t, w) ==
  LET step(acc, d) == [carry |-> (acc.carry + d) \div 2^w,
                       out |-> Append(acc.out, (acc.carry + d) % 2^w)]
      low == Fold(step, [carry |-> 0, out |-> <<>>], Front(t))
  IN  Append(low.out, low.carry + Last(t))

\* The sum of two numbers of limbs below 2^w, n limbs of it.
AddLimbs(x, y, w, n) ==
  LET at(s, k) == IF k <= Len(s) THEN s[k] ELSE 0
      c == Carried([k \in 1..(n + 1) |-> at(x, k) + at(y, k)], w)
  IN  SubSeq(c, 1, n)
Zeros(n) == Tuple([k \in 1..n |-> 0])
IsZeroLimbs(x) == \A k \in DOMAIN x : x[k] = 0
\* -1, 0 or 1 as x is below, at or above y, compared from the top.
CompareLimbs(x, y) ==
  LET differ == {k \in DOMAIN x : x[k] # y[k]}
      top == CHOOSE k \in differ : \A j \in differ : j <= k
  IN  IF differ = {} THEN 0 ELSE IF x[top] > y[top] THEN 1 ELSE -1
=============================================================================
