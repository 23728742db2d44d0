------------------------------- MODULE Powers -------------------------------
(***************************************************************************)
(* Inverses and square roots as powers: the chains of squarings and        *)
(* products of fe_sqrt, fe_inv, scalar_inverse and sm2_fp_inv with their   *)
(* real lengths, the exponent they raise to as a number of several words   *)
(* (Limbs), and the inversion of many elements at the price of one.        *)
(***************************************************************************)
EXTENDS Calls, Limbs

CONSTANTS
  InvPrime,     \* bound: the field in which lists of elements are inverted
  InvLists      \* bound: the lists

ASSUME PowersAssumption == InvPrime \in Nat \ {0, 1}

\* Exponents are numbers of 13 words of 20 bits.
Words == 13
Width == 20
ExpPlus(x, y) == AddLimbs(x, y, Width, Words)
Squared(x, k) == Regroup(Zeros(k) \o BitsOf(x, Width), 1, Width, Words)
One == <<1>> \o Zeros(Words - 1)

\* One step <<to, from, k, by>>: to = from^(2^k) * by, over the exponents.
Raise(regs, s) == [regs EXCEPT ![s[1]] = ExpPlus(Squared(regs[s[2]], s[3]), regs[s[4]])]
Start(steps) == [r \in {"a", "one"} \cup {s[1] : s \in Range(steps)} |-> IF r = "a" THEN One ELSE Zeros(Words)]
Chain(steps) == Fold(Raise, Start(steps), steps)

-----------------------------------------------------------------------------
(* secp256k1: the field.                                                   *)

\* x^(2^k - 1) for k = 2, 3, 6, 9, 11, 22, 44, 88, 176, 220 and 223.
Blocks ==
  <<<<"x2", "a", 1, "a">>, <<"x3", "x2", 1, "a">>, <<"x6", "x3", 3, "x3">>,
    <<"x9", "x6", 3, "x3">>, <<"x11", "x9", 2, "x2">>, <<"x22", "x11", 11, "x11">>,
    <<"x44", "x22", 22, "x22">>, <<"x88", "x44", 44, "x44">>, <<"x176", "x88", 88, "x88">>,
    <<"x220", "x176", 44, "x44">>, <<"x223", "x220", 3, "x3">>, <<"t1", "x223", 23, "x22">>>>

fe_sqrt(r) == Chain(Blocks \o <<<<"t1", "t1", 6, "x2">>, <<"t1", "t1", 1, "one">>, <<"r", "t1", 1, "one">>>>)[r]

fe_inv(r) ==
  Chain(Blocks \o <<<<"t1", "t1", 5, "a">>, <<"t1", "t1", 3, "x2">>, <<"r", "t1", 2, "a">>>>)[r]

-----------------------------------------------------------------------------
(* secp256k1: the scalars.                                                 *)

Small ==
  <<<<"u2", "a", 1, "one">>, <<"x2", "u2", 0, "a">>, <<"u5", "u2", 0, "x2">>,
    <<"x3", "u5", 0, "u2">>, <<"u9", "x3", 0, "u2">>, <<"u11", "u9", 0, "u2">>,
    <<"u13", "u11", 0, "u2">>, <<"x6", "u13", 2, "u11">>, <<"x8", "x6", 2, "x2">>,
    <<"x14", "x8", 6, "x6">>, <<"x28", "x14", 14, "x14">>, <<"x56", "x28", 28, "x28">>,
    <<"x112", "x56", 56, "x56">>, <<"t", "x112", 14, "x14">>>>
\* The rest of the exponent, window by window: squarings and the power multiplied in.
Windows ==
  <<<<3, "u5">>, <<4, "x3">>, <<4, "u5">>, <<5, "u11">>, <<4, "u11">>, <<4, "x3">>,
    <<5, "x3">>, <<6, "u13">>, <<4, "u5">>, <<3, "x3">>, <<5, "u9">>, <<6, "u5">>,
    <<10, "x3">>, <<4, "x3">>, <<9, "x8">>, <<5, "u9">>, <<6, "u11">>, <<4, "u13">>,
    <<5, "x2">>, <<6, "u13">>, <<10, "u13">>, <<4, "u9">>, <<6, "a">>, <<8, "x6">>>>
scalar_inverse(r) ==
  Chain(Small \o Tuple([k \in DOMAIN Windows |-> <<r, r, Windows[k][1], Windows[k][2]>>]))[r]

-----------------------------------------------------------------------------
(* SM2: the field.                                                         *)

\* The blocks of 32 bits at the end: a5 moves up by 32 and joins the two sums.
SmTail(k) == <<<<"a5", "a5", k, "one">>, <<"a2", "a5", 0, "a3">>, <<"a3", "a2", 0, "a3">>>>
SmTailBoth == SmTail(32) \o <<<<"a4", "a2", 0, "a4">>>>
sm2_fp_inv(r) ==
  Chain(
    <<<<"a1", "a", 1, "one">>, <<"a2", "a1", 0, "a">>, <<"a3", "a2", 2, "a2">>,
      <<"a4", "a3", 4, "a3">>, <<"a5", "a4", 8, "a4">>, <<"a5", "a5", 8, "a4">>,
      <<"a5", "a5", 4, "a3">>, <<"a5", "a5", 2, "a2">>, <<"a5", "a5", 1, "a">>,
      <<"a4", "a5", 1, "one">>, <<"a3", "a4", 0, "a1">>, <<"a5", "a4", 31, "one">>,
      <<"a4", "a5", 0, "a4">>, <<"a4", "a4", 1, "a">>, <<"a3", "a4", 0, "a2">>>>
    \o SmTail(33) \o SmTailBoth \o SmTailBoth \o SmTailBoth \o SmTailBoth
    \o <<<<"a5", "a5", 32, "one">>, <<"r", "a4", 0, "a5">>>>)[r]

-----------------------------------------------------------------------------
(* Many inverses.                                                          *)

Times(x, y) == (x * y) % InvPrime
InvOf(x) == IF x % InvPrime = 0 THEN 0 ELSE CHOOSE y \in 1..(InvPrime - 1) : Times(x, y) = 1
Products(a) == Tuple([i \in 1..Len(a) |-> Fold(Times, 1, SubSeq(a, 1, i))])

\* One step back: r[j] is the inverse of a[j], u is left the inverse of the rest.
Unwind(acc, j, a, p) == [u |-> Times(acc.u, a[j]), out |-> <<Times(p[j - 1], acc.u)>> \o acc.out]
fe_inv_all_var(a) ==
  IF Len(a) < 1 THEN <<>>
  ELSE LET p == Products(a)
           back == Fold(LAMBDA acc, j : Unwind(acc, j, a, p),
                        [u |-> InvOf(Last(p)), out |-> <<>>], Reverse(Tuple([k \in 1..(Len(a) - 1) |-> k + 1])))
       IN  <<back.u>> \o back.out

-----------------------------------------------------------------------------

PowerOf(f) == CASE f = "fe_sqrt" -> fe_sqrt("r")
                [] f = "fe_inv" -> fe_inv("r")
                [] f = "scalar_inverse" -> scalar_inverse("t")
                [] f = "sm2_fp_inv" -> sm2_fp_inv("r")
PowersNext ==
  \/ Fresh /\ \E f \in {"fe_sqrt", "fe_inv", "scalar_inverse", "sm2_fp_inv"} : Call("power", f, PowerOf(f))
  \/ Fresh /\ \E a \in InvLists : Call("inv_all", a, fe_inv_all_var(a))

-----------------------------------------------------------------------------
(* The real moduli, in words of 16 bits from the lowest.                   *)

Ones(n) == Tuple([k \in 1..n |-> 65535])
SecpP == <<64559, 65535, 65534>> \o Ones(13)
SecpN == <<16705, 53302, 24204, 49106, 41019, 44872, 56550, 47790, 65534>> \o Ones(7)
SmPrime == Ones(4) \o <<0, 0>> \o Ones(8) \o <<65534, 65535>>
Exponent(m) == Regroup(m, 16, Width, Words)
Twice(x) == ExpPlus(x, x)

\* Each inverse is the power two below the modulus, whatever the order of squarings
\* and products that makes it; the square root is the power (p + 1) / 4.
ExponentsRight ==
  Of("power", LAMBDA f, e :
       IF f = "fe_sqrt" THEN Twice(Twice(e)) = ExpPlus(Exponent(SecpP), One)
       ELSE ExpPlus(e, Twice(One)) =
              Exponent(CASE f = "fe_inv" -> SecpP [] f = "scalar_inverse" -> SecpN [] OTHER -> SmPrime))

\* A list of elements other than zero is inverted element by element.
BatchInverse ==
  Of("inv_all", LAMBDA a, r :
       Len(r) = Len(a) /\ ((\A k \in DOMAIN a : a[k] # 0) => \A k \in DOMAIN a : Times(a[k], r[k]) = 1))
=============================================================================
