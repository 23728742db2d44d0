------------------------------ MODULE MCCurve ------------------------------
(* The group and the multiplications for TLC: y^2 = x^3 + 3 over the field *)
(* of 19 elements, of prime order 13.                                      *)
EXTENDS Ecdsa

MCWnafScalars == [n |-> 509, bits |-> 9]
MCScratchSizes == {100, 3000, 6500, 6600} \cup {1000 * k : k \in 4..12} \cup {7919 * k : k \in 2..40}
MCBatchPoints == {0, 1, 2, 3, 11, 12, 13, 46, 99, 159, 160, 161, 163, 500, 1000}

Quiet == UNCHANGED <<groupVars, gen, pair>>
AtRest == reg = gej_set_infinity /\ mult = 0 /\ ratio = NoRatio /\ PairInit

Init == GroupInit /\ CallInit /\ GenInit /\ PairInit
\* Each part moves on its own, while the others are at rest.
SomeGen == ecmult_gen_blind([initial |-> gej_set_infinity, blind |-> 0], TRUE,
                            CHOOSE s \in Scales : TRUE, CHOOSE b \in FewFactors : b # 0)
FirstGen == gen = SomeGen
Next ==
  Fresh /\ (\/ PairInit /\ FirstGen /\ GroupNext /\ UNCHANGED <<last, gen, pair>>
            \/ AtRest /\ GenBlind /\ UNCHANGED <<last, groupVars, pair>>
            \/ AtRest /\ (\E gn \in Factors : GenMult(gn)) /\ Quiet
            \/ AtRest /\ FirstGen /\ WnafNext /\ Quiet
            \/ AtRest /\ FirstGen /\ EcmultNext /\ Quiet
            \/ mult = 0 /\ reg = gej_set_infinity /\ FirstGen /\ PairNext /\ UNCHANGED <<groupVars, gen, last>>
            \/ AtRest /\ FirstGen /\ EcdsaNext /\ Quiet)
=============================================================================
