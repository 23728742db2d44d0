---------------------------- MODULE MCSmNumbers ----------------------------
(* The words of SM2 for TLC: limbs of four bits, so that p is 4026527999   *)
(* and n is 4026527947.                                                    *)
EXTENDS SmNumbers

MCSmN == <<11, 12, 0, 15, 15, 15, 15, 14>>
MCSmMu == <<14, 5, 2, 2, 1, 1, 1, 17>>
\* Numbers below m: m or its half or zero, with the limbs from i to j set to an edge.
SmNear(m, edges, widths) ==
  {d \in {Tuple([k \in 1..8 |-> IF k \in i..(i + n) THEN x ELSE base[k]]) :
            base \in {m, [k \in 1..8 |-> m[k] \div 2], Zeros(8)}, i \in 1..8, n \in widths, x \in edges} :
     CompareLimbs(d, m) < 0}
MCSmPairs == SmNear(SmP, {0, 15}, {0, 3}) \X SmNear(SmP, {8, 15}, {0})
MCSmScalarPairs == SmNear(MCSmN, {0, 7}, {0, 2}) \X SmNear(MCSmN, {3, 15}, {1})
=============================================================================
