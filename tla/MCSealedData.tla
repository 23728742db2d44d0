---------------------------- MODULE MCSealedData ----------------------------
(* SealedData for TLC: items that fit a batch together, items that fill    *)
(* one alone, and one that is larger than an item may be.                  *)
EXTENDS SealedData

MCSize == [i \in {-1, -2, -3, -4} |-> -i]
=============================================================================
