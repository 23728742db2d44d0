---------------------------- MODULE MCDhChannel ----------------------------
(* DhChannel for TLC: analyzers, one of them not trusted, and one key      *)
(* manager.                                                                *)
EXTENDS DhChannel, TLC

Symmetry == Permutations(Trusted)
=============================================================================
