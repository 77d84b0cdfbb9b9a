--------------------------- MODULE MCGrantSignoff ----------------------------
(***************************************************************************)
(* Symmetry to check GrantSignoff with.                                    *)
(***************************************************************************)
EXTENDS GrantSignoff, TLC

CONSTANTS g1, g2, k1, k2, o1, o2, v1, v2

Symmetry == Permutations(Verifiers) \cup Permutations(Askers)
=============================================================================
