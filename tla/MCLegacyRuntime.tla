--------------------------- MODULE MCLegacyRuntime ---------------------------
(***************************************************************************)
(* Small sets of taps and contracts to check LegacyRuntime on.             *)
(***************************************************************************)
EXTENDS LegacyRuntime, TLC

CONSTANTS t1, t2, r1, r2, w1, w2

Safe == [active |-> TRUE, dangerous |-> FALSE, adapter |-> "receipt",
         provable |-> TRUE]
Risky == [Safe EXCEPT !.dangerous = TRUE]

OnlySafe == {Safe}

\* A dangerous process that may be retired.
Risks == {Risky, [Risky EXCEPT !.active = FALSE]}

Symmetry == Permutations(Workers) \cup Permutations(Receivers)
=============================================================================
