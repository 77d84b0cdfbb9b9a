--------------------------- MODULE MCCustodyViews ---------------------------
(***************************************************************************)
(* A reader beside the small process types of MCCustodyRuntime.            *)
(***************************************************************************)
EXTENDS CustodyViews, MCCustodyRuntime

CONSTANTS r1, r2

ViewSymmetry == Permutations(Instances) \cup Permutations(Readers) \cup Permutations(Workers)
                    \cup Permutations(Callers)
=============================================================================
