--------------------------- MODULE MCTypeRegistry ---------------------------
(***************************************************************************)
(* Two releases that define ta each in its own way, to check TypeRegistry. *)
(***************************************************************************)
EXTENDS TypeRegistry, TLC

CONSTANTS ta, tb, verb, authority, a1, a2, b1, word, genesis, mine, r1, r2,
          m1, m2, c1

TheBootstrap == <<[key |-> verb, body |-> word]>>
TheGenesis == [key |-> authority, body |-> genesis]

TheSeeds ==
    r1 :> <<[key |-> ta, body |-> a1]>> @@
    r2 :> <<[key |-> ta, body |-> a2], [key |-> tb, body |-> b1]>>

OwnItems == {[key |-> ta, body |-> mine], [key |-> tb, body |-> mine]}

Symmetry == Permutations(Migrators)
=============================================================================
