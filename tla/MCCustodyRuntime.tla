-------------------------- MODULE MCCustodyRuntime --------------------------
(***************************************************************************)
(* Small process types to check CustodyRuntime on.                         *)
(***************************************************************************)
EXTENDS CustodyRuntime, TLC

CONSTANTS review, record, publish, person, executor, i1, i2, w1, w2, c1, c2, t1, t2

\* A person reviews, the executor records, round after round; a doubt repeats
\* the review, and a refused record names a node the type does not define.
LoopNodes == {review, record}
LoopResponsible == review :> person @@ record :> executor
LoopBranch ==
    review :> [ok |-> record, doubt |-> review, not |-> Stop] @@
    record :> [ok |-> review, doubt |-> Stop, not |-> Missing]

\* The executor records, a person reviews, the executor publishes.
LineNodes == {record, review, publish}
LineResponsible ==
    review :> person @@ record :> executor @@ publish :> executor
LineBranch ==
    record  :> [ok |-> review, doubt |-> Stop, not |-> Stop] @@
    review  :> [ok |-> publish, doubt |-> publish, not |-> Stop] @@
    publish :> [ok |-> Stop, doubt |-> Stop, not |-> Stop]

\* The executor publishes, which is dangerous here, and then records.
PressNodes == {publish, record}
PressResponsible == publish :> executor @@ record :> executor
PressBranch ==
    publish :> [ok |-> record, doubt |-> Stop, not |-> Stop] @@
    record :> [ok |-> Stop, doubt |-> Stop, not |-> Stop]

Symmetry == Permutations(Workers) \cup Permutations(Callers)
                \cup Permutations(Stamps)
=============================================================================
