----------------------------- MODULE MCChatTurn -----------------------------
(***************************************************************************)
(* A process type for ChatTurn: a person reviews, or doubts and reviews    *)
(* again, and the executor records.                                        *)
(***************************************************************************)
EXTENDS ChatTurn, MCCustodyRuntime

TalkBranch ==
    review :> [ok |-> record, doubt |-> review, not |-> Missing] @@
    record :> [ok |-> review, doubt |-> Stop, not |-> Missing]
=============================================================================
