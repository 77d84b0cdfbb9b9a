---------------------------- MODULE ProcessToken ----------------------------
(***************************************************************************)
(* What the custody machine promises of every process instance, without    *)
(* ledger rows, hashes, queues or workers: one token that starts at the    *)
(* start node when the instance is opened, and that only the responsible   *)
(* of the node it is at moves on, along the branch of the outcome it       *)
(* gives.                                                                  *)
(***************************************************************************)
EXTENDS ProcessMachine

CONSTANTS Instances, Unopened

VARIABLES
    token,      \* per instance, the node the token is at
    moves,      \* per instance, how often the token has moved
    mover       \* per instance, who moved it last

tokenVars == <<token, moves, mover>>

TokenInit ==
    /\ token = [i \in Instances |-> Unopened]
    /\ moves = [i \in Instances |-> 0]
    /\ mover = [i \in Instances |-> Unopened]

Open(i) ==
    /\ token[i] = Unopened
    /\ token' = [token EXCEPT ![i] = Start]
    /\ UNCHANGED <<moves, mover>>

Move(i, outcome) ==
    /\ token[i] \in Nodes
    /\ Branch[token[i]][outcome] # Missing
    /\ token' = [token EXCEPT ![i] = Branch[token[i]][outcome]]
    /\ moves' = [moves EXCEPT ![i] = @ + 1]
    /\ mover' = [mover EXCEPT ![i] = Responsible[token[i]]]

TokenNext ==
    \E i \in Instances :
        Open(i) \/ \E outcome \in Outcomes : Move(i, outcome)

TokenSpec == TokenInit /\ [][TokenNext]_tokenVars
=============================================================================
