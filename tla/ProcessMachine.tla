--------------------------- MODULE ProcessMachine ---------------------------
(***************************************************************************)
(* The deterministic law of one custody process type, as the Worker API    *)
(* computes it: nodes with a responsible actor and three branches, the     *)
(* replay of an instance's ledger rows into its current state, and the     *)
(* rule the pre-append membrane applies to a proposed dispatch.            *)
(*                                                                         *)
(* An instance's history is the sequence of its process-bound Acts in      *)
(* ledger order.  The opening has tuple 0 and the k-th Act tuple k, so a   *)
(* record stands for everything its tuple hash covers: two proposals are   *)
(* the same tuple exactly when their records are equal.                    *)
(***************************************************************************)
EXTENDS Integers, Sequences

CONSTANTS
    Actors,         \* who may be responsible for a node or author an Act
    Nodes,          \* nodes of the process type
    Start,          \* the node an opening starts at
    Responsible,    \* [Nodes -> Actors]
    Branch,         \* [Nodes -> [Outcomes -> node, Stop or Missing]]
    Stop,           \* a terminal target: empty, stop, close, closed, end
    Missing,        \* a target that names no defined node
    Stamps,         \* `when` and the other slots that tell tuples apart
    MaxActs         \* bound: process-bound Acts of one instance

Outcomes == {"ok", "doubt", "not"}
Statuses == Outcomes \cup {"other"}
Targets  == Nodes \cup {Stop, Missing}

ASSUME TypeAssumption ==
    /\ Start \in Nodes
    /\ Stop \notin Nodes
    /\ Missing \notin Nodes
    /\ Stop # Missing
    /\ Responsible \in [Nodes -> Actors]
    /\ Branch \in [Nodes -> [Outcomes -> Targets]]
    /\ MaxActs \in Nat

\* `cites`: the Act carries the grant_id of the (one) grant of the model.
Act == [parent : Nat, who : Actors, status : Statuses,
        stamp : Stamps, cites : BOOLEAN]

\* ProcessCurrentState, reduced to what routing reads: a node outside Nodes
\* means status "closed".
State == [node : Targets, tuple : Nat]

OpeningState == [node |-> Start, tuple |-> 0]

IsOpen(state) == state.node \in Nodes

\* One turn of the replay loop for row k.
Observe(state, act, k) ==
    IF /\ act.parent = state.tuple
       /\ IsOpen(state)
       /\ act.status \in Outcomes
    THEN [node |-> Branch[state.node][act.status], tuple |-> k]
    ELSE state

\* The state after each row of a history, from the opening on.
Replay(history) ==
    LET states[k \in 0..Len(history)] ==
            IF k = 0 THEN OpeningState
            ELSE Observe(states[k - 1], history[k], k)
    IN  states

processCurrentState(history) == Replay(history)[Len(history)]

\* Two ways verification could be wrong: any author, any branch.
PermittedToAnyone(history, act) ==
    LET state == processCurrentState(history) IN
    /\ IsOpen(state)
    /\ act.parent = state.tuple
    /\ act.status \in Outcomes
    /\ Branch[state.node][act.status] # Missing

PermittedAnywhere(history, act) ==
    LET state == processCurrentState(history) IN
    /\ IsOpen(state)
    /\ act.parent = state.tuple
    /\ act.who = Responsible[state.node]
    /\ act.status \in Outcomes

\* verifyProcessProposal for an Act bound to an open instance.
Permitted(history, act) ==
    LET state == processCurrentState(history) IN
    /\ IsOpen(state)
    /\ act.parent = state.tuple
    /\ act.who = Responsible[state.node]
    /\ act.status \in Outcomes
    /\ Branch[state.node][act.status] # Missing

\* Rows of a history that name `tuple` as their parent.
Children(history, tuple) == {k \in DOMAIN history : history[k].parent = tuple}

\* A history without forks: every row names the row before it.
Chained(history) ==
    \A k \in DOMAIN history : history[k].parent = k - 1

\* A row that was a lawful move: it leaves an open node, its author is that
\* node's responsible, and replay takes it along a defined branch.
LawfulMove(history, k) ==
    LET before == Replay(history)[k - 1]
        after  == Replay(history)[k]
    IN  /\ IsOpen(before)
        /\ history[k].who = Responsible[before.node]
        /\ history[k].status \in Outcomes
        /\ after = [node |-> Branch[before.node][history[k].status],
                    tuple |-> k]
        /\ after.node # Missing

Lawful(history) == \A k \in DOMAIN history : LawfulMove(history, k)
=============================================================================
