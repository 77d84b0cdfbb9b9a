---------------------------- MODULE CustodyViews ----------------------------
(***************************************************************************)
(* The current-work projection of the Worker API, which GET /api/now and   *)
(* GET /api/pendencies read: the custody rows that are not closed, each    *)
(* matched against the head of its process instance by a replay of its     *)
(* own.  Between the query that reads the rows and the replays, requests,  *)
(* routers and executors move on.  A reader changes nothing.               *)
(***************************************************************************)
EXTENDS CustodyRuntime, FiniteSets

CONSTANTS
    Readers,        \* concurrent GET requests
    RowLimit,       \* rows the query returns at most
    ItemLimit       \* pendencies a response lists at most

ASSUME LimitAssumption == RowLimit \in Nat \ {0} /\ ItemLimit \in Nat \ {0}

VARIABLE reader         \* per reader, what it has read and what it shows

viewVars == <<vars, reader>>

\* `rows` are the rows of the one query, `failed` those of them whose
\* last_error it showed, `left` those not yet matched, `items` the pendencies.
\* `since` and `known` are history variables: the Acts and the custody rows there
\* were at that query.
Reading == [on : BOOLEAN, rows : SUBSET Nat, failed : SUBSET Nat,
            left : SUBSET Nat, items : SUBSET Nat,
            since : [Instances -> Nat], known : Nat]

NotReading == [on |-> FALSE, rows |-> {}, failed |-> {}, left |-> {},
               items |-> {}, since |-> [i \in Instances |-> 0], known |-> 0]

InitView == Init /\ reader = [r \in Readers |-> NotReading]

\* currentCustodies returns the rows that are queued or claimed, or RowLimit of
\* them: those updated last, by a column the model does not keep.
CurrentRows == {k \in DOMAIN queue : queue[k].status # "closed"}

Windows ==
    IF Cardinality(CurrentRows) <= RowLimit
    THEN {CurrentRows}
    ELSE {window \in SUBSET CurrentRows : Cardinality(window) = RowLimit}

ReadRows(r) ==
    /\ ~reader[r].on
    /\ \E window \in Windows :
           reader' = [reader EXCEPT ![r] =
               [on |-> TRUE, rows |-> window,
                failed |-> {k \in window : queue[k].last_error},
                left |-> window, items |-> {},
                since |-> [i \in Instances |-> Len(ledger[i])],
                known |-> Len(queue)]]
    /\ UNCHANGED vars

\* The response lists as many pendencies as it may; the loop breaks.
IsFull(r) == Cardinality(reader[r].items) >= ItemLimit

\* runtimeResponsible.
RuntimeResponsible(row) == Responsible[row.node] = Executor

\* A match that does not compare source_tuple with current_tuple.
MatchesNode(row) ==
    LET state == processCurrentState(ledger[row.instance]) IN
    IsOpen(state) /\ state.node = row.node

\* currentMatches of runtime.ts.
MatchesHead(row) == CurrentMatches(row)

\* Work shown only once it has failed, whoever is responsible for it.
FailedWork(r, k) == k \in reader[r].failed

\* Runtime work that has not failed is no pendency.
NeedsSomeone(r, k) == RuntimeResponsible(queue[k]) => k \in reader[r].failed

\* One row: replay its instance, keep it if it is the head's custody and needs
\* somebody.
MatchRow(r, k) ==
    /\ k \in reader[r].left
    /\ ~IsFull(r)
    /\ reader' = [reader EXCEPT
           ![r].left = @ \ {k},
           ![r].items = IF MatchesHead(queue[k]) /\ NeedsSomeone(r, k)
                        THEN @ \cup {k} ELSE @]
    /\ UNCHANGED vars

\* A response whose items are still there for the next one.
RespondKeepsItems(r) ==
    /\ reader[r].on
    /\ reader[r].left = {} \/ IsFull(r)
    /\ reader' = [reader EXCEPT ![r] = [NotReading EXCEPT !.items = reader[r].items]]
    /\ UNCHANGED vars

\* The response; a reader that dies leaves as little behind.
Respond(r) ==
    /\ reader[r].on
    /\ reader[r].left = {} \/ IsFull(r)
    /\ reader' = [reader EXCEPT ![r] = NotReading]
    /\ UNCHANGED vars

View(r) ==
    \/ ReadRows(r)
    \/ \E k \in reader[r].left : MatchRow(r, k)
    \/ Respond(r)

NextView ==
    \/ Next /\ UNCHANGED reader
    \/ \E r \in Readers : View(r)

SpecView == InitView /\ [][NextView]_viewVars

------------------------------------------------------------------------------
\* Properties.

\* Type invariant.
ViewTypeOK ==
    /\ TypeOK
    /\ reader \in [Readers -> Reading]
    /\ \A r \in Readers : /\ reader[r].left \subseteq reader[r].rows
                          /\ reader[r].items \subseteq reader[r].rows
                          /\ reader[r].rows \subseteq DOMAIN queue

\* "Stale custody rows are not exposed as current truth" (docs/API.md): work
\* that had been answered when the request began is not among its pendencies,
\* however many rows crashed routers and late executors have left behind.
PendencyWasCurrent ==
    \A r \in Readers : \A k \in reader[r].items :
        queue[k].source >= reader[r].since[queue[k].instance]

\* An instance has one current work item: it is not listed twice, even when
\* its head moves between the replays of one response.
OnePendencyEach ==
    \A r \in Readers : \A k, n \in reader[r].items :
        queue[k].instance = queue[n].instance => k = n

\* A person's turn that had its row when the request came, and stays that
\* person's turn, is in the response, unless a limit cut the response short: the
\* query returned as many rows as it may, or the list is full.
TurnIsListed ==
    \A r \in Readers : \A k \in 1..reader[r].known :
        (/\ reader[r].left = {}
         /\ Cardinality(reader[r].rows) < RowLimit
         /\ ~IsFull(r)
         /\ CurrentMatches(queue[k])
         /\ ~RuntimeResponsible(queue[k])
         /\ Len(ledger[queue[k].instance]) = reader[r].since[queue[k].instance])
        => k \in reader[r].items
=============================================================================
