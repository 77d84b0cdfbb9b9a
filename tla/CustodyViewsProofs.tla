------------------------- MODULE CustodyViewsProofs -------------------------
(***************************************************************************)
(* What holds of the pendencies of CustodyViews for any number of readers  *)
(* beside any number of requests and executors.                            *)
(***************************************************************************)
EXTENDS CustodyViews, CustodyRowsProofs

------------------------------------------------------------------------------
\* What a response in progress knows: its rows were custody by the time of its
\* query, its items were the head's since, a person's row that it has looked at
\* is an item unless its instance has moved, and a row the query passed over
\* without reaching its limit was spent.
ReaderOK(r) ==
    /\ reader[r].left \subseteq reader[r].rows
    /\ reader[r].items \subseteq reader[r].rows
    /\ reader[r].rows \subseteq DOMAIN queue
    /\ \A i \in Instances : reader[r].since[i] <= Len(ledger[i])
    /\ \A k \in reader[r].rows :
           queue[k].source <= reader[r].since[queue[k].instance]
    /\ \A k \in reader[r].items :
           queue[k].source >= reader[r].since[queue[k].instance]
    /\ \A k \in reader[r].rows \ reader[r].left :
           (/\ ~RuntimeResponsible(queue[k])
            /\ queue[k].source = Len(ledger[queue[k].instance])
            /\ Len(ledger[queue[k].instance]) =
                   reader[r].since[queue[k].instance])
           => k \in reader[r].items
    /\ reader[r].known <= Len(queue)
    /\ Cardinality(reader[r].rows) < RowLimit =>
           \A k \in (1..reader[r].known) \ reader[r].rows :
               Children(ledger[queue[k].instance], queue[k].source) # {}

ViewInv ==
    /\ RowsInv
    /\ reader \in [Readers -> Reading]
    /\ \A r \in Readers : ReaderOK(r)

\* A row is the head's custody exactly when its source is the last tuple.
LEMMA HeadsCustody ==
    ASSUME RowsInv, NEW k \in DOMAIN queue
    PROVE  CurrentMatches(queue[k]) <=>
               queue[k].source = Len(ledger[queue[k].instance])
<1> DEFINE i == queue[k].instance
           n == Len(ledger[i])
<1>0. /\ TypeInv /\ LedgerInv /\ queue \in Seq(Row) /\ queue[k] \in Row
      /\ RowOK(queue[k])
  BY Shared DEF RowsInv, RowsOK
<1>1. i \in Instances /\ queue[k].node \in Nodes
  BY <1>0 DEF Row
<1>2. ledger[i] \in Seq(Act) /\ Replayable(ledger[i]) /\ Lawful(ledger[i])
  BY <1>0, <1>1, Shared DEF TypeInv, LedgerReplays, LedgerInv, LawfulHistory
<1>3. n \in 0..n /\ Replay(ledger[i])[n].tuple = n
  BY <1>2, HeadIsLast
<1>4. /\ queue[k].source \in 0..n
      /\ queue[k].node = Replay(ledger[i])[queue[k].source].node
  BY <1>0 DEF RowOK
<1> QED
  BY <1>1, <1>3, <1>4 DEF CurrentMatches, processCurrentState, IsOpen

LEMMA ReaderParts ==
    ASSUME ViewInv, NEW r \in Readers
    PROVE  /\ reader[r] \in Reading /\ ReaderOK(r)
           /\ reader[r].on \in BOOLEAN
           /\ reader[r].rows \in SUBSET Nat /\ reader[r].failed \in SUBSET Nat
           /\ reader[r].left \in SUBSET Nat /\ reader[r].items \in SUBSET Nat
           /\ reader[r].since \in [Instances -> Nat]
           /\ reader[r].known \in Nat
<1>1. reader[r] \in Reading /\ ReaderOK(r)
  BY DEF ViewInv
<1> QED
  BY <1>1 DEF Reading

\* What the others do.
LEMMA ReaderStays ==
    ASSUME ViewInv, [Next]_vars, UNCHANGED reader
    PROVE  ViewInv'
<1>1. /\ RowsInv /\ RowsInv' /\ SameRows /\ TypeInv
      /\ \A i \in Instances : HistoryKept(ledger[i], ledger'[i])
      /\ queue \in Seq(Row)
  BY NextKeepsRows, NextKeepsHistory, Shared DEF ViewInv, RowsInv
<1>2. ASSUME NEW r \in Readers PROVE ReaderOK(r)'
  <2>1. ReaderOK(r) /\ reader'[r] = reader[r]
        /\ reader[r].since \in [Instances -> Nat]
    BY ReaderParts
  <2>2. ASSUME NEW i \in Instances
        PROVE  /\ Len(ledger[i]) \in Nat /\ Len(ledger'[i]) \in Nat
               /\ Len(ledger[i]) <= Len(ledger'[i])
    BY <1>1 DEF HistoryKept
  <2>3. ASSUME NEW k \in reader[r].rows
        PROVE  /\ k \in DOMAIN queue' /\ queue'[k].source = queue[k].source
               /\ queue'[k].instance = queue[k].instance
               /\ queue'[k].node = queue[k].node
               /\ queue[k].instance \in Instances
               /\ queue[k].source \in Nat
               /\ queue[k].source <= reader[r].since[queue[k].instance]
    <3>1. k \in DOMAIN queue
      BY <2>1 DEF ReaderOK
    <3>2. queue[k] \in Row
      BY <1>1, <3>1
    <3> QED
      BY <1>1, <2>1, <3>1, <3>2 DEF SameRows, ReaderOK, Row
  <2>4. \A i \in Instances : reader[r].since[i] <= Len(ledger'[i])
    BY <2>1, <2>2 DEF ReaderOK
  <2>5. ASSUME NEW k \in reader[r].rows \ reader[r].left,
               ~RuntimeResponsible(queue'[k]),
               queue'[k].source = Len(ledger'[queue'[k].instance]),
               Len(ledger'[queue'[k].instance]) =
                   reader[r].since[queue'[k].instance]
        PROVE  k \in reader[r].items
    <3>1. /\ queue'[k].source = queue[k].source
          /\ queue'[k].instance = queue[k].instance
          /\ queue'[k].node = queue[k].node
          /\ queue[k].instance \in Instances
      BY <2>3
    <3>2. reader[r].since[queue[k].instance] <= Len(ledger[queue[k].instance])
          /\ reader[r].since[queue[k].instance] \in Nat
      BY <2>1, <3>1 DEF ReaderOK
    <3>3. Len(ledger[queue[k].instance]) = Len(ledger'[queue[k].instance])
      BY <2>2, <2>5, <3>1, <3>2
    <3>4. ~RuntimeResponsible(queue[k])
      BY <2>5, <3>1 DEF RuntimeResponsible
    <3> QED
      BY <2>1, <2>5, <3>1, <3>3, <3>4 DEF ReaderOK
  <2>6. \A k \in reader[r].items :
            queue'[k].source >= reader[r].since[queue'[k].instance]
    BY <2>1, <2>3 DEF ReaderOK
  <2>7. reader[r].known <= Len(queue')
    <3>1. queue' \in Seq(Row)
      BY <1>1 DEF RowsInv, TypeInv, TypeOK
    <3>2. /\ Len(queue) \in Nat /\ DOMAIN queue = 1..Len(queue)
          /\ Len(queue') \in Nat /\ DOMAIN queue' = 1..Len(queue')
      BY <1>1, <3>1
    <3>3. \A k \in 1..Len(queue) : k \in 1..Len(queue')
      BY <1>1, <3>2 DEF SameRows
    <3>4. Len(queue) <= Len(queue')
      BY <3>2, <3>3
    <3>5. reader[r].known \in Nat /\ reader[r].known <= Len(queue)
      BY <2>1, ReaderParts DEF ReaderOK
    <3> QED
      BY <3>2, <3>4, <3>5
  <2>8. ASSUME Cardinality(reader[r].rows) < RowLimit,
               NEW k \in (1..reader[r].known) \ reader[r].rows
        PROVE  Children(ledger'[queue'[k].instance], queue'[k].source) # {}
    <3>1. k \in DOMAIN queue
      BY <1>1, <2>1, ReaderParts DEF ReaderOK
    <3>2. /\ queue'[k].source = queue[k].source
          /\ queue'[k].instance = queue[k].instance
          /\ queue[k].instance \in Instances
      <4>1. queue[k] \in Row
        BY <1>1, <3>1
      <4> QED
        BY <1>1, <3>1, <4>1 DEF SameRows, Row
    <3>3. Children(ledger[queue[k].instance], queue[k].source) # {}
      BY <2>1, <2>8 DEF ReaderOK
    <3> QED
      BY <1>1, <3>2, <3>3, ChildrenStay
  <2> QED
    BY <2>1, <2>3, <2>4, <2>5, <2>6, <2>7, <2>8
    DEF ReaderOK, RuntimeResponsible
<1> QED
  BY <1>1, <1>2 DEF ViewInv

\* A reader's own step: the tables are as they were.
LEMMA ReaderSteps ==
    ASSUME ViewInv, UNCHANGED vars, NEW r \in Readers, NEW new \in Reading,
           reader' = [reader EXCEPT ![r] = new],
           RowsInv' => ReaderOK(r)'
    PROVE  ViewInv'
<1>1. reader \in [Readers -> Reading] /\ RowsInv
  BY DEF ViewInv
<1>2. RowsInv'
  BY <1>1, NextKeepsRows
<1>3. ASSUME NEW q \in Readers, q # r PROVE ReaderOK(q)'
  <2>1. ReaderOK(q) /\ reader'[q] = reader[q]
    BY <1>1, <1>3 DEF ViewInv
  <2> QED
    BY <2>1 DEF ReaderOK, vars, RuntimeResponsible
<1> QED
  BY <1>1, <1>2, <1>3 DEF ViewInv

LEMMA ReadRowsStep ==
    ASSUME ViewInv, NEW r \in Readers, ReadRows(r)
    PROVE  ViewInv'
<1> PICK window \in Windows :
          reader' = [reader EXCEPT ![r] =
              [on |-> TRUE, rows |-> window,
               failed |-> {k \in window : queue[k].last_error},
               left |-> window, items |-> {},
               since |-> [i \in Instances |-> Len(ledger[i])],
               known |-> Len(queue)]]
  BY DEF ReadRows
<1> DEFINE new == [on |-> TRUE, rows |-> window,
                   failed |-> {k \in window : queue[k].last_error},
                   left |-> window, items |-> {},
                   since |-> [i \in Instances |-> Len(ledger[i])],
                   known |-> Len(queue)]
<1>1. /\ RowsInv /\ queue \in Seq(Row) /\ ledger \in [Instances -> Seq(Act)]
      /\ reader \in [Readers -> Reading]
  BY Shared DEF ViewInv, RowsInv
<1>2. /\ window \subseteq CurrentRows
      /\ Cardinality(window) < RowLimit => window = CurrentRows
      /\ window \subseteq DOMAIN queue /\ window \in SUBSET Nat
      /\ Len(queue) \in Nat /\ DOMAIN queue = 1..Len(queue)
  <2>1. /\ window \subseteq CurrentRows
        /\ window # CurrentRows => Cardinality(window) = RowLimit
    BY DEF Windows
  <2> QED
    BY <1>1, <2>1, LimitAssumption DEF CurrentRows
<1>3. [i \in Instances |-> Len(ledger[i])] \in [Instances -> Nat]
  BY <1>1
<1>4. new \in Reading
  BY <1>2, <1>3 DEF Reading
<1>5. UNCHANGED vars /\ reader' = [reader EXCEPT ![r] = new]
  BY DEF ReadRows
<1>6. ASSUME NEW k \in window
      PROVE  /\ queue[k].instance \in Instances
             /\ queue[k].source <= Len(ledger[queue[k].instance])
  <2>1. queue[k] \in Row /\ RowOK(queue[k])
    BY <1>1, <1>2 DEF RowsInv, RowsOK
  <2> QED
    BY <1>1, <2>1 DEF RowOK, Row
<1>7. ReaderOK(r)'
  <2>1. reader'[r] = new /\ queue' = queue /\ ledger' = ledger
    BY <1>1, <1>5 DEF vars
  <2>2. /\ new.rows = window /\ new.left = window /\ new.items = {}
        /\ new.since = [i \in Instances |-> Len(ledger[i])]
        /\ new.known = Len(queue)
    OBVIOUS
  <2>3. \A i \in Instances : Len(ledger[i]) \in Nat
    BY <1>1
  <2>4. ASSUME Cardinality(window) < RowLimit,
               NEW k \in (1..Len(queue)) \ window
        PROVE  Children(ledger[queue[k].instance], queue[k].source) # {}
    <3>1. k \in DOMAIN queue /\ queue[k].status = "closed"
      BY <1>2, <2>4 DEF CurrentRows
    <3> QED
      BY <1>1, <3>1 DEF RowsInv, RowsOK, RowOK
  <2> HIDE DEF new
  <2> QED
    BY <1>2, <1>6, <2>1, <2>2, <2>3, <2>4 DEF ReaderOK
<1> HIDE DEF new
<1> QED
  BY <1>4, <1>5, <1>7, ReaderSteps

LEMMA MatchRowStep ==
    ASSUME ViewInv, NEW r \in Readers, NEW k \in reader[r].left, MatchRow(r, k)
    PROVE  ViewInv'
<1> DEFINE shown == MatchesHead(queue[k]) /\ NeedsSomeone(r, k)
           left == reader[r].left \ {k}
           items == IF shown THEN reader[r].items \cup {k} ELSE reader[r].items
           new == [reader[r] EXCEPT !.left = left, !.items = items]
<1>0. /\ reader[r] \in Reading /\ ReaderOK(r)
      /\ reader[r].left \in SUBSET Nat /\ reader[r].items \in SUBSET Nat
      /\ reader[r].since \in [Instances -> Nat]
      /\ RowsInv /\ queue \in Seq(Row)
      /\ reader \in [Readers -> Reading]
  BY ReaderParts, Shared DEF ViewInv, RowsInv
<1>1. left \in SUBSET Nat /\ items \in SUBSET Nat
  BY <1>0
<1>2. UNCHANGED vars /\ reader' = [reader EXCEPT ![r] = new]
  <2>1. UNCHANGED vars
    BY DEF MatchRow
  <2>2. reader' = [reader EXCEPT ![r].left = left, ![r].items = items]
    BY DEF MatchRow
  <2> HIDE DEF left, items
  <2> QED
    BY <1>0, <2>1, <2>2
<1>3. k \in reader[r].rows /\ k \in DOMAIN queue
  BY <1>0 DEF ReaderOK
<1>4. /\ queue[k] \in Row /\ queue[k].instance \in Instances
      /\ CurrentMatches(queue[k]) <=>
             queue[k].source = Len(ledger[queue[k].instance])
  <2>1. queue[k] \in Row
    BY <1>0, <1>3
  <2>2. queue[k].instance \in Instances
    BY <2>1 DEF Row
  <2> QED
    BY <1>0, <1>3, <2>1, <2>2, HeadsCustody
<1>5. shown => queue[k].source >= reader[r].since[queue[k].instance]
  <2>1. /\ reader[r].since[queue[k].instance] <= Len(ledger[queue[k].instance])
        /\ reader[r].since[queue[k].instance] \in Nat
    BY <1>0, <1>4 DEF ReaderOK
  <2>2. queue[k].source \in Nat
    BY <1>4 DEF Row
  <2> QED
    BY <1>4, <2>1, <2>2 DEF MatchesHead
<1>6. (/\ ~RuntimeResponsible(queue[k])
       /\ queue[k].source = Len(ledger[queue[k].instance])) => shown
  BY <1>4 DEF MatchesHead, NeedsSomeone
<1> HIDE DEF shown
<1>7. /\ \A n \in items : n \in reader[r].items \/ (shown /\ n = k)
      /\ shown => k \in items
      /\ reader[r].items \subseteq items
  OBVIOUS
<1> HIDE DEF items, left
<1>8. /\ new \in Reading
      /\ new.rows = reader[r].rows /\ new.since = reader[r].since
      /\ new.left = left /\ new.items = items /\ new.known = reader[r].known
  BY <1>0, <1>1 DEF Reading
<1> HIDE DEF new
<1>9. ReaderOK(r)'
  <2>1. reader'[r] = new /\ queue' = queue /\ ledger' = ledger
    BY <1>0, <1>2 DEF vars
  <2>2. left \subseteq reader[r].rows /\ items \subseteq reader[r].rows
    BY <1>0, <1>3, <1>7 DEF ReaderOK, left
  <2>3. \A n \in items :
            queue[n].source >= reader[r].since[queue[n].instance]
    BY <1>0, <1>5, <1>7 DEF ReaderOK
  <2>4. ASSUME NEW n \in reader[r].rows \ left,
               ~RuntimeResponsible(queue[n]),
               queue[n].source = Len(ledger[queue[n].instance]),
               Len(ledger[queue[n].instance]) =
                   reader[r].since[queue[n].instance]
        PROVE  n \in items
    <3>1. CASE n = k
      BY <1>6, <1>7, <2>4, <3>1
    <3>2. CASE n # k
      <4>1. n \in reader[r].rows \ reader[r].left
        BY <2>4, <3>2 DEF left
      <4>2. n \in reader[r].items
        BY <1>0, <2>4, <4>1 DEF ReaderOK
      <4> QED
        BY <1>7, <4>2
    <3> QED
      BY <3>1, <3>2
  <2> QED
    BY <1>0, <1>8, <2>1, <2>2, <2>3, <2>4 DEF ReaderOK, RuntimeResponsible
<1> QED
  BY <1>2, <1>8, <1>9, ReaderSteps

LEMMA NotReadingOK ==
    ASSUME TypeInv, NEW r \in Readers, reader[r] = NotReading
    PROVE  ReaderOK(r)
<1>1. (\A i \in Instances : Len(ledger[i]) \in Nat) /\ Len(queue) \in Nat
  BY Shared
<1> QED
  BY <1>1 DEF ReaderOK, NotReading

LEMMA RespondStep ==
    ASSUME ViewInv, NEW r \in Readers, Respond(r)
    PROVE  ViewInv'
<1>1. /\ UNCHANGED vars /\ reader' = [reader EXCEPT ![r] = NotReading]
      /\ reader'[r] = NotReading
  BY DEF Respond, ViewInv
<1>2. NotReading \in Reading
  BY DEF NotReading, Reading
<1>3. TypeInv' => ReaderOK(r)'
  <2>1. ASSUME TypeInv' PROVE ReaderOK(r)'
    <3>1. (\A i \in Instances : Len(ledger'[i]) \in Nat) /\ Len(queue') \in Nat
      BY <2>1 DEF TypeInv, TypeOK
    <3> QED
      BY <1>1, <3>1 DEF ReaderOK, NotReading
  <2> QED
    BY <2>1
<1> QED
  BY <1>1, <1>2, <1>3, ReaderSteps DEF RowsInv

------------------------------------------------------------------------------
\* The response in progress, whatever happens between its query and each of
\* its replays.
THEOREM ResponsesKnow == SpecView => []ViewInv
<1>1. InitView => ViewInv
  <2>1. ASSUME InitView PROVE ViewInv
    <3>1. RowsInv
      BY <2>1, InitRows DEF InitView
    <3>2. reader \in [Readers -> Reading]
      BY <2>1 DEF InitView, NotReading, Reading
    <3>3. \A r \in Readers : reader[r] = NotReading
      BY <2>1 DEF InitView
    <3> QED
      BY <3>1, <3>2, <3>3, NotReadingOK DEF ViewInv, RowsInv
  <2> QED
    BY <2>1
<1>2. ViewInv /\ [NextView]_viewVars => ViewInv'
  <2>1. ASSUME ViewInv, NEW r \in Readers, View(r) PROVE ViewInv'
    BY <2>1, ReadRowsStep, MatchRowStep, RespondStep DEF View
  <2>2. ASSUME ViewInv, (Next /\ UNCHANGED reader) \/ UNCHANGED viewVars
        PROVE  ViewInv'
    BY <2>2, ReaderStays DEF viewVars
  <2> QED
    BY <2>1, <2>2 DEF NextView
<1> QED
  BY <1>1, <1>2, PTL DEF SpecView

\* No pendency had been answered when its request began (currentWork matches
\* source_tuple with current_tuple, row by row, after the query).
THEOREM PendenciesWereCurrent == SpecView => []PendencyWasCurrent
<1>1. ViewInv => PendencyWasCurrent
  BY DEF ViewInv, ReaderOK, PendencyWasCurrent
<1> QED
  BY <1>1, ResponsesKnow, PTL

\* An instance is listed once: the only row of the query that can be the head's
\* at any later time is that of the head it had then.
THEOREM PendenciesAreUnique == SpecView => []OnePendencyEach
<1>1. ASSUME ViewInv, NEW r \in Readers, NEW k \in reader[r].items,
             NEW n \in reader[r].items, queue[k].instance = queue[n].instance
      PROVE  k = n
  <2>1. /\ ReaderOK(r) /\ queue \in Seq(Row) /\ RowsInv
        /\ reader[r].since \in [Instances -> Nat]
    BY <1>1, ReaderParts, Shared DEF ViewInv, RowsInv
  <2>2. /\ k \in DOMAIN queue /\ n \in DOMAIN queue
        /\ k \in reader[r].rows /\ n \in reader[r].rows
    BY <1>1, <2>1 DEF ReaderOK
  <2>3. /\ queue[k].source \in Nat /\ queue[n].source \in Nat
        /\ queue[k].instance \in Instances
    <3>1. queue[k] \in Row /\ queue[n] \in Row
      BY <2>1, <2>2
    <3> QED
      BY <3>1 DEF Row
  <2>4. /\ queue[k].source <= reader[r].since[queue[k].instance]
        /\ queue[k].source >= reader[r].since[queue[k].instance]
        /\ queue[n].source <= reader[r].since[queue[k].instance]
        /\ queue[n].source >= reader[r].since[queue[k].instance]
        /\ reader[r].since[queue[k].instance] \in Nat
    BY <1>1, <2>1, <2>2, <2>3 DEF ReaderOK
  <2>5. queue[k].source = queue[n].source
    BY <2>3, <2>4
  <2> QED
    BY <1>1, <2>1, <2>2, <2>5 DEF RowsInv, RowsOK, OneRowEach
<1>2. ViewInv => OnePendencyEach
  BY <1>1 DEF OnePendencyEach
<1> QED
  BY <1>2, ResponsesKnow, PTL

\* A person's turn that had its row when the request came is in the response
\* during which it stays that person's turn, if no limit cut the response short.
THEOREM TurnsAreListed == SpecView => []TurnIsListed
<1>1. ASSUME ViewInv, NEW r \in Readers, NEW k \in 1..reader[r].known,
             reader[r].left = {}, Cardinality(reader[r].rows) < RowLimit,
             CurrentMatches(queue[k]), ~RuntimeResponsible(queue[k]),
             Len(ledger[queue[k].instance]) =
                 reader[r].since[queue[k].instance]
      PROVE  k \in reader[r].items
  <2>1. ReaderOK(r) /\ RowsInv /\ TypeInv /\ LedgerInv /\ queue \in Seq(Row)
    BY <1>1, Shared DEF ViewInv, RowsInv
  <2>2. k \in DOMAIN queue
    BY <1>1, <2>1, ReaderParts DEF ReaderOK
  <2>3. queue[k].source = Len(ledger[queue[k].instance])
    BY <1>1, <2>1, <2>2, HeadsCustody
  <2>4. k \in reader[r].rows
    <3> DEFINE i == queue[k].instance
    <3>1. i \in Instances
      <4>1. queue[k] \in Row
        BY <2>1, <2>2
      <4> QED
        BY <4>1 DEF Row
    <3>2. ledger[i] \in Seq(Act) /\ Chained(ledger[i])
      BY <2>1, <3>1, Shared DEF LedgerInv, SingleChain
    <3>3. Children(ledger[i], Len(ledger[i])) = {}
      BY <3>2 DEF Chained, Children
    <3> QED
      BY <1>1, <2>1, <2>3, <3>3 DEF ReaderOK
  <2> QED
    BY <1>1, <2>1, <2>3, <2>4 DEF ReaderOK
<1>2. ViewInv => TurnIsListed
  BY <1>1 DEF TurnIsListed
<1> QED
  BY <1>2, ResponsesKnow, PTL

\* Every value a response keeps has its type; what it has left to look at and
\* what it lists are among the rows of its query, and those are rows still.
THEOREM ViewTypeCorrect == SpecView => []ViewTypeOK
<1>1. ViewInv => ViewTypeOK
  BY DEF ViewInv, RowsInv, TypeInv, ReaderOK, ViewTypeOK
<1> QED
  BY <1>1, ResponsesKnow, PTL

\* Beside any number of readers the custody machine behaves as it does alone,
\* so that what is proved of Spec holds while the queue is being read.
THEOREM ReadersChangeNothing == SpecView => Spec
<1>1. InitView => Init
  BY DEF InitView
<1>2. [NextView]_viewVars => [Next]_vars
  BY DEF NextView, View, ReadRows, MatchRow, Respond, viewVars
<1> QED
  BY <1>1, <1>2, PTL DEF SpecView, Spec
=============================================================================
