-------------------------- MODULE CustodyRowsProofs --------------------------
(***************************************************************************)
(* What holds of the custody queue for every process type, any number of   *)
(* instances, requests and executors, and every failure CustodyRuntime     *)
(* models: its rows are those of the heads the ledger has had, a closed    *)
(* one has been answered, and a recorded result is the answer.             *)
(*                                                                         *)
(* On the rows rest the other laws of the machine: it moves one token for  *)
(* each instance, loses the custody of a head only when a handler fails,   *)
(* steals no live claim, and has no executor act dangerously unsigned.     *)
(***************************************************************************)
EXTENDS CustodyRuntimeProofs

------------------------------------------------------------------------------
\* One row, and the rows together.
RowOK(row) ==
    LET history == ledger[row.instance] IN
    /\ row.instance \in opened
    /\ row.source \in 0..Len(history)
    /\ row.node = Replay(history)[row.source].node
    /\ row.status = "closed" => Children(history, row.source) # {}
    /\ row.result # NoResult =>
           /\ row.status = "closed"
           /\ row.result \in DOMAIN history
           /\ history[row.result].parent = row.source
           /\ history[row.result].who = Executor

OneRowEach ==
    \A k, n \in DOMAIN queue :
        /\ queue[k].instance = queue[n].instance
        /\ queue[k].source = queue[n].source
        => k = n

RowsOK == (\A k \in DOMAIN queue : RowOK(queue[k])) /\ OneRowEach

\* An executor's Act answers the row it claimed.
Answers(entry, row) ==
    /\ entry.instance = row.instance
    /\ entry.act \in Act
    /\ entry.act.parent = row.source
    /\ entry.act.who = Executor

\* What a handler knows that makes its blind UPDATEs and INSERTs right: a
\* router closes custody whose answer is recorded and queues a state that
\* replay has reached, however long ago; an executor calls a row stale that
\* has been answered, and works on one that is its own.
HandlerOK(p) ==
    /\ pc[p] \in Registering => proposal[p].instance \in opened
    /\ pc[p] = "close" => Recorded(ledger, proposal[p])
    /\ pc[p] = "enqueue" =>
           LET history == ledger[proposal[p].instance] IN
           /\ view[p].tuple \in 0..Len(history)
           /\ view[p].node = Replay(history)[view[p].tuple].node
    /\ p \in Workers =>
           LET row == queue[job[p]] IN
           /\ pc[p] # "idle" => Responsible[row.node] = Executor
           /\ pc[p] = "stale" => Children(ledger[row.instance], row.source) # {}
           /\ pc[p] \in Registering => Answers(proposal[p], row)

RowsInv ==
    /\ TypeInv
    /\ LedgerInv
    /\ RowsOK
    /\ \A p \in Procs : HandlerOK(p)

\* A row keeps its place and stays custody of the same occurrence.
SameRows ==
    \A k \in DOMAIN queue :
        /\ k \in DOMAIN queue'
        /\ queue'[k].instance = queue[k].instance
        /\ queue'[k].source = queue[k].source
        /\ queue'[k].node = queue[k].node

------------------------------------------------------------------------------
\* The past is kept.

\* Nothing that is said of a history's rows or of the states between them is
\* undone by a step.
HistoryKept(old, new) ==
    /\ old \in Seq(Act) /\ new \in Seq(Act)
    /\ Len(old) <= Len(new)
    /\ \A k \in 1..Len(old) : new[k] = old[k]
    /\ \A k \in 0..Len(old) : Replay(new)[k] = Replay(old)[k]

LEMMA NextKeepsHistory ==
    ASSUME TypeInv, LedgerInv, [Next]_vars
    PROVE  \A i \in Instances : HistoryKept(ledger[i], ledger'[i])
<1>1. Inserts /\ ledger \in [Instances -> Seq(Act)]
  BY NextVerified, Shared
<1> SUFFICES ASSUME NEW i \in Instances
             PROVE  HistoryKept(ledger[i], ledger'[i])
  OBVIOUS
<1>2. \/ ledger'[i] = ledger[i]
      \/ \E new \in Act : ledger'[i] = Append(ledger[i], new)
  BY <1>1, InsertKeepsChain
<1>3. ledger[i] \in Seq(Act) /\ ReplayDefined(ledger[i])
  BY <1>1 DEF TypeInv, LedgerReplays, Replayable
<1>4. CASE ledger'[i] = ledger[i]
  BY <1>3, <1>4 DEF HistoryKept
<1>5. ASSUME NEW new \in Act, ledger'[i] = Append(ledger[i], new)
      PROVE  HistoryKept(ledger[i], ledger'[i])
  BY <1>3, <1>5, ReplayAppend DEF HistoryKept
<1> QED
  BY <1>2, <1>4, <1>5

LEMMA ChildrenStay ==
    ASSUME NEW old, NEW new, HistoryKept(old, new), NEW tuple,
           Children(old, tuple) # {}
    PROVE  Children(new, tuple) # {}
<1>1. PICK k \in DOMAIN old : old[k].parent = tuple
  BY DEF Children
<1>2. k \in DOMAIN new /\ new[k] = old[k]
  BY DEF HistoryKept
<1> QED
  BY <1>1, <1>2 DEF Children

\* A recorded Act is a child of its parent, and its tuple is a row's.
LEMMA RecordedChild ==
    ASSUME NEW entry, Recorded(ledger, entry)
    PROVE  Children(ledger[entry.instance], entry.act.parent) # {}
  BY DEF Recorded, Children

\* A row that is as good as another, after a step.
LEMMA RowStays ==
    ASSUME NEW row \in Row, RowOK(row), opened \subseteq opened',
           HistoryKept(ledger[row.instance], ledger'[row.instance])
    PROVE  RowOK(row)'
<1> DEFINE old == ledger[row.instance]
           new == ledger'[row.instance]
<1>1. HistoryKept(old, new) /\ row.source \in 0..Len(old)
  BY DEF RowOK
<1>2. row.source \in 0..Len(new) /\ row.instance \in opened'
      /\ Replay(new)[row.source] = Replay(old)[row.source]
  BY <1>1 DEF HistoryKept, RowOK
<1>3. row.status = "closed" => Children(new, row.source) # {}
  BY <1>1, ChildrenStay DEF RowOK
<1>4. row.result \in DOMAIN old =>
          row.result \in DOMAIN new /\ new[row.result] = old[row.result]
  BY <1>1 DEF HistoryKept
<1> HIDE DEF old, new
<1>5. /\ row.node = Replay(old)[row.source].node
      /\ row.result # NoResult =>
             /\ row.status = "closed"
             /\ row.result \in DOMAIN old
             /\ old[row.result].parent = row.source
             /\ old[row.result].who = Executor
  BY DEF RowOK, old
<1> QED
  BY <1>2, <1>3, <1>4, <1>5 DEF RowOK, new

------------------------------------------------------------------------------
\* One step of one handler.

\* The locals of every other handler are left alone.
OnlyMoves(p) ==
    \A q \in Procs :
        q # p => /\ pc'[q] = pc[q]
                 /\ proposal'[q] = proposal[q]
                 /\ view'[q] = view[q]
                 /\ q \in Workers => job'[q] = job[q]

LEMMA BystanderStays ==
    ASSUME RowsInv, NEW q \in Procs, SameRows, opened \subseteq opened',
           \A i \in Instances : HistoryKept(ledger[i], ledger'[i]),
           pc'[q] = pc[q], proposal'[q] = proposal[q], view'[q] = view[q],
           q \in Workers => job'[q] = job[q]
    PROVE  HandlerOK(q)'
<1> DEFINE old == ledger[proposal[q].instance]
           new == ledger'[proposal[q].instance]
<1>0. /\ TypeInv /\ HandlerOK(q) /\ LocalsOK
      /\ ledger \in [Instances -> Seq(Act)]
      /\ queue \in Seq(Row)
  BY Shared DEF RowsInv
<1>1. pc[q] \in Registering => HistoryKept(old, new)
  BY <1>0, Locals
<1>2. /\ pc'[q] \in Registering => proposal'[q].instance \in opened'
  BY <1>0 DEF HandlerOK
<1>3. ASSUME pc'[q] = "close" PROVE Recorded(ledger', proposal'[q])
  <2>1. Recorded(ledger, proposal[q]) /\ HistoryKept(old, new)
    BY <1>0, <1>1, <1>3 DEF HandlerOK, Registering
  <2>2. PICK k \in DOMAIN old : old[k] = proposal[q].act
    BY <2>1 DEF Recorded
  <2>3. k \in DOMAIN new /\ new[k] = old[k]
    BY <2>1 DEF HistoryKept
  <2> QED
    BY <2>1, <2>2, <2>3 DEF Recorded
<1>4. ASSUME pc'[q] = "enqueue"
      PROVE  /\ view'[q].tuple \in 0..Len(new)
             /\ view'[q].node = Replay(new)[view'[q].tuple].node
  <2>1. HistoryKept(old, new)
    BY <1>1, <1>4 DEF Registering
  <2>2. /\ view[q].tuple \in 0..Len(old)
        /\ view[q].node = Replay(old)[view[q].tuple].node
    BY <1>0, <1>4 DEF HandlerOK
  <2> HIDE DEF old, new
  <2> QED
    BY <2>1, <2>2 DEF HistoryKept
<1>5. ASSUME q \in Workers
      PROVE  LET row == queue'[job'[q]] IN
             /\ pc'[q] # "idle" => Responsible[row.node] = Executor
             /\ pc'[q] = "stale" =>
                    Children(ledger'[row.instance], row.source) # {}
             /\ pc'[q] \in Registering => Answers(proposal'[q], row)
  <2> SUFFICES ASSUME pc[q] # "idle"
               PROVE  LET row == queue'[job'[q]] IN
                      /\ Responsible[row.node] = Executor
                      /\ pc[q] = "stale" =>
                             Children(ledger'[row.instance], row.source) # {}
                      /\ pc[q] \in Registering => Answers(proposal[q], row)
    BY DEF Registering
  <2> DEFINE row == queue[job[q]]
             row2 == queue'[job'[q]]
  <2>1. job[q] \in DOMAIN queue
    BY <1>0, <1>5, Locals
  <2>2. /\ row2.instance = row.instance /\ row2.source = row.source
        /\ row2.node = row.node
        /\ row.instance \in Instances
    <3>1. row \in Row /\ job'[q] = job[q]
      BY <1>0, <1>5, <2>1
    <3>2. row.instance \in Instances
      BY <3>1 DEF Row
    <3> QED
      BY <2>1, <3>1, <3>2 DEF SameRows
  <2>3. /\ Responsible[row.node] = Executor
        /\ pc[q] = "stale" => Children(ledger[row.instance], row.source) # {}
        /\ pc[q] \in Registering => Answers(proposal[q], row)
    BY <1>0, <1>5 DEF HandlerOK
  <2> HIDE DEF row, row2
  <2>4. HistoryKept(ledger[row.instance], ledger'[row.instance])
    BY <2>2
  <2>5. pc[q] = "stale" => Children(ledger'[row.instance], row.source) # {}
    BY <2>3, <2>4, ChildrenStay
  <2> QED
    BY <2>2, <2>3, <2>5 DEF Answers, row2
<1> HIDE DEF old
<1> QED
  BY <1>2, <1>3, <1>4, <1>5 DEF HandlerOK, new

\* A step in which no handler takes part, and one of handler p.
LEMMA HandlerSteps ==
    ASSUME RowsInv, [Next]_vars, SameRows, RowsOK', NEW p, OnlyMoves(p),
           p \in Procs => HandlerOK(p)'
    PROVE  RowsInv' /\ SameRows
<1>1. /\ TypeInv' /\ LedgerInv' /\ opened \subseteq opened'
      /\ \A i \in Instances : HistoryKept(ledger[i], ledger'[i])
  BY NextType, NextLedgerInv, OpenedGrows, NextKeepsHistory DEF RowsInv
<1>2. ASSUME NEW q \in Procs PROVE HandlerOK(q)'
  <2>1. CASE q = p
    BY <2>1
  <2>2. CASE q # p
    BY <1>1, <2>2, BystanderStays DEF OnlyMoves
  <2> QED
    BY <2>1, <2>2
<1> QED
  BY <1>1, <1>2 DEF RowsInv

------------------------------------------------------------------------------
\* The queue after a step.

LEMMA QueueUntouched ==
    ASSUME RowsInv, [Next]_vars, queue' = queue
    PROVE  RowsOK' /\ SameRows
<1>1. /\ TypeInv /\ queue \in Seq(Row) /\ opened \subseteq opened'
      /\ \A i \in Instances : HistoryKept(ledger[i], ledger'[i])
  BY Shared, OpenedGrows, NextKeepsHistory DEF RowsInv
<1>2. ASSUME NEW k \in DOMAIN queue PROVE RowOK(queue[k])'
  <2>1. PICK row \in Row : row = queue[k]
    BY <1>1
  <2>2. RowOK(row) /\ row.instance \in Instances
    BY <2>1 DEF RowsInv, RowsOK, Row
  <2>3. RowOK(row)'
    BY <1>1, <2>2, RowStays
  <2> QED
    BY <2>1, <2>3 DEF RowOK
<1>3. OneRowEach'
  BY DEF RowsInv, RowsOK, OneRowEach
<1> QED
  BY <1>1, <1>2, <1>3 DEF RowsOK, SameRows

\* What an UPDATE does to one row: its place is kept, and it is closed only
\* with its source answered, its result set only to the answer.
Moved(k) ==
    LET old == queue[k]
        new == queue'[k]
        history == ledger[old.instance]
    IN  /\ new.instance = old.instance
        /\ new.source = old.source
        /\ new.node = old.node
        /\ \/ new.status = old.status /\ new.result = old.result
           \/ /\ old.status # "closed" /\ new.status # "closed"
              /\ new.result = old.result
           \/ /\ new.status = "closed"
              /\ Children(history, old.source) # {}
              /\ \/ new.result = old.result
                 \/ /\ new.result \in DOMAIN history
                    /\ history[new.result].parent = old.source
                    /\ history[new.result].who = Executor

LEMMA QueueMoved ==
    ASSUME RowsInv, UNCHANGED <<opened, ledger>>,
           DOMAIN queue' = DOMAIN queue, \A k \in DOMAIN queue : Moved(k)
    PROVE  RowsOK' /\ SameRows
<1>1. ASSUME NEW k \in DOMAIN queue PROVE RowOK(queue[k])'
  <2>1. RowOK(queue[k]) /\ Moved(k)
    BY DEF RowsInv, RowsOK
  <2> QED
    BY <2>1 DEF RowOK, Moved
<1>2. SameRows
  BY DEF SameRows, Moved
<1>3. OneRowEach'
  BY DEF RowsInv, RowsOK, OneRowEach, Moved
<1> QED
  BY <1>1, <1>2, <1>3 DEF RowsOK

------------------------------------------------------------------------------
\* Steps that leave the queue as it is.

LEMMA RowsFacts ==
    ASSUME RowsInv, NEW p \in Procs
    PROVE  /\ TypeInv /\ LedgerInv /\ LocalsOK
           /\ RowsOK
           /\ HandlerOK(p)
           /\ ledger \in [Instances -> Seq(Act)]
           /\ queue \in Seq(Row)
  BY Shared DEF RowsInv

LEMMA EndsOK ==
    ASSUME LocalsOK, NEW p \in Procs, Ends(p)
    PROVE  OnlyMoves(p) /\ HandlerOK(p)'
<1>1. OnlyMoves(p) /\ pc'[p] = "idle"
  BY DEF Ends, OnlyMoves, LocalsOK
<1> QED
  BY <1>1 DEF HandlerOK, Registering

LEMMA GoesToMoves ==
    ASSUME LocalsOK, NEW p \in Procs, NEW next, GoesTo(p, next)
    PROVE  /\ OnlyMoves(p) /\ pc'[p] = next
           /\ proposal' = proposal /\ view' = view /\ job' = job
  BY DEF GoesTo, OnlyMoves, LocalsOK

\* A worker that gives up keeps its claim in hand.
LEMMA ToErrorOK ==
    ASSUME RowsInv, NEW w \in Workers, w \in Procs, pc[w] # "idle",
           SameRows, GoesTo(w, "error")
    PROVE  OnlyMoves(w) /\ HandlerOK(w)'
<1>0. LocalsOK /\ HandlerOK(w) /\ TypeInv
  BY RowsFacts
<1>1. /\ OnlyMoves(w) /\ pc'[w] = "error" /\ job' = job
  BY <1>0, GoesToMoves
<1>2. job[w] \in DOMAIN queue
  BY <1>0, Locals
<1>3. queue'[job'[w]].node = queue[job[w]].node
  BY <1>1, <1>2 DEF SameRows
<1> QED
  BY <1>0, <1>1, <1>3 DEF HandlerOK, Registering

LEMMA FailsOK ==
    ASSUME RowsInv, NEW p \in Procs, pc[p] # "idle", SameRows, Fails(p)
    PROVE  OnlyMoves(p) /\ HandlerOK(p)'
<1>1. CASE p \in Workers
  BY <1>1, ToErrorOK DEF Fails
<1>2. CASE p \notin Workers
  BY <1>2, EndsOK, RowsFacts DEF Fails
<1> QED
  BY <1>1, <1>2

\* A handler goes on with what it is registering, to a query at which nothing
\* more need be known.
LEMMA GoesOnOK ==
    ASSUME RowsInv, [Next]_vars, NEW p \in Procs, SameRows, NEW next,
           GoesTo(p, next),
           pc[p] \in Registering \ {"idle"},
           next \in Registering \ {"close", "enqueue", "stale", "idle"}
    PROVE  OnlyMoves(p) /\ HandlerOK(p)'
<1>0. LocalsOK /\ HandlerOK(p) /\ TypeInv /\ opened \subseteq opened'
  BY RowsFacts, OpenedGrows
<1>1. /\ OnlyMoves(p) /\ pc'[p] = next /\ job' = job /\ proposal' = proposal
  BY <1>0, GoesToMoves
<1>2. proposal'[p].instance \in opened'
  BY <1>0, <1>1 DEF HandlerOK
<1>3. CASE p \in Workers
  <2>1. job[p] \in DOMAIN queue
    BY <1>0, <1>3, Locals
  <2>2. /\ queue'[job'[p]].instance = queue[job[p]].instance
        /\ queue'[job'[p]].source = queue[job[p]].source
        /\ queue'[job'[p]].node = queue[job[p]].node
    BY <1>1, <2>1 DEF SameRows
  <2>3. /\ Responsible[queue[job[p]].node] = Executor
        /\ Answers(proposal[p], queue[job[p]])
    BY <1>0, <1>3 DEF HandlerOK
  <2>4. /\ Responsible[queue'[job'[p]].node] = Executor
        /\ Answers(proposal'[p], queue'[job'[p]])
    BY <1>1, <2>2, <2>3 DEF Answers
  <2> QED
    BY <1>1, <1>2, <2>4 DEF HandlerOK
<1>4. CASE p \notin Workers
  BY <1>1, <1>2, <1>4 DEF HandlerOK
<1> QED
  BY <1>1, <1>3, <1>4

LEMMA SubmitKeepsRows ==
    ASSUME RowsInv, [Next]_vars, NEW c \in Callers, Submit(c)
    PROVE  RowsInv' /\ SameRows
<1>0. c \in Procs /\ c \notin Workers
  BY RuntimeAssumption DEF Procs
<1>1. LocalsOK
  BY <1>0, RowsFacts
<1>2. queue' = queue
  BY DEF Submit, SubmitOpening, SubmitDispatch
<1>3. OnlyMoves(c)
  BY <1>1 DEF Submit, SubmitOpening, SubmitDispatch, OnlyMoves, LocalsOK
<1>4. /\ pc'[c] \in {"project", "append"}
      /\ proposal'[c].instance \in opened'
  <2>1. ASSUME NEW i \in Instances, SubmitOpening(c, i)
        PROVE  /\ pc'[c] \in {"project", "append"}
               /\ proposal'[c].instance \in opened'
    BY <1>0, <1>1, <2>1 DEF SubmitOpening, LocalsOK
  <2>2. ASSUME NEW i \in Instances, NEW act, SubmitDispatch(c, i, act)
        PROVE  /\ pc'[c] \in {"project", "append"}
               /\ proposal'[c].instance \in opened'
    BY <1>0, <1>1, <2>2 DEF SubmitDispatch, LocalsOK
  <2> QED
    BY <2>1, <2>2 DEF Submit
<1>5. HandlerOK(c)'
  BY <1>0, <1>4 DEF HandlerOK
<1> QED
  BY <1>2, <1>3, <1>5, QueueUntouched, HandlerSteps

LEMMA AppendKeepsRows ==
    ASSUME RowsInv, [Next]_vars, NEW p \in Procs, AppendAct(p)
    PROVE  RowsInv' /\ SameRows
<1> DEFINE i == proposal[p].instance
           act == proposal[p].act
<1>0. TypeInv /\ LocalsOK /\ HandlerOK(p) /\ ledger \in [Instances -> Seq(Act)]
  BY RowsFacts
<1>1. /\ pc[p] = "append" /\ queue' = queue /\ opened' = opened
      /\ ledger' = Inserted(i, act) /\ GoesTo(p, "close")
  BY DEF AppendAct
<1>2. RowsOK' /\ SameRows
  BY <1>1, QueueUntouched
<1>3. OnlyMoves(p) /\ pc'[p] = "close" /\ proposal' = proposal /\ job' = job
  BY <1>0, <1>1, GoesToMoves
<1>4. i \in Instances /\ act \in Act /\ i \in opened'
  BY <1>0, <1>1, Locals DEF Registering, WithAct, HandlerOK
<1>5. Recorded(ledger', proposal'[p])
  <2>1. \E k \in DOMAIN ledger'[i] : ledger'[i][k] = act
    BY <1>0, <1>1, <1>4, InsertedType DEF TypeInv
  <2> QED
    BY <1>3, <1>4, <2>1 DEF Recorded
<1>6. p \in Workers => /\ Responsible[queue'[job'[p]].node] = Executor
                       /\ Answers(proposal'[p], queue'[job'[p]])
  BY <1>0, <1>1, <1>3 DEF HandlerOK, Registering
<1>7. HandlerOK(p)'
  BY <1>3, <1>4, <1>5, <1>6 DEF HandlerOK
<1> QED
  BY <1>2, <1>3, <1>7, HandlerSteps

\* routeProcessReceipt closes what its Act has answered.
LEMMA ClosePriorKeepsRows ==
    ASSUME RowsInv, [Next]_vars, NEW p \in Procs, ClosePriorCustody(p)
    PROVE  RowsInv' /\ SameRows
<1>0. HandlerOK(p) /\ queue \in Seq(Row)
  BY RowsFacts
<1>1. /\ pc[p] = "close" /\ GoesTo(p, "project")
      /\ UNCHANGED <<opened, ledger>>
  BY DEF ClosePriorCustody
<1>2. Children(ledger[proposal[p].instance], proposal[p].act.parent) # {}
  BY <1>0, <1>1, RecordedChild DEF HandlerOK
<1>3. DOMAIN queue' = DOMAIN queue
  BY DEF ClosePriorCustody
<1>4. ASSUME NEW k \in DOMAIN queue PROVE Moved(k)
  <2>1. queue[k] \in Row
    BY <1>0
  <2>2. CASE /\ queue[k].instance = proposal[p].instance
             /\ queue[k].source = proposal[p].act.parent
             /\ queue[k].status # "closed"
    <3>1. queue'[k] = [queue[k] EXCEPT !.status = "closed",
                                       !.claimed_by = None, !.lease = FALSE]
      BY <2>2 DEF ClosePriorCustody
    <3>2. /\ queue'[k].instance = queue[k].instance
          /\ queue'[k].source = queue[k].source
          /\ queue'[k].node = queue[k].node
          /\ queue'[k].result = queue[k].result
          /\ queue'[k].status = "closed"
      BY <2>1, <3>1 DEF Row
    <3> QED
      BY <1>2, <2>2, <3>2 DEF Moved
  <2>3. CASE ~(/\ queue[k].instance = proposal[p].instance
               /\ queue[k].source = proposal[p].act.parent
               /\ queue[k].status # "closed")
    <3>1. queue'[k] = queue[k]
      BY <2>3 DEF ClosePriorCustody
    <3> QED
      BY <3>1 DEF Moved
  <2> QED
    BY <2>2, <2>3
<1>5. RowsOK' /\ SameRows
  BY <1>1, <1>3, <1>4, QueueMoved
<1>6. OnlyMoves(p) /\ HandlerOK(p)'
  BY <1>1, <1>5, GoesOnOK DEF Registering
<1> QED
  BY <1>5, <1>6, HandlerSteps

\* It projects a state that replay has reached ...
LEMMA ProjectKeepsRows ==
    ASSUME RowsInv, [Next]_vars, NEW p \in Procs, ProjectHead(p)
    PROVE  RowsInv' /\ SameRows
<1> DEFINE i == proposal[p].instance
           head == processCurrentState(ledger[i])
<1>0. /\ TypeInv /\ LedgerInv /\ LocalsOK /\ HandlerOK(p)
      /\ ledger \in [Instances -> Seq(Act)]
  BY RowsFacts
<1>1. /\ pc[p] = "project" /\ queue' = queue /\ opened' = opened
      /\ ledger' = ledger /\ job' = job /\ proposal' = proposal
      /\ view' = [view EXCEPT ![p] = head]
      /\ pc' = [pc EXCEPT ![p] = "enqueue"]
  BY DEF ProjectHead
<1>2. RowsOK' /\ SameRows
  BY <1>1, QueueUntouched
<1>3. OnlyMoves(p) /\ pc'[p] = "enqueue" /\ view'[p] = head
  BY <1>0, <1>1 DEF OnlyMoves, LocalsOK
<1>4. i \in Instances /\ i \in opened
  BY <1>0, <1>1, Locals DEF Registering, HandlerOK
<1>5. /\ ledger[i] \in Seq(Act) /\ Replayable(ledger[i]) /\ Lawful(ledger[i])
  BY <1>0, <1>4 DEF TypeInv, LedgerReplays, LedgerInv, LawfulHistory
<1>6. /\ head.tuple \in 0..Len(ledger[i])
      /\ head.node = Replay(ledger[i])[head.tuple].node
  <2>1. Len(ledger[i]) \in 0..Len(ledger[i])
    BY <1>5
  <2>2. head = Replay(ledger[i])[Len(ledger[i])]
    BY DEF processCurrentState
  <2>3. head.tuple = Len(ledger[i])
    BY <1>5, <2>1, <2>2, HeadIsLast
  <2> QED
    BY <2>1, <2>2, <2>3
<1>7. p \in Workers => /\ Responsible[queue'[job'[p]].node] = Executor
                       /\ Answers(proposal'[p], queue'[job'[p]])
  BY <1>0, <1>1 DEF HandlerOK, Registering
<1> HIDE DEF head
<1>8. HandlerOK(p)'
  BY <1>1, <1>3, <1>4, <1>6, <1>7 DEF HandlerOK
<1> QED
  BY <1>2, <1>3, <1>8, HandlerSteps

\* ... and queues it unless it has a row.
LEMMA QueueKeepsRows ==
    ASSUME RowsInv, [Next]_vars, NEW p \in Procs, QueueCustody(p)
    PROVE  RowsInv' /\ SameRows
<1> DEFINE i == proposal[p].instance
           n == Len(queue)
<1>0. /\ TypeInv /\ LocalsOK /\ HandlerOK(p) /\ RowsOK
      /\ ledger \in [Instances -> Seq(Act)] /\ queue \in Seq(Row)
  BY RowsFacts
<1>1. /\ pc[p] = "enqueue" /\ UNCHANGED <<opened, ledger>>
      /\ \/ p \in Workers /\ GoesTo(p, "result")
         \/ Ends(p)
  BY DEF QueueCustody
<1>2. RowsOK' /\ SameRows
  <2>1. CASE queue' = queue
    BY <2>1, QueueUntouched
  <2>2. CASE /\ queue' = Append(queue, NewRow(i, view[p]))
             /\ RowsOf(i, view[p]) = {}
    <3>1. /\ DOMAIN queue = 1..n /\ DOMAIN queue' = 1..n + 1 /\ n \in Nat
          /\ \A k \in 1..n : queue'[k] = queue[k]
          /\ queue'[n + 1] = NewRow(i, view[p])
      BY <1>0, <2>2
    <3> HIDE DEF n
    <3>2. SameRows
      BY <3>1 DEF SameRows
    <3>3. /\ i \in opened
          /\ view[p].tuple \in 0..Len(ledger[i])
          /\ view[p].node = Replay(ledger[i])[view[p].tuple].node
      BY <1>0, <1>1 DEF HandlerOK, Registering
    <3>4. ASSUME NEW k \in 1..n + 1 PROVE RowOK(queue[k])'
      <4>1. CASE k \in 1..n
        BY <1>0, <1>1, <3>1, <4>1 DEF RowsOK, RowOK
      <4>2. CASE k = n + 1
        <5>1. /\ queue'[k].instance = i /\ queue'[k].source = view[p].tuple
              /\ queue'[k].node = view[p].node
              /\ queue'[k].status = "queued" /\ queue'[k].result = NoResult
          BY <3>1, <4>2 DEF NewRow
        <5> QED
          BY <1>1, <3>3, <5>1 DEF RowOK
      <4> QED
        BY <3>1, <4>1, <4>2
    <3>5. \A k \in 1..n : ~(/\ queue[k].instance = i
                            /\ queue[k].source = view[p].tuple)
      BY <1>0, <2>2, <3>1, <3>3 DEF RowsOf, RowsOK, RowOK
    <3>6. OneRowEach'
      <4>1. /\ queue'[n + 1].instance = i
            /\ queue'[n + 1].source = view[p].tuple
        BY <3>1 DEF NewRow
      <4> QED
        BY <1>0, <3>1, <3>5, <4>1 DEF RowsOK, OneRowEach
    <3> QED
      BY <3>1, <3>2, <3>4, <3>6 DEF RowsOK
  <2> QED
    BY <2>1, <2>2 DEF QueueCustody
<1>3. OnlyMoves(p) /\ HandlerOK(p)'
  BY <1>0, <1>1, <1>2, EndsOK, GoesOnOK DEF Registering
<1> QED
  BY <1>2, <1>3, HandlerSteps

LEMMA RegisterKeepsRows ==
    ASSUME RowsInv, [Next]_vars, NEW p \in Procs, Register(p)
    PROVE  RowsInv' /\ SameRows
<1>1. CASE AppendRejected(p)
  <2>1. queue' = queue /\ pc[p] # "idle" /\ Fails(p)
    BY <1>1 DEF AppendRejected
  <2> QED
    BY <2>1, QueueUntouched, FailsOK, HandlerSteps
<1> QED
  BY <1>1, AppendKeepsRows, ClosePriorKeepsRows, ProjectKeepsRows,
     QueueKeepsRows DEF Register

LEMMA FailKeepsRows ==
    ASSUME RowsInv, [Next]_vars, NEW p \in Procs, Fail(p)
    PROVE  RowsInv' /\ SameRows
<1>0. LocalsOK
  BY RowsFacts
<1>1. queue' = queue
  BY DEF Fail, Crash, QueryFails, RouteFails
<1>2. RowsOK' /\ SameRows
  BY <1>1, QueueUntouched
<1>3. CASE Crash(p)
  BY <1>0, <1>2, <1>3, EndsOK, HandlerSteps DEF Crash
<1>4. CASE QueryFails(p)
  <2>1. pc[p] # "idle" /\ Fails(p)
    BY <1>4 DEF QueryFails
  <2> QED
    BY <1>2, <2>1, FailsOK, HandlerSteps
<1>5. CASE RouteFails(p)
  <2>1. CASE Ends(p)
    BY <1>0, <1>2, <2>1, EndsOK, HandlerSteps
  <2>2. CASE GoesTo(p, "salvage")
    <3>1. pc[p] \in Registering \ {"idle"}
      BY <1>5 DEF RouteFails, Registering
    <3>2. OnlyMoves(p) /\ HandlerOK(p)'
      BY <1>2, <2>2, <3>1, GoesOnOK DEF Registering
    <3> QED
      BY <1>2, <3>2, HandlerSteps
  <2> QED
    BY <1>5, <2>1, <2>2 DEF RouteFails
<1> QED
  BY <1>3, <1>4, <1>5 DEF Fail

------------------------------------------------------------------------------
\* Executors.

\* One row is rewritten.
LEMMA OneRowMoved ==
    ASSUME RowsInv, UNCHANGED <<opened, ledger>>,
           NEW j \in DOMAIN queue, NEW row,
           queue' = [queue EXCEPT ![j] = row],
           Moved(j)
    PROVE  RowsOK' /\ SameRows
<1>1. queue \in Seq(Row)
  BY Shared DEF RowsInv
<1>2. DOMAIN queue' = DOMAIN queue
      /\ \A k \in DOMAIN queue : k # j => queue'[k] = queue[k]
  BY <1>1
<1>3. ASSUME NEW k \in DOMAIN queue, k # j PROVE Moved(k)
  BY <1>2, <1>3 DEF Moved
<1> QED
  BY <1>2, <1>3, QueueMoved

LEMMA ClaimKeepsRows ==
    ASSUME RowsInv, [Next]_vars, NEW w \in Workers, NEW k \in DOMAIN queue,
           Claim(w, k)
    PROVE  RowsInv' /\ SameRows
<1> DEFINE row == [queue[k] EXCEPT !.status = "claimed", !.claimed_by = w,
                                   !.lease = TRUE, !.last_error = FALSE]
<1>0. w \in Procs /\ LocalsOK /\ queue \in Seq(Row) /\ queue[k] \in Row
  BY RowsFacts DEF Procs
<1>1. /\ UNCHANGED <<opened, ledger>>
      /\ queue' = [queue EXCEPT ![k] = row]
      /\ queue[k].status \in {"queued", "claimed"}
      /\ Responsible[queue[k].node] = Executor
      /\ job' = [job EXCEPT ![w] = k]
      /\ pc' = [pc EXCEPT ![w] = "match"]
      /\ UNCHANGED <<proposal, view>>
  BY <1>0 DEF Claim, Claimable
<1>2. /\ row.instance = queue[k].instance /\ row.source = queue[k].source
      /\ row.node = queue[k].node /\ row.result = queue[k].result
      /\ row.status = "claimed"
  BY <1>0 DEF Row
<1>3. queue'[k] = row
  BY <1>0, <1>1
<1> HIDE DEF row
<1>4. Moved(k)
  BY <1>1, <1>2, <1>3 DEF Moved
<1>5. RowsOK' /\ SameRows
  BY <1>1, <1>4, OneRowMoved
<1>6. OnlyMoves(w) /\ pc'[w] = "match" /\ job'[w] = k
  BY <1>0, <1>1 DEF OnlyMoves, LocalsOK
<1>7. HandlerOK(w)'
  BY <1>1, <1>2, <1>3, <1>6 DEF HandlerOK, Registering
<1> QED
  BY <1>0, <1>5, <1>6, <1>7, HandlerSteps

\* What the executor re-projects and does not match has been answered: its row
\* was custody of a head that is no longer the last.
LEMMA UnmatchedAnswered ==
    ASSUME RowsInv, NEW k \in DOMAIN queue, ~CurrentMatches(queue[k])
    PROVE  Children(ledger[queue[k].instance], queue[k].source) # {}
<1> DEFINE i == queue[k].instance
           history == ledger[i]
<1>0. /\ TypeInv /\ LedgerInv /\ queue \in Seq(Row) /\ queue[k] \in Row
      /\ RowOK(queue[k])
  BY Shared DEF RowsInv, RowsOK
<1>1. i \in Instances /\ queue[k].node \in Nodes
  BY <1>0 DEF Row
<1>2. /\ history \in Seq(Act) /\ Replayable(history) /\ Lawful(history)
      /\ Chained(history)
  BY <1>0, <1>1, Shared
  DEF TypeInv, LedgerReplays, LedgerInv, LawfulHistory, SingleChain
<1>3. /\ queue[k].source \in 0..Len(history)
      /\ queue[k].node = Replay(history)[queue[k].source].node
  BY <1>0 DEF RowOK
<1>4. CASE queue[k].source = Len(history)
  <2>1. Replay(history)[Len(history)].tuple = Len(history)
    BY <1>2, <1>3, <1>4, HeadIsLast
  <2>2. CurrentMatches(queue[k])
    BY <1>1, <1>3, <1>4, <2>1 DEF CurrentMatches, processCurrentState, IsOpen
  <2> QED
    BY <2>2
<1>5. CASE queue[k].source # Len(history)
  <2> HIDE DEF history
  <2>1. queue[k].source + 1 \in DOMAIN history
    BY <1>2, <1>3, <1>5
  <2>2. history[queue[k].source + 1].parent = queue[k].source
    BY <1>2, <1>3, <2>1 DEF Chained
  <2> QED
    BY <2>1, <2>2 DEF Children, history
<1> QED
  BY <1>4, <1>5

LEMMA ReprojectKeepsRows ==
    ASSUME RowsInv, [Next]_vars, NEW w \in Workers, Reproject(w)
    PROVE  RowsInv' /\ SameRows
<1>0. w \in Procs
  BY DEF Procs
<1>1. /\ TypeInv /\ LocalsOK /\ HandlerOK(w)
  BY <1>0, RowsFacts
<1>2. /\ pc[w] = "match" /\ UNCHANGED <<opened, ledger, queue>>
      /\ GoesTo(w, IF CurrentMatches(queue[job[w]]) THEN "run" ELSE "stale")
  BY DEF Reproject
<1>3. RowsOK' /\ SameRows
  BY <1>2, QueueUntouched
<1>4. /\ OnlyMoves(w) /\ job' = job
      /\ pc'[w] = IF CurrentMatches(queue[job[w]]) THEN "run" ELSE "stale"
  BY <1>0, <1>1, <1>2, GoesToMoves
<1>5. job[w] \in DOMAIN queue
  BY <1>0, <1>1, <1>2, Locals
<1>6. pc'[w] = "stale" =>
          Children(ledger[queue[job[w]].instance], queue[job[w]].source) # {}
  BY <1>4, <1>5, UnmatchedAnswered
<1>7. HandlerOK(w)'
  BY <1>1, <1>2, <1>4, <1>6 DEF HandlerOK, Registering
<1> QED
  BY <1>0, <1>3, <1>4, <1>7, HandlerSteps

\* closeStaleClaim and recordExecutionError.
LEMMA GivesUpKeepsRows ==
    ASSUME RowsInv, [Next]_vars, NEW w \in Workers,
           CloseStaleClaim(w) \/ RecordExecutionError(w)
    PROVE  RowsInv' /\ SameRows
<1>0. w \in Procs
  BY DEF Procs
<1>1. /\ TypeInv /\ LocalsOK /\ HandlerOK(w) /\ queue \in Seq(Row)
  BY <1>0, RowsFacts
<1>2. pc[w] \in {"stale", "error"} /\ Ends(w) /\ UNCHANGED <<opened, ledger>>
  BY DEF CloseStaleClaim, RecordExecutionError
<1>3. job[w] \in DOMAIN queue /\ queue[job[w]] \in Row
  BY <1>0, <1>1, <1>2, Locals
<1>4. CASE CloseStaleClaim(w)
  <2> DEFINE row == [queue[job[w]] EXCEPT !.status = "closed",
                        !.claimed_by = None, !.lease = FALSE,
                        !.last_error = TRUE]
  <2>1. queue' = [queue EXCEPT ![job[w]] = row]
    BY <1>1, <1>3, <1>4 DEF CloseStaleClaim
  <2>2. queue'[job[w]] = row
    BY <1>1, <1>3, <2>1
  <2>3. /\ row.instance = queue[job[w]].instance
        /\ row.source = queue[job[w]].source /\ row.node = queue[job[w]].node
        /\ row.result = queue[job[w]].result /\ row.status = "closed"
    BY <1>3 DEF Row
  <2>4. Children(ledger[queue[job[w]].instance], queue[job[w]].source) # {}
    BY <1>1, <1>4 DEF HandlerOK, CloseStaleClaim
  <2> HIDE DEF row
  <2>5. Moved(job[w])
    BY <2>2, <2>3, <2>4 DEF Moved
  <2> QED
    BY <1>0, <1>1, <1>2, <1>3, <2>1, <2>5, OneRowMoved, EndsOK, HandlerSteps
<1>5. CASE RecordExecutionError(w)
  <2> DEFINE row == [queue[job[w]] EXCEPT !.last_error = TRUE]
  <2>1. queue' = [queue EXCEPT ![job[w]] = row]
    BY <1>1, <1>3, <1>5 DEF RecordExecutionError
  <2>2. queue'[job[w]] = row
    BY <1>1, <1>3, <2>1
  <2>3. /\ row.instance = queue[job[w]].instance
        /\ row.source = queue[job[w]].source /\ row.node = queue[job[w]].node
        /\ row.result = queue[job[w]].result
        /\ row.status = queue[job[w]].status
    BY <1>3 DEF Row
  <2> HIDE DEF row
  <2>4. Moved(job[w])
    BY <2>2, <2>3 DEF Moved
  <2> QED
    BY <1>0, <1>1, <1>2, <1>3, <2>1, <2>4, OneRowMoved, EndsOK, HandlerSteps
<1> QED
  BY <1>4, <1>5

LEMMA RunKeepsRows ==
    ASSUME RowsInv, [Next]_vars, NEW w \in Workers, NEW stamp \in Stamps,
           RunActivity(w, stamp)
    PROVE  RowsInv' /\ SameRows
<1> DEFINE row == queue[job[w]]
           act == [parent |-> row.source, who |-> Responsible[row.node],
                   status |-> "ok", stamp |-> stamp, cites |-> FALSE]
<1>0. w \in Procs
  BY DEF Procs
<1>1. /\ TypeInv /\ LocalsOK /\ HandlerOK(w) /\ queue \in Seq(Row)
  BY <1>0, RowsFacts
<1>2. /\ pc[w] = "run" /\ UNCHANGED <<opened, ledger, queue, job, view>>
      /\ proposal' = [proposal EXCEPT ![w] =
                         [instance |-> row.instance, act |-> act]]
      /\ pc' = [pc EXCEPT ![w] = "verify"]
  BY DEF RunActivity
<1>3. RowsOK' /\ SameRows
  BY <1>2, QueueUntouched
<1>4. /\ OnlyMoves(w) /\ pc'[w] = "verify"
      /\ proposal'[w] = [instance |-> row.instance, act |-> act]
  BY <1>0, <1>1, <1>2 DEF OnlyMoves, LocalsOK
<1>5. job[w] \in DOMAIN queue
  BY <1>0, <1>1, <1>2, Locals
<1>6. row \in Row /\ RowOK(row) /\ Responsible[row.node] = Executor
  BY <1>1, <1>2, <1>5 DEF RowsInv, RowsOK, HandlerOK
<1>7. act \in Act /\ act.parent = row.source /\ act.who = Executor
  <2>1. Responsible[row.node] \in Actors
    BY <1>6, TypeAssumption DEF Row
  <2> QED
    BY <1>6, <2>1 DEF Act, Statuses, Outcomes, Row
<1>8. row.instance \in opened
  BY <1>6 DEF RowOK
<1> HIDE DEF row, act
<1>9. Answers(proposal'[w], row) /\ proposal'[w].instance \in opened
  BY <1>4, <1>7, <1>8 DEF Answers
<1>10. HandlerOK(w)'
  BY <1>2, <1>4, <1>6, <1>9 DEF HandlerOK, row
<1> QED
  BY <1>0, <1>3, <1>4, <1>10, HandlerSteps

\* The result is the tuple of the Act that answers the claimed row.
LEMMA ResultKeepsRows ==
    ASSUME RowsInv, [Next]_vars, NEW w \in Workers, RecordExecutionResult(w)
    PROVE  RowsInv' /\ SameRows
<1> DEFINE j == job[w]
           i == proposal[w].instance
           act == proposal[w].act
           row == [queue[j] EXCEPT !.status = "closed", !.claimed_by = None,
                                   !.lease = FALSE,
                                   !.result = ReceiptTuple(i, act),
                                   !.last_error = FALSE]
<1>0. w \in Procs
  BY DEF Procs
<1>1. /\ TypeInv /\ LocalsOK /\ HandlerOK(w) /\ queue \in Seq(Row)
      /\ ledger \in [Instances -> Seq(Act)]
  BY <1>0, RowsFacts
<1>2. /\ pc[w] \in {"result", "salvage"} /\ Ends(w)
      /\ UNCHANGED <<opened, ledger>>
      /\ queue' = [queue EXCEPT ![j].status = "closed", ![j].claimed_by = None,
                                ![j].lease = FALSE,
                                ![j].result = ReceiptTuple(i, act),
                                ![j].last_error = FALSE]
  BY DEF RecordExecutionResult
<1>3. j \in DOMAIN queue /\ queue[j] \in Row
  BY <1>0, <1>1, <1>2, Locals
<1>4. Answers(proposal[w], queue[j]) /\ i \in Instances
  BY <1>0, <1>1, <1>2, Locals DEF HandlerOK, Registering
<1>5. Duplicate(i, act)
  BY <1>1, <1>2 DEF TypeInv, Registered, Appended, Recorded, Duplicate
<1>6. /\ ReceiptTuple(i, act) \in DOMAIN ledger[i]
      /\ ledger[i][ReceiptTuple(i, act)] = act
  BY <1>1, <1>4, <1>5, ReceiptTupleType
<1> HIDE DEF i, act
<1>7. /\ queue' = [queue EXCEPT ![j] = row] /\ queue'[j] = row
      /\ row.instance = queue[j].instance
      /\ row.source = queue[j].source /\ row.node = queue[j].node
      /\ row.result = ReceiptTuple(i, act) /\ row.status = "closed"
  BY <1>1, <1>2, <1>3 DEF Row
<1> HIDE DEF row, j
<1>8. /\ queue[j].instance = i
      /\ act.parent = queue[j].source /\ act.who = Executor
  BY <1>4 DEF Answers, i, act
<1>9. Children(ledger[queue[j].instance], queue[j].source) # {}
  BY <1>6, <1>8 DEF Children
<1>10. Moved(j)
  BY <1>6, <1>7, <1>8, <1>9 DEF Moved
<1> QED
  BY <1>0, <1>1, <1>2, <1>3, <1>7, <1>10, OneRowMoved, EndsOK, HandlerSteps

LEMMA WorkKeepsRows ==
    ASSUME RowsInv, [Next]_vars, NEW w \in Workers, Work(w) \/ RecordFails(w)
    PROVE  RowsInv' /\ SameRows
<1>0. w \in Procs
  BY DEF Procs
<1>1. CASE ActivityRefused(w)
  <2>1. queue' = queue /\ pc[w] # "idle" /\ Fails(w)
    BY <1>1 DEF ActivityRefused
  <2> QED
    BY <1>0, <2>1, QueueUntouched, FailsOK, HandlerSteps
<1>2. CASE VerifyProposal(w)
  <2>1. queue' = queue /\ pc[w] = "verify"
    BY <1>2 DEF VerifyProposal
  <2>2. RowsOK' /\ SameRows
    BY <2>1, QueueUntouched
  <2>3. CASE Fails(w)
    BY <1>0, <2>1, <2>2, <2>3, FailsOK, HandlerSteps
  <2>4. CASE GoesTo(w, "append")
    <3>1. OnlyMoves(w) /\ HandlerOK(w)'
      BY <1>0, <2>1, <2>2, <2>4, GoesOnOK DEF Registering
    <3> QED
      BY <1>0, <2>2, <3>1, HandlerSteps
  <2> QED
    BY <1>2, <2>3, <2>4 DEF VerifyProposal
<1>3. CASE RecordFails(w)
  <2>1. queue' = queue /\ pc[w] # "idle" /\ GoesTo(w, "error")
    BY <1>3 DEF RecordFails
  <2> QED
    BY <1>0, <2>1, QueueUntouched, ToErrorOK, HandlerSteps
<1> QED
  BY <1>1, <1>2, <1>3, ReprojectKeepsRows, GivesUpKeepsRows, RunKeepsRows,
     ResultKeepsRows DEF Work

LEMMA EnvironmentKeepsRows ==
    ASSUME RowsInv, [Next]_vars, Environment \/ UNCHANGED vars
    PROVE  RowsInv' /\ SameRows
<1>0. queue \in Seq(Row)
  BY Shared DEF RowsInv
<1>1. UNCHANGED <<opened, ledger, pc, job, proposal, view>>
  BY DEF Environment, LeaseExpires, SignGrant, VoidGrant, ResumeGrantSources,
         LoseResume, vars
<1>2. \A p : OnlyMoves(p)
  BY <1>1 DEF OnlyMoves
<1>3. None \notin Procs
  BY RuntimeAssumption
<1>4. RowsOK' /\ SameRows
  <2>1. ASSUME NEW k, LeaseExpires(k) PROVE RowsOK' /\ SameRows
    <3> DEFINE row == [queue[k] EXCEPT !.lease = FALSE]
    <3>1. k \in DOMAIN queue /\ queue[k] \in Row
      BY <1>0, <2>1 DEF LeaseExpires
    <3>2. queue' = [queue EXCEPT ![k] = row] /\ queue'[k] = row
      BY <1>0, <2>1, <3>1 DEF LeaseExpires
    <3>3. /\ row.instance = queue[k].instance /\ row.source = queue[k].source
          /\ row.node = queue[k].node /\ row.status = queue[k].status
          /\ row.result = queue[k].result
      BY <3>1 DEF Row
    <3> HIDE DEF row
    <3>4. Moved(k)
      BY <3>2, <3>3 DEF Moved
    <3> QED
      BY <1>1, <3>1, <3>2, <3>4, OneRowMoved
  <2>2. CASE ResumeGrantSources
    <3>1. DOMAIN queue' = DOMAIN queue
      BY <2>2 DEF ResumeGrantSources
    <3>2. ASSUME NEW k \in DOMAIN queue PROVE Moved(k)
      <4>1. queue[k] \in Row
        BY <1>0
      <4>2. CASE queue'[k] = queue[k]
        BY <4>2 DEF Moved
      <4>3. CASE queue[k].status = "claimed"
                 /\ queue'[k] = [queue[k] EXCEPT !.status = "queued",
                                    !.claimed_by = None, !.lease = FALSE,
                                    !.last_error = FALSE]
        <5>1. /\ queue'[k].instance = queue[k].instance
              /\ queue'[k].source = queue[k].source
              /\ queue'[k].node = queue[k].node
              /\ queue'[k].result = queue[k].result
              /\ queue'[k].status = "queued"
          BY <4>1, <4>3 DEF Row
        <5> QED
          BY <4>3, <5>1 DEF Moved
      <4> QED
        BY <2>2, <4>2, <4>3 DEF ResumeGrantSources
    <3> QED
      BY <1>1, <3>1, <3>2, QueueMoved
  <2>3. CASE queue' = queue
    BY <2>3, QueueUntouched
  <2> QED
    BY <2>1, <2>2, <2>3
    DEF Environment, SignGrant, VoidGrant, LoseResume, vars
<1> QED
  BY <1>2, <1>3, <1>4, HandlerSteps

------------------------------------------------------------------------------
LEMMA NextKeepsRows ==
    ASSUME RowsInv, [Next]_vars
    PROVE  RowsInv' /\ SameRows
<1>1. ASSUME NEW w \in Workers, Invoke(w) \/ Work(w) \/ RecordFails(w)
      PROVE  RowsInv' /\ SameRows
  BY <1>1, ClaimKeepsRows, WorkKeepsRows DEF Invoke
<1>2. ASSUME NEW p \in Procs, Register(p) \/ Fail(p)
      PROVE  RowsInv' /\ SameRows
  BY <1>2, RegisterKeepsRows, FailKeepsRows
<1>3. ASSUME NEW c \in Callers, Submit(c)
      PROVE  RowsInv' /\ SameRows
  BY <1>3, SubmitKeepsRows
<1> QED
  BY <1>1, <1>2, <1>3, EnvironmentKeepsRows DEF Next

LEMMA InitRows ==
    ASSUME Init PROVE RowsInv
<1>1. TypeInv /\ LedgerInv
  BY InitType, InitLedgerInv
<1>2. RowsOK
  BY DEF Init, RowsOK, OneRowEach
<1>3. ASSUME NEW p \in Procs PROVE HandlerOK(p)
  <2>1. pc[p] = "idle"
    BY DEF Init
  <2> QED
    BY <2>1 DEF HandlerOK, Registering
<1> QED
  BY <1>1, <1>2, <1>3 DEF RowsInv

\* The law of the queue.  It is inductive only together with what every handler
\* that is about to close or to queue knows of the rows it will touch.
THEOREM QueueLaw == Spec => []RowsInv
<1>1. RowsInv /\ [Next]_vars => RowsInv'
  BY NextKeepsRows
<1> QED
  BY <1>1, InitRows, PTL DEF Spec

\* A custody row names a node its instance has been at, and no occurrence is
\* handed out under two rows, however late its router was.
THEOREM RowsOfHeads == Spec => []CustodyIsTheHeads
<1>1. RowsInv => CustodyIsTheHeads
  BY DEF RowsInv, RowsOK, RowOK, OneRowEach, CustodyIsTheHeads
<1> QED
  BY <1>1, QueueLaw, PTL

\* No blind UPDATE, of a router, of an executor that finds its claim stale or
\* of one that records its result late, ever closes the current head's custody.
THEOREM CurrentStaysOpen == Spec => []ClosedIsSpent
<1>1. RowsInv => ClosedIsSpent
  BY DEF RowsInv, RowsOK, RowOK, ClosedIsSpent
<1> QED
  BY <1>1, QueueLaw, PTL

\* A recorded result is the Act of the executor that answers the row's source,
\* whichever of the workers that held the row wrote it.
THEOREM ResultsAnswer == Spec => []ResultAnswersSource
<1>1. RowsInv => ResultAnswersSource
  BY DEF RowsInv, RowsOK, RowOK, ResultAnswersSource
<1> QED
  BY <1>1, QueueLaw, PTL
------------------------------------------------------------------------------
\* One token for each instance: the refinement of ProcessToken.  It needs that
\* an append answers the head of an instance that was opened.

\* Nothing is recorded for an instance before its opening.
OnlyOpenedMove == \A i \in Instances \ opened : ledger[i] = <<>>

TokenInv == RowsInv /\ OnlyOpenedMove

\* A step opens at most one instance, and appends nothing as it does.
LEMMA OpensOne ==
    ASSUME [Next]_vars
    PROVE  \/ UNCHANGED opened
           \/ UNCHANGED ledger /\ \E i \in Instances : opened' = opened \cup {i}
<1>1. ASSUME NEW c \in Callers, Submit(c)
      PROVE  \/ UNCHANGED opened
             \/ UNCHANGED ledger
                /\ \E i \in Instances : opened' = opened \cup {i}
  BY <1>1 DEF Submit, SubmitOpening, SubmitDispatch
<1>2. ASSUME NEW p \in Procs, Register(p) \/ Fail(p)
      PROVE  UNCHANGED opened
  BY <1>2 DEF Register, AppendAct, AppendRejected, ClosePriorCustody,
              ProjectHead, QueueCustody, Fail, Crash, QueryFails, RouteFails
<1>3. ASSUME NEW w \in Workers, Invoke(w) \/ Work(w) \/ RecordFails(w)
      PROVE  UNCHANGED opened
  BY <1>3 DEF Invoke, Claim, Work, Reproject, CloseStaleClaim, RunActivity,
              ActivityRefused, VerifyProposal, RecordExecutionResult,
              RecordExecutionError, RecordFails
<1>4. CASE Environment \/ UNCHANGED vars
  BY <1>4 DEF Environment, LeaseExpires, SignGrant, VoidGrant,
              ResumeGrantSources, LoseResume, vars
<1> QED
  BY <1>1, <1>2, <1>3, <1>4 DEF Next

\* What an insert adds is the lawful answer to the head of an open instance.
LEMMA InsertMoves ==
    ASSUME RowsInv, [Next]_vars, ~UNCHANGED ledger
    PROVE  \E i \in opened, act \in Act :
               /\ i \in Instances
               /\ ledger' = [ledger EXCEPT ![i] = Append(@, act)]
               /\ IsOpen(processCurrentState(ledger[i]))
               /\ act.status \in Outcomes
               /\ act.who = Responsible[processCurrentState(ledger[i]).node]
               /\ Branch[processCurrentState(ledger[i]).node][act.status]
                      # Missing
               /\ processCurrentState(ledger'[i]).node =
                      Branch[processCurrentState(ledger[i]).node][act.status]
<1>1. TypeInv /\ LedgerInv /\ Inserts
  BY NextVerified DEF RowsInv
<1>2. PICK p \in Procs :
          /\ pc[p] = "append"
          /\ ~Conflicts(proposal[p].instance, proposal[p].act)
          /\ ledger' = [ledger EXCEPT ![proposal[p].instance] =
                           Append(@, proposal[p].act)]
  BY <1>1 DEF Inserts
<1> DEFINE i == proposal[p].instance
           act == proposal[p].act
<1>3. i \in Instances /\ act \in Act /\ i \in opened
  BY <1>1, <1>2, Locals DEF Registering, WithAct, RowsInv, HandlerOK
<1>4. /\ ledger[i] \in Seq(Act) /\ Replayable(ledger[i])
      /\ Chained(ledger[i]) /\ Lawful(ledger[i])
      /\ Admissible(ledger[i], act)
      /\ Children(ledger[i], act.parent) = {}
  BY <1>1, <1>2, <1>3, Shared
  DEF TypeInv, LedgerReplays, LedgerInv, SingleChain, LawfulHistory, Pending,
      Conflicts
<1>5. ledger'[i] = Append(ledger[i], act)
  BY <1>1, <1>2, <1>3, Shared
<1> HIDE DEF i, act
<1>6. act.parent = Len(ledger[i])
  BY <1>3, <1>4, AppendLawful DEF Admissible
<1>7. /\ Len(ledger[i]) \in 0..Len(ledger[i])
      /\ Len(Append(ledger[i], act)) = Len(ledger[i]) + 1
  BY <1>3, <1>4
<1>8. Replay(ledger[i])[Len(ledger[i])].tuple = Len(ledger[i])
  BY <1>4, <1>7, HeadIsLast
<1>9. /\ IsOpen(processCurrentState(ledger[i]))
      /\ act.status \in Outcomes
      /\ act.who = Responsible[processCurrentState(ledger[i]).node]
      /\ Branch[processCurrentState(ledger[i]).node][act.status] # Missing
  BY <1>4, <1>6 DEF Admissible, processCurrentState
<1>10. processCurrentState(ledger'[i]).node =
           Branch[processCurrentState(ledger[i]).node][act.status]
  <2>1. processCurrentState(ledger'[i]) =
            Observe(processCurrentState(ledger[i]), act, Len(ledger[i]) + 1)
    BY <1>3, <1>4, <1>5, <1>7, ReplayAppend
    DEF processCurrentState, Replayable
  <2> QED
    BY <1>6, <1>8, <1>9, <2>1 DEF Observe, processCurrentState
<1> QED
  BY <1>2, <1>3, <1>9, <1>10 DEF i, act

\* Nothing is appended to an instance that was not opened.
LEMMA NextTokenInv ==
    ASSUME TokenInv, [Next]_vars
    PROVE  TokenInv'
<1>1. RowsInv' /\ opened \subseteq opened'
  BY NextKeepsRows, OpenedGrows DEF TokenInv
<1>2. OnlyOpenedMove'
  <2>1. CASE UNCHANGED ledger
    BY <1>1, <2>1 DEF TokenInv, OnlyOpenedMove
  <2>2. CASE ~UNCHANGED ledger
    <3>1. PICK i \in opened, act \in Act :
              i \in Instances /\ ledger' = [ledger EXCEPT ![i] = Append(@, act)]
      BY <2>2, InsertMoves DEF TokenInv
    <3>2. ledger \in [Instances -> Seq(Act)]
      BY Shared DEF TokenInv, RowsInv
    <3>3. \A j \in Instances : j # i => ledger'[j] = ledger[j]
      BY <3>1, <3>2
    <3> QED
      BY <1>1, <3>1, <3>3 DEF TokenInv, OnlyOpenedMove
  <2> QED
    BY <2>1, <2>2
<1> QED
  BY <1>1, <1>2 DEF TokenInv

\* Every step of the custody machine is a step of the token machine, or does
\* not move the tokens.
LEMMA NextMovesToken ==
    ASSUME TokenInv, [Next]_vars
    PROVE  [Token!TokenNext]_(Token!tokenVars)
<1>0. /\ TypeInv /\ ledger \in [Instances -> Seq(Act)]
      /\ opened \in SUBSET Instances
  BY Shared DEF TokenInv, RowsInv
<1>1. CASE UNCHANGED <<opened, ledger>>
  BY <1>1 DEF Token!tokenVars
<1>2. ASSUME UNCHANGED ledger, NEW i \in Instances, i \notin opened,
             opened' = opened \cup {i}
      PROVE  Token!Open(i)
  <2>1. ledger[i] = <<>>
    BY <1>2 DEF TokenInv, OnlyOpenedMove
  <2>2. processCurrentState(ledger[i]).node = Start
    BY <2>1, ReplayEmpty DEF processCurrentState, OpeningState
  <2> QED
    BY <1>2, <2>2 DEF Token!Open
<1>3. ASSUME ~UNCHANGED ledger
      PROVE  \E i \in Instances : \E outcome \in Token!Outcomes :
                 Token!Move(i, outcome)
  <2>1. UNCHANGED opened
    BY <1>3, OpensOne
  <2>2. PICK i \in opened, act \in Act :
               /\ i \in Instances
               /\ ledger' = [ledger EXCEPT ![i] = Append(@, act)]
               /\ IsOpen(processCurrentState(ledger[i]))
               /\ act.status \in Outcomes
               /\ act.who = Responsible[processCurrentState(ledger[i]).node]
               /\ Branch[processCurrentState(ledger[i]).node][act.status]
                      # Missing
               /\ processCurrentState(ledger'[i]).node =
                      Branch[processCurrentState(ledger[i]).node][act.status]
    BY <1>3, InsertMoves DEF TokenInv
  <2>3. /\ ledger[i] \in Seq(Act)
        /\ ledger'[i] = Append(ledger[i], act)
        /\ \A j \in Instances : j # i => ledger'[j] = ledger[j]
    BY <1>0, <2>2
  <2>4. /\ Len(ledger'[i]) = Len(ledger[i]) + 1 /\ ledger'[i] # <<>>
        /\ ledger'[i][Len(ledger'[i])] = act
    BY <2>3
  <2> DEFINE token == [j \in Instances |->
                          IF j \in opened THEN processCurrentState(ledger[j]).node
                          ELSE None]
             moves == [j \in Instances |-> Len(ledger[j])]
             mover == [j \in Instances |->
                          IF ledger[j] = <<>> THEN None
                          ELSE ledger[j][Len(ledger[j])].who]
  <2>5. token[i] = processCurrentState(ledger[i]).node
    BY <2>2
  <2>6. token' = [token EXCEPT ![i] =
                     Branch[processCurrentState(ledger[i]).node][act.status]]
    <3>1. token' = [j \in Instances |->
                       IF j \in opened' THEN processCurrentState(ledger'[j]).node
                       ELSE None]
      OBVIOUS
    <3>2. \A j \in Instances :
              token'[j] = IF j = i
                          THEN Branch[processCurrentState(ledger[i]).node]
                                     [act.status]
                          ELSE token[j]
      BY <2>1, <2>2, <2>3, <3>1
    <3> HIDE DEF token
    <3> QED
      BY <3>1, <3>2 DEF token
  <2>7. moves' = [moves EXCEPT ![i] = Len(ledger[i]) + 1]
        /\ moves[i] = Len(ledger[i])
    <3>1. moves' = [j \in Instances |-> Len(ledger'[j])]
      OBVIOUS
    <3>2. \A j \in Instances :
              moves'[j] = IF j = i THEN Len(ledger[i]) + 1 ELSE moves[j]
      BY <2>3, <2>4, <3>1
    <3> QED
      BY <2>2, <3>1, <3>2
  <2>8. mover' = [mover EXCEPT ![i] =
                     Responsible[processCurrentState(ledger[i]).node]]
    <3>1. mover' = [j \in Instances |->
                       IF ledger'[j] = <<>> THEN None
                       ELSE ledger'[j][Len(ledger'[j])].who]
      OBVIOUS
    <3>2. \A j \in Instances : mover'[j] = IF j = i THEN act.who ELSE mover[j]
      BY <2>3, <2>4, <3>1
    <3> HIDE DEF mover
    <3> QED
      BY <2>2, <3>1, <3>2 DEF mover
  <2>9. Token!Move(i, act.status)
    BY <2>2, <2>5, <2>6, <2>7, <2>8 DEF Token!Move, IsOpen
  <2> QED
    BY <2>2, <2>9 DEF Token!Outcomes, Outcomes
<1> QED
  BY <1>1, <1>2, <1>3, OpensOne DEF Token!TokenNext

\* However requests and executors race, an instance has one token, and only the
\* responsible of the node it is at moves it, along the branch of the outcome
\* its Act gives (verifyProcessProposal, appendAct).
THEOREM OneTokenEach == Spec => MovesOneToken
<1>1. Init => TokenInv /\ Token!TokenInit
  <2>1. ASSUME Init PROVE TokenInv /\ Token!TokenInit
    BY <2>1, InitRows DEF Init, TokenInv, OnlyOpenedMove, Token!TokenInit
  <2> QED
    BY <2>1
<1>2. TokenInv /\ [Next]_vars =>
          TokenInv' /\ [Token!TokenNext]_(Token!tokenVars)
  BY NextTokenInv, NextMovesToken
<1> QED
  BY <1>1, <1>2, PTL DEF Spec, MovesOneToken, Token!TokenSpec
------------------------------------------------------------------------------
\* Custody of open heads.  A head has custody by its row, or by the router that
\* has closed the prior rows and has yet to queue it; a router that finishes
\* late leaves the row of an older head, and takes none from a newer one.

\* Handler p is a router of instance i that has yet to queue its head.
OnItsWay(p, i) ==
    /\ proposal[p].instance = i
    /\ \/ pc[p] \in {"close", "project"}
       \/ pc[p] = "enqueue" /\ view[p] = processCurrentState(ledger[i])

\* The custody of a head, by row or by router.
LEMMA CustodyCases ==
    ASSUME NEW i \in Instances
    PROVE  HasCustody(i) <=>
               ((i \in opened /\ IsOpen(processCurrentState(ledger[i]))) =>
                   \/ \E k \in RowsOf(i, processCurrentState(ledger[i])) :
                          queue[k].status # "closed"
                   \/ \E p \in Procs : OnItsWay(p, i))
  BY DEF HasCustody, OnItsWay

\* Custody of a head is never closed.
LEMMA HeadsRowOpen ==
    ASSUME RowsInv, NEW i \in Instances,
           NEW k \in RowsOf(i, processCurrentState(ledger[i]))
    PROVE  queue[k].status # "closed"
<1> DEFINE history == ledger[i]
           n == Len(history)
<1>1. /\ history \in Seq(Act) /\ Replayable(history) /\ Lawful(history)
      /\ Chained(history)
  BY Shared
  DEF RowsInv, TypeInv, LedgerReplays, LedgerInv, LawfulHistory, SingleChain
<1>2. n \in 0..n /\ processCurrentState(history).tuple = n
  BY <1>1, HeadIsLast DEF processCurrentState
<1>3. /\ k \in DOMAIN queue /\ RowOK(queue[k])
      /\ queue[k].instance = i /\ queue[k].source = n
  BY <1>2 DEF RowsOf, RowsInv, RowsOK
<1>4. Children(history, n) = {}
  <2> HIDE DEF history
  <2>1. \A m \in DOMAIN history : history[m].parent = m - 1 /\ m \in 1..n
    BY <1>1 DEF Chained
  <2> QED
    BY <2>1 DEF Children
<1> QED
  BY <1>3, <1>4 DEF RowOK

\* A row or a router is enough.
Suffices ==
    \A i \in Instances :
        (\/ RowsOf(i, processCurrentState(ledger[i])) # {}
         \/ \E p \in Procs : OnItsWay(p, i))
        => HasCustody(i)

LEMMA CustodySuffices == RowsInv => Suffices
  BY HeadsRowOpen, CustodyCases DEF Suffices

LEMMA CustodySufficesNext == RowsInv' => Suffices'
  BY CustodySuffices, PTL

\* A step of handler p keeps custody of i, unless p was its router, if it
\* leaves the history and the opening of i alone.
LEMMA OthersKeepCustody ==
    ASSUME RowsInv', SameRows, NEW p, OnlyMoves(p),
           NEW i \in Instances, HasCustody(i), ledger'[i] = ledger[i],
           i \in opened' => i \in opened,
           p \in Procs => ~OnItsWay(p, i)
    PROVE  HasCustody(i)'
<1> DEFINE head == processCurrentState(ledger[i])
<1>1. CASE RowsOf(i, head) # {}
  <2>1. RowsOf(i, head)' # {}
    BY <1>1 DEF RowsOf, SameRows
  <2> QED
    BY <2>1, CustodySufficesNext DEF Suffices
<1>2. ASSUME NEW q \in Procs, OnItsWay(q, i)
      PROVE  HasCustody(i)'
  <2>1. OnItsWay(q, i)'
    BY <1>2 DEF OnItsWay, OnlyMoves
  <2> QED
    BY <2>1, CustodySufficesNext DEF Suffices
<1>3. CASE ~(i \in opened /\ IsOpen(head))
  BY <1>3 DEF HasCustody
<1> QED
  BY <1>1, <1>2, <1>3, CustodyCases

\* Posting an opening, or an Act that passes verification.
LEMMA SubmitKeepsCustody ==
    ASSUME RowsInv, [Next]_vars, NEW c \in Callers, Submit(c),
           NEW i \in Instances, HasCustody(i)
    PROVE  HasCustody(i)'
<1>0. /\ c \in Procs /\ LocalsOK /\ RowsInv' /\ SameRows
  BY RowsFacts, NextKeepsRows DEF Procs
<1>1. OnlyMoves(c) /\ ledger' = ledger /\ ~OnItsWay(c, i)
  BY <1>0 DEF Submit, SubmitOpening, SubmitDispatch, OnlyMoves, LocalsOK, OnItsWay
<1>2. CASE i \in opened' => i \in opened
  BY <1>0, <1>1, <1>2, OthersKeepCustody
<1>3. CASE i \in opened' /\ i \notin opened
  <2>1. SubmitOpening(c, i)
    BY <1>3 DEF Submit, SubmitOpening, SubmitDispatch
  <2>2. /\ pc'[c] = "project"
        /\ proposal'[c] = [instance |-> i, act |-> NoAct]
    BY <1>0, <2>1 DEF SubmitOpening, LocalsOK
  <2>3. OnItsWay(c, i)'
    BY <2>2 DEF OnItsWay
  <2> QED
    BY <1>0, <2>3, CustodySufficesNext DEF Suffices
<1> QED
  BY <1>2, <1>3

\* An append leaves its router on its way; the router closes, projects the
\* head, and queues what it projected.
LEMMA RegisterKeepsCustody ==
    ASSUME RowsInv, [Next]_vars, NEW p \in Procs, Register(p),
           NEW i \in Instances, HasCustody(i)
    PROVE  HasCustody(i)'
<1>0. /\ LocalsOK /\ TypeInv /\ RowsInv' /\ SameRows
      /\ ledger \in [Instances -> Seq(Act)] /\ queue \in Seq(Row)
  BY RowsFacts, NextKeepsRows
<1>1. UNCHANGED opened /\ pc[p] \in {"append", "close", "project", "enqueue"}
  BY DEF Register, AppendAct, AppendRejected, ClosePriorCustody, ProjectHead,
         QueueCustody
<1>2. proposal[p].instance \in Instances
  BY <1>0, <1>1, Locals DEF Registering
<1>3. CASE AppendAct(p)
  <2>1. /\ GoesTo(p, "close")
        /\ ledger' = Inserted(proposal[p].instance, proposal[p].act)
    BY <1>3 DEF AppendAct
  <2>2. OnlyMoves(p) /\ pc'[p] = "close" /\ proposal' = proposal
    BY <1>0, <2>1, GoesToMoves
  <2>3. CASE proposal[p].instance = i
    <3>1. OnItsWay(p, i)'
      BY <2>2, <2>3 DEF OnItsWay
    <3> QED
      BY <1>0, <3>1, CustodySufficesNext DEF Suffices
  <2>4. CASE proposal[p].instance # i
    <3>1. ledger'[i] = ledger[i]
      BY <1>0, <1>2, <2>1, <2>4 DEF Inserted
    <3> QED
      BY <1>0, <1>1, <2>2, <2>4, <3>1, OthersKeepCustody DEF OnItsWay
  <2> QED
    BY <2>3, <2>4
<1>4. CASE AppendRejected(p)
  <2>1. pc[p] = "append" /\ Fails(p) /\ ledger' = ledger
    BY <1>4 DEF AppendRejected
  <2>2. OnlyMoves(p)
    BY <1>0, <2>1, FailsOK
  <2> QED
    BY <1>0, <1>1, <2>1, <2>2, OthersKeepCustody DEF OnItsWay
<1>5. CASE ClosePriorCustody(p)
  <2>1. GoesTo(p, "project") /\ ledger' = ledger
    BY <1>5 DEF ClosePriorCustody
  <2>2. OnlyMoves(p) /\ pc'[p] = "project" /\ proposal' = proposal
    BY <1>0, <2>1, GoesToMoves
  <2>3. CASE proposal[p].instance = i
    <3>1. OnItsWay(p, i)'
      BY <2>2, <2>3 DEF OnItsWay
    <3> QED
      BY <1>0, <3>1, CustodySufficesNext DEF Suffices
  <2>4. CASE proposal[p].instance # i
    BY <1>0, <1>1, <2>1, <2>2, <2>4, OthersKeepCustody DEF OnItsWay
  <2> QED
    BY <2>3, <2>4
<1>6. CASE ProjectHead(p)
  <2>1. /\ ledger' = ledger /\ proposal' = proposal /\ OnlyMoves(p)
        /\ pc'[p] = "enqueue"
        /\ view'[p] = processCurrentState(ledger[proposal[p].instance])
    BY <1>0, <1>6 DEF ProjectHead, OnlyMoves, LocalsOK
  <2>2. CASE proposal[p].instance = i
    <3>1. OnItsWay(p, i)'
      BY <2>1, <2>2 DEF OnItsWay
    <3> QED
      BY <1>0, <3>1, CustodySufficesNext DEF Suffices
  <2>3. CASE proposal[p].instance # i
    BY <1>0, <1>1, <2>1, <2>3, OthersKeepCustody DEF OnItsWay
  <2> QED
    BY <2>2, <2>3
<1>7. CASE QueueCustody(p)
  <2>1. /\ ledger' = ledger /\ pc[p] = "enqueue"
        /\ Ends(p) \/ GoesTo(p, "result")
    BY <1>7 DEF QueueCustody
  <2>2. OnlyMoves(p)
    BY <1>0, <2>1, EndsOK, GoesToMoves
  <2>3. CASE OnItsWay(p, i) /\ i \in opened /\ IsOpen(view[p])
    <3>1. view[p] = processCurrentState(ledger[i]) /\ proposal[p].instance = i
      BY <2>1, <2>3 DEF OnItsWay
    <3>2. CASE RowsOf(i, view[p]) # {}
      <4>1. RowsOf(i, processCurrentState(ledger[i]))' # {}
        BY <1>0, <2>1, <3>1, <3>2 DEF RowsOf, SameRows
      <4> QED
        BY <1>0, <4>1, CustodySufficesNext DEF Suffices
    <3>3. CASE RowsOf(i, view[p]) = {}
      <4>1. queue' = Append(queue, NewRow(i, view[p]))
        BY <1>7, <2>3, <3>1, <3>3 DEF QueueCustody
      <4>2. /\ Len(queue) + 1 \in DOMAIN queue'
            /\ queue'[Len(queue) + 1] = NewRow(i, view[p])
        BY <1>0, <4>1
      <4>3. RowsOf(i, processCurrentState(ledger[i]))' # {}
        BY <2>1, <3>1, <4>2 DEF RowsOf, NewRow
      <4> QED
        BY <1>0, <4>3, CustodySufficesNext DEF Suffices
    <3> QED
      BY <3>2, <3>3
  <2>4. CASE OnItsWay(p, i) /\ ~(i \in opened /\ IsOpen(view[p]))
    <3>1. ~(i \in opened /\ IsOpen(processCurrentState(ledger[i])))'
      BY <1>1, <2>1, <2>4 DEF OnItsWay
    <3> QED
      BY <3>1 DEF HasCustody
  <2>5. CASE ~OnItsWay(p, i)
    BY <1>0, <1>1, <2>1, <2>2, <2>5, OthersKeepCustody
  <2> QED
    BY <2>3, <2>4, <2>5
<1> QED
  BY <1>3, <1>4, <1>5, <1>6, <1>7 DEF Register

\* An executor that claims, looks, gives up or records is no router.
LEMMA WorkKeepsCustody ==
    ASSUME RowsInv, [Next]_vars, NEW w \in Workers,
           Invoke(w) \/ Work(w) \/ RecordFails(w),
           NEW i \in Instances, HasCustody(i)
    PROVE  HasCustody(i)'
<1>0. /\ w \in Procs /\ LocalsOK /\ RowsInv' /\ SameRows
  BY RowsFacts, NextKeepsRows DEF Procs
<1>1. /\ pc[w] \notin {"close", "project", "enqueue"}
      /\ UNCHANGED <<opened, ledger>>
  BY DEF Invoke, Claim, Work, Reproject, CloseStaleClaim, RunActivity,
         ActivityRefused, VerifyProposal, RecordExecutionResult,
         RecordExecutionError, RecordFails
<1>2. OnlyMoves(w)
  <2>1. CASE \/ Ends(w)
             \/ \E next \in {"run", "stale", "append", "error"} :
                    GoesTo(w, next)
    BY <1>0, <2>1, EndsOK, GoesToMoves
  <2>2. CASE \E k \in DOMAIN queue : Claim(w, k)
    BY <1>0, <2>2 DEF Claim, OnlyMoves, LocalsOK
  <2>3. CASE \E stamp \in Stamps : RunActivity(w, stamp)
    BY <1>0, <2>3 DEF RunActivity, OnlyMoves, LocalsOK
  <2> QED
    BY <2>1, <2>2, <2>3
    DEF Invoke, Work, Reproject, CloseStaleClaim, ActivityRefused, Fails,
        VerifyProposal, RecordExecutionResult, RecordExecutionError,
        RecordFails
<1> QED
  BY <1>0, <1>1, <1>2, OthersKeepCustody DEF OnItsWay

\* No step but a failure loses the custody of an open head.
LEMMA NextKeepsCustody ==
    ASSUME RowsInv, [Next]_vars, ~\E p \in Procs : Fail(p),
           NEW i \in Instances, HasCustody(i)
    PROVE  HasCustody(i)'
<1>1. CASE Environment \/ UNCHANGED vars
  <2>1. UNCHANGED <<opened, ledger, pc, job, proposal, view>>
    BY <1>1 DEF Environment, LeaseExpires, SignGrant, VoidGrant,
                ResumeGrantSources, LoseResume, vars
  <2>2. OnlyMoves(None) /\ None \notin Procs
    BY <2>1, RuntimeAssumption DEF OnlyMoves
  <2>3. RowsInv' /\ SameRows
    BY NextKeepsRows
  <2> QED
    BY <2>1, <2>2, <2>3, OthersKeepCustody
<1> QED
  BY <1>1, SubmitKeepsCustody, RegisterKeepsCustody, WorkKeepsCustody DEF Next

\* Only a failure leaves an open head without custody: the routers of successive
\* Acts and the executors that close rows may come in any order.
THEOREM CustodyIsKept == Spec => HeadKeepsCustody
<1>1. RowsInv /\ [Next]_vars =>
          [\A i \in Instances :
              (~HasCustody(i)' /\ HasCustody(i)) =>
                  \E p \in Procs : Fail(p)]_vars
  BY NextKeepsCustody
<1> QED
  BY <1>1, QueueLaw, PTL DEF Spec, HeadKeepsCustody

\* Where routers neither die nor fail, every open head has custody, and so a
\* person's turn is visible.
LEMMA NextHasCustody ==
    ASSUME RowsInv, [Next]_vars, Faults \cap {"crash", "query"} = {},
           NEW i \in Instances, HasCustody(i)
    PROVE  HasCustody(i)'
<1>1. ASSUME NEW p \in Procs, Fail(p)
      PROVE  HasCustody(i)'
  <2>1. Crash(p) /\ pc[p] \in BeforeAppend
    BY <1>1 DEF Fail, Crash, QueryFails, RouteFails
  <2>2. Ends(p) /\ UNCHANGED <<opened, ledger>>
    BY <2>1 DEF Crash
  <2>3. RowsInv' /\ SameRows /\ OnlyMoves(p)
    BY <2>2, NextKeepsRows, RowsFacts, EndsOK
  <2> QED
    BY <2>1, <2>2, <2>3, OthersKeepCustody DEF OnItsWay, BeforeAppend
<1> QED
  BY <1>1, NextKeepsCustody

\* "Human/team custody remains visible work" as long as routes are completed:
\* executors may die before they append, leases may run out, claims be resumed.
THEOREM TurnsStayVisible ==
    Faults \cap {"crash", "query"} = {} => (Spec => []HumanWorkVisible)
<1> SUFFICES ASSUME Faults \cap {"crash", "query"} = {}
             PROVE  Spec => []HumanWorkVisible
  OBVIOUS
<1> DEFINE Inv == RowsInv /\ \A i \in Instances : HasCustody(i)
<1>1. Init => Inv
  <2>1. ASSUME Init PROVE Inv
    BY <2>1, InitRows DEF Init, HasCustody
  <2> QED
    BY <2>1
<1>2. Inv /\ [Next]_vars => Inv'
  <2>1. ASSUME Inv, [Next]_vars PROVE Inv'
    BY <2>1, NextHasCustody, NextKeepsRows
  <2> QED
    BY <2>1
<1>3. Inv => HumanWorkVisible
  <2> SUFFICES ASSUME Inv, NEW i \in opened, \A p \in Procs : pc[p] = "idle",
                      IsOpen(processCurrentState(ledger[i]))
               PROVE  \E k \in RowsOf(i, processCurrentState(ledger[i])) :
                          queue[k].status # "closed"
    BY DEF HumanWorkVisible
  <2>1. i \in Instances
    BY Shared DEF RowsInv
  <2>2. ~\E p \in Procs : OnItsWay(p, i)
    BY DEF OnItsWay
  <2> QED
    BY <2>1, <2>2, CustodyCases
<1> HIDE DEF Inv
<1> QED
  BY <1>1, <1>2, <1>3, PTL DEF Spec
------------------------------------------------------------------------------
\* Leases.

\* A lease is that of a claim, and nothing is to be resumed without a grant.
LeaseOK(row) == row.lease => row.status = "claimed"

ClaimInv ==
    /\ RowsInv
    /\ \A k \in DOMAIN queue : LeaseOK(queue[k])
    /\ grant.resume => GrantCited

\* What a step may do to one row.
RowStep(k) ==
    /\ k \in DOMAIN queue'
    /\ LeaseOK(queue'[k])
    /\ queue[k].lease =>
           \/ queue'[k].claimed_by = queue[k].claimed_by
           \/ queue'[k].status = "closed"
           \/ ResumeGrantSources

\* A claim under lease changes hands by a resume only.
LEMMA RowSteps ==
    ASSUME ClaimInv, [Next]_vars
    PROVE  /\ \A k \in DOMAIN queue : RowStep(k)
           /\ \A k \in DOMAIN queue' \ DOMAIN queue : LeaseOK(queue'[k])
<1>0. /\ TypeInv /\ queue \in Seq(Row)
      /\ \A k \in DOMAIN queue : queue[k] \in Row /\ LeaseOK(queue[k])
  BY Shared DEF ClaimInv, RowsInv
<1>1. CASE queue' = queue
  BY <1>0, <1>1 DEF RowStep
<1>2. ASSUME NEW p \in Procs, ClosePriorCustody(p)
      PROVE  DOMAIN queue' = DOMAIN queue /\ \A k \in DOMAIN queue : RowStep(k)
  <2>1. ASSUME NEW k \in DOMAIN queue PROVE RowStep(k)
    <3>1. k \in DOMAIN queue' /\ queue[k] \in Row
      BY <1>0, <1>2 DEF ClosePriorCustody
    <3>2. CASE queue'[k] = queue[k]
      BY <1>0, <3>1, <3>2 DEF RowStep
    <3>3. CASE queue'[k] = [queue[k] EXCEPT !.status = "closed",
                                            !.claimed_by = None,
                                            !.lease = FALSE]
      <4>1. queue'[k].status = "closed" /\ queue'[k].lease = FALSE
        BY <3>1, <3>3 DEF Row
      <4> QED
        BY <3>1, <4>1 DEF RowStep, LeaseOK
    <3> QED
      BY <1>2, <3>2, <3>3 DEF ClosePriorCustody
  <2> QED
    BY <1>2, <2>1 DEF ClosePriorCustody
<1>3. ASSUME NEW p \in Procs, QueueCustody(p), queue' # queue
      PROVE  /\ \A k \in DOMAIN queue : RowStep(k)
             /\ \A k \in DOMAIN queue' \ DOMAIN queue : LeaseOK(queue'[k])
  <2>1. queue' = Append(queue, NewRow(proposal[p].instance, view[p]))
    BY <1>3 DEF QueueCustody
  <2>2. /\ \A k \in DOMAIN queue : k \in DOMAIN queue' /\ queue'[k] = queue[k]
        /\ \A k \in DOMAIN queue' \ DOMAIN queue :
               queue'[k] = NewRow(proposal[p].instance, view[p])
    BY <1>0, <2>1
  <2> QED
    BY <1>0, <2>2 DEF RowStep, LeaseOK, NewRow
<1>4. ASSUME NEW w \in Workers,
             Invoke(w) \/ CloseStaleClaim(w) \/ RecordExecutionResult(w)
                 \/ RecordExecutionError(w)
      PROVE  DOMAIN queue' = DOMAIN queue /\ \A k \in DOMAIN queue : RowStep(k)
  <2>1. pc[w] # "idle" => job[w] \in DOMAIN queue
    BY <1>0, Locals DEF Procs
  <2>2. CASE Invoke(w)
    <3>1. PICK j \in DOMAIN queue : Claim(w, j)
      BY <2>2 DEF Invoke
    <3>2. /\ ~queue[j].lease
          /\ queue' = [queue EXCEPT ![j] =
                [queue[j] EXCEPT !.status = "claimed", !.claimed_by = w,
                                 !.lease = TRUE, !.last_error = FALSE]]
      BY <1>0, <3>1 DEF Claim, Claimable, LeaseOK
    <3> QED
      BY <1>0, <3>2 DEF RowStep, LeaseOK, Row
  <2>3. CASE CloseStaleClaim(w)
    <3>1. /\ job[w] \in DOMAIN queue
          /\ queue' = [queue EXCEPT ![job[w]] =
                [queue[job[w]] EXCEPT !.status = "closed", !.claimed_by = None,
                                      !.lease = FALSE, !.last_error = TRUE]]
      BY <1>0, <2>1, <2>3 DEF CloseStaleClaim
    <3> QED
      BY <1>0, <3>1 DEF RowStep, LeaseOK, Row
  <2>4. CASE RecordExecutionResult(w)
    <3>1. /\ job[w] \in DOMAIN queue
          /\ queue' = [queue EXCEPT ![job[w]] =
                [queue[job[w]] EXCEPT !.status = "closed", !.claimed_by = None,
                    !.lease = FALSE,
                    !.result = ReceiptTuple(proposal[w].instance,
                                            proposal[w].act),
                    !.last_error = FALSE]]
      BY <1>0, <2>1, <2>4 DEF RecordExecutionResult
    <3> QED
      BY <1>0, <3>1 DEF RowStep, LeaseOK, Row
  <2>5. CASE RecordExecutionError(w)
    <3>1. /\ job[w] \in DOMAIN queue
          /\ queue' = [queue EXCEPT ![job[w]] =
                [queue[job[w]] EXCEPT !.last_error = TRUE]]
      BY <1>0, <2>1, <2>5 DEF RecordExecutionError
    <3> QED
      BY <1>0, <3>1 DEF RowStep, LeaseOK, Row
  <2> QED
    BY <1>4, <2>2, <2>3, <2>4, <2>5
<1>5. ASSUME NEW j \in DOMAIN queue, LeaseExpires(j)
      PROVE  DOMAIN queue' = DOMAIN queue /\ \A k \in DOMAIN queue : RowStep(k)
  <2>1. queue' = [queue EXCEPT ![j] = [queue[j] EXCEPT !.lease = FALSE]]
    BY <1>0, <1>5 DEF LeaseExpires
  <2> QED
    BY <1>0, <1>5, <2>1 DEF RowStep, LeaseOK, Row
<1>6. ASSUME ResumeGrantSources
      PROVE  DOMAIN queue' = DOMAIN queue /\ \A k \in DOMAIN queue : RowStep(k)
  <2>1. ASSUME NEW k \in DOMAIN queue PROVE RowStep(k)
    <3>1. \/ queue'[k] = queue[k]
          \/ queue'[k] = [queue[k] EXCEPT !.status = "queued",
                                          !.claimed_by = None,
                                          !.lease = FALSE,
                                          !.last_error = FALSE]
      BY <1>6 DEF ResumeGrantSources
    <3>2. k \in DOMAIN queue'
      BY <1>6 DEF ResumeGrantSources
    <3> QED
      BY <1>0, <1>6, <3>1, <3>2 DEF RowStep, LeaseOK, Row
  <2> QED
    BY <1>6, <2>1 DEF ResumeGrantSources
<1>7. ASSUME NEW w \in Workers, Work(w) \/ RecordFails(w)
      PROVE  \/ queue' = queue
             \/ CloseStaleClaim(w) \/ RecordExecutionResult(w)
             \/ RecordExecutionError(w)
  BY <1>7 DEF Work, Reproject, RunActivity, ActivityRefused, VerifyProposal,
              RecordFails
<1>8. ASSUME NEW p \in Procs, Register(p) \/ Fail(p)
      PROVE  \/ queue' = queue \/ ClosePriorCustody(p) \/ QueueCustody(p)
  BY <1>8 DEF Register, AppendAct, AppendRejected, ProjectHead, Fail, Crash,
              QueryFails, RouteFails
<1>9. ASSUME NEW c \in Callers, Submit(c) PROVE queue' = queue
  BY <1>9 DEF Submit, SubmitOpening, SubmitDispatch
<1>10. CASE Environment \/ UNCHANGED vars
  <2>1. \/ queue' = queue \/ ResumeGrantSources
        \/ \E k \in DOMAIN queue : LeaseExpires(k)
    BY <1>10 DEF Environment, SignGrant, VoidGrant, LoseResume, vars
  <2> QED
    BY <1>1, <1>5, <1>6, <2>1
<1>11. ASSUME NEW p \in Procs, Register(p) \/ Fail(p)
       PROVE  /\ \A k \in DOMAIN queue : RowStep(k)
              /\ \A k \in DOMAIN queue' \ DOMAIN queue : LeaseOK(queue'[k])
  BY <1>1, <1>2, <1>3, <1>8, <1>11
<1>12. ASSUME NEW w \in Workers, Invoke(w) \/ Work(w) \/ RecordFails(w)
       PROVE  /\ \A k \in DOMAIN queue : RowStep(k)
              /\ \A k \in DOMAIN queue' \ DOMAIN queue : LeaseOK(queue'[k])
  BY <1>1, <1>4, <1>7, <1>12
<1> QED
  BY <1>1, <1>9, <1>10, <1>11, <1>12 DEF Next

\* Without a grant that anything cites there is nothing to resume.
LEMMA NextGrant ==
    ASSUME TypeInv, [Next]_vars
    PROVE  /\ grant.signed => grant'.signed
           /\ grant'.resume => grant.resume \/ GrantCited
<1>0. grant \in [signed : BOOLEAN, void : BOOLEAN, resume : BOOLEAN]
  BY Shared
<1>1. CASE grant' = grant
  BY <1>1
<1>2. CASE Environment
  BY <1>0, <1>2 DEF Environment, LeaseExpires, SignGrant, VoidGrant,
                    ResumeGrantSources, LoseResume
<1>3. ASSUME NEW p \in Procs, Register(p) \/ Fail(p) PROVE grant' = grant
  BY <1>3 DEF Register, AppendAct, AppendRejected, ClosePriorCustody,
              ProjectHead, QueueCustody, Fail, Crash, QueryFails, RouteFails
<1>4. ASSUME NEW w \in Workers, Invoke(w) \/ Work(w) \/ RecordFails(w)
      PROVE  grant' = grant
  BY <1>4 DEF Invoke, Claim, Work, Reproject, CloseStaleClaim, RunActivity,
              ActivityRefused, VerifyProposal, RecordExecutionResult,
              RecordExecutionError, RecordFails
<1>5. ASSUME NEW c \in Callers, Submit(c) PROVE grant' = grant
  BY <1>5 DEF Submit, SubmitOpening, SubmitDispatch
<1> QED
  BY <1>1, <1>2, <1>3, <1>4, <1>5 DEF Next, vars

\* A row has a lease only while it is claimed, and a resume is due only where
\* some Act or opening cites the grant (claimCustody, resumeGrantSources).
THEOREM ClaimLaw == Spec => []ClaimInv
<1>1. Init => ClaimInv
  <2>1. ASSUME Init PROVE ClaimInv
    BY <2>1, InitRows DEF ClaimInv, Init
  <2> QED
    BY <2>1
<1>2. ClaimInv /\ [Next]_vars => ClaimInv'
  <2>1. ASSUME ClaimInv, [Next]_vars PROVE ClaimInv'
    <3>1. RowsInv' /\ TypeInv
      BY <2>1, NextKeepsRows DEF ClaimInv, RowsInv
    <3>2. \A k \in DOMAIN queue' : LeaseOK(queue'[k])
      BY <2>1, RowSteps DEF RowStep
    <3>3. grant'.resume => GrantCited'
      BY <2>1, <3>1, NextGrant DEF ClaimInv, GrantCited
    <3> QED
      BY <3>1, <3>2, <3>3 DEF ClaimInv, LeaseOK
  <2> QED
    BY <2>1
<1> QED
  BY <1>1, <1>2, PTL DEF Spec

\* A claim under lease is its worker's until the row is closed, or resumed by a
\* signoff: no other executor takes it, no router and no failure gives it away.
ClaimsChangeHands ==
    [][\A k \in DOMAIN queue :
          queue[k].lease =>
              \/ queue'[k].claimed_by = queue[k].claimed_by
              \/ queue'[k].status = "closed"
              \/ ResumeGrantSources]_vars

\* So it is, with grants or without (claimCustody, resumeGrantSources).
THEOREM OnlyResumesTakeClaims == Spec => ClaimsChangeHands
<1>1. ClaimInv /\ [Next]_vars =>
          [\A k \in DOMAIN queue :
              queue[k].lease =>
                  \/ queue'[k].claimed_by = queue[k].claimed_by
                  \/ queue'[k].status = "closed"
                  \/ ResumeGrantSources]_vars
  BY RowSteps DEF RowStep
<1> QED
  BY <1>1, ClaimLaw, PTL DEF Spec, ClaimsChangeHands

\* "Live claims are never stolen", where no grant is cited: until its lease runs
\* out or the row is closed, a row stays its worker's, whatever other executors,
\* routers and failures do.  With a grant, a resume takes a live claim away.
THEOREM LiveClaimsKept == ~GrantCited => (Spec => LiveClaimKept)
<1> SUFFICES ASSUME ~GrantCited PROVE Spec => LiveClaimKept
  OBVIOUS
<1>1. ClaimInv /\ [Next]_vars =>
          [\A w \in Workers : \A k \in DOMAIN queue :
              (/\ job[w] = k
               /\ queue[k].claimed_by = w
               /\ queue[k].lease)
              => queue'[k].claimed_by = w \/ queue'[k].status = "closed"]_vars
  <2>1. ClaimInv => ~ResumeGrantSources
    BY DEF ClaimInv, ResumeGrantSources
  <2> QED
    BY <2>1, RowSteps DEF RowStep
<1> QED
  BY <1>1, ClaimLaw, PTL DEF Spec, LiveClaimKept
------------------------------------------------------------------------------
\* The grant.

\* What is known of a dangerous row once its executor has passed
\* enforceSafety; the grant may be voided since, the signature stays.
Cleared(row) == row.node \in Dangerous => SourceCites(row) /\ grant.signed

GrantOK(p) ==
    p \in Workers /\ pc[p] \in {"verify", "append"} => Cleared(queue[job[p]])

GrantInv ==
    /\ RowsInv
    /\ \A p \in Procs : GrantOK(p)

\* An executor comes to its insert through enforceSafety.
Guarded(p) ==
    p \in Workers /\ pc'[p] \in {"verify", "append"} =>
        \/ pc[p] \in {"verify", "append"} /\ job'[p] = job[p]
        \/ /\ pc[p] = "run" /\ Safe(queue[job[p]])
           /\ UNCHANGED <<queue, ledger, grant, job>>

\* A handler that goes nowhere near its insert, and no other handler moves.
LEMMA OthersGuarded ==
    ASSUME TypeInv, NEW p \in Procs, NEW next,
           \/ Ends(p)
           \/ GoesTo(p, next) /\ next \notin {"verify", "append"}
    PROVE  \A q \in Procs : Guarded(q)
<1>1. LocalsOK
  BY Shared
<1>2. CASE Ends(p)
  BY <1>1, <1>2 DEF Ends, Guarded, LocalsOK
<1>3. CASE GoesTo(p, next) /\ next \notin {"verify", "append"}
  BY <1>1, <1>3 DEF GoesTo, Guarded, LocalsOK
<1> QED
  BY <1>2, <1>3

\* A query that fails sends its handler to its error path.
LEMMA FailsGuarded ==
    ASSUME TypeInv, NEW p \in Procs, Fails(p)
    PROVE  \A q \in Procs : Guarded(q)
<1>1. CASE GoesTo(p, "error")
  BY <1>1, OthersGuarded
<1>2. CASE Ends(p)
  BY <1>2, OthersGuarded
<1> QED
  BY <1>1, <1>2 DEF Fails

\* Who is about to insert what, after any step.
LEMMA NextGuarded ==
    ASSUME TypeInv, [Next]_vars
    PROVE  \A q \in Procs : Guarded(q)
<1>0. LocalsOK
  BY Shared
<1>1. ASSUME NEW c \in Callers, Submit(c)
      PROVE  \A q \in Procs : Guarded(q)
  <2>1. c \in Procs /\ c \notin Workers
    BY RuntimeAssumption DEF Procs
  <2>2. ASSUME NEW i \in Instances, SubmitOpening(c, i)
        PROVE  \A q \in Procs : Guarded(q)
    BY <1>0, <2>1, <2>2 DEF SubmitOpening, Guarded, LocalsOK
  <2>3. ASSUME NEW i \in Instances, NEW act, SubmitDispatch(c, i, act)
        PROVE  \A q \in Procs : Guarded(q)
    BY <1>0, <2>1, <2>3 DEF SubmitDispatch, Guarded, LocalsOK
  <2> QED
    BY <1>1, <2>2, <2>3 DEF Submit
<1>2. ASSUME NEW p \in Procs, Register(p) \/ Fail(p)
      PROVE  \A q \in Procs : Guarded(q)
  <2>1. \/ Ends(p) \/ Fails(p) \/ ProjectHead(p)
        \/ \E next \in {"close", "project", "result", "salvage"} :
               GoesTo(p, next)
    BY <1>2 DEF Register, AppendAct, AppendRejected, ClosePriorCustody,
                QueueCustody, Fail, Crash, QueryFails, RouteFails
  <2>2. ASSUME ProjectHead(p) PROVE \A q \in Procs : Guarded(q)
    BY <1>0, <2>2 DEF ProjectHead, Guarded, LocalsOK
  <2> QED
    BY <2>1, <2>2, OthersGuarded, FailsGuarded
<1>3. ASSUME NEW w \in Workers, Invoke(w) \/ Work(w) \/ RecordFails(w)
      PROVE  \A q \in Procs : Guarded(q)
  <2>1. w \in Procs /\ w \notin Callers
    BY RuntimeAssumption DEF Procs
  <2>2. CASE Invoke(w)
    BY <1>0, <2>1, <2>2 DEF Invoke, Claim, Guarded, LocalsOK
  <2>3. ASSUME NEW stamp \in Stamps, RunActivity(w, stamp)
        PROVE  \A q \in Procs : Guarded(q)
    BY <1>0, <2>1, <2>3 DEF RunActivity, Guarded, LocalsOK
  <2>4. CASE VerifyProposal(w)
    <3>1. CASE Fails(w)
      BY <2>1, <3>1, FailsGuarded
    <3>2. CASE GoesTo(w, "append") /\ pc[w] = "verify"
      BY <1>0, <2>1, <3>2 DEF GoesTo, Guarded, LocalsOK
    <3> QED
      BY <2>4, <3>1, <3>2 DEF VerifyProposal
  <2>5. CASE Reproject(w)
    <3>1. GoesTo(w, "run") \/ GoesTo(w, "stale")
      BY <2>5 DEF Reproject
    <3> QED
      BY <2>1, <3>1, OthersGuarded
  <2>6. CASE RecordFails(w)
    BY <2>1, <2>6, OthersGuarded DEF RecordFails
  <2>7. CASE ActivityRefused(w)
    BY <2>1, <2>7, FailsGuarded DEF ActivityRefused
  <2>8. CASE CloseStaleClaim(w) \/ RecordExecutionResult(w)
             \/ RecordExecutionError(w)
    BY <2>1, <2>8, OthersGuarded
    DEF CloseStaleClaim, RecordExecutionResult, RecordExecutionError
  <2> QED
    BY <1>3, <2>2, <2>3, <2>4, <2>5, <2>6, <2>7, <2>8 DEF Work
<1>4. CASE Environment \/ UNCHANGED vars
  <2>1. UNCHANGED <<pc, job, proposal, view>>
    BY <1>4 DEF Environment, LeaseExpires, SignGrant, VoidGrant,
                ResumeGrantSources, LoseResume, vars
  <2> QED
    BY <2>1 DEF Guarded
<1> QED
  BY <1>1, <1>2, <1>3, <1>4 DEF Next

\* What a row was cleared for stays: the source is in the ledger for good, and
\* nothing takes a signature back.
LEMMA ClearedStays ==
    ASSUME RowsInv, [Next]_vars, NEW k \in DOMAIN queue, Cleared(queue[k])
    PROVE  Cleared(queue[k])'
<1> DEFINE i == queue[k].instance
           s == queue[k].source
<1>1. /\ TypeInv /\ LedgerInv /\ queue[k] \in Row
      /\ SameRows /\ (grant.signed => grant'.signed)
  BY Shared, NextKeepsRows, NextGrant DEF RowsInv
<1>2. i \in Instances
  BY <1>1 DEF Row
<1>3. HistoryKept(ledger[i], ledger'[i])
  BY <1>1, <1>2, NextKeepsHistory
<1>4. /\ queue'[k].instance = i /\ queue'[k].source = s
      /\ queue'[k].node = queue[k].node
  BY <1>1 DEF SameRows
<1>5. ASSUME SourceCites(queue[k]) PROVE SourceCites(queue[k])'
  <2>1. CASE s = 0
    BY <1>4, <1>5, <2>1 DEF SourceCites
  <2>2. CASE s # 0
    <3>1. s \in DOMAIN ledger[i] /\ ledger[i][s].cites
      BY <1>5, <2>2 DEF SourceCites
    <3>2. s \in DOMAIN ledger'[i] /\ ledger'[i][s] = ledger[i][s]
      BY <1>3, <3>1 DEF HistoryKept
    <3> QED
      BY <1>4, <2>2, <3>1, <3>2 DEF SourceCites
  <2> QED
    BY <2>1, <2>2
<1> QED
  BY <1>1, <1>4, <1>5 DEF Cleared

\* What an executor was cleared for still holds at its insert.
LEMMA NextGrantOK ==
    ASSUME GrantInv, [Next]_vars, NEW p \in Procs
    PROVE  GrantOK(p)'
<1>1. /\ RowsInv /\ TypeInv /\ GrantOK(p) /\ Guarded(p)
      /\ (p \in Workers /\ pc[p] # "idle" => job[p] \in DOMAIN queue)
  BY NextGuarded, Locals DEF GrantInv, RowsInv
<1>2. ASSUME p \in Workers, pc'[p] \in {"verify", "append"}
      PROVE  Cleared(queue[job[p]])'
  <2>1. CASE pc[p] \in {"verify", "append"} /\ job'[p] = job[p]
    <3>1. PICK k \in DOMAIN queue : k = job[p]
      BY <1>1, <1>2, <2>1
    <3>2. Cleared(queue[k])'
      BY <1>1, <1>2, <2>1, <3>1, ClearedStays DEF GrantOK
    <3> QED
      BY <2>1, <3>1, <3>2 DEF Cleared, SourceCites
  <2>2. CASE Safe(queue[job[p]]) /\ UNCHANGED <<queue, ledger, grant, job>>
    BY <2>2 DEF Safe, Cleared, GrantStanding, SourceCites
  <2> QED
    BY <1>1, <1>2, <2>1, <2>2 DEF Guarded
<1> QED
  BY <1>2 DEF GrantOK

\* Only the handler at its insert adds to a ledger.
LEMMA InsertIsOwn ==
    ASSUME TypeInv, [Next]_vars, NEW w \in Workers, NEW i \in Instances,
           WorkerInserts(w, i)
    PROVE  /\ proposal[w].instance = i
           /\ ~Conflicts(i, proposal[w].act)
<1>0. LocalsOK /\ w \in Procs /\ ledger \in [Instances -> Seq(Act)]
  BY Shared DEF Procs
<1>1. \E p \in Procs : AppendAct(p) \/ QueryFails(p)
  <2>1. ~UNCHANGED ledger
    BY DEF WorkerInserts
  <2> QED
    BY <2>1 DEF Next, Submit, SubmitOpening, SubmitDispatch, Register,
                AppendRejected, ClosePriorCustody, ProjectHead, QueueCustody,
                Fail, Crash, RouteFails, Invoke, Claim, Work, Reproject,
                CloseStaleClaim, RunActivity, ActivityRefused, VerifyProposal,
                RecordExecutionResult, RecordExecutionError, RecordFails,
                Environment, LeaseExpires, SignGrant, VoidGrant,
                ResumeGrantSources, LoseResume, vars
<1>2. PICK p \in Procs : AppendAct(p) \/ QueryFails(p)
  BY <1>1
<1>3. p = w
  <2>1. \A q \in Procs : q # p => pc'[q] = pc[q]
    BY <1>0, <1>2
    DEF AppendAct, QueryFails, Fails, GoesTo, Ends, LocalsOK
  <2> QED
    BY <1>0, <2>1 DEF WorkerInserts
<1>4. /\ ledger' = Inserted(proposal[w].instance, proposal[w].act)
      /\ \/ Duplicate(proposal[w].instance, proposal[w].act)
         \/ ~Conflicts(proposal[w].instance, proposal[w].act)
  BY <1>2, <1>3 DEF AppendAct, QueryFails, WorkerInserts
<1> QED
  BY <1>0, <1>4 DEF Inserted, WorkerInserts

\* An executor's insert lands on the source of the row it was cleared for.
LEMMA InsertIsCleared ==
    ASSUME GrantInv, [Next]_vars, NEW w \in Workers, NEW i \in Instances,
           WorkerInserts(w, i),
           processCurrentState(ledger[i]).node \in Dangerous
    PROVE  HeadIsCleared(i)
<1> DEFINE act == proposal[w].act
           row == queue[job[w]]
           history == ledger[i]
<1>1. /\ TypeInv /\ LedgerInv /\ w \in Procs /\ pc[w] = "append"
      /\ proposal[w].instance = i /\ ~Conflicts(i, act)
  BY InsertIsOwn DEF GrantInv, RowsInv, WorkerInserts, Procs
<1>2. /\ job[w] \in DOMAIN queue /\ Answers(proposal[w], row)
      /\ RowOK(row) /\ Cleared(row) /\ act \in Act
  BY <1>1, Locals
  DEF GrantInv, GrantOK, RowsInv, RowsOK, HandlerOK, Registering, WithAct
<1>3. /\ history \in Seq(Act) /\ Replayable(history)
      /\ Chained(history) /\ Lawful(history)
      /\ Admissible(history, act)
      /\ Children(history, act.parent) = {}
  BY <1>1, <1>2, Shared
  DEF TypeInv, LedgerReplays, LedgerInv, SingleChain, LawfulHistory, Pending,
      Conflicts
<1>4. act.parent = Len(history)
  <2> HIDE DEF act, history
  <2> QED
    BY <1>2, <1>3, AppendLawful DEF Admissible
<1>5. row.instance = i /\ row.source = Len(history)
      /\ row.node = Replay(history)[Len(history)].node
  BY <1>1, <1>2, <1>4 DEF Answers, RowOK
<1>6. processCurrentState(history) = Replay(history)[Len(history)]
  BY DEF processCurrentState
<1>7. SourceCites(row) /\ grant.signed
  BY <1>2, <1>5, <1>6 DEF Cleared
<1>8. history = <<>> <=> Len(history) = 0
  BY <1>3
<1> QED
  BY <1>5, <1>7, <1>8 DEF SourceCites, HeadIsCleared

\* From enforceSafety to the insert the source of a dangerous row cites a grant
\* that was signed, although the two are several queries apart and the grant may
\* be voided, the row taken over and answered in between.
THEOREM GrantLaw == Spec => []GrantInv
<1>1. Init => GrantInv
  <2>1. ASSUME Init PROVE GrantInv
    BY <2>1, InitRows DEF Init, GrantInv, GrantOK, Procs
  <2> QED
    BY <2>1
<1>2. GrantInv /\ [Next]_vars => GrantInv'
  <2>1. ASSUME GrantInv, [Next]_vars PROVE GrantInv'
    BY <2>1, NextKeepsRows, NextGrantOK DEF GrantInv
  <2> QED
    BY <2>1
<1> QED
  BY <1>1, <1>2, PTL DEF Spec

\* No executor invocation appends an Act on a dangerous head but under a grant
\* the head cites and somebody signed, whatever requests append meanwhile and in
\* whose name (enforceSafety, recordExecutionResult).
THEOREM DangerIsSigned == Spec => ExecutorActsSigned
<1>1. GrantInv /\ [Next]_vars =>
          [\A w \in Workers : \A i \in Instances :
              (/\ WorkerInserts(w, i)
               /\ processCurrentState(ledger[i]).node \in Dangerous)
              => HeadIsCleared(i)]_vars
  BY InsertIsCleared
<1> QED
  BY <1>1, GrantLaw, PTL DEF Spec, ExecutorActsSigned
=============================================================================
