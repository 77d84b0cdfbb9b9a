------------------------ MODULE CustodyRuntimeProofs ------------------------
(***************************************************************************)
(* What holds of CustodyRuntime for every process type, any number of      *)
(* instances, requests and executors, and every failure it models.         *)
(***************************************************************************)
EXTENDS CustodyRuntime, ProcessMachineProofs

------------------------------------------------------------------------------
\* Types.

LocalsOK ==
    /\ pc \in [Procs -> WorkerPCs]
    /\ job \in [Workers -> Nat]
    /\ proposal \in [Procs -> Proposal \cup {None}]
    /\ view \in [Procs -> State]
    /\ \A c \in Callers : pc[c] \in CallerPCs
    /\ \A w \in Workers : pc[w] # "idle" => job[w] \in DOMAIN queue
    /\ \A p \in Procs : pc[p] \in Registering => proposal[p] \in Proposal
    /\ \A p \in Procs : pc[p] \in WithAct => proposal[p].act \in Act

\* Every instance's history replays.
LedgerReplays == \A i \in Instances : Replayable(ledger[i])

\* What an executor has registered is in the ledger.
Appended == {"close", "project", "enqueue", "result", "salvage"}

Recorded(rows, entry) ==
    /\ entry.act \in Act
    /\ \E k \in DOMAIN rows[entry.instance] : rows[entry.instance][k] = entry.act

Registered ==
    \A w \in Workers :
        pc[w] \in Appended => Recorded(ledger, proposal[w])

TypeInv == TypeOK /\ LedgerReplays /\ Registered

\* The ledger is append-only.
LedgerGrows ==
    \A i \in Instances :
        /\ Len(ledger[i]) \in 0..Len(ledger'[i])
        /\ \A k \in 1..Len(ledger[i]) : ledger'[i][k] = ledger[i][k]

LEMMA TypeParts ==
    TypeOK <=>
        /\ opened \in SUBSET Instances
        /\ ledger \in [Instances -> Seq(Act)]
        /\ grant \in [signed : BOOLEAN, void : BOOLEAN, resume : BOOLEAN]
        /\ queue \in Seq(Row)
        /\ LocalsOK
  BY DEF TypeOK, LocalsOK

\* The three ways a handler moves on keep its locals well typed.
LEMMA EndsType ==
    ASSUME LocalsOK, NEW p \in Procs, Ends(p),
           DOMAIN queue \subseteq DOMAIN queue'
    PROVE  LocalsOK'
<1>1. pc' \in [Procs -> WorkerPCs] /\ view' \in [Procs -> State]
  BY TypeAssumption DEF LocalsOK, Ends, WorkerPCs, CallerPCs, NoView, State, Targets
<1>2. job' \in [Workers -> Nat]
  BY DEF LocalsOK, Ends, NoJob
<1>3. proposal' \in [Procs -> Proposal \cup {None}]
  BY DEF LocalsOK, Ends
<1>4. \A c \in Callers : pc'[c] \in CallerPCs
  BY DEF LocalsOK, Ends, CallerPCs, Procs
<1>5. \A w \in Workers : pc'[w] # "idle" => job'[w] \in DOMAIN queue'
  BY DEF LocalsOK, Ends, Procs
<1>6. \A q \in Procs : /\ pc'[q] \in Registering => proposal'[q] \in Proposal
                       /\ pc'[q] \in WithAct => proposal'[q].act \in Act
  BY DEF LocalsOK, Ends, Registering, WithAct
<1> QED
  BY <1>1, <1>2, <1>3, <1>4, <1>5, <1>6 DEF LocalsOK

LEMMA GoesToType ==
    ASSUME LocalsOK, NEW p \in Procs, NEW next \in WorkerPCs,
           GoesTo(p, next),
           p \in Callers => next \in CallerPCs,
           p \in Workers => pc[p] # "idle",
           next \in Registering => proposal[p] \in Proposal,
           next \in WithAct => proposal[p].act \in Act,
           DOMAIN queue \subseteq DOMAIN queue'
    PROVE  LocalsOK'
<1>1. pc' \in [Procs -> WorkerPCs]
  BY DEF LocalsOK, GoesTo
<1>2. /\ job' \in [Workers -> Nat]
      /\ proposal' \in [Procs -> Proposal \cup {None}]
      /\ view' \in [Procs -> State]
  BY DEF LocalsOK, GoesTo
<1>3. \A c \in Callers : pc'[c] \in CallerPCs
  BY DEF LocalsOK, GoesTo, Procs
<1>4. \A w \in Workers : pc'[w] # "idle" => job'[w] \in DOMAIN queue'
  BY DEF LocalsOK, GoesTo, Procs
<1>5. \A q \in Procs : /\ pc'[q] \in Registering => proposal'[q] \in Proposal
                       /\ pc'[q] \in WithAct => proposal'[q].act \in Act
  BY DEF LocalsOK, GoesTo
<1> QED
  BY <1>1, <1>2, <1>3, <1>4, <1>5 DEF LocalsOK

LEMMA FailsType ==
    ASSUME LocalsOK, NEW p \in Procs, Fails(p), pc[p] # "idle",
           DOMAIN queue \subseteq DOMAIN queue'
    PROVE  LocalsOK'
<1>1. CASE p \in Workers
  <2>1. GoesTo(p, "error") /\ p \notin Callers
    BY <1>1, RuntimeAssumption DEF Fails
  <2> QED
    BY <2>1, GoesToType DEF WorkerPCs, Registering, WithAct
<1>2. CASE p \notin Workers
  BY <1>2, EndsType DEF Fails
<1> QED
  BY <1>1, <1>2

\* The insert keeps the ledger a ledger, and afterwards the Act is in it.
LEMMA InsertedType ==
    ASSUME ledger \in [Instances -> Seq(Act)], LedgerReplays,
           NEW i \in Instances, NEW act \in Act, ledger' = Inserted(i, act)
    PROVE  /\ ledger' \in [Instances -> Seq(Act)]
           /\ LedgerReplays'
           /\ LedgerGrows
           /\ \E k \in DOMAIN ledger'[i] : ledger'[i][k] = act
<1>1. CASE Duplicate(i, act)
  <2>1. ledger' = ledger
    BY <1>1 DEF Inserted
  <2> QED
    BY <1>1, <2>1 DEF LedgerReplays, LedgerGrows, Duplicate
<1>2. CASE ~Duplicate(i, act)
  <2>1. ledger' = [ledger EXCEPT ![i] = Append(ledger[i], act)]
    BY <1>2 DEF Inserted
  <2>2. ledger' \in [Instances -> Seq(Act)]
    BY <2>1
  <2>3. ASSUME NEW j \in Instances PROVE Replayable(ledger'[j])
    <3>1. CASE j = i
      BY <2>1, <3>1, ReplayableAppend DEF LedgerReplays
    <3>2. CASE j # i
      BY <2>1, <3>2 DEF LedgerReplays
    <3> QED
      BY <3>1, <3>2
  <2>4. LedgerGrows
    BY <2>1 DEF LedgerGrows
  <2>5. Len(ledger[i]) + 1 \in DOMAIN ledger'[i]
        /\ ledger'[i][Len(ledger[i]) + 1] = act
    BY <2>1
  <2> QED
    BY <2>2, <2>3, <2>4, <2>5 DEF LedgerReplays, Duplicate
<1> QED
  BY <1>1, <1>2

\* An Act in the ledger stays in it, and its tuple is one of its rows.
LEMMA RecordedStays ==
    ASSUME ledger \in [Instances -> Seq(Act)],
           ledger' \in [Instances -> Seq(Act)], LedgerGrows,
           NEW entry, entry.instance \in Instances, Recorded(ledger, entry)
    PROVE  Recorded(ledger', entry)
<1>1. PICK k \in DOMAIN ledger[entry.instance] :
          ledger[entry.instance][k] = entry.act
  BY DEF Recorded
<1>2. k \in 1..Len(ledger[entry.instance])
  BY <1>1
<1>3. ledger'[entry.instance] \in Seq(Act)
  OBVIOUS
<1>4. /\ k \in 1..Len(ledger'[entry.instance])
      /\ ledger'[entry.instance][k] = entry.act
  BY <1>1, <1>2, <1>3 DEF LedgerGrows
<1> QED
  BY <1>3, <1>4 DEF Recorded

LEMMA ReceiptTupleType ==
    ASSUME ledger \in [Instances -> Seq(Act)],
           NEW i \in Instances, NEW act, Duplicate(i, act)
    PROVE  /\ ReceiptTuple(i, act) \in DOMAIN ledger[i]
           /\ ledger[i][ReceiptTuple(i, act)] = act
  BY DEF Duplicate, ReceiptTuple

\* An UPDATE of the queue, row by row, leaves a queue of the same length.
LEMMA QueueUpdated ==
    ASSUME queue \in Seq(Row),
           queue' = [k \in DOMAIN queue |-> queue'[k]],
           \A k \in DOMAIN queue : queue'[k] \in Row
    PROVE  queue' \in Seq(Row) /\ DOMAIN queue' = DOMAIN queue
<1>1. PICK n \in Nat : DOMAIN queue = 1..n
  OBVIOUS
<1>2. queue' \in [1..n -> Row]
  BY <1>1
<1> QED
  BY <1>1, <1>2

\* Registered survives a step that keeps the ledger growing, as long as the
\* handlers that have registered an Act keep their proposals.
LEMMA RegisteredKept ==
    ASSUME TypeInv, ledger' \in [Instances -> Seq(Act)], LedgerGrows,
           \A w \in Workers :
               pc'[w] \in Appended =>
                   \/ pc[w] \in Appended /\ proposal'[w] = proposal[w]
                   \/ Recorded(ledger', proposal'[w])
    PROVE  Registered'
<1> SUFFICES ASSUME NEW w \in Workers, pc'[w] \in Appended
             PROVE  Recorded(ledger', proposal'[w])
  BY DEF Registered
<1>1. CASE pc[w] \in Appended /\ proposal'[w] = proposal[w]
  <2>1. proposal[w].instance \in Instances
    BY <1>1, RuntimeAssumption
    DEF TypeInv, TypeOK, Appended, Registering, Proposal, Procs
  <2>2. Recorded(ledger, proposal[w]) /\ ledger \in [Instances -> Seq(Act)]
    BY <1>1 DEF TypeInv, TypeOK, Registered
  <2>3. Recorded(ledger', proposal[w])
    BY <2>1, <2>2, RecordedStays
  <2> QED
    BY <1>1, <2>3
<1> QED
  BY <1>1

\* The ledger untouched, only the pcs and proposals matter to TypeInv.
LEMMA LedgerUnchanged ==
    ASSUME TypeInv, UNCHANGED ledger
    PROVE  /\ ledger' \in [Instances -> Seq(Act)]
           /\ LedgerReplays'
           /\ LedgerGrows
  BY DEF TypeInv, TypeOK, LedgerReplays, LedgerGrows

\* One handler moves on, with new locals.
LEMMA LocalsStep ==
    ASSUME LocalsOK, NEW p \in Procs, NEW next \in WorkerPCs,
           NEW entry \in Proposal \cup {None}, NEW seen \in State,
           pc' = [pc EXCEPT ![p] = next],
           proposal' = [proposal EXCEPT ![p] = entry],
           view' = [view EXCEPT ![p] = seen],
           job' \in [Workers -> Nat],
           \A w \in Workers : w # p => job'[w] = job[w],
           p \in Workers /\ next # "idle" => job'[p] \in DOMAIN queue',
           p \in Callers => next \in CallerPCs,
           next \in Registering => entry \in Proposal,
           next \in WithAct => entry.act \in Act,
           DOMAIN queue \subseteq DOMAIN queue'
    PROVE  LocalsOK'
<1>1. /\ pc' \in [Procs -> WorkerPCs]
      /\ view' \in [Procs -> State]
      /\ proposal' \in [Procs -> Proposal \cup {None}]
  BY DEF LocalsOK
<1>2. \A c \in Callers : pc'[c] \in CallerPCs
  BY DEF LocalsOK, Procs
<1>3. \A w \in Workers : pc'[w] # "idle" => job'[w] \in DOMAIN queue'
  BY DEF LocalsOK, Procs
<1>4. \A q \in Procs : /\ pc'[q] \in Registering => proposal'[q] \in Proposal
                       /\ pc'[q] \in WithAct => proposal'[q].act \in Act
  BY DEF LocalsOK
<1> QED
  BY <1>1, <1>2, <1>3, <1>4 DEF LocalsOK

\* A step that leaves the ledger alone and registers nothing new.
Quiet ==
    /\ UNCHANGED ledger
    /\ \A w \in Workers :
           pc'[w] \in Appended =>
               pc[w] \in Appended /\ proposal'[w] = proposal[w]

LEMMA QuietStep ==
    ASSUME TypeInv, Quiet, LocalsOK',
           opened' \in SUBSET Instances,
           grant' \in [signed : BOOLEAN, void : BOOLEAN, resume : BOOLEAN],
           queue' \in Seq(Row)
    PROVE  TypeInv'
<1>1. Registered'
  BY LedgerUnchanged, RegisteredKept DEF Quiet
<1> QED
  BY <1>1, LedgerUnchanged DEF Quiet, TypeInv, TypeOK, LocalsOK

LEMMA EndsQuiet ==
    ASSUME LocalsOK, NEW p \in Procs, Ends(p), UNCHANGED ledger
    PROVE  Quiet
  BY DEF LocalsOK, Ends, Quiet, Appended, Procs

LEMMA GoesToQuiet ==
    ASSUME LocalsOK, NEW p \in Procs, NEW next, GoesTo(p, next),
           p \in Workers /\ next \in Appended => pc[p] \in Appended,
           UNCHANGED ledger
    PROVE  Quiet
  BY DEF LocalsOK, GoesTo, Quiet, Procs

LEMMA FailsQuiet ==
    ASSUME LocalsOK, NEW p \in Procs, Fails(p), UNCHANGED ledger
    PROVE  Quiet
<1>1. CASE p \in Workers
  BY <1>1, GoesToQuiet DEF Fails, Appended
<1>2. CASE p \notin Workers
  BY <1>2, EndsQuiet DEF Fails
<1> QED
  BY <1>1, <1>2

\* One row of the queue is rewritten.
LEMMA RowUpdated ==
    ASSUME queue \in Seq(Row), NEW k \in DOMAIN queue, NEW row \in Row,
           queue' = [queue EXCEPT ![k] = row]
    PROVE  queue' \in Seq(Row) /\ DOMAIN queue' = DOMAIN queue
  OBVIOUS

\* Requests.
LEMMA SubmitOpeningType ==
    ASSUME TypeInv, NEW c \in Callers, NEW i \in Instances,
           SubmitOpening(c, i)
    PROVE  TypeInv'
<1>1. /\ opened' \in SUBSET Instances
      /\ queue' \in Seq(Row)
      /\ grant' \in [signed : BOOLEAN, void : BOOLEAN, resume : BOOLEAN]
  BY DEF SubmitOpening, TypeInv, TypeOK
<1>2. c \in Procs /\ c \notin Workers
  BY RuntimeAssumption DEF Procs
<1>3. LocalsOK /\ view[c] \in State /\ view \in [Procs -> State]
  BY <1>2 DEF TypeInv, TypeOK, LocalsOK
<1>4. LocalsOK'
  <2>1. view' = [view EXCEPT ![c] = view[c]]
    BY <1>3 DEF SubmitOpening
  <2>2. [instance |-> i, act |-> NoAct] \in Proposal
    BY DEF Proposal
  <2>3. job' = job /\ job \in [Workers -> Nat] /\ queue' = queue
    BY DEF SubmitOpening, TypeInv, TypeOK
  <2>4. /\ "project" \in WorkerPCs /\ "project" \in CallerPCs
        /\ "project" \notin WithAct
    BY DEF WorkerPCs, CallerPCs, WithAct
  <2>5. /\ pc' = [pc EXCEPT ![c] = "project"]
        /\ proposal' = [proposal EXCEPT ![c] = [instance |-> i, act |-> NoAct]]
    BY DEF SubmitOpening
  <2>6. DOMAIN queue \subseteq DOMAIN queue'
    BY <2>3
  <2> QED
    BY <1>2, <1>3, <2>1, <2>2, <2>3, <2>4, <2>5, <2>6, LocalsStep
<1>5. Quiet
  BY <1>2 DEF SubmitOpening, TypeInv, TypeOK, Quiet
<1> QED
  BY <1>1, <1>4, <1>5, QuietStep

LEMMA SubmitDispatchType ==
    ASSUME TypeInv, NEW c \in Callers, NEW i \in Instances,
           NEW act \in RequestActs(i), SubmitDispatch(c, i, act)
    PROVE  TypeInv'
<1>1. /\ opened' \in SUBSET Instances
      /\ queue' \in Seq(Row)
      /\ grant' \in [signed : BOOLEAN, void : BOOLEAN, resume : BOOLEAN]
  BY DEF SubmitDispatch, TypeInv, TypeOK
<1>2. c \in Procs /\ c \notin Workers
  BY RuntimeAssumption DEF Procs
<1>3. LocalsOK /\ view[c] \in State /\ view \in [Procs -> State]
  BY <1>2 DEF TypeInv, TypeOK, LocalsOK
<1>4. LocalsOK'
  <2>1. view' = [view EXCEPT ![c] = view[c]]
    BY <1>3 DEF SubmitDispatch
  <2>2. act \in Act
    <3>1. Len(ledger[i]) \in Nat
      BY DEF TypeInv, TypeOK
    <3> QED
      BY <3>1, RuntimeAssumption DEF RequestActs, Act
  <2>3. [instance |-> i, act |-> act] \in Proposal
    BY <2>2 DEF Proposal
  <2>4. job' = job /\ job \in [Workers -> Nat] /\ queue' = queue
    BY DEF SubmitDispatch, TypeInv, TypeOK
  <2>5. "append" \in WorkerPCs /\ "append" \in CallerPCs
    BY DEF WorkerPCs, CallerPCs
  <2>6. /\ pc' = [pc EXCEPT ![c] = "append"]
        /\ proposal' = [proposal EXCEPT ![c] = [instance |-> i, act |-> act]]
    BY DEF SubmitDispatch
  <2>7. DOMAIN queue \subseteq DOMAIN queue'
    BY <2>4
  <2> QED
    BY <1>2, <1>3, <2>1, <2>2, <2>3, <2>4, <2>5, <2>6, <2>7, LocalsStep
<1>5. Quiet
  BY <1>2 DEF SubmitDispatch, TypeInv, TypeOK, Quiet
<1> QED
  BY <1>1, <1>4, <1>5, QuietStep

\* What every step of a handler starts from.
LEMMA Locals ==
    ASSUME TypeInv, NEW p \in Procs
    PROVE  /\ LocalsOK
           /\ pc[p] \in WorkerPCs
           /\ p \in Callers => pc[p] \in CallerPCs
           /\ p \in Workers => p \notin Callers
           /\ p \in Workers /\ pc[p] # "idle" => job[p] \in DOMAIN queue
           /\ pc[p] \in Registering =>
                  proposal[p] \in Proposal /\ proposal[p].instance \in Instances
           /\ pc[p] \in WithAct => proposal[p].act \in Act
<1>1. LocalsOK
  BY DEF TypeInv, TypeOK, LocalsOK
<1>2. p \in Workers => p \notin Callers
  BY RuntimeAssumption
<1>3. pc[p] \in Registering =>
          proposal[p] \in Proposal /\ proposal[p].instance \in Instances
  BY <1>1 DEF LocalsOK, Proposal
<1> QED
  BY <1>1, <1>2, <1>3 DEF LocalsOK

LEMMA Shared ==
    ASSUME TypeInv
    PROVE  /\ opened \in SUBSET Instances
           /\ ledger \in [Instances -> Seq(Act)]
           /\ grant \in [signed : BOOLEAN, void : BOOLEAN, resume : BOOLEAN]
           /\ queue \in Seq(Row)
           /\ LocalsOK
  BY TypeParts DEF TypeInv

\* Registering an Act.

\* A step that may insert p's Act, after which p is at a query where an
\* executor has registered it, or where it has not.
LEMMA InsertStep ==
    ASSUME TypeInv, NEW p \in Procs, pc[p] = "append",
           ledger' = Inserted(proposal[p].instance, proposal[p].act),
           UNCHANGED <<opened, grant, queue>>, LocalsOK',
           \A w \in Workers :
               w # p => pc'[w] = pc[w] /\ proposal'[w] = proposal[w],
           p \in Workers => proposal'[p] = proposal[p]
    PROVE  TypeInv'
<1>1. proposal[p] \in Proposal /\ proposal[p].instance \in Instances
      /\ proposal[p].act \in Act
  BY Locals DEF Registering, WithAct
<1>2. /\ ledger' \in [Instances -> Seq(Act)]
      /\ LedgerReplays'
      /\ LedgerGrows
      /\ Recorded(ledger', proposal[p])
  BY <1>1, Shared, InsertedType DEF TypeInv, Recorded
<1>3. Registered'
  BY <1>2, RegisteredKept
<1> QED
  BY <1>2, <1>3, Shared DEF TypeInv, TypeOK, LocalsOK

LEMMA AppendActType ==
    ASSUME TypeInv, NEW p \in Procs, AppendAct(p)
    PROVE  TypeInv'
<1>1. /\ pc[p] = "append" /\ GoesTo(p, "close")
      /\ ledger' = Inserted(proposal[p].instance, proposal[p].act)
      /\ UNCHANGED <<opened, grant, queue>>
  BY DEF AppendAct
<1>2. LocalsOK'
  BY <1>1, Locals, GoesToType
  DEF WorkerPCs, CallerPCs, Registering, WithAct
<1>3. \A w \in Workers : /\ w # p => pc'[w] = pc[w]
                        /\ proposal'[w] = proposal[w]
  BY <1>1, Shared DEF GoesTo, LocalsOK, Procs
<1> QED
  BY <1>1, <1>2, <1>3, InsertStep

LEMMA AppendRejectedType ==
    ASSUME TypeInv, NEW p \in Procs, AppendRejected(p)
    PROVE  TypeInv'
<1>1. /\ pc[p] = "append" /\ Fails(p)
      /\ UNCHANGED <<opened, ledger, grant, queue>>
  BY DEF AppendRejected
<1> QED
  BY <1>1, Shared, FailsType, FailsQuiet, QuietStep

LEMMA ClosePriorCustodyType ==
    ASSUME TypeInv, NEW p \in Procs, ClosePriorCustody(p)
    PROVE  TypeInv'
<1>1. pc[p] = "close" /\ GoesTo(p, "project")
      /\ UNCHANGED <<opened, ledger, grant>>
  BY DEF ClosePriorCustody
<1>2. queue' \in Seq(Row) /\ DOMAIN queue' = DOMAIN queue
  <2>1. queue' = [k \in DOMAIN queue |-> queue'[k]]
    BY DEF ClosePriorCustody
  <2>2. ASSUME NEW k \in DOMAIN queue PROVE queue'[k] \in Row
    <3>1. queue[k] \in Row
      BY Shared
    <3> QED
      BY <3>1 DEF ClosePriorCustody, Row
  <2> QED
    BY <2>1, <2>2, Shared, QueueUpdated
<1>3. LocalsOK'
  BY <1>1, <1>2, Locals, GoesToType
  DEF WorkerPCs, CallerPCs, Registering, WithAct
<1>4. Quiet
  BY <1>1, Locals, GoesToQuiet DEF Appended
<1> QED
  BY <1>1, <1>2, <1>3, <1>4, Shared, QuietStep

LEMMA ProjectHeadType ==
    ASSUME TypeInv, NEW p \in Procs, ProjectHead(p)
    PROVE  TypeInv'
<1> DEFINE head == processCurrentState(ledger[proposal[p].instance])
<1>1. /\ pc[p] = "project" /\ pc' = [pc EXCEPT ![p] = "enqueue"]
      /\ view' = [view EXCEPT ![p] = head]
      /\ UNCHANGED <<opened, ledger, grant, queue, job, proposal>>
  BY DEF ProjectHead
<1>2. proposal[p] \in Proposal /\ proposal[p].instance \in Instances
  BY <1>1, Locals DEF Registering
<1>3. head \in State
  BY <1>2, Shared, HeadType DEF TypeInv, LedgerReplays
<1>4. LocalsOK'
  <2>1. proposal' = [proposal EXCEPT ![p] = proposal[p]]
    BY <1>1, Shared DEF LocalsOK
  <2>2. /\ job' \in [Workers -> Nat]
        /\ \A w \in Workers : w # p => job'[w] = job[w]
        /\ p \in Workers => job'[p] \in DOMAIN queue'
        /\ DOMAIN queue \subseteq DOMAIN queue'
    BY <1>1, Shared, Locals DEF LocalsOK
  <2>3. /\ "enqueue" \in WorkerPCs /\ "enqueue" \in CallerPCs
        /\ "enqueue" \notin WithAct
    BY DEF WorkerPCs, CallerPCs, WithAct
  <2> HIDE DEF head
  <2> QED
    BY <1>1, <1>2, <1>3, <2>1, <2>2, <2>3, Shared, LocalsStep
<1>5. Quiet
  BY <1>1, Shared DEF Quiet, Appended, LocalsOK, Procs
<1> QED
  BY <1>1, <1>4, <1>5, Shared, QuietStep

LEMMA QueueCustodyType ==
    ASSUME TypeInv, NEW p \in Procs, QueueCustody(p)
    PROVE  TypeInv'
<1> DEFINE i == proposal[p].instance
<1>1. /\ pc[p] = "enqueue"
      /\ UNCHANGED <<opened, ledger, grant>>
  BY DEF QueueCustody
<1>2. proposal[p] \in Proposal /\ proposal[p].instance \in Instances
  BY <1>1, Locals DEF Registering
<1>3. queue' \in Seq(Row) /\ DOMAIN queue \subseteq DOMAIN queue'
  <2>1. CASE queue' = queue
    BY <2>1, Shared
  <2>2. CASE IsOpen(view[p]) /\ queue' = Append(queue, NewRow(i, view[p]))
    <3>1. view[p] \in State
      BY Shared DEF LocalsOK
    <3>2. NewRow(i, view[p]) \in Row
      BY <1>2, <2>2, <3>1 DEF NewRow, Row, IsOpen, State, NoResult
    <3> QED
      BY <2>2, <3>2, Shared
  <2> QED
    BY <2>1, <2>2 DEF QueueCustody
<1>4. CASE p \in Workers
  <2>1. GoesTo(p, "result")
    BY <1>4 DEF QueueCustody
  <2>2. LocalsOK'
    BY <1>1, <1>2, <1>3, <1>4, <2>1, Shared, Locals, GoesToType
    DEF WorkerPCs, WithAct
  <2>3. Quiet
    BY <1>1, <2>1, Shared, GoesToQuiet DEF Appended
  <2> QED
    BY <1>1, <1>3, <2>2, <2>3, Shared, QuietStep
<1>5. CASE p \notin Workers
  BY <1>1, <1>3, <1>5, Shared, EndsType, EndsQuiet, QuietStep DEF QueueCustody
<1> QED
  BY <1>4, <1>5

\* The executor.

LEMMA ClaimType ==
    ASSUME TypeInv, NEW w \in Workers, NEW k \in DOMAIN queue, Claim(w, k)
    PROVE  TypeInv'
<1>1. /\ pc' = [pc EXCEPT ![w] = "match"] /\ job' = [job EXCEPT ![w] = k]
      /\ UNCHANGED <<opened, ledger, grant, proposal, view>>
  BY DEF Claim
<1>2. queue' \in Seq(Row) /\ DOMAIN queue' = DOMAIN queue
  <2>1. queue[k] \in Row
    BY Shared
  <2>2. [queue[k] EXCEPT !.status = "claimed", !.claimed_by = w,
                         !.lease = TRUE, !.last_error = FALSE] \in Row
    BY <2>1 DEF Row
  <2>3. queue' = [queue EXCEPT ![k] =
            [queue[k] EXCEPT !.status = "claimed", !.claimed_by = w,
                             !.lease = TRUE, !.last_error = FALSE]]
    BY Shared DEF Claim
  <2> QED
    BY <2>2, <2>3, Shared, RowUpdated
<1>3. w \in Procs /\ w \notin Callers
  BY RuntimeAssumption DEF Procs
<1>4. LocalsOK'
  <2>1. /\ proposal' = [proposal EXCEPT ![w] = proposal[w]]
        /\ view' = [view EXCEPT ![w] = view[w]]
        /\ proposal[w] \in Proposal \cup {None} /\ view[w] \in State
    BY <1>1, <1>3, Shared DEF LocalsOK
  <2>2. /\ job' \in [Workers -> Nat]
        /\ \A v \in Workers : v # w => job'[v] = job[v]
        /\ job'[w] \in DOMAIN queue'
        /\ DOMAIN queue \subseteq DOMAIN queue'
    <3>1. k \in Nat /\ job \in [Workers -> Nat]
      BY Shared DEF LocalsOK
    <3> QED
      BY <1>1, <1>2, <3>1
  <2>3. /\ "match" \in WorkerPCs
        /\ "match" \notin Registering /\ "match" \notin WithAct
    BY DEF WorkerPCs, Registering, WithAct
  <2>4. pc' = [pc EXCEPT ![w] = "match"] /\ LocalsOK
    BY <1>1, Shared
  <2> QED
    BY <1>3, <2>1, <2>2, <2>3, <2>4, LocalsStep
<1>5. Quiet
  BY <1>1, Shared DEF Quiet, Appended, LocalsOK, Procs
<1> QED
  BY <1>1, <1>2, <1>4, <1>5, Shared, QuietStep

\* A worker past its claim goes on, its row untouched.
LEMMA WorkerGoesOn ==
    ASSUME TypeInv, NEW w \in Workers, NEW next \in WorkerPCs,
           pc[w] # "idle", GoesTo(w, next),
           next \in Registering => pc[w] \in Registering,
           next \in WithAct => pc[w] \in WithAct,
           next \in Appended => pc[w] \in Appended,
           UNCHANGED <<opened, ledger, grant, queue>>
    PROVE  TypeInv'
<1>1. w \in Procs /\ w \notin Callers
  BY RuntimeAssumption DEF Procs
<1>2. LocalsOK'
  BY <1>1, Locals, GoesToType
<1>3. Quiet
  BY <1>1, Shared, GoesToQuiet
<1> QED
  BY <1>2, <1>3, Shared, QuietStep

\* A handler gives up, or records its error, with the queue untouched.
LEMMA HandlerFails ==
    ASSUME TypeInv, NEW p \in Procs, pc[p] # "idle", Fails(p) \/ Ends(p),
           UNCHANGED <<opened, ledger, grant, queue>>
    PROVE  TypeInv'
<1>1. CASE Fails(p)
  BY <1>1, Shared, FailsType, FailsQuiet, QuietStep
<1>2. CASE Ends(p)
  BY <1>2, Shared, EndsType, EndsQuiet, QuietStep
<1> QED
  BY <1>1, <1>2

\* A worker rewrites the row it claimed and ends.
LEMMA WorkerCloses ==
    ASSUME TypeInv, NEW w \in Workers, pc[w] # "idle", NEW row \in Row,
           queue' = [queue EXCEPT ![job[w]] = row], Ends(w),
           UNCHANGED <<opened, ledger, grant>>
    PROVE  TypeInv'
<1>1. w \in Procs
  BY DEF Procs
<1>2. queue' \in Seq(Row) /\ DOMAIN queue' = DOMAIN queue
  BY <1>1, Locals, Shared, RowUpdated
<1> QED
  BY <1>1, <1>2, Shared, EndsType, EndsQuiet, QuietStep

\* The environment touches no handler.
LEMMA EnvironmentStep ==
    ASSUME TypeInv, UNCHANGED <<opened, ledger, pc, job, proposal, view>>,
           grant' \in [signed : BOOLEAN, void : BOOLEAN, resume : BOOLEAN],
           queue' \in Seq(Row), DOMAIN queue' = DOMAIN queue
    PROVE  TypeInv'
<1>1. LocalsOK'
  BY Shared DEF LocalsOK
<1>2. Quiet
  BY DEF Quiet
<1> QED
  BY <1>1, <1>2, Shared, QuietStep

LEMMA ReprojectType ==
    ASSUME TypeInv, NEW w \in Workers, Reproject(w)
    PROVE  TypeInv'
<1>1. PICK next \in {"run", "stale"} : GoesTo(w, next)
  BY DEF Reproject
<1>2. /\ next \in WorkerPCs
      /\ next \notin Registering /\ next \notin WithAct /\ next \notin Appended
  BY DEF WorkerPCs, Registering, WithAct, Appended
<1> QED
  BY <1>1, <1>2, WorkerGoesOn DEF Reproject

LEMMA CloseStaleClaimType ==
    ASSUME TypeInv, NEW w \in Workers, CloseStaleClaim(w)
    PROVE  TypeInv'
<1> DEFINE row == [queue[job[w]] EXCEPT !.status = "closed",
                      !.claimed_by = None, !.lease = FALSE, !.last_error = TRUE]
<1>1. pc[w] # "idle" /\ queue[job[w]] \in Row /\ job[w] \in DOMAIN queue
  BY Shared, Locals DEF CloseStaleClaim, Procs
<1>2. row \in Row
  BY <1>1 DEF Row
<1>3. queue' = [queue EXCEPT ![job[w]] = row]
  BY <1>1, Shared DEF CloseStaleClaim
<1> QED
  BY <1>1, <1>2, <1>3, WorkerCloses DEF CloseStaleClaim

LEMMA RunActivityType ==
    ASSUME TypeInv, NEW w \in Workers, NEW stamp \in Stamps,
           RunActivity(w, stamp)
    PROVE  TypeInv'
<1> DEFINE row == queue[job[w]]
           act == [parent |-> row.source, who |-> Responsible[row.node],
                   status |-> "ok", stamp |-> stamp, cites |-> FALSE]
           entry == [instance |-> row.instance, act |-> act]
<1>1. /\ pc[w] = "run" /\ pc' = [pc EXCEPT ![w] = "verify"]
      /\ proposal' = [proposal EXCEPT ![w] = entry]
      /\ UNCHANGED <<opened, ledger, grant, queue, job, view>>
  BY DEF RunActivity
<1>2. w \in Procs /\ w \notin Callers
  BY RuntimeAssumption DEF Procs
<1>3. row \in Row /\ job[w] \in DOMAIN queue
  BY <1>1, <1>2, Shared, Locals
<1>4. act \in Act
  BY <1>3, TypeAssumption DEF Row, Act, Statuses, Outcomes
<1>5. entry \in Proposal
  BY <1>3, <1>4 DEF Row, Proposal
<1>6. LocalsOK'
  <2>1. /\ view' = [view EXCEPT ![w] = view[w]] /\ view[w] \in State
        /\ job' \in [Workers -> Nat]
        /\ \A v \in Workers : v # w => job'[v] = job[v]
        /\ job'[w] \in DOMAIN queue'
        /\ DOMAIN queue \subseteq DOMAIN queue'
    BY <1>1, <1>2, <1>3, Shared DEF LocalsOK
  <2>2. "verify" \in WorkerPCs /\ entry.act \in Act
    BY <1>4 DEF WorkerPCs
  <2> HIDE DEF entry
  <2> QED
    BY <1>1, <1>2, <1>5, <2>1, <2>2, Shared, LocalsStep
<1>7. Quiet
  BY <1>1, Shared DEF Quiet, Appended, LocalsOK, Procs
<1> QED
  BY <1>1, <1>6, <1>7, Shared, QuietStep

LEMMA ActivityRefusedType ==
    ASSUME TypeInv, NEW w \in Workers, ActivityRefused(w)
    PROVE  TypeInv'
  BY HandlerFails DEF ActivityRefused, Procs

LEMMA VerifyProposalType ==
    ASSUME TypeInv, NEW w \in Workers, VerifyProposal(w)
    PROVE  TypeInv'
<1>1. /\ pc[w] = "verify" /\ (GoesTo(w, "append") \/ Fails(w))
      /\ UNCHANGED <<opened, ledger, grant, queue>>
  BY DEF VerifyProposal
<1>2. CASE GoesTo(w, "append")
  BY <1>1, <1>2, WorkerGoesOn DEF WorkerPCs, CallerPCs, Registering, WithAct, Appended
<1>3. CASE Fails(w)
  BY <1>1, <1>3, HandlerFails DEF Procs
<1> QED
  BY <1>1, <1>2, <1>3

LEMMA RecordExecutionResultType ==
    ASSUME TypeInv, NEW w \in Workers, RecordExecutionResult(w)
    PROVE  TypeInv'
<1> DEFINE receipt == ReceiptTuple(proposal[w].instance, proposal[w].act)
           row == [queue[job[w]] EXCEPT !.status = "closed",
                      !.claimed_by = None, !.lease = FALSE,
                      !.result = receipt, !.last_error = FALSE]
<1>1. pc[w] # "idle" /\ queue[job[w]] \in Row /\ job[w] \in DOMAIN queue
  BY Shared, Locals DEF RecordExecutionResult, Procs
<1>2. receipt \in Nat
  <2>1. proposal[w].instance \in Instances
    BY Locals DEF RecordExecutionResult, Registering, Procs
  <2>2. Duplicate(proposal[w].instance, proposal[w].act)
    BY DEF RecordExecutionResult, TypeInv, Registered, Recorded, Appended, Duplicate
  <2>3. receipt \in DOMAIN ledger[proposal[w].instance]
    BY <2>1, <2>2, Shared, ReceiptTupleType
  <2> QED
    BY <2>1, <2>3, Shared
<1>3. row \in Row
  BY <1>1, <1>2 DEF Row
<1>4. queue' = [queue EXCEPT ![job[w]] = row]
  BY <1>1, Shared DEF RecordExecutionResult
<1> QED
  BY <1>1, <1>3, <1>4, WorkerCloses DEF RecordExecutionResult

LEMMA RecordExecutionErrorType ==
    ASSUME TypeInv, NEW w \in Workers, RecordExecutionError(w)
    PROVE  TypeInv'
<1> DEFINE row == [queue[job[w]] EXCEPT !.last_error = TRUE]
<1>1. pc[w] # "idle" /\ queue[job[w]] \in Row /\ job[w] \in DOMAIN queue
  BY Shared, Locals DEF RecordExecutionError, Procs
<1>2. row \in Row
  BY <1>1 DEF Row
<1>3. queue' = [queue EXCEPT ![job[w]] = row]
  BY <1>1, Shared DEF RecordExecutionError
<1> QED
  BY <1>1, <1>2, <1>3, WorkerCloses DEF RecordExecutionError

\* The environment.

LEMMA EnvironmentType ==
    ASSUME TypeInv, Environment
    PROVE  TypeInv'
<1>1. ASSUME NEW k \in DOMAIN queue, LeaseExpires(k) PROVE TypeInv'
  <2>1. [queue[k] EXCEPT !.lease = FALSE] \in Row
    <3>1. queue[k] \in Row
      BY Shared
    <3> QED
      BY <3>1 DEF Row
  <2>2. queue' = [queue EXCEPT ![k] = [queue[k] EXCEPT !.lease = FALSE]]
    BY <1>1, Shared DEF LeaseExpires
  <2>3. queue' \in Seq(Row) /\ DOMAIN queue' = DOMAIN queue
    BY <2>1, <2>2, Shared, RowUpdated
  <2> QED
    BY <1>1, <2>3, Shared, EnvironmentStep DEF LeaseExpires
<1>2. CASE SignGrant \/ VoidGrant \/ LoseResume
  BY <1>2, Shared, EnvironmentStep DEF SignGrant, VoidGrant, LoseResume
<1>3. CASE ResumeGrantSources
  <2>1. queue' = [k \in DOMAIN queue |-> queue'[k]]
    BY <1>3 DEF ResumeGrantSources
  <2>2. ASSUME NEW k \in DOMAIN queue PROVE queue'[k] \in Row
    <3>1. queue[k] \in Row
      BY Shared
    <3> QED
      BY <1>3, <3>1 DEF ResumeGrantSources, Row
  <2>3. queue' \in Seq(Row) /\ DOMAIN queue' = DOMAIN queue
    BY <2>1, <2>2, Shared, QueueUpdated
  <2>4. grant' \in [signed : BOOLEAN, void : BOOLEAN, resume : BOOLEAN]
    BY <1>3, Shared DEF ResumeGrantSources
  <2> QED
    BY <1>3, <2>3, <2>4, EnvironmentStep DEF ResumeGrantSources
<1> QED
  BY <1>1, <1>2, <1>3 DEF Environment

\* Failures.

LEMMA FailType ==
    ASSUME TypeInv, NEW p \in Procs, Fail(p)
    PROVE  TypeInv'
<1>1. CASE Crash(p)
  BY <1>1, HandlerFails DEF Crash, BeforeAppend
<1>2. CASE QueryFails(p)
  <2>1. /\ pc[p] # "idle" /\ Fails(p) /\ UNCHANGED <<opened, grant, queue>>
    BY <1>2 DEF QueryFails
  <2>2. CASE UNCHANGED ledger
    BY <2>1, <2>2, HandlerFails
  <2>3. CASE ~UNCHANGED ledger
    <3>1. /\ pc[p] = "append"
          /\ ledger' = Inserted(proposal[p].instance, proposal[p].act)
      BY <1>2, <2>3 DEF QueryFails
    <3>2. LocalsOK'
      BY <2>1, Shared, FailsType
    <3>3. /\ \A w \in Workers :
                w # p => pc'[w] = pc[w] /\ proposal'[w] = proposal[w]
          /\ p \in Workers => proposal'[p] = proposal[p]
      BY <2>1, Shared DEF Fails, GoesTo, Ends, LocalsOK, Procs
    <3> QED
      BY <2>1, <3>1, <3>2, <3>3, InsertStep
  <2> QED
    BY <2>2, <2>3
<1>3. CASE RouteFails(p)
  <2>1. CASE p \in Workers
    <3>1. /\ "salvage" \in WorkerPCs /\ "salvage" \notin WithAct
          /\ pc[p] \in Registering /\ pc[p] \in Appended
      BY <1>3 DEF RouteFails, WorkerPCs, CallerPCs, Registering, WithAct, Appended
    <3>2. pc[p] # "idle" /\ GoesTo(p, "salvage")
      BY <1>3, <2>1 DEF RouteFails
    <3> QED
      BY <1>3, <2>1, <3>1, <3>2, WorkerGoesOn DEF RouteFails
  <2>2. CASE p \notin Workers
    BY <1>3, <2>2, HandlerFails DEF RouteFails
  <2> QED
    BY <2>1, <2>2
<1> QED
  BY <1>1, <1>2, <1>3 DEF Fail

LEMMA RecordFailsType ==
    ASSUME TypeInv, NEW w \in Workers, RecordFails(w)
    PROVE  TypeInv'
<1>1. /\ "error" \in WorkerPCs /\ "error" \notin Registering
      /\ "error" \notin WithAct /\ "error" \notin Appended
  BY DEF WorkerPCs, Registering, WithAct, Appended
<1> QED
  BY <1>1, WorkerGoesOn DEF RecordFails

------------------------------------------------------------------------------
LEMMA InitType ==
    ASSUME Init PROVE TypeInv
<1>1. opened \in SUBSET Instances /\ ledger \in [Instances -> Seq(Act)]
      /\ grant \in [signed : BOOLEAN, void : BOOLEAN, resume : BOOLEAN]
      /\ queue \in Seq(Row)
  BY DEF Init
<1>2. LocalsOK
  BY TypeAssumption
  DEF Init, LocalsOK, WorkerPCs, CallerPCs, NoView, NoJob, State, Targets,
      Registering, WithAct, Procs
<1>3. LedgerReplays
  BY ReplayableEmpty DEF Init, LedgerReplays
<1>4. Registered
  BY DEF Init, Registered, Appended, Procs
<1> QED
  BY <1>1, <1>2, <1>3, <1>4, TypeParts DEF TypeInv

LEMMA NextType ==
    ASSUME TypeInv, [Next]_vars
    PROVE  TypeInv'
<1>1. ASSUME NEW c \in Callers, Submit(c) PROVE TypeInv'
  BY <1>1, SubmitOpeningType, SubmitDispatchType DEF Submit
<1>2. ASSUME NEW p \in Procs, Register(p) PROVE TypeInv'
  BY <1>2, AppendActType, AppendRejectedType, ClosePriorCustodyType,
     ProjectHeadType, QueueCustodyType DEF Register
<1>3. ASSUME NEW p \in Procs, Fail(p) PROVE TypeInv'
  BY <1>3, FailType
<1>4. ASSUME NEW w \in Workers, Invoke(w) PROVE TypeInv'
  BY <1>4, ClaimType DEF Invoke
<1>5. ASSUME NEW w \in Workers, Work(w) PROVE TypeInv'
  BY <1>5, ReprojectType, CloseStaleClaimType, RunActivityType,
     ActivityRefusedType, VerifyProposalType, RecordExecutionResultType,
     RecordExecutionErrorType DEF Work
<1>6. ASSUME NEW w \in Workers, RecordFails(w) PROVE TypeInv'
  BY <1>6, RecordFailsType
<1>7. CASE Environment
  BY <1>7, EnvironmentType
<1>8. CASE UNCHANGED vars
  BY <1>8 DEF vars, TypeInv, TypeOK, LedgerReplays, Registered
<1> QED
  BY <1>1, <1>2, <1>3, <1>4, <1>5, <1>6, <1>7, <1>8 DEF Next

\* Type correctness, for any number of instances, requests and executors.
\* What an executor's result needs besides its type, that the Act it names is
\* in the ledger, comes with it.
THEOREM TypeCorrect == Spec => []TypeOK
<1>1. Init => TypeInv
  BY InitType
<1>2. TypeInv /\ [Next]_vars => TypeInv'
  BY NextType
<1>3. TypeInv => TypeOK
  BY DEF TypeInv
<1> QED
  BY <1>1, <1>2, <1>3, PTL DEF Spec

------------------------------------------------------------------------------
\* One chain of lawful moves.

\* What is left of verification by the time of the insert: the head may have
\* been answered since, the node behind the parent has not changed.
Admissible(history, act) ==
    /\ act.parent \in 0..Len(history)
    /\ IsOpen(Replay(history)[act.parent])
    /\ act.who = Responsible[Replay(history)[act.parent].node]
    /\ act.status \in Outcomes
    /\ Branch[Replay(history)[act.parent].node][act.status] # Missing

Pending ==
    \A p \in Procs :
        pc[p] = "append" =>
            Admissible(ledger[proposal[p].instance], proposal[p].act)

LedgerInv == SingleChain /\ LawfulHistory /\ Pending

LEMMA PermittedAdmissible ==
    ASSUME NEW history \in Seq(Act), NEW act \in Act,
           Replayable(history), Lawful(history), Permitted(history, act)
    PROVE  Admissible(history, act)
<1>1. Len(history) \in 0..Len(history)
  OBVIOUS
<1>2. Replay(history)[Len(history)].tuple = Len(history)
  BY <1>1, HeadIsLast
<1> QED
  BY <1>1, <1>2 DEF Permitted, processCurrentState, Admissible

LEMMA AdmissibleStays ==
    ASSUME NEW history \in Seq(Act), NEW act \in Act, NEW new \in Act,
           Replayable(history), Admissible(history, act)
    PROVE  Admissible(Append(history, new), act)
<1>1. Replay(Append(history, new))[act.parent] = Replay(history)[act.parent]
  BY ReplayAppend DEF Admissible, Replayable
<1>2. act.parent \in 0..Len(Append(history, new))
  BY DEF Admissible
<1> QED
  BY <1>1, <1>2 DEF Admissible

\* A handler reaches its insert only through verification of the ledger as it
\* is then, and stays there with the Act that was verified.
Verified(p) ==
    pc'[p] = "append" =>
        \/ pc[p] = "append" /\ proposal'[p] = proposal[p]
        \/ /\ UNCHANGED ledger
           /\ Permitted(ledger[proposal'[p].instance], proposal'[p].act)

\* The ledger grows by an Act no row conflicts with, one per step.
Inserts ==
    \/ UNCHANGED ledger
    \/ \E p \in Procs :
          LET i   == proposal[p].instance
              act == proposal[p].act
          IN  /\ pc[p] = "append"
              /\ ~Conflicts(i, act)
              /\ ledger' = [ledger EXCEPT ![i] = Append(@, act)]

LEMMA OthersVerified ==
    ASSUME TypeInv, NEW p \in Procs, NEW next,
           \/ Ends(p)
           \/ GoesTo(p, next) /\ (next = "append" => pc[p] = "append")
    PROVE  \A q \in Procs : Verified(q)
<1>1. LocalsOK
  BY Shared
<1> QED
  BY <1>1 DEF Ends, GoesTo, Verified, LocalsOK

LEMMA FailsVerified ==
    ASSUME TypeInv, NEW p \in Procs, Fails(p)
    PROVE  \A q \in Procs : Verified(q)
<1>1. CASE GoesTo(p, "error")
  BY <1>1, OthersVerified
<1>2. CASE Ends(p)
  BY <1>2, OthersVerified
<1> QED
  BY <1>1, <1>2 DEF Fails

LEMMA RegisterVerified ==
    ASSUME TypeInv, NEW p \in Procs, Register(p)
    PROVE  (\A q \in Procs : Verified(q)) /\ Inserts
<1>0. LocalsOK
  BY Shared
<1>1. CASE AppendAct(p)
  <2>1. GoesTo(p, "close")
    BY <1>1 DEF AppendAct
  <2>2. Inserts
    BY <1>1 DEF AppendAct, Inserted, Inserts
  <2> QED
    BY <2>1, <2>2, OthersVerified
<1>2. CASE AppendRejected(p)
  BY <1>2, FailsVerified DEF AppendRejected, Inserts
<1>3. CASE ClosePriorCustody(p)
  <2>1. GoesTo(p, "project") /\ UNCHANGED ledger
    BY <1>3 DEF ClosePriorCustody
  <2> QED
    BY <2>1, OthersVerified DEF Inserts
<1>4. CASE ProjectHead(p)
  BY <1>0, <1>4 DEF ProjectHead, Inserts, Verified, LocalsOK
<1>5. CASE QueueCustody(p)
  <2>1. Ends(p) \/ GoesTo(p, "result")
    BY <1>5 DEF QueueCustody
  <2> QED
    BY <1>5, <2>1, OthersVerified DEF QueueCustody, Inserts
<1> QED
  BY <1>1, <1>2, <1>3, <1>4, <1>5 DEF Register

LEMMA FailVerified ==
    ASSUME TypeInv, NEW p \in Procs, Fail(p)
    PROVE  (\A q \in Procs : Verified(q)) /\ Inserts
<1>1. CASE Crash(p)
  BY <1>1, OthersVerified DEF Crash, Inserts
<1>2. CASE QueryFails(p)
  <2>1. Fails(p)
    BY <1>2 DEF QueryFails
  <2>2. Inserts
    BY <1>2 DEF QueryFails, Inserted, Inserts
  <2> QED
    BY <2>1, <2>2, FailsVerified
<1>3. CASE RouteFails(p)
  <2>1. Ends(p) \/ GoesTo(p, "salvage")
    BY <1>3 DEF RouteFails
  <2> QED
    BY <1>3, <2>1, OthersVerified DEF RouteFails, Inserts
<1> QED
  BY <1>1, <1>2, <1>3 DEF Fail

LEMMA WorkVerified ==
    ASSUME TypeInv, NEW w \in Workers, Work(w) \/ RecordFails(w)
    PROVE  (\A q \in Procs : Verified(q)) /\ Inserts
<1>0. LocalsOK /\ w \in Procs
  BY Shared DEF Procs
<1>1. CASE Reproject(w)
  <2>1. PICK next \in {"run", "stale"} : GoesTo(w, next)
    BY <1>1 DEF Reproject
  <2> QED
    BY <1>0, <1>1, <2>1, OthersVerified DEF Reproject, Inserts
<1>2. CASE CloseStaleClaim(w) \/ RecordExecutionResult(w)
           \/ RecordExecutionError(w)
  BY <1>0, <1>2, OthersVerified
  DEF CloseStaleClaim, RecordExecutionResult, RecordExecutionError, Inserts
<1>3. ASSUME NEW stamp \in Stamps, RunActivity(w, stamp)
      PROVE  (\A q \in Procs : Verified(q)) /\ Inserts
  BY <1>0, <1>3 DEF RunActivity, Inserts, Verified, LocalsOK
<1>4. CASE ActivityRefused(w)
  BY <1>0, <1>4, FailsVerified DEF ActivityRefused, Inserts
<1>5. CASE VerifyProposal(w)
  <2>1. CASE Fails(w)
    BY <1>0, <1>5, <2>1, FailsVerified DEF VerifyProposal, Inserts
  <2>2. CASE ~Fails(w)
    <3>1. /\ GoesTo(w, "append") /\ UNCHANGED ledger
          /\ Permitted(ledger[proposal[w].instance], proposal[w].act)
      BY <1>5, <2>2 DEF VerifyProposal
    <3> QED
      BY <1>0, <3>1 DEF GoesTo, Inserts, Verified, LocalsOK
  <2> QED
    BY <2>1, <2>2
<1>6. CASE RecordFails(w)
  BY <1>0, <1>6, OthersVerified DEF RecordFails, Inserts
<1> QED
  BY <1>1, <1>2, <1>3, <1>4, <1>5, <1>6 DEF Work

LEMMA NextVerified ==
    ASSUME TypeInv, [Next]_vars
    PROVE  (\A q \in Procs : Verified(q)) /\ Inserts
<1>0. LocalsOK
  BY Shared
<1>1. ASSUME NEW c \in Callers, Submit(c)
      PROVE  (\A q \in Procs : Verified(q)) /\ Inserts
  <2>1. c \in Procs
    BY DEF Procs
  <2>2. ASSUME NEW i \in Instances, SubmitOpening(c, i)
        PROVE  (\A q \in Procs : Verified(q)) /\ Inserts
    BY <1>0, <2>1, <2>2 DEF SubmitOpening, Inserts, Verified, LocalsOK
  <2>3. ASSUME NEW i \in Instances, NEW act, SubmitDispatch(c, i, act)
        PROVE  (\A q \in Procs : Verified(q)) /\ Inserts
    BY <1>0, <2>1, <2>3 DEF SubmitDispatch, Inserts, Verified, LocalsOK
  <2> QED
    BY <1>1, <2>2, <2>3 DEF Submit
<1>2. ASSUME NEW w \in Workers, NEW k \in DOMAIN queue, Claim(w, k)
      PROVE  (\A q \in Procs : Verified(q)) /\ Inserts
  <2>1. w \in Procs
    BY DEF Procs
  <2>2. /\ pc' = [pc EXCEPT ![w] = "match"]
        /\ UNCHANGED <<ledger, proposal>>
    BY <1>2 DEF Claim
  <2> QED
    BY <1>0, <2>1, <2>2 DEF Inserts, Verified, LocalsOK
<1>3. CASE Environment \/ UNCHANGED vars
  BY <1>3 DEF Environment, LeaseExpires, SignGrant, VoidGrant,
              ResumeGrantSources, LoseResume, vars, Inserts, Verified
<1>4. ASSUME NEW w \in Workers, Invoke(w) \/ Work(w) \/ RecordFails(w)
      PROVE  (\A q \in Procs : Verified(q)) /\ Inserts
  BY <1>2, <1>4, WorkVerified DEF Invoke
<1>5. ASSUME NEW p \in Procs, Register(p) \/ Fail(p)
      PROVE  (\A q \in Procs : Verified(q)) /\ Inserts
  BY <1>5, RegisterVerified, FailVerified
<1> QED
  BY <1>1, <1>3, <1>4, <1>5 DEF Next

LEMMA InsertKeepsChain ==
    ASSUME TypeInv, LedgerInv, Inserts, ~UNCHANGED ledger
    PROVE  /\ SingleChain' /\ LawfulHistory'
           /\ \A i \in Instances :
                  \/ ledger'[i] = ledger[i]
                  \/ \E new \in Act : ledger'[i] = Append(ledger[i], new)
<1>1. PICK p \in Procs :
          /\ pc[p] = "append"
          /\ ~Conflicts(proposal[p].instance, proposal[p].act)
          /\ ledger' = [ledger EXCEPT ![proposal[p].instance] =
                           Append(@, proposal[p].act)]
  BY DEF Inserts
<1> DEFINE j == proposal[p].instance
           act == proposal[p].act
<1>2. j \in Instances /\ act \in Act
  BY <1>1, Locals DEF Registering, WithAct
<1>3. /\ ledger[j] \in Seq(Act) /\ Replayable(ledger[j])
      /\ Chained(ledger[j]) /\ Lawful(ledger[j])
      /\ Admissible(ledger[j], act)
      /\ Children(ledger[j], act.parent) = {}
  BY <1>1, <1>2, Shared
  DEF TypeInv, LedgerReplays, LedgerInv, SingleChain, LawfulHistory, Pending,
      Conflicts
<1> HIDE DEF j, act
<1>4. /\ Chained(Append(ledger[j], act))
      /\ Lawful(Append(ledger[j], act))
  BY <1>2, <1>3, AppendLawful DEF Admissible
<1>5. \A i \in Instances :
          ledger'[i] = IF i = j THEN Append(ledger[j], act) ELSE ledger[i]
  BY <1>1, <1>2, Shared DEF j, act
<1>6. ASSUME NEW i \in Instances
      PROVE  Chained(ledger'[i]) /\ Lawful(ledger'[i])
  BY <1>4, <1>5 DEF LedgerInv, SingleChain, LawfulHistory
<1> QED
  BY <1>2, <1>5, <1>6 DEF SingleChain, LawfulHistory

LEMMA NextLedgerInv ==
    ASSUME TypeInv, LedgerInv, [Next]_vars
    PROVE  LedgerInv'
<1>1. (\A q \in Procs : Verified(q)) /\ Inserts /\ TypeInv'
  BY NextVerified, NextType
<1>2. SingleChain' /\ LawfulHistory'
  <2>1. CASE UNCHANGED ledger
    BY <2>1 DEF LedgerInv, SingleChain, LawfulHistory
  <2>2. CASE ~UNCHANGED ledger
    BY <1>1, <2>2, InsertKeepsChain
  <2> QED
    BY <2>1, <2>2
<1>3. ASSUME NEW p \in Procs, pc'[p] = "append"
      PROVE  Admissible(ledger'[proposal'[p].instance], proposal'[p].act)
  <2>1. /\ proposal'[p].instance \in Instances
        /\ proposal'[p].act \in Act
    BY <1>1, <1>3 DEF TypeInv, TypeOK, Registering, WithAct, Proposal
  <2>2. ASSUME NEW i \in Instances, NEW act \in Act
        PROVE  /\ Permitted(ledger[i], act) => Admissible(ledger[i], act)
               /\ Admissible(ledger[i], act) => Admissible(ledger'[i], act)
    <3>1. /\ ledger[i] \in Seq(Act) /\ Replayable(ledger[i])
          /\ Lawful(ledger[i])
      BY Shared DEF TypeInv, LedgerReplays, LedgerInv, LawfulHistory
    <3>2. \/ ledger'[i] = ledger[i]
          \/ \E new \in Act : ledger'[i] = Append(ledger[i], new)
      BY <1>1, InsertKeepsChain
    <3> QED
      BY <3>1, <3>2, PermittedAdmissible, AdmissibleStays
  <2>3. CASE pc[p] = "append" /\ proposal'[p] = proposal[p]
    <3>1. Admissible(ledger[proposal'[p].instance], proposal'[p].act)
      BY <2>3 DEF LedgerInv, Pending
    <3> QED
      BY <2>1, <2>2, <3>1
  <2>4. CASE Permitted(ledger[proposal'[p].instance], proposal'[p].act)
    BY <2>1, <2>2, <2>4
  <2> QED
    BY <1>1, <1>3, <2>3, <2>4 DEF Verified
<1> QED
  BY <1>2, <1>3 DEF LedgerInv, Pending

\* An opening stays.
LEMMA OpenedGrows ==
    ASSUME [Next]_vars PROVE opened \subseteq opened'
<1>1. ASSUME NEW c \in Callers, Submit(c) PROVE opened \subseteq opened'
  BY <1>1 DEF Submit, SubmitOpening, SubmitDispatch
<1>2. ASSUME NEW p \in Procs, Register(p) \/ Fail(p)
      PROVE  opened \subseteq opened'
  BY <1>2 DEF Register, AppendAct, AppendRejected, ClosePriorCustody,
              ProjectHead, QueueCustody, Fail, Crash, QueryFails, RouteFails
<1>3. ASSUME NEW w \in Workers, Invoke(w) \/ Work(w) \/ RecordFails(w)
      PROVE  opened \subseteq opened'
  BY <1>3 DEF Invoke, Claim, Work, Reproject, CloseStaleClaim, RunActivity,
              ActivityRefused, VerifyProposal, RecordExecutionResult,
              RecordExecutionError, RecordFails
<1>4. CASE Environment \/ UNCHANGED vars
  BY <1>4 DEF Environment, LeaseExpires, SignGrant, VoidGrant,
              ResumeGrantSources, LoseResume, vars
<1> QED
  BY <1>1, <1>2, <1>3, <1>4 DEF Next

LEMMA InitLedgerInv ==
    ASSUME Init PROVE LedgerInv
<1>1. SingleChain /\ LawfulHistory
  BY DEF Init, SingleChain, LawfulHistory, Chained, Lawful
<1> QED
  BY <1>1 DEF LedgerInv, Pending, Init

\* The two parts of the ledger's law are inductive only together with what is
\* known of the Acts that are verified and not yet inserted.
THEOREM LedgerLaw == Spec => []LedgerInv
<1>1. Init => TypeInv /\ LedgerInv
  BY InitType, InitLedgerInv
<1>2. TypeInv /\ LedgerInv /\ [Next]_vars => TypeInv' /\ LedgerInv'
  BY NextType, NextLedgerInv
<1> QED
  BY <1>1, <1>2, PTL DEF Spec

\* No two Acts answer the same head, however many processes verify it at
\* once: verification and insert are apart, and the unique index decides.
THEOREM NoForks == Spec => []SingleChain
<1>1. LedgerInv => SingleChain
  BY DEF LedgerInv
<1> QED
  BY <1>1, LedgerLaw, PTL

\* Every Act in the ledger was a lawful move, and replay takes it.
THEOREM OnlyLawfulMoves == Spec => []LawfulHistory
<1>1. LedgerInv => LawfulHistory
  BY DEF LedgerInv
<1> QED
  BY <1>1, LedgerLaw, PTL
=============================================================================
