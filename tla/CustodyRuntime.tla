--------------------------- MODULE CustodyRuntime ---------------------------
(***************************************************************************)
(* Canonical custody of the Worker API: requests that append Acts to a     *)
(* process instance (registerFlow), the router that derives the custody    *)
(* row of the new head, and executor invocations that claim a row, act on  *)
(* it and append the result through the same membrane.                     *)
(*                                                                         *)
(* Nothing here runs in a database transaction: each client.query commits  *)
(* on its own, so one action is one query (or one run of queries between   *)
(* which nothing the others do is observed), and a handler can be          *)
(* overtaken, or die, between any two of them.                             *)
(***************************************************************************)
EXTENDS ProcessMachine

CONSTANTS
    Instances,      \* process instances (content hash of the opening)
    Callers,        \* concurrent POST /api/append requests
    CallerActors,   \* identities those requests author Acts as
    CallerCites,    \* whether a request's Act may carry the grant_id
    CitingOpenings, \* instances whose opening carries the grant_id
    Workers,        \* concurrent executor invocations: cron, /api/advance
    Executor,       \* the actor "runtime.executor"
    Executable,     \* nodes whose activity has a handler and evidence
    Dangerous,      \* nodes whose effective danger tier is L4 or L5
    Faults,         \* what may fail: handlers anywhere ("crash"), executor
                    \* invocations before their append ("executor"), the
                    \* request between signoff and resume, queries
    NoAct,          \* the Act of a proposal that is the opening itself
    None

Procs == Callers \cup Workers

ASSUME RuntimeAssumption ==
    /\ Callers \cap Workers = {}
    /\ CallerActors \subseteq Actors
    /\ CallerCites \subseteq BOOLEAN
    /\ CitingOpenings \subseteq Instances
    /\ Executable \subseteq Nodes
    /\ Dangerous \subseteq Nodes
    /\ Faults \subseteq {"crash", "executor", "resume", "query"}
    /\ None \notin Procs
    /\ NoAct \notin Act

VARIABLES
    opened,     \* instances whose opened_process row is in the ledger
    ledger,     \* per instance, its process-bound rows in ledger order
    grant,      \* the grant: signed off, revoked or expired, resume pending
    queue,      \* runtime_custody_queue, in created_at order
    pc,         \* per handler, the query it issues next
    job,        \* per worker, the queue row it claimed
    proposal,   \* per handler, the instance and Act it is registering
    view        \* per handler, the state its router projected

vars == <<opened, ledger, grant, queue, pc, job, proposal, view>>

------------------------------------------------------------------------------
\* Values.

NoView == [node |-> Stop, tuple |-> 0]
NoJob == 0
NoResult == 0

Row == [instance : Instances, node : Nodes, source : Nat,
        status : {"queued", "claimed", "closed"},
        claimed_by : Workers \cup {None},
        lease : BOOLEAN,            \* lease_until set and in the future
        last_error : BOOLEAN,       \* last_error is not null
        result : Nat]

Proposal == [instance : Instances, act : Act \cup {NoAct}]

CallerPCs == {"idle", "append", "close", "project", "enqueue"}
WorkerPCs == CallerPCs \cup {"match", "stale", "run", "verify", "error",
                             "result", "salvage"}
BeforeAppend == {"match", "stale", "run", "verify", "append", "error"}

Registering == {"verify", "append", "close", "project", "enqueue",
                "result", "salvage"}
WithAct == {"verify", "append", "close"}

\* A grant nothing cites is not part of the model.
GrantCited == TRUE \in CallerCites \/ CitingOpenings # {}

GrantStanding == grant.signed /\ ~grant.void

\* The exact source occurrence of a row carries the grant_id.
SourceCites(row) ==
    IF row.source = 0
    THEN row.instance \in CitingOpenings
    ELSE /\ row.source \in DOMAIN ledger[row.instance]
         /\ ledger[row.instance][row.source].cites

\* currentMatches: the row is the custody of the projected head.
CurrentMatches(row) ==
    LET state == processCurrentState(ledger[row.instance]) IN
    /\ IsOpen(state)
    /\ state.node = row.node
    /\ state.tuple = row.source

\* The row of the custody at tuple t of instance i, if there is one.
CustodyOf(i, t) ==
    {k \in DOMAIN queue : queue[k].instance = i /\ queue[k].source = t}

\* The tuple hash of a receipt that is in the ledger.
ReceiptTuple(i, act) ==
    CHOOSE k \in DOMAIN ledger[i] : ledger[i][k] = act

------------------------------------------------------------------------------
Init ==
    /\ opened = {}
    /\ ledger = [i \in Instances |-> <<>>]
    /\ grant = [signed |-> FALSE, void |-> FALSE, resume |-> FALSE]
    /\ queue = <<>>
    /\ pc = [p \in Procs |-> "idle"]
    /\ job = [w \in Workers |-> NoJob]
    /\ proposal = [p \in Procs |-> None]
    /\ view = [p \in Procs |-> NoView]

\* Handler p ends, whatever the reason; its locals are gone.
Ends(p) ==
    /\ pc' = [pc EXCEPT ![p] = "idle"]
    /\ proposal' = [proposal EXCEPT ![p] = None]
    /\ view' = [view EXCEPT ![p] = NoView]
    /\ job' = [w \in Workers |-> IF w = p THEN NoJob ELSE job[w]]

\* Handler p goes on to its query `next` with its locals unchanged.
GoesTo(p, next) ==
    /\ pc' = [pc EXCEPT ![p] = next]
    /\ UNCHANGED <<job, proposal, view>>

\* An error before the append: the caller gets it, a worker records it.
Fails(p) == IF p \in Workers THEN GoesTo(p, "error") ELSE Ends(p)

------------------------------------------------------------------------------
\* registerFlow.

\* An opening passes verification whenever the type exists; posting it again
\* is the same tuple, and re-routes.
SubmitOpening(c, i) ==
    /\ pc[c] = "idle"
    /\ opened' = opened \cup {i}
    /\ pc' = [pc EXCEPT ![c] = "project"]
    /\ proposal' = [proposal EXCEPT ![c] = [instance |-> i, act |-> NoAct]]
    /\ UNCHANGED <<ledger, grant, queue, job, view>>

\* The proposals of requests: any tuple of the instance as the parent.
RequestActs(i) ==
    [parent : 0..Len(ledger[i]), who : CallerActors, status : Statuses,
     stamp : Stamps, cites : CallerCites]

\* A request authors a complete proposal and passes verifyProposal; one that
\* does not pass leaves no trace.
SubmitDispatch(c, i, act) ==
    /\ pc[c] = "idle"
    /\ i \in opened
    /\ Len(ledger[i]) < MaxActs
    /\ Permitted(ledger[i], act)
    /\ pc' = [pc EXCEPT ![c] = "append"]
    /\ proposal' = [proposal EXCEPT ![c] = [instance |-> i, act |-> act]]
    /\ UNCHANGED <<opened, ledger, grant, queue, job, view>>

\* The insert: a tuple already there is not inserted again and counts as
\* done; any other row with the same process and parent breaks the unique
\* index logline_acts_process_parent_unique.
Duplicate(i, act) == \E k \in DOMAIN ledger[i] : ledger[i][k] = act

\* Without the index of migrations/0008.
NeverConflicts(i, act) == FALSE

Conflicts(i, act) == Children(ledger[i], act.parent) # {}

Inserted(i, act) ==
    IF Duplicate(i, act) THEN ledger
    ELSE [ledger EXCEPT ![i] = Append(@, act)]

AppendAct(p) ==
    LET i   == proposal[p].instance
        act == proposal[p].act
    IN  /\ pc[p] = "append"
        /\ Duplicate(i, act) \/ ~Conflicts(i, act)
        /\ ledger' = Inserted(i, act)
        /\ GoesTo(p, "close")
        /\ UNCHANGED <<opened, grant, queue>>

AppendRejected(p) ==
    LET i   == proposal[p].instance
        act == proposal[p].act
    IN  /\ pc[p] = "append"
        /\ ~Duplicate(i, act) /\ Conflicts(i, act)
        /\ Fails(p)
        /\ UNCHANGED <<opened, ledger, grant, queue>>

\* An UPDATE by instance alone.
CloseAllCustody(p) ==
    /\ pc[p] = "close"
    /\ queue' = [k \in DOMAIN queue |->
                    IF /\ queue[k].instance = proposal[p].instance
                       /\ queue[k].status # "closed"
                    THEN [queue[k] EXCEPT !.status = "closed",
                                          !.claimed_by = None,
                                          !.lease = FALSE]
                    ELSE queue[k]]
    /\ GoesTo(p, "project")
    /\ UNCHANGED <<opened, ledger, grant>>

\* routeProcessReceipt: close the custody of the parent ...
ClosePriorCustody(p) ==
    /\ pc[p] = "close"
    /\ queue' = [k \in DOMAIN queue |->
                    IF /\ queue[k].instance = proposal[p].instance
                       /\ queue[k].source = proposal[p].act.parent
                       /\ queue[k].status # "closed"
                    THEN [queue[k] EXCEPT !.status = "closed",
                                          !.claimed_by = None,
                                          !.lease = FALSE]
                    ELSE queue[k]]
    /\ GoesTo(p, "project")
    /\ UNCHANGED <<opened, ledger, grant>>

\* ... project the instance ...
ProjectHead(p) ==
    /\ pc[p] = "project"
    /\ view' = [view EXCEPT ![p] =
                    processCurrentState(ledger[proposal[p].instance])]
    /\ pc' = [pc EXCEPT ![p] = "enqueue"]
    /\ UNCHANGED <<opened, ledger, grant, queue, job, proposal>>

\* ... and queue the custody of the projected head unless it has a row.
NewRow(i, state) ==
    [instance |-> i, node |-> state.node, source |-> state.tuple,
     status |-> "queued", claimed_by |-> None, lease |-> FALSE,
     last_error |-> FALSE, result |-> NoResult]

\* Uniqueness over rows still queued instead of over all rows.
QueuedRowsOf(i, state) ==
    {k \in DOMAIN queue : /\ queue[k].instance = i
                          /\ queue[k].node = state.node
                          /\ queue[k].source = state.tuple
                          /\ queue[k].status = "queued"}

RowsOf(i, state) ==
    {k \in DOMAIN queue : /\ queue[k].instance = i
                          /\ queue[k].node = state.node
                          /\ queue[k].source = state.tuple}

\* Custody for a closed state too.
QueueAnyCustody(p) ==
    LET i == proposal[p].instance IN
    /\ pc[p] = "enqueue"
    /\ queue' = IF RowsOf(i, view[p]) = {}
                THEN Append(queue, NewRow(i, view[p]))
                ELSE queue
    /\ IF p \in Workers THEN GoesTo(p, "result") ELSE Ends(p)
    /\ UNCHANGED <<opened, ledger, grant>>

QueueCustody(p) ==
    LET i == proposal[p].instance IN
    /\ pc[p] = "enqueue"
    /\ queue' = IF IsOpen(view[p]) /\ RowsOf(i, view[p]) = {}
                THEN Append(queue, NewRow(i, view[p]))
                ELSE queue
    /\ IF p \in Workers THEN GoesTo(p, "result") ELSE Ends(p)
    /\ UNCHANGED <<opened, ledger, grant>>

------------------------------------------------------------------------------
\* custodyExecutorRunOnce.

\* A claim that ignores the lease, and one that never takes over a claim.
ClaimableAtAnyTime(k) ==
    /\ Responsible[queue[k].node] = Executor
    /\ queue[k].status # "closed"

ClaimableOnce(k) ==
    /\ Responsible[queue[k].node] = Executor
    /\ queue[k].status = "queued"

Claimable(k) ==
    /\ Responsible[queue[k].node] = Executor
    /\ \/ queue[k].status = "queued"
       \/ queue[k].status = "claimed" /\ ~queue[k].lease

\* claimCustody: the oldest queued or lease-expired row.
Claim(w, k) ==
    /\ pc[w] = "idle"
    /\ k \in DOMAIN queue
    /\ Claimable(k)
    /\ \A older \in DOMAIN queue : older < k => ~Claimable(older)
    /\ queue' = [queue EXCEPT ![k].status = "claimed",
                              ![k].claimed_by = w,
                              ![k].lease = TRUE,
                              ![k].last_error = FALSE]
    /\ job' = [job EXCEPT ![w] = k]
    /\ pc' = [pc EXCEPT ![w] = "match"]
    /\ UNCHANGED <<opened, ledger, grant, proposal, view>>

\* claimCurrentCustody re-projects before anything else.
Reproject(w) ==
    /\ pc[w] = "match"
    /\ GoesTo(w, IF CurrentMatches(queue[job[w]]) THEN "run" ELSE "stale")
    /\ UNCHANGED <<opened, ledger, grant, queue>>

\* A stale claim that is only marked.
MarkStaleClaim(w) ==
    /\ pc[w] = "stale"
    /\ queue' = [queue EXCEPT ![job[w]].last_error = TRUE]
    /\ Ends(w)
    /\ UNCHANGED <<opened, ledger, grant>>

CloseStaleClaim(w) ==
    /\ pc[w] = "stale"
    /\ queue' = [queue EXCEPT ![job[w]].status = "closed",
                              ![job[w]].claimed_by = None,
                              ![job[w]].lease = FALSE,
                              ![job[w]].last_error = TRUE]
    /\ Ends(w)
    /\ UNCHANGED <<opened, ledger, grant>>

\* A grant that is cited is taken as signed.
SafeIfCited(row) == row.node \in Dangerous => SourceCites(row)

\* enforceSafety.
Safe(row) == row.node \in Dangerous => SourceCites(row) /\ GrantStanding

\* Source, type, node, handler and safety are looked at, and the one
\* registered handler, receiptActivity, authors its Act: always "ok", and
\* without a grant_id of its own.
RunActivity(w, stamp) ==
    LET row == queue[job[w]]
        act == [parent |-> row.source, who |-> Responsible[row.node],
                status |-> "ok", stamp |-> stamp, cites |-> FALSE]
    IN  /\ pc[w] = "run"
        /\ row.node \in Executable
        /\ Safe(row)
        /\ proposal' = [proposal EXCEPT ![w] =
                            [instance |-> row.instance, act |-> act]]
        /\ pc' = [pc EXCEPT ![w] = "verify"]
        /\ UNCHANGED <<opened, ledger, grant, queue, job, view>>

ActivityRefused(w) ==
    LET row == queue[job[w]] IN
    /\ pc[w] = "run"
    /\ ~(row.node \in Executable /\ Safe(row))
    /\ Fails(w)
    /\ UNCHANGED <<opened, ledger, grant, queue>>

\* verifyProposal inside the worker's registerFlow.
VerifyProposal(w) ==
    LET i == proposal[w].instance IN
    /\ pc[w] = "verify"
    /\ IF Permitted(ledger[i], proposal[w].act)
       THEN Len(ledger[i]) < MaxActs /\ GoesTo(w, "append")
       ELSE Fails(w)
    /\ UNCHANGED <<opened, ledger, grant, queue>>

\* A result that leaves closing the row to the router.
RecordResultOnly(w) ==
    /\ pc[w] \in {"result", "salvage"}
    /\ queue' = [queue EXCEPT ![job[w]].result =
                                  ReceiptTuple(proposal[w].instance,
                                               proposal[w].act),
                              ![job[w]].last_error = FALSE]
    /\ Ends(w)
    /\ UNCHANGED <<opened, ledger, grant>>

\* recordExecutionResult, after the route or after a failed route
\* (RegisterActivationError); guarded by queue_id alone.
RecordExecutionResult(w) ==
    /\ pc[w] \in {"result", "salvage"}
    /\ queue' = [queue EXCEPT ![job[w]].status = "closed",
                              ![job[w]].claimed_by = None,
                              ![job[w]].lease = FALSE,
                              ![job[w]].result =
                                  ReceiptTuple(proposal[w].instance,
                                               proposal[w].act),
                              ![job[w]].last_error = FALSE]
    /\ Ends(w)
    /\ UNCHANGED <<opened, ledger, grant>>

\* recordExecutionError; guarded by queue_id alone.
RecordExecutionError(w) ==
    /\ pc[w] = "error"
    /\ queue' = [queue EXCEPT ![job[w]].last_error = TRUE]
    /\ Ends(w)
    /\ UNCHANGED <<opened, ledger, grant>>

------------------------------------------------------------------------------
\* The environment: time, the grant's life, and failures.

LeaseExpires(k) ==
    /\ k \in DOMAIN queue
    /\ queue[k].status = "claimed" /\ queue[k].lease
    /\ queue' = [queue EXCEPT ![k].lease = FALSE]
    /\ UNCHANGED <<opened, ledger, grant, pc, job, proposal, view>>

\* A verified passkey signoff is appended; the same request then resumes.
SignGrant ==
    /\ GrantCited
    /\ ~grant.signed
    /\ grant' = [grant EXCEPT !.signed = TRUE, !.resume = TRUE]
    /\ UNCHANGED <<opened, ledger, queue, pc, job, proposal, view>>

\* grant-revoke, revocation of the granting authority, or valid_until.
VoidGrant ==
    /\ GrantCited
    /\ ~grant.void
    /\ grant' = [grant EXCEPT !.void = TRUE]
    /\ UNCHANGED <<opened, ledger, queue, pc, job, proposal, view>>

\* resumeGrantSources: one UPDATE over every failed claim of the grant.
ResumeGrantSources ==
    /\ grant.resume
    /\ grant' = [grant EXCEPT !.resume = FALSE]
    /\ queue' = [k \in DOMAIN queue |->
                    IF /\ queue[k].status = "claimed"
                       /\ queue[k].last_error
                       /\ SourceCites(queue[k])
                    THEN [queue[k] EXCEPT !.status = "queued",
                                          !.claimed_by = None,
                                          !.lease = FALSE,
                                          !.last_error = FALSE]
                    ELSE queue[k]]
    /\ UNCHANGED <<opened, ledger, pc, job, proposal, view>>

\* The isolate is gone before the handler's next query.
Crash(p) ==
    /\ \/ "crash" \in Faults /\ pc[p] # "idle"
       \/ "executor" \in Faults /\ p \in Workers /\ pc[p] \in BeforeAppend
    /\ Ends(p)
    /\ UNCHANGED <<opened, ledger, grant, queue>>

\* A query before the append fails, or the connection is lost before its
\* answer: the insert may or may not have happened.
QueryFails(p) ==
    /\ "query" \in Faults
    /\ pc[p] \in {"run", "verify", "append"}
    /\ \/ UNCHANGED ledger
       \/ LET i   == proposal[p].instance
              act == proposal[p].act
          IN  /\ pc[p] = "append"
              /\ Duplicate(i, act) \/ ~Conflicts(i, act)
              /\ ledger' = Inserted(i, act)
    /\ Fails(p)
    /\ UNCHANGED <<opened, grant, queue>>

\* A query of the route fails: RegisterActivationError carries the receipt.
RouteFails(p) ==
    /\ "query" \in Faults
    /\ pc[p] \in {"close", "project", "enqueue"}
    /\ IF p \in Workers THEN GoesTo(p, "salvage") ELSE Ends(p)
    /\ UNCHANGED <<opened, ledger, grant, queue>>

\* recordExecutionResult fails inside the try: the error is recorded instead.
RecordFails(w) ==
    /\ "query" \in Faults
    /\ pc[w] = "result"
    /\ GoesTo(w, "error")
    /\ UNCHANGED <<opened, ledger, grant, queue>>

\* The request that signed the grant dies before it resumes the sources.
LoseResume ==
    /\ "resume" \in Faults
    /\ grant.resume
    /\ grant' = [grant EXCEPT !.resume = FALSE]
    /\ UNCHANGED <<opened, ledger, queue, pc, job, proposal, view>>

------------------------------------------------------------------------------
Register(p) ==
    \/ AppendAct(p)
    \/ AppendRejected(p)
    \/ ClosePriorCustody(p)
    \/ ProjectHead(p)
    \/ QueueCustody(p)

Submit(c) ==
    \/ \E i \in Instances : SubmitOpening(c, i)
    \/ \E i \in Instances : \E act \in RequestActs(i) : SubmitDispatch(c, i, act)

\* What an invocation does once it has claimed a row.
Work(w) ==
    \/ Reproject(w)
    \/ CloseStaleClaim(w)
    \/ \E stamp \in Stamps : RunActivity(w, stamp)
    \/ ActivityRefused(w)
    \/ VerifyProposal(w)
    \/ RecordExecutionResult(w)
    \/ RecordExecutionError(w)

Invoke(w) == \E k \in DOMAIN queue : Claim(w, k)

Fail(p) ==
    \/ Crash(p)
    \/ QueryFails(p)
    \/ RouteFails(p)

Environment ==
    \/ \E k \in DOMAIN queue : LeaseExpires(k)
    \/ SignGrant
    \/ VoidGrant
    \/ ResumeGrantSources
    \/ LoseResume

Next ==
    \/ \E c \in Callers : Submit(c)
    \/ \E p \in Procs : Register(p) \/ Fail(p)
    \/ \E w \in Workers : Invoke(w) \/ Work(w) \/ RecordFails(w)
    \/ Environment

Spec == Init /\ [][Next]_vars

\* A request or invocation in progress runs on, cron keeps invoking, the lease
\* of every row ends, and a request that signed a grant goes on to resume.
Fairness ==
    /\ \A p \in Procs : WF_vars(Register(p))
    /\ \A w \in Workers : WF_vars(Invoke(w)) /\ WF_vars(Work(w))
    /\ \A i \in Instances : \A t \in 0..MaxActs :
           WF_vars(\E k \in CustodyOf(i, t) : LeaseExpires(k))
    /\ WF_vars(ResumeGrantSources)

FairSpec == Spec /\ Fairness

\* Failures are not endless: from some point on no handler dies.
CrashesEnd == <>[][~\E p \in Procs : Crash(p)]_vars

LiveSpec == FairSpec /\ CrashesEnd
------------------------------------------------------------------------------
\* Properties.

\* Type invariant.
TypeOK ==
    /\ opened \in SUBSET Instances
    /\ ledger \in [Instances -> Seq(Act)]
    /\ grant \in [signed : BOOLEAN, void : BOOLEAN, resume : BOOLEAN]
    /\ queue \in Seq(Row)
    /\ pc \in [Procs -> WorkerPCs]
    /\ job \in [Workers -> Nat]
    /\ proposal \in [Procs -> Proposal \cup {None}]
    /\ view \in [Procs -> State]
    /\ \A c \in Callers : pc[c] \in CallerPCs
    /\ \A w \in Workers : pc[w] # "idle" => job[w] \in DOMAIN queue
    /\ \A p \in Procs : pc[p] \in Registering => proposal[p] \in Proposal
    /\ \A p \in Procs : pc[p] \in WithAct => proposal[p].act \in Act

\* However many requests and executors verify the same head at once, an
\* instance's Acts form one chain: row k names row k - 1 (or the opening) as
\* its parent, so no head is ever answered twice (db.ts appendAct over the
\* unique index of migrations/0008).
SingleChain ==
    \A i \in Instances : Chained(ledger[i])

\* Every recorded Act was the lawful move when it was recorded: replay takes
\* it, the node it leaves was open and answered by its responsible, and the
\* branch it takes is defined.  Nothing lies in the ledger that
\* processCurrentState skips, although verification and insert are apart.
LawfulHistory == \A i \in Instances : Lawful(ledger[i])

\* A custody row is closed only once its source has been answered.  None of
\* the three ways to close a row (the router, a stale claim, a recorded
\* result), each a blind UPDATE by source or by queue_id, ever takes the
\* current head's custody away.
ClosedIsSpent ==
    \A k \in DOMAIN queue :
        queue[k].status = "closed" =>
            Children(ledger[queue[k].instance], queue[k].source) # {}

\* A row says who has the work at its source, and says it once: its node is
\* the one replay reaches there, however late the router that inserted it
\* was, and no head is handed out under two rows (queueCustody).
CustodyIsTheHeads ==
    \A k \in DOMAIN queue :
        LET row == queue[k] IN
        /\ row.instance \in opened
        /\ row.source \in 0..Len(ledger[row.instance])
        /\ row.node = Replay(ledger[row.instance])[row.source].node
        /\ \A other \in DOMAIN queue :
               (/\ queue[other].instance = row.instance
                /\ queue[other].source = row.source) => other = k

\* result_tuple names the Act that answers the row's own source, written by
\* the executor, on a closed row, whichever of several workers holding the
\* row recorded it (recordExecutionResult).
ResultAnswersSource ==
    \A k \in DOMAIN queue :
        LET row == queue[k] IN
        row.result # NoResult =>
            /\ row.status = "closed"
            /\ row.result \in DOMAIN ledger[row.instance]
            /\ ledger[row.instance][row.result].parent = row.source
            /\ ledger[row.instance][row.result].who = Executor

\* An open head of instance i has a custody row that is not closed, or a router
\* that has yet to insert it is on its way.
HasCustody(i) ==
    \A head \in {processCurrentState(ledger[i])} :
        (i \in opened /\ IsOpen(head)) =>
            \/ \E k \in RowsOf(i, head) : queue[k].status # "closed"
            \/ \E p \in Procs :
                   /\ \/ pc[p] \in {"close", "project"}
                      \/ pc[p] = "enqueue" /\ view[p] = head
                   /\ proposal[p].instance = i

\* Only a failure loses the current work: no order in which the routers of
\* successive Acts close, project and queue, and no executor that closes a row
\* it found stale or has answered, leaves an open head without custody
\* (routeProcessReceipt, closeStaleClaim, recordExecutionResult).
HeadKeepsCustody ==
    [][\A i \in Instances :
          (~HasCustody(i)' /\ HasCustody(i)) => \E p \in Procs : Fail(p)]_vars

\* "Human/team custody remains visible work": whenever nobody is at work,
\* a person whose turn it is in an open instance has a custody row.
HumanWorkVisible ==
    \A i \in opened :
        LET head == processCurrentState(ledger[i]) IN
        (/\ \A p \in Procs : pc[p] = "idle"
         /\ IsOpen(head)
         /\ Responsible[head.node] # Executor)
        => \E k \in RowsOf(i, head) : queue[k].status # "closed"

\* The Act at the head of instance i is dangerous executor custody whose source
\* cites the grant, which has been signed off.
HeadIsCleared(i) ==
    /\ grant.signed
    /\ IF ledger[i] = <<>> THEN i \in CitingOpenings
       ELSE ledger[i][Len(ledger[i])].cites

\* Worker w's append puts an Act into the ledger of instance i, whether w gets
\* the answer or not.
WorkerInserts(w, i) ==
    /\ pc[w] = "append"
    /\ pc'[w] # "append"
    /\ ledger'[i] # ledger[i]

\* What an executor invocation appends as the answer to dangerous custody rests
\* on a source that cites the grant and on its signoff, although the row was
\* claimed, the grant looked at and the Act inserted in different queries,
\* between which the lease may end, other workers take the row over, and
\* requests append Acts of their own (enforceSafety).
ExecutorActsSigned ==
    [][\A w \in Workers : \A i \in Instances :
          (/\ WorkerInserts(w, i)
           /\ processCurrentState(ledger[i]).node \in Dangerous)
          => HeadIsCleared(i)]_vars

\* "L4/L5 effects require the applicable grant/signoff" (SECURITY.md): an Act
\* that answers dangerous executor custody, whoever has appended it, has a
\* source that cites the grant, and the grant was signed off.
DangerousActsSigned ==
    \A i \in Instances : \A k \in DOMAIN ledger[i] :
        LET node == Replay(ledger[i])[k - 1].node IN
        (node \in Dangerous /\ Responsible[node] = Executor) =>
            /\ grant.signed
            /\ IF k = 1 THEN i \in CitingOpenings ELSE ledger[i][k - 1].cites

\* "expired leases [...] must not be converted into successful execution"
\* (SECURITY.md): a worker appends the result of dangerous custody only while
\* the row is its own under a live lease.
ExpiredLeaseNeverActs ==
    [][\A w \in Workers : \A i \in Instances :
          (/\ WorkerInserts(w, i)
           /\ queue[job[w]].node \in Dangerous)
          => queue[job[w]].claimed_by = w /\ queue[job[w]].lease]_vars

\* "live claims are never stolen": while a worker is at work on a row under
\* a live lease, the row stays its own until it is closed (claimCustody).
LiveClaimKept ==
    [][\A w \in Workers : \A k \in DOMAIN queue :
          (/\ job[w] = k
           /\ queue[k].claimed_by = w
           /\ queue[k].lease)
          => queue'[k].claimed_by = w \/ queue'[k].status = "closed"]_vars

\* A worker records that a row failed which the claim prefers to the custody at
\* tuple t of instance i, being older.
OlderWorkFails(i, t) ==
    \E w \in Workers :
        /\ \E k \in CustodyOf(i, t) : job[w] < k
        /\ RecordExecutionError(w)

\* Queued work of the executor that it is able to run and that needs no grant
\* is answered in the end: neither dead invocations, nor expired leases, nor
\* several workers on one row, nor stale rows in front of it keep the process
\* where it is; only an older row that fails for ever does, since its lease
\* may end whenever an invocation is about to claim.
ExecutorAdvances ==
    \A i \in Instances : \A t \in 0..MaxActs - 1 :
        \/ []<><<OlderWorkFails(i, t)>>_vars
        \/ (\E k \in CustodyOf(i, t) :
               /\ Responsible[queue[k].node] = Executor
               /\ queue[k].node \in Executable \ Dangerous)
           ~> (Len(ledger[i]) > t)

\* Dangerous executor custody whose source cites the grant is answered in
\* the end once the grant is signed off, unless the grant is voided first,
\* even if the request dies before it resumes the failed claim.
SignedWorkAdvances ==
    \A i \in Instances : \A t \in 0..MaxActs - 1 :
        \/ []<><<OlderWorkFails(i, t)>>_vars
        \/ (/\ GrantStanding
            /\ \E k \in CustodyOf(i, t) :
                   /\ Responsible[queue[k].node] = Executor
                   /\ queue[k].node \in Executable
                   /\ SourceCites(queue[k]))
           ~> (grant.void \/ Len(ledger[i]) > t)

\* Executor rows whose source has been answered are swept in the end.
StaleCustodySwept ==
    \A i \in Instances : \A t \in 0..MaxActs :
        \/ []<><<OlderWorkFails(i, t)>>_vars
        \/ (\E k \in CustodyOf(i, t) :
               /\ Responsible[queue[k].node] = Executor
               /\ Children(ledger[i], t) # {})
           ~> (\A k \in CustodyOf(i, t) : queue[k].status = "closed")

------------------------------------------------------------------------------
\* Refinement: replaying the ledger gives the token of ProcessToken.

Token == INSTANCE ProcessToken WITH
    Unopened <- None,
    token <- [i \in Instances |->
                 IF i \in opened THEN processCurrentState(ledger[i]).node
                 ELSE None],
    moves <- [i \in Instances |-> Len(ledger[i])],
    mover <- [i \in Instances |->
                 IF ledger[i] = <<>> THEN None
                 ELSE ledger[i][Len(ledger[i])].who]

\* Whatever requests, executors, lost leases, crashes and failed queries do,
\* the ledger moves each instance as one token along its type's branches,
\* by the responsible actor's outcome (README "Deterministic routing").
MovesOneToken == Token!TokenSpec
=============================================================================
