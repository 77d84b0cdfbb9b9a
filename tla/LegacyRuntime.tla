---------------------------- MODULE LegacyRuntime ----------------------------
(***************************************************************************)
(* The compatibility runtime of the Worker API (legacy-runtime.ts), for    *)
(* Acts that name a process_id and belong to no process instance ("taps"). *)
(* Posting one runs a receiver over the oldest Acts that name the same     *)
(* process_id: it queues those that activate and doubts the others.        *)
(* Executor invocations claim queued rows and close them with a result     *)
(* Act; a signoff puts rows stopped for want of it back in the queue.      *)
(*                                                                         *)
(* The Acts the runtime itself appends name the process_id too, so they    *)
(* are part of what a receiver reads.  As in CustodyRuntime every query    *)
(* commits on its own, and a handler can be overtaken, fail or die between *)
(* any two of them.                                                        *)
(***************************************************************************)
EXTENDS Integers, Sequences, FiniteSets

CONSTANTS
    Taps,           \* Acts of one process_id that clients may post
    Complete,       \* taps whose slots satisfy the process's contract
    Citing,         \* taps that carry the grant_id of the grant
    Contracts,      \* definitions the process may have over time
    FirstContract,  \* the one it has at first
    Receivers,      \* concurrent POST /api/append requests
    Workers,        \* concurrent executor invocations
    Signer,         \* the request that signs the grant off and resumes
    Limit,          \* rows one receiver reads: 50 in registerFlow
    MaxRequests,    \* bound: how many requests post
    MaxRedefined,   \* bound: how often the contract is redefined
    Faults          \* what may fail: "crash" of a handler, "query"

Procs == Receivers \cup Workers \cup {Signer}

\* What evaluate and the executor read of a contract; "provable" says that
\* the receipt adapter returns every field its evidence must include.
Contract == [active : BOOLEAN, dangerous : BOOLEAN,
             adapter : {"receipt", "unregistered"}, provable : BOOLEAN]

ASSUME LegacyAssumption ==
    /\ Complete \subseteq Taps
    /\ Citing \subseteq Taps
    /\ Contracts \subseteq Contract
    /\ FirstContract \in Contracts
    /\ Receivers \cap Workers = {}
    /\ Signer \notin Receivers \cup Workers
    /\ Limit \in Nat
    /\ MaxRequests \in Nat
    /\ MaxRedefined \in Nat
    /\ Faults \subseteq {"crash", "query"}

VARIABLES
    acts,       \* the Acts that name the process_id, in ledger order
    queue,      \* runtime_queue, in created_at order
    requests,   \* how many requests have posted
    contract,   \* the current definition of the process
    redefined,  \* how often it has been redefined
    grant,      \* the grant: signed off; revoked or expired
    pc,         \* per handler, the query it issues next
    todo,       \* per receiver and signer, the Acts it has yet to look at
    catalog,    \* per handler, the definition it loaded
    job,        \* per worker, the queue row it claimed
    receipt     \* per worker, its decision and, once appended, its position

vars == <<acts, queue, requests, contract, redefined, grant, pc, todo, catalog,
          job, receipt>>
world == <<requests, contract, redefined, grant>>

------------------------------------------------------------------------------
\* Values.  "unsigned" is not_dispatched for want of a signoff, "refused" is
\* not_dispatched for any other reason.

Results == {"unsigned", "refused", "evidence_incomplete", "fechado"}
RuntimeDids == Results \cup {"doubt", "queued", "dispatching"}

\* A tap stands for itself; "this" of a runtime Act is the Act it is about.
Act == [did : {"tap"}, this : Taps] \cup [did : RuntimeDids, this : Nat]

Row == [source : Nat, status : {"queued", "claimed", "closed", "failed"},
        result : Nat]

NoReceipt == [did |-> "refused", at |-> 0]

PCs == {"idle", "load", "select", "scan", "announce", "doubt",
        "decide", "grant", "signoff", "refuse", "dispatch", "result",
        "close", "fail", "sources", "rows", "requeue"}

IsTap(k) == acts[k].did = "tap"

\* The Acts about Act k that say did.
Says(k, did) == {n \in DOMAIN acts : acts[n] = [did |-> did, this |-> k]}

RowsOf(k) == {n \in DOMAIN queue : queue[n].source = k}

\* evaluate: active, complete, and a grant_id where danger asks for one.  An
\* Act of the runtime has neither the did nor the status a contract asks of
\* the Acts it activates.
Evaluates(k, c) ==
    /\ c.active
    /\ IsTap(k) /\ acts[k].this \in Complete
    /\ c.dangerous => acts[k].this \in Citing

\* The receiver demotes a decision whose adapter is not registered.
Activates(k, c) == Evaluates(k, c) /\ c.adapter = "receipt"

------------------------------------------------------------------------------
Init ==
    /\ acts = <<>>
    /\ queue = <<>>
    /\ requests = 0
    /\ contract = FirstContract
    /\ redefined = 0
    /\ grant = [signed |-> FALSE, void |-> FALSE]
    /\ pc = [p \in Procs |-> "idle"]
    /\ todo = [p \in Procs |-> <<>>]
    /\ catalog = [p \in Procs |-> FirstContract]
    /\ job = [w \in Workers |-> 0]
    /\ receipt = [w \in Workers |-> NoReceipt]

\* appendAct of an Act about Act k.
Appends(k, did) == acts' = Append(acts, [did |-> did, this |-> k])

\* Handler p goes on to its query `next`.
GoesTo(p, next) == pc' = [pc EXCEPT ![p] = next]

\* Handler p is over; its locals are gone.
Ends(p) ==
    /\ GoesTo(p, "idle")
    /\ todo' = [todo EXCEPT ![p] = <<>>]
    /\ catalog' = [catalog EXCEPT ![p] = FirstContract]
    /\ job' = [w \in Workers |-> IF w = p THEN 0 ELSE job[w]]
    /\ receipt' = [w \in Workers |-> IF w = p THEN NoReceipt ELSE receipt[w]]

\* Receiver or signer p goes on with its next Act.
NextAct(p, next) ==
    /\ GoesTo(p, next)
    /\ todo' = [todo EXCEPT ![p] = Tail(@)]
    /\ UNCHANGED <<catalog, job, receipt>>

Stays(p, next) == GoesTo(p, next) /\ UNCHANGED <<todo, catalog, job, receipt>>

------------------------------------------------------------------------------
\* registerFlow for an Act without instance, and legacyReceiverSelect.

\* Posting the same Act again inserts nothing and selects again.
Post(r, tap) ==
    LET act == [did |-> "tap", this |-> tap] IN
    /\ pc[r] = "idle"
    /\ requests < MaxRequests
    /\ requests' = requests + 1
    /\ acts' = IF \E k \in DOMAIN acts : acts[k] = act THEN acts
               ELSE Append(acts, act)
    /\ Stays(r, "load")
    /\ UNCHANGED <<queue, contract, redefined, grant>>

LoadCatalog(r) ==
    /\ pc[r] = "load"
    /\ catalog' = [catalog EXCEPT ![r] = contract]
    /\ GoesTo(r, "select")
    /\ UNCHANGED <<acts, queue, world, todo, job, receipt>>

\* Mutant: the newest Acts but one instead of the oldest.
SelectNewest(r) ==
    /\ pc[r] = "select"
    /\ todo' = [todo EXCEPT ![r] =
            [k \in 1..(Len(acts) - 1) |-> k + 1]]
    /\ GoesTo(r, "scan")
    /\ UNCHANGED <<acts, queue, world, catalog, job, receipt>>

\* The oldest Limit Acts, the runtime's own among them, whether they have been
\* queued or doubted before or not.
SelectRows(r) ==
    /\ pc[r] = "select"
    /\ todo' = [todo EXCEPT ![r] =
            [k \in 1..(IF Len(acts) < Limit THEN Len(acts) ELSE Limit) |-> k]]
    /\ GoesTo(r, "scan")
    /\ UNCHANGED <<acts, queue, world, catalog, job, receipt>>

\* queueAdd: insert on conflict do nothing ...
QueueAdd(r) ==
    LET k == Head(todo[r]) IN
    /\ pc[r] = "scan" /\ todo[r] # <<>>
    /\ Activates(k, catalog[r])
    /\ IF RowsOf(k) = {}
       THEN /\ queue' = Append(queue, [source |-> k, status |-> "queued",
                                       result |-> 0])
            /\ Stays(r, "announce")
       ELSE NextAct(r, "scan") /\ UNCHANGED queue
    /\ UNCHANGED <<acts, world>>

\* ... and an Act that says so, when it did insert.
AnnounceQueued(r) ==
    /\ pc[r] = "announce" /\ r \in Receivers
    /\ Appends(Head(todo[r]), "queued")
    /\ NextAct(r, "scan")
    /\ UNCHANGED <<queue, world>>

\* Mutant: a doubt that is there is not looked for.
DoubtAgain(r) ==
    /\ pc[r] = "scan" /\ todo[r] # <<>>
    /\ ~Activates(Head(todo[r]), catalog[r])
    /\ Stays(r, "doubt")
    /\ UNCHANGED <<acts, queue, world>>

\* raiseDoubt: existingDoubt ...
LookForDoubt(r) ==
    LET k == Head(todo[r]) IN
    /\ pc[r] = "scan" /\ todo[r] # <<>>
    /\ ~Activates(k, catalog[r])
    /\ IF Says(k, "doubt") # {} THEN NextAct(r, "scan") ELSE Stays(r, "doubt")
    /\ UNCHANGED <<acts, queue, world>>

\* ... and the append of one.
RaiseDoubt(r) ==
    /\ pc[r] = "doubt"
    /\ Appends(Head(todo[r]), "doubt")
    /\ NextAct(r, "scan")
    /\ UNCHANGED <<queue, world>>

ReceiverDone(r) ==
    /\ pc[r] = "scan" /\ todo[r] = <<>>
    /\ Ends(r)
    /\ UNCHANGED <<acts, queue, world>>

------------------------------------------------------------------------------
\* legacyExecutorRunOnce.

\* Mutant: a claim that does not look at the status.
AnyRow(n) == n \in DOMAIN queue /\ queue[n].status \in {"queued", "claimed"}

Queued(n) == n \in DOMAIN queue /\ queue[n].status = "queued"

\* claim: the oldest queued row, in one statement.  It has no lease.
Claim(w) ==
    \E n \in DOMAIN queue :
        /\ pc[w] = "idle"
        /\ Queued(n)
        /\ \A m \in 1..(n - 1) : ~Queued(m)
        /\ queue' = [queue EXCEPT ![n].status = "claimed"]
        /\ job' = [job EXCEPT ![w] = n]
        /\ GoesTo(w, "decide")
        /\ UNCHANGED <<acts, world, todo, catalog, receipt>>

Source(w) == queue[job[w]].source

\* Mutant: only the adapter's own tier counts, not the declared one.
DangerousAdapter(c) == c.adapter # "receipt"

\* effectiveDangerTier is L4 or L5.
NeedsGrant(c) == c.dangerous

\* Worker w decides not to dispatch, and why.
Declines(w, did) ==
    /\ receipt' = [receipt EXCEPT ![w].did = did]
    /\ GoesTo(w, "refuse")

\* The adapter is compared after the grant, with the one that was queued.
ChecksAdapter(w, c) ==
    IF c.adapter = "receipt"
    THEN GoesTo(w, "dispatch") /\ UNCHANGED receipt
    ELSE Declines(w, "refused")

\* The source is evaluated anew with the contract of now.
Decide(w) ==
    /\ pc[w] = "decide"
    /\ catalog' = [catalog EXCEPT ![w] = contract]
    /\ IF ~Evaluates(Source(w), contract) THEN Declines(w, "refused")
       ELSE IF NeedsGrant(contract) THEN GoesTo(w, "grant") /\ UNCHANGED receipt
       ELSE ChecksAdapter(w, contract)
    /\ UNCHANGED <<acts, queue, world, todo, job>>

\* verifyGrantForExecution reads that the grant stands ...
CheckGrant(w) ==
    /\ pc[w] = "grant"
    /\ IF grant.void THEN Declines(w, "refused")
       ELSE GoesTo(w, "signoff") /\ UNCHANGED receipt
    /\ UNCHANGED <<acts, queue, world, todo, catalog, job>>

\* ... and, in a later query, that it is signed off.
CheckSignoff(w) ==
    /\ pc[w] = "signoff"
    /\ IF grant.signed THEN ChecksAdapter(w, catalog[w])
       ELSE Declines(w, "unsigned")
    /\ UNCHANGED <<acts, queue, world, todo, catalog, job>>

\* closeWithoutDispatch: a not_dispatched Act, then closeQueue.
Refuse(w) ==
    /\ pc[w] = "refuse"
    /\ Appends(Source(w), receipt[w].did)
    /\ receipt' = [receipt EXCEPT ![w].at = Len(acts) + 1]
    /\ GoesTo(w, "close")
    /\ UNCHANGED <<queue, world, todo, catalog, job>>

\* The "dispatching" Act; then the receipt adapter, which is pure, and the
\* fields its evidence lacks.
Dispatch(w) ==
    /\ pc[w] = "dispatch"
    /\ Appends(Source(w), "dispatching")
    /\ receipt' = [receipt EXCEPT ![w].did =
                       IF catalog[w].provable THEN "fechado"
                       ELSE "evidence_incomplete"]
    /\ GoesTo(w, "result")
    /\ UNCHANGED <<queue, world, todo, catalog, job>>

AppendResult(w) ==
    /\ pc[w] = "result"
    /\ Appends(Source(w), receipt[w].did)
    /\ receipt' = [receipt EXCEPT ![w].at = Len(acts) + 1]
    /\ GoesTo(w, "close")
    /\ UNCHANGED <<queue, world, todo, catalog, job>>

\* closeQueue, by queue_id alone.
CloseQueue(w) ==
    /\ pc[w] = "close"
    /\ queue' = [queue EXCEPT ![job[w]].status = "closed",
                              ![job[w]].result = receipt[w].at]
    /\ Ends(w)
    /\ UNCHANGED <<acts, world>>

\* Mutant: the row is given a status this runtime does not know.
ReleaseQueue(w) ==
    /\ pc[w] = "fail"
    /\ queue' = [queue EXCEPT ![job[w]].status = "released"]
    /\ Ends(w)
    /\ UNCHANGED <<acts, world>>

\* failQueue, from the catch; last_error is read by nobody.
FailQueue(w) ==
    /\ pc[w] = "fail"
    /\ queue' = [queue EXCEPT ![job[w]].status = "failed"]
    /\ Ends(w)
    /\ UNCHANGED <<acts, world>>

------------------------------------------------------------------------------
\* The grant, the contract, and legacyResumeGrantSources.

\* The sign challenge of a grant is consumed once, so it is signed off once.
SignGrant ==
    /\ pc[Signer] = "idle"
    /\ Citing # {} /\ ~grant.signed
    /\ grant' = [grant EXCEPT !.signed = TRUE]
    /\ Stays(Signer, "sources")
    /\ UNCHANGED <<acts, queue, requests, contract, redefined>>

\* grant-revoke, revocation of the granting authority, or valid_until.
VoidGrant ==
    /\ Citing # {} /\ ~grant.void
    /\ grant' = [grant EXCEPT !.void = TRUE]
    /\ UNCHANGED <<acts, queue, requests, contract, redefined, pc, todo,
                   catalog, job, receipt>>

\* A new definition of the process supersedes the current one.
Redefine(c) ==
    /\ redefined < MaxRedefined /\ c # contract
    /\ contract' = c
    /\ redefined' = redefined + 1
    /\ UNCHANGED <<acts, queue, requests, grant, pc, todo, catalog, job, receipt>>

\* The Acts that carry the grant_id, in ledger order.
ResumeSources ==
    LET sources == {k \in DOMAIN acts : IsTap(k) /\ acts[k].this \in Citing} IN
    /\ pc[Signer] = "sources"
    /\ \E s \in [1..Cardinality(sources) -> sources] :
           /\ \A i, j \in DOMAIN s : i < j => s[i] < s[j]
           /\ todo' = [todo EXCEPT ![Signer] = s]
    /\ GoesTo(Signer, "rows")
    /\ UNCHANGED <<acts, queue, world, catalog, job, receipt>>

\* Mutant: any result will do.
StoppedAnyhow(row) == row.status \in {"closed", "failed"}

\* A row that ended for want of the signoff.
StoppedUnsigned(row) ==
    /\ row.status \in {"closed", "failed"}
    /\ row.result # 0 /\ acts[row.result].did = "unsigned"

ResumeRow ==
    /\ pc[Signer] = "rows" /\ todo[Signer] # <<>>
    /\ IF \E n \in RowsOf(Head(todo[Signer])) : StoppedUnsigned(queue[n])
       THEN Stays(Signer, "requeue")
       ELSE NextAct(Signer, "rows")
    /\ UNCHANGED <<acts, queue, world>>

\* The guarded UPDATE: whoever finds the row no longer ended goes on.
Requeue ==
    /\ pc[Signer] = "requeue"
    /\ \E n \in RowsOf(Head(todo[Signer])) :
        IF queue[n].status \in {"closed", "failed"}
        THEN /\ queue' = [queue EXCEPT ![n].status = "queued",
                                       ![n].result = 0]
             /\ Stays(Signer, "announce")
        ELSE NextAct(Signer, "rows") /\ UNCHANGED queue
    /\ UNCHANGED <<acts, world>>

AnnounceResumed ==
    /\ pc[Signer] = "announce"
    /\ Appends(Head(todo[Signer]), "queued")
    /\ NextAct(Signer, "rows")
    /\ UNCHANGED <<queue, world>>

SignerDone ==
    /\ pc[Signer] = "rows" /\ todo[Signer] = <<>>
    /\ Ends(Signer)
    /\ UNCHANGED <<acts, queue, world>>

------------------------------------------------------------------------------
\* Failures.

\* The isolate is gone before the handler's next query.
Crash(p) ==
    /\ "crash" \in Faults
    /\ pc[p] # "idle"
    /\ Ends(p)
    /\ UNCHANGED <<acts, queue, world>>

Awaited == {"decide", "grant", "signoff", "dispatch", "result"}

\* Queries the executor awaits inside its try: the row is marked failed next.
\* A result whose answer is lost may have been inserted.  That of any other
\* insert or update leaves what its success and a failure at the next query,
\* or a crash before it, leave.
QueryFails(w) ==
    /\ "query" \in Faults
    /\ pc[w] \in Awaited
    /\ \/ UNCHANGED acts
       \/ pc[w] = "result" /\ Appends(Source(w), receipt[w].did)
    /\ GoesTo(w, "fail")
    /\ UNCHANGED <<queue, world, todo, catalog, job, receipt>>

\* Anywhere else a failed query ends the handler: closeWithoutDispatch and
\* closeQueue are returned without await, so the catch never sees them.
QueryEnds(p) ==
    /\ "query" \in Faults
    /\ pc[p] \notin Awaited \cup {"idle"}
    /\ Ends(p)
    /\ UNCHANGED <<acts, queue, world>>

------------------------------------------------------------------------------
Receive(r) ==
    \/ LoadCatalog(r)
    \/ SelectRows(r)
    \/ QueueAdd(r)
    \/ AnnounceQueued(r)
    \/ LookForDoubt(r)
    \/ RaiseDoubt(r)
    \/ ReceiverDone(r)

Execute(w) ==
    \/ Decide(w)
    \/ CheckGrant(w)
    \/ CheckSignoff(w)
    \/ Refuse(w)
    \/ Dispatch(w)
    \/ AppendResult(w)
    \/ CloseQueue(w)
    \/ FailQueue(w)

Resume ==
    \/ ResumeSources
    \/ ResumeRow
    \/ Requeue
    \/ AnnounceResumed
    \/ SignerDone

Fail ==
    \/ \E p \in Procs : Crash(p) \/ QueryEnds(p)
    \/ \E w \in Workers : QueryFails(w)

Environment ==
    \/ SignGrant
    \/ VoidGrant
    \/ \E c \in Contracts : Redefine(c)

Next ==
    \/ \E r \in Receivers : Receive(r) \/ \E tap \in Taps : Post(r, tap)
    \/ \E w \in Workers : Claim(w) \/ Execute(w)
    \/ Resume
    \/ Environment
    \/ Fail

Spec == Init /\ [][Next]_vars

\* A request or invocation in progress runs on, and cron keeps invoking.
FairSpec ==
    /\ Spec
    /\ \A r \in Receivers : WF_vars(Receive(r))
    /\ \A w \in Workers : WF_vars(Claim(w)) /\ WF_vars(Execute(w))
    /\ WF_vars(Resume)

------------------------------------------------------------------------------
\* Properties.

\* Type invariant.
TypeOK ==
    /\ acts \in Seq(Act)
    /\ queue \in Seq(Row)
    /\ requests \in 0..MaxRequests
    /\ contract \in Contracts
    /\ redefined \in 0..MaxRedefined
    /\ grant \in [signed : BOOLEAN, void : BOOLEAN]
    /\ pc \in [Procs -> PCs]
    /\ todo \in [Procs -> Seq(Nat)]
    /\ catalog \in [Procs -> Contracts]
    /\ job \in [Workers -> Nat]
    /\ receipt \in [Workers -> [did : Results, at : Nat]]
    /\ \A k \in DOMAIN acts : ~IsTap(k) => acts[k].this \in 1..(k - 1)
    /\ \A n \in DOMAIN queue : queue[n].source \in DOMAIN acts

\* However receivers, executors and a resumption overlap, and whatever fails,
\* an Act is dispatched at most once and every outcome follows its dispatch
\* (the claim, the resumption and the unique key of runtime_queue together).
DispatchedOnce ==
    \A k \in DOMAIN acts :
        LET outcomes == Says(k, "fechado") \cup Says(k, "evidence_incomplete") IN
        /\ Cardinality(Says(k, "dispatching")) <= 1
        /\ Cardinality(outcomes) <= 1
        /\ \A n \in outcomes : \E m \in Says(k, "dispatching") : m < n

\* The result a closed row names is the last one recorded about its source: a
\* retry, or a worker that comes late, leaves no older answer on it
\* (closeQueue is by queue_id alone).
ClosedNamesLastResult ==
    \A n \in DOMAIN queue :
        queue[n].status = "closed" =>
            LET results == UNION {Says(queue[n].source, did) : did \in Results}
            IN  /\ queue[n].result \in results
                /\ \A m \in results : m <= queue[n].result

\* When every contract the process may have is dangerous, an Act is dispatched
\* only if it cites the grant and the grant was signed off
\* (dangerousControlDecision; the evaluator at queue time is not enough).
DangerousDispatchSigned ==
    (\A c \in Contracts : c.dangerous) =>
        \A k, n \in DOMAIN acts :
            n \in Says(k, "dispatching") =>
                IsTap(k) /\ acts[k].this \in Citing /\ grant.signed

\* A row whose result is not_dispatched for want of a signoff.
StoppedForSignoff(row) ==
    row.result \in DOMAIN acts /\ acts[row.result].did = "unsigned"

\* Work that has ended is put back in the queue only by a signoff, and only if
\* want of that signoff is what had stopped it: closed and failed work stays
\* so otherwise (legacyResumeGrantSources).
ResumedOnlyUnsigned ==
    [][\A n \in DOMAIN queue :
          /\ queue[n].status \in {"closed", "failed"}
          /\ queue'[n].status \notin {"closed", "failed"}
          => /\ queue'[n].status = "queued"
             /\ grant.signed
             /\ acts[queue[n].source].this \in Citing
             /\ StoppedForSignoff(queue[n])]_vars

\* Act k has been queued or doubted.
Answered(k) == RowsOf(k) # {} \/ Says(k, "doubt") # {}

\* A receiver is still on its way to Act k, if Act k is in the window.
OnItsWay(r, k) ==
    pc[r] \in {"load", "select"} \/ \E i \in DOMAIN todo[r] : todo[r][i] = k

\* A tap among the oldest Limit Acts of its process_id is queued, doubted, or
\* still to come for some receiver; only a handler that fails takes that from
\* it.  legacyReceiverSelect passes none of them over, whatever other receivers
\* have queued or doubted since it read them.
WindowTapKept ==
    [][\A k \in 1..Limit :
          LET kept == Answered(k) \/ \E r \in Receivers : OnItsWay(r, k) IN
          /\ k \in DOMAIN acts' /\ acts'[k].did = "tap"
          /\ ~kept'
          => (k \in DOMAIN acts /\ ~kept) \/ Fail]_vars

\* Every tap is queued or doubted in the end, none is dropped silently.
EveryTapAnswered ==
    \A tap \in Taps :
        (\E k \in DOMAIN acts : acts[k].this = tap) ~>
            \E k \in DOMAIN acts : acts[k].this = tap /\ Answered(k)

\* An Act is doubted once, or once more for every other receiver that looks at
\* it meanwhile: raiseDoubt looks for the doubt that is there before it appends
\* one, so only receivers that overlap repeat each other's, and no later one,
\* after a crash or a change of the contract, ever adds to them.
DoubtsBounded ==
    \A k \in DOMAIN acts :
        Cardinality(Says(k, "doubt")) <= Cardinality(Receivers)
=============================================================================
