------------------------ MODULE LegacyRuntimeProofs ------------------------
(***************************************************************************)
(* What holds of the compatibility runtime for any number of taps,         *)
(* receivers and executor invocations, and all failures.                   *)
(***************************************************************************)
EXTENDS LegacyRuntime, FiniteSetTheorems, SequenceTheorems, TLAPS

------------------------------------------------------------------------------
\* The invariant.

Outcomes == {"fechado", "evidence_incomplete"}
Weighty == Results \cup {"dispatching"}

ReceiverPCs == {"idle", "load", "select", "scan", "announce", "doubt"}
Deciding == {"decide", "grant", "signoff", "refuse", "dispatch"}
WorkerPCs == Deciding \cup {"idle", "result", "close", "fail"}
SignerPCs == {"idle", "sources", "rows", "requeue", "announce"}

\* Act n is about Act k and says one of dids.
Told(n, k, dids) ==
    n \in DOMAIN acts /\ acts[n].did \in dids /\ acts[n].this = k

Silent(k, dids) == \A n \in DOMAIN acts : ~Told(n, k, dids)

\* Nothing has been dispatched for Act k.
Undone(k) == Silent(k, {"dispatching"}) /\ Silent(k, Outcomes)

LastResult(n, k) ==
    /\ Told(n, k, Results)
    /\ \A m \in DOMAIN acts : Told(m, k, Results) => m <= n

Once(k) ==
    /\ \A m, n \in DOMAIN acts :
           Told(m, k, {"dispatching"}) /\ Told(n, k, {"dispatching"}) => m = n
    /\ \A m, n \in DOMAIN acts :
           Told(m, k, Outcomes) /\ Told(n, k, Outcomes) => m = n
    /\ \A n \in DOMAIN acts :
           Told(n, k, Outcomes) =>
               \E m \in DOMAIN acts : Told(m, k, {"dispatching"}) /\ m < n

\* The hold of a row: work that is queued, or stopped for want of a signoff,
\* has not been dispatched, and closed work names its last result.
RowOK(n) ==
    LET row == queue[n] IN
    /\ row.status # "closed" => row.result = 0
    /\ row.status = "queued" => Undone(row.source)
    /\ row.status = "closed" => /\ LastResult(row.result, row.source)
                                /\ acts[row.result].did = "unsigned" =>
                                       Undone(row.source)

RowsOK ==
    /\ \A n \in DOMAIN queue : RowOK(n)
    /\ \A m, n \in DOMAIN queue : queue[m].source = queue[n].source => m = n
    /\ \A k \in DOMAIN acts : RowsOf(k) = {} => Undone(k)

AllDangerous == \A c \in Contracts : c.dangerous

MayDispatch(k) == IsTap(k) /\ acts[k].this \in Citing

\* What a worker knows: the row it claimed is its own for as long as it runs.
WorkerOK(w) ==
    /\ pc[w] \in WorkerPCs
    /\ pc[w] # "idle" => /\ job[w] \in DOMAIN queue
                         /\ queue[job[w]].status = "claimed"
    /\ pc[w] \in Deciding => Undone(Source(w))
    /\ pc[w] = "refuse" => receipt[w].did \in {"refused", "unsigned"}
    /\ pc[w] = "result" => /\ receipt[w].did \in Outcomes
                           /\ Silent(Source(w), Outcomes)
                           /\ ~Silent(Source(w), {"dispatching"})
    /\ pc[w] = "close" => /\ LastResult(receipt[w].at, Source(w))
                          /\ acts[receipt[w].at].did = "unsigned" =>
                                 Undone(Source(w))
    /\ (AllDangerous /\ pc[w] \in {"grant", "signoff", "dispatch"}) =>
           MayDispatch(Source(w))
    /\ (AllDangerous /\ pc[w] = "dispatch") => grant.signed

Alone ==
    \A v, w \in Workers :
        (v # w /\ pc[v] # "idle" /\ pc[w] # "idle") => job[v] # job[w]

\* What a receiver and the signer know of the Acts they have yet to look at.
ReceiverOK(r) ==
    /\ pc[r] \in ReceiverPCs
    /\ pc[r] \in {"announce", "doubt"} => todo[r] # <<>>
    /\ \A j \in 1..Len(todo[r]) : todo[r][j] \in DOMAIN acts

SignerOK ==
    /\ pc[Signer] \in SignerPCs
    /\ pc[Signer] # "idle" => grant.signed
    /\ pc[Signer] \in {"requeue", "announce"} => todo[Signer] # <<>>
    /\ \A j \in 1..Len(todo[Signer]) :
           todo[Signer][j] \in DOMAIN acts /\ MayDispatch(todo[Signer][j])
    /\ pc[Signer] = "requeue" =>
           \E n \in DOMAIN queue : /\ queue[n].source = Head(todo[Signer])
                                   /\ StoppedUnsigned(queue[n])

ActsOK ==
    /\ \A k \in DOMAIN acts : Once(k)
    /\ AllDangerous =>
           \A k, n \in DOMAIN acts :
               Told(n, k, {"dispatching"}) => MayDispatch(k) /\ grant.signed

LegacyInv ==
    /\ TypeOK
    /\ ActsOK
    /\ RowsOK
    /\ \A w \in Workers : WorkerOK(w)
    /\ Alone
    /\ \A r \in Receivers : ReceiverOK(r)
    /\ SignerOK

------------------------------------------------------------------------------
\* The ledger.

\* The ledger grows, and only Acts of K are dispatched or answered.
Grows(K) ==
    /\ \A n \in DOMAIN acts : n \in DOMAIN acts' /\ acts'[n] = acts[n]
    /\ \A n \in DOMAIN acts' :
           (n \notin DOMAIN acts /\ acts'[n].did \in Weighty) =>
               acts'[n].this \in K

ActTypes ==
    /\ acts \in Seq(Act)
    /\ \A k \in DOMAIN acts : ~IsTap(k) => acts[k].this \in 1..(k - 1)

LEMMA SameActs ==
    ASSUME TypeOK, UNCHANGED acts
    PROVE  ActTypes' /\ Grows({})
BY DEF TypeOK, ActTypes, IsTap, Grows

LEMMA AppendedAct ==
    ASSUME TypeOK, NEW k \in DOMAIN acts, NEW did \in RuntimeDids,
           Appends(k, did)
    PROVE  /\ ActTypes' /\ Grows({k})
           /\ did \notin Weighty => Grows({})
           /\ Len(acts) \in Nat /\ DOMAIN acts = 1..Len(acts)
           /\ DOMAIN acts' = 1..(Len(acts) + 1)
           /\ acts'[Len(acts) + 1] = [did |-> did, this |-> k]
<1> DEFINE n == Len(acts)
           e == [did |-> did, this |-> k]
<1>1. acts \in Seq(Act) /\ n \in Nat /\ DOMAIN acts = 1..n /\ k \in Nat
  BY DEF TypeOK
<1>2. e \in Act
  BY <1>1 DEF Act
<1>3. acts' = Append(acts, e)
  BY DEF Appends
<1> HIDE DEF e
<1>4. /\ acts' \in Seq(Act) /\ DOMAIN acts' = 1..(n + 1) /\ acts'[n + 1] = e
      /\ \A j \in 1..n : acts'[j] = acts[j]
  BY <1>1, <1>2, <1>3
<1>5. \A j \in 1..(n + 1) : j \in 1..n \/ j = n + 1
  BY <1>1
<1>6. e.did = did /\ e.this = k /\ e.did # "tap"
  BY DEF e, RuntimeDids, Results
<1>7. ASSUME NEW j \in 1..(n + 1), acts'[j].did # "tap"
      PROVE  acts'[j].this \in 1..(j - 1)
  <2>1. CASE j = n + 1
    BY <1>1, <1>4, <1>6, <2>1
  <2>2. CASE j \in 1..n
    BY <1>1, <1>4, <1>7, <2>2 DEF TypeOK, IsTap
  <2> QED
    BY <1>5, <2>1, <2>2
<1>8. ActTypes'
  BY <1>4, <1>7 DEF ActTypes, IsTap
<1>9. Grows({k}) /\ (did \notin Weighty => Grows({}))
  BY <1>1, <1>4, <1>5, <1>6 DEF Grows
<1> QED
  BY <1>1, <1>4, <1>8, <1>9 DEF e

LEMMA ToldKept ==
    ASSUME NEW K, Grows(K), NEW k, k \notin K, NEW D \in SUBSET Weighty, NEW n
    PROVE  Told(n, k, D)' <=> Told(n, k, D)
BY DEF Grows, Told

LEMMA Dids ==
    /\ Outcomes \in SUBSET Weighty /\ Results \in SUBSET Weighty
    /\ {"dispatching"} \in SUBSET Weighty /\ Outcomes \in SUBSET Results
    /\ "unsigned" \notin Outcomes
    /\ "unsigned" \in Results /\ "refused" \in Results
    /\ "fechado" \in Outcomes /\ "evidence_incomplete" \in Outcomes
    /\ "dispatching" \notin Results
    /\ "dispatching" \in RuntimeDids /\ "doubt" \in RuntimeDids
    /\ "queued" \in RuntimeDids /\ Results \subseteq RuntimeDids
    /\ "queued" \notin Weighty /\ "doubt" \notin Weighty /\ "tap" \notin Weighty
BY DEF Outcomes, Results, Weighty, RuntimeDids

\* What is known of an Act that nobody dispatches or answers meanwhile.
LEMMA Kept ==
    ASSUME NEW K, Grows(K), NEW k, k \notin K
    PROVE  /\ Undone(k) => Undone(k)'
           /\ Silent(k, Outcomes) => Silent(k, Outcomes)'
           /\ ~Silent(k, {"dispatching"}) => ~Silent(k, {"dispatching"})'
           /\ \A n : LastResult(n, k) => LastResult(n, k)' /\ acts'[n] = acts[n]
           /\ Once(k) => Once(k)'
<1>1. \A n : /\ Told(n, k, Outcomes)' <=> Told(n, k, Outcomes)
             /\ Told(n, k, Results)' <=> Told(n, k, Results)
             /\ Told(n, k, {"dispatching"})' <=> Told(n, k, {"dispatching"})
  BY Dids, ToldKept
<1>2. \A n \in DOMAIN acts : n \in DOMAIN acts' /\ acts'[n] = acts[n]
  BY DEF Grows
<1>3. \A n, D : /\ Told(n, k, D) => n \in DOMAIN acts
                /\ Told(n, k, D)' => n \in DOMAIN acts'
  BY DEF Told
<1>4. Silent(k, Outcomes) => Silent(k, Outcomes)'
  BY <1>1, <1>3 DEF Silent
<1>5. Silent(k, {"dispatching"}) <=> Silent(k, {"dispatching"})'
  BY <1>1, <1>2, <1>3 DEF Silent
<1>6. \A n : LastResult(n, k) => LastResult(n, k)' /\ acts'[n] = acts[n]
  BY <1>1, <1>2, <1>3 DEF LastResult
<1>7. Once(k) => Once(k)'
  <2>1. SUFFICES ASSUME Once(k) PROVE Once(k)'
    OBVIOUS
  <2>2. ASSUME NEW m \in DOMAIN acts', NEW n \in DOMAIN acts',
               \/ /\ Told(m, k, {"dispatching"})'
                  /\ Told(n, k, {"dispatching"})'
               \/ Told(m, k, Outcomes)' /\ Told(n, k, Outcomes)'
        PROVE  m = n
    BY <1>1, <1>3, <2>1, <2>2 DEF Once
  <2>3. ASSUME NEW n \in DOMAIN acts', Told(n, k, Outcomes)'
        PROVE  \E m \in DOMAIN acts' : Told(m, k, {"dispatching"})' /\ m < n
    <3>1. Told(n, k, Outcomes) /\ n \in DOMAIN acts
      BY <1>1, <1>3, <2>3
    <3>2. PICK m \in DOMAIN acts : Told(m, k, {"dispatching"}) /\ m < n
      BY <2>1, <3>1 DEF Once
    <3> QED
      BY <1>1, <1>2, <3>2
  <2> QED
    BY <2>2, <2>3 DEF Once
<1> QED
  BY <1>4, <1>5, <1>6, <1>7 DEF Undone

------------------------------------------------------------------------------
\* What the others' steps leave.

SignedStays == grant.signed => grant'.signed

\* A worker keeps what it knows while its row and its source are let alone.
LEMMA WorkerStays ==
    ASSUME LegacyInv, NEW K, Grows(K), SignedStays, NEW w \in Workers,
           pc'[w] = pc[w], job'[w] = job[w], receipt'[w] = receipt[w],
           pc[w] # "idle" => /\ Source(w) \notin K
                             /\ job[w] \in DOMAIN queue'
                             /\ queue'[job[w]] = queue[job[w]]
    PROVE  WorkerOK(w)'
<1>1. WorkerOK(w) /\ TypeOK
  BY DEF LegacyInv
<1>2. CASE pc[w] = "idle"
  BY <1>1, <1>2 DEF WorkerOK, Deciding
<1>3. CASE pc[w] # "idle"
  <2>1. /\ Source(w)' = Source(w) /\ Source(w) \notin K
        /\ Source(w) \in DOMAIN acts
    BY <1>1, <1>3 DEF Source, WorkerOK, TypeOK
  <2>2. PICK k : k = Source(w)
    OBVIOUS
  <2>3. /\ Undone(k) => Undone(k)'
        /\ Silent(k, Outcomes) => Silent(k, Outcomes)'
        /\ ~Silent(k, {"dispatching"}) => ~Silent(k, {"dispatching"})'
        /\ \A n : LastResult(n, k) => LastResult(n, k)' /\ acts'[n] = acts[n]
    BY <2>1, <2>2, Kept
  <2>4. MayDispatch(k) => MayDispatch(k)'
    BY <2>1, <2>2 DEF MayDispatch, IsTap, Grows
  <2> QED
    BY <1>1, <1>3, <2>1, <2>2, <2>3, <2>4 DEF WorkerOK, SignedStays
<1> QED
  BY <1>2, <1>3

\* So does whoever looks at a row that is as it was.
LEMMA RowStays ==
    ASSUME LegacyInv, NEW K, Grows(K), NEW n \in DOMAIN queue,
           queue'[n] = queue[n],
           queue[n].source \notin K \/ queue[n].status = "claimed"
    PROVE  RowOK(n)'
<1>1. RowOK(n)
  BY DEF LegacyInv, RowsOK
<1>2. CASE queue[n].status = "claimed"
  BY <1>1, <1>2 DEF RowOK
<1>3. CASE queue[n].source \notin K
  <2>1. PICK k : k = queue[n].source
    OBVIOUS
  <2>2. /\ Undone(k) => Undone(k)'
        /\ \A j : LastResult(j, k) => LastResult(j, k)' /\ acts'[j] = acts[j]
    BY <1>3, <2>1, Kept
  <2> QED
    BY <1>1, <2>1, <2>2 DEF RowOK
<1> QED
  BY <1>2, <1>3

\* What is not in the queue is not dispatched.
LEMMA UnqueuedStays ==
    ASSUME LegacyInv, NEW K, Grows(K), ActTypes',
           \A k \in K : RowsOf(k) # {},
           \A n \in DOMAIN queue :
               n \in DOMAIN queue' /\ queue'[n].source = queue[n].source,
           NEW k \in DOMAIN acts', RowsOf(k)' = {}
    PROVE  Undone(k)'
<1>1. RowsOf(k) = {} /\ k \notin K
  BY DEF RowsOf
<1>2. CASE k \in DOMAIN acts
  <2>1. Undone(k)
    BY <1>1, <1>2 DEF LegacyInv, RowsOK
  <2> QED
    BY <1>1, <2>1, Kept
<1>3. CASE k \notin DOMAIN acts
  <2>1. ASSUME NEW D \in SUBSET Weighty, NEW n \in DOMAIN acts', Told(n, k, D)'
        PROVE  FALSE
    <3>1. Told(n, k, D)
      BY <1>1, <2>1, ToldKept
    <3>2. n \in DOMAIN acts /\ acts[n].this = k /\ ~IsTap(n) /\ TypeOK
      BY <3>1, Dids DEF Told, IsTap, LegacyInv
    <3>3. k \in 1..(n - 1) /\ n \in 1..Len(acts) /\ DOMAIN acts = 1..Len(acts)
          /\ Len(acts) \in Nat
      BY <3>2 DEF TypeOK
    <3> QED
      BY <1>3, <3>3
  <2> QED
    BY <2>1, Dids DEF Undone, Silent
<1> QED
  BY <1>2, <1>3

LEMMA ReceiverStays ==
    ASSUME LegacyInv, NEW K, Grows(K), NEW r \in Receivers,
           pc'[r] = pc[r], todo'[r] = todo[r]
    PROVE  ReceiverOK(r)'
BY DEF LegacyInv, ReceiverOK, Grows

LEMMA SignerStays ==
    ASSUME LegacyInv, NEW K, Grows(K), SignedStays,
           pc'[Signer] = pc[Signer], todo'[Signer] = todo[Signer],
           \A n \in DOMAIN queue :
               queue[n].status \in {"closed", "failed"} =>
                   n \in DOMAIN queue' /\ queue'[n] = queue[n]
    PROVE  SignerOK'
<1>1. SignerOK /\ TypeOK
  BY DEF LegacyInv
<1>2. ASSUME NEW j \in 1..Len(todo[Signer])
      PROVE  /\ todo'[Signer][j] \in DOMAIN acts'
             /\ MayDispatch(todo[Signer][j])'
  BY <1>1, <1>2 DEF SignerOK, MayDispatch, IsTap, Grows
<1>3. ASSUME NEW n \in DOMAIN queue, StoppedUnsigned(queue[n])
      PROVE  n \in DOMAIN queue' /\ queue'[n] = queue[n]
             /\ StoppedUnsigned(queue[n])'
  <2>1. queue[n].status \in {"closed", "failed"} /\ queue[n].result # 0
        /\ acts[queue[n].result].did = "unsigned"
    BY <1>3 DEF StoppedUnsigned
  <2>2. RowOK(n)
    BY DEF LegacyInv, RowsOK
  <2>3. queue[n].result \in DOMAIN acts
    BY <2>1, <2>2 DEF RowOK, LastResult, Told
  <2> QED
    BY <2>1, <2>3 DEF StoppedUnsigned, Grows
<1> QED
  BY <1>1, <1>2, <1>3 DEF SignerOK, SignedStays

------------------------------------------------------------------------------
\* The handlers.

LEMMA Handlers ==
    /\ Receivers \subseteq Procs /\ Workers \subseteq Procs /\ Signer \in Procs
    /\ Procs = Receivers \cup Workers \cup {Signer}
    /\ Receivers \cap Workers = {}
    /\ Signer \notin Receivers /\ Signer \notin Workers
    /\ FirstContract \in Contracts
    /\ ReceiverPCs \cup WorkerPCs \cup SignerPCs \subseteq PCs
BY LegacyAssumption DEF LegacyAssumption, Procs, ReceiverPCs, WorkerPCs,
   Deciding, SignerPCs, PCs

LocalTypes ==
    /\ pc \in [Procs -> PCs]
    /\ todo \in [Procs -> Seq(Nat)]
    /\ catalog \in [Procs -> Contracts]
    /\ job \in [Workers -> Nat]
    /\ receipt \in [Workers -> [did : Results, at : Nat]]

WorldTypes ==
    /\ requests \in 0..MaxRequests
    /\ contract \in Contracts
    /\ redefined \in 0..MaxRedefined
    /\ grant \in [signed : BOOLEAN, void : BOOLEAN]

\* Only p's locals change.
Moves(p) ==
    /\ LocalTypes'
    /\ \A q \in Procs \ {p} : pc'[q] = pc[q] /\ todo'[q] = todo[q]
    /\ \A w \in Workers \ {p} : job'[w] = job[w] /\ receipt'[w] = receipt[w]

LEMMA StaysMoves ==
    ASSUME TypeOK, NEW p \in Procs, NEW next \in PCs, Stays(p, next)
    PROVE  Moves(p) /\ pc'[p] = next
BY DEF TypeOK, Stays, GoesTo, Moves, LocalTypes

LEMMA EndsMoves ==
    ASSUME TypeOK, NEW p \in Procs, Ends(p)
    PROVE  Moves(p) /\ pc'[p] = "idle" /\ todo'[p] = <<>>
<1>1. NoReceipt \in [did : Results, at : Nat] /\ "idle" \in PCs
  BY DEF NoReceipt, Results, PCs
<1>2. /\ pc' \in [Procs -> PCs] /\ pc'[p] = "idle"
      /\ \A q \in Procs \ {p} : pc'[q] = pc[q]
  BY <1>1 DEF TypeOK, Ends, GoesTo
<1>3. /\ todo' \in [Procs -> Seq(Nat)] /\ todo'[p] = <<>>
      /\ \A q \in Procs \ {p} : todo'[q] = todo[q]
  BY EmptySeq DEF TypeOK, Ends
<1>4. catalog' \in [Procs -> Contracts]
  BY Handlers DEF TypeOK, Ends
<1>5. /\ job' \in [Workers -> Nat]
      /\ \A w \in Workers \ {p} : job'[w] = job[w]
  BY DEF TypeOK, Ends
<1>6. /\ receipt' \in [Workers -> [did : Results, at : Nat]]
      /\ \A w \in Workers \ {p} : receipt'[w] = receipt[w]
  BY <1>1 DEF TypeOK, Ends
<1> QED
  BY <1>2, <1>3, <1>4, <1>5, <1>6 DEF Moves, LocalTypes

LEMMA NextActMoves ==
    ASSUME TypeOK, NEW p \in Procs, NEW next \in PCs, NextAct(p, next),
           todo[p] # <<>>
    PROVE  /\ Moves(p) /\ pc'[p] = next /\ todo'[p] = Tail(todo[p])
           /\ Len(todo'[p]) \in Nat
           /\ \A j \in 1..Len(todo'[p]) :
                  j + 1 \in 1..Len(todo[p]) /\ todo'[p][j] = todo[p][j + 1]
<1>1. todo[p] \in Seq(Nat)
  BY DEF TypeOK
<1>2. /\ Tail(todo[p]) \in Seq(Nat) /\ Len(Tail(todo[p])) \in Nat
      /\ \A j \in 1..Len(Tail(todo[p])) : /\ j + 1 \in 1..Len(todo[p])
                                          /\ Tail(todo[p])[j] = todo[p][j + 1]
  BY <1>1
<1>3. /\ todo' \in [Procs -> Seq(Nat)] /\ todo'[p] = Tail(todo[p])
      /\ \A q \in Procs \ {p} : todo'[q] = todo[q]
  BY <1>2 DEF TypeOK, NextAct
<1>4. /\ pc' \in [Procs -> PCs] /\ pc'[p] = next
      /\ \A q \in Procs \ {p} : pc'[q] = pc[q]
  BY DEF TypeOK, NextAct, GoesTo
<1> QED
  BY <1>2, <1>3, <1>4 DEF TypeOK, NextAct, Moves, LocalTypes

\* What p itself has to answer for.
OwnOK(p) ==
    /\ p \in Receivers => ReceiverOK(p)
    /\ p \in Workers => WorkerOK(p)
    /\ p = Signer => SignerOK

LEMMA TypesFromParts ==
    ASSUME ActTypes', LocalTypes', WorldTypes', queue' \in Seq(Row),
           \A n \in DOMAIN queue' : queue'[n].source \in DOMAIN acts'
    PROVE  TypeOK'
BY DEF TypeOK, ActTypes, LocalTypes, WorldTypes, IsTap

\* A step that leaves the queue as it is, and answers at most the source of
\* the row that p, a worker, holds.
LEMMA ActStep ==
    ASSUME LegacyInv, NEW p \in Procs, Moves(p), NEW K, Grows(K), ActTypes',
           WorldTypes', SignedStays, UNCHANGED queue,
           \/ K = {}
           \/ p \in Workers /\ pc[p] # "idle" /\ K = {Source(p)},
           \A k \in K : /\ Once(k)'
                        /\ \/ ~AllDangerous
                           \/ MayDispatch(k) /\ grant.signed
                           \/ Silent(k, {"dispatching"})',
           p \in Workers /\ pc'[p] # "idle" =>
               pc[p] # "idle" /\ job'[p] = job[p],
           OwnOK(p)'
    PROVE  LegacyInv'
<1>1. TypeOK /\ RowsOK /\ Alone /\ ActsOK
  BY DEF LegacyInv
<1>2. queue \in Seq(Row) /\ \A n \in DOMAIN queue : queue[n].source \in DOMAIN acts
  BY <1>1 DEF TypeOK
<1>3. TypeOK'
  BY <1>2, TypesFromParts DEF Moves, Grows
<1>4. \A k \in K : k \in DOMAIN acts /\ RowsOf(k) # {}
  BY <1>1, <1>2, Handlers DEF LegacyInv, WorkerOK, Source, RowsOf
<1>5. ASSUME NEW w \in Workers, w # p, pc[w] # "idle"
      PROVE  /\ Source(w) \notin K /\ job[w] \in DOMAIN queue'
             /\ queue'[job[w]] = queue[job[w]]
  <2>1. job[w] \in DOMAIN queue
    BY <1>5 DEF LegacyInv, WorkerOK
  <2>2. CASE p \in Workers /\ pc[p] # "idle" /\ K = {Source(p)}
    <3>1. job[p] \in DOMAIN queue /\ job[p] # job[w]
      BY <1>1, <1>5, <2>2 DEF LegacyInv, WorkerOK, Alone
    <3> QED
      BY <1>1, <2>1, <2>2, <3>1 DEF RowsOK, Source
  <2> QED
    BY <2>1, <2>2
<1>6. ASSUME NEW w \in Workers PROVE WorkerOK(w)'
  <2>1. CASE w = p
    BY <2>1 DEF OwnOK
  <2>2. CASE w # p
    <3>1. pc'[w] = pc[w] /\ job'[w] = job[w] /\ receipt'[w] = receipt[w]
      BY <2>2, Handlers DEF Moves
    <3> QED
      BY <1>5, <2>2, <3>1, WorkerStays
  <2> QED
    BY <2>1, <2>2
<1>7. Alone'
  <2>1. ASSUME NEW v \in Workers, NEW w \in Workers, v # w,
               pc'[v] # "idle", pc'[w] # "idle"
        PROVE  job'[v] # job'[w]
    <3>1. /\ pc[v] # "idle" /\ job'[v] = job[v]
          /\ pc[w] # "idle" /\ job'[w] = job[w]
      BY <2>1, Handlers DEF Moves
    <3> QED
      BY <1>1, <2>1, <3>1 DEF Alone
  <2> QED
    BY <2>1 DEF Alone
<1>8. ASSUME NEW r \in Receivers PROVE ReceiverOK(r)'
  <2>1. CASE r = p
    BY <2>1 DEF OwnOK
  <2>2. CASE r # p
    BY <2>2, Handlers, ReceiverStays DEF Moves
  <2> QED
    BY <2>1, <2>2
<1>9. SignerOK'
  <2>1. CASE Signer = p
    BY <2>1 DEF OwnOK
  <2>2. CASE Signer # p
    BY <2>2, Handlers, SignerStays DEF Moves
  <2> QED
    BY <2>1, <2>2
<1>10. RowsOK'
  <2>1. ASSUME NEW n \in DOMAIN queue PROVE RowOK(n)'
    <3>1. queue[n].source \notin K \/ queue[n].status = "claimed"
      <4>1. CASE p \in Workers /\ pc[p] # "idle" /\ K = {Source(p)}
        <5>1. /\ job[p] \in DOMAIN queue
              /\ queue[job[p]].status = "claimed"
          BY <4>1 DEF LegacyInv, WorkerOK
        <5>2. queue[n].source = Source(p) => n = job[p]
          BY <1>1, <5>1 DEF RowsOK, Source
        <5> QED
          BY <4>1, <5>1, <5>2
      <4> QED
        BY <4>1
    <3> QED
      BY <3>1, RowStays
  <2>2. ASSUME NEW k \in DOMAIN acts', RowsOf(k)' = {} PROVE Undone(k)'
    BY <1>4, <2>2, UnqueuedStays
  <2> QED
    BY <1>1, <2>1, <2>2 DEF RowsOK
<1>11. ActsOK'
  <2>1. ASSUME NEW k \in DOMAIN acts' PROVE Once(k)'
    <3>1. CASE k \in K
      BY <3>1
    <3>2. CASE k \notin K /\ k \in DOMAIN acts
      BY <1>1, <3>2, Kept DEF ActsOK
    <3>3. CASE k \notin DOMAIN acts
      <4>1. RowsOf(k)' = {}
        BY <1>2, <3>3 DEF RowsOf
      <4>2. Undone(k)'
        BY <1>4, <4>1, UnqueuedStays
      <4> QED
        BY <4>2 DEF Undone, Silent, Once
    <3> QED
      BY <3>1, <3>2, <3>3
  <2>2. ASSUME AllDangerous, NEW k \in DOMAIN acts', NEW n \in DOMAIN acts',
               Told(n, k, {"dispatching"})'
        PROVE  MayDispatch(k)' /\ grant'.signed
    <3>1. CASE k \in K
      <4>1. MayDispatch(k) /\ grant.signed /\ k \in DOMAIN acts
        BY <1>4, <2>2, <3>1 DEF Silent
      <4> QED
        BY <4>1 DEF MayDispatch, IsTap, Grows, SignedStays
    <3>2. CASE k \notin K
      <4>1. Told(n, k, {"dispatching"})
        BY <2>2, <3>2, Dids, ToldKept
      <4>2. n \in DOMAIN acts /\ k \in DOMAIN acts
        <5>1. n \in DOMAIN acts /\ ~IsTap(n) /\ acts[n].this = k
          BY <4>1 DEF Told, IsTap
        <5>2. /\ k \in 1..(n - 1) /\ n \in 1..Len(acts) /\ Len(acts) \in Nat
              /\ DOMAIN acts = 1..Len(acts)
          BY <1>1, <5>1 DEF TypeOK
        <5> QED
          BY <5>2
      <4>3. MayDispatch(k) /\ grant.signed
        BY <1>1, <2>2, <4>1, <4>2 DEF ActsOK
      <4> QED
        BY <4>2, <4>3 DEF MayDispatch, IsTap, Grows, SignedStays
    <3> QED
      BY <3>1, <3>2
  <2> QED
    BY <2>1, <2>2 DEF ActsOK, AllDangerous
<1> QED
  BY <1>3, <1>6, <1>7, <1>8, <1>9, <1>10, <1>11 DEF LegacyInv

\* A step that leaves the ledger as it is and writes row x, which no worker
\* but p holds, and which had not ended unless p is the signer.
LEMMA QueueStep ==
    ASSUME LegacyInv, NEW p \in Procs, Moves(p), UNCHANGED <<acts, world>>,
           queue' \in Seq(Row), NEW x, x \in DOMAIN queue', RowOK(x)',
           \A n \in DOMAIN queue' : n \in DOMAIN queue \/ n = x,
           \A n \in DOMAIN queue :
               /\ n \in DOMAIN queue' /\ queue'[n].source = queue[n].source
               /\ n # x => queue'[n] = queue[n],
           x \notin DOMAIN queue =>
               /\ queue'[x].source \in DOMAIN acts
               /\ RowsOf(queue'[x].source) = {},
           \A w \in Workers \ {p} : pc[w] # "idle" => job[w] # x,
           p # Signer /\ x \in DOMAIN queue =>
               queue[x].status \notin {"closed", "failed"},
           p \in Workers /\ pc'[p] # "idle" => job'[p] = x,
           OwnOK(p)'
    PROVE  LegacyInv'
<1>1. /\ TypeOK /\ RowsOK /\ Alone /\ ActsOK /\ ActTypes' /\ Grows({})
      /\ SignedStays /\ WorldTypes'
  BY SameActs DEF LegacyInv, SignedStays, world, WorldTypes, TypeOK
<1>2. queue \in Seq(Row) /\ \A n \in DOMAIN queue : queue[n].source \in DOMAIN acts
  BY <1>1 DEF TypeOK
<1>3. TypeOK'
  <2>1. \A n \in DOMAIN queue' : queue'[n].source \in DOMAIN acts'
    BY <1>2
  <2> QED
    BY <1>1, <2>1, TypesFromParts DEF Moves
<1>4. ASSUME NEW w \in Workers PROVE WorkerOK(w)'
  <2>1. CASE w = p
    BY <2>1 DEF OwnOK
  <2>2. CASE w # p
    <3>1. pc'[w] = pc[w] /\ job'[w] = job[w] /\ receipt'[w] = receipt[w]
      BY <2>2, Handlers DEF Moves
    <3>2. pc[w] # "idle" => job[w] \in DOMAIN queue /\ job[w] # x
      BY <2>2 DEF LegacyInv, WorkerOK
    <3> QED
      BY <1>1, <3>1, <3>2, WorkerStays
  <2> QED
    BY <2>1, <2>2
<1>5. Alone'
  <2>1. ASSUME NEW v \in Workers, NEW w \in Workers, v # w,
               pc'[v] # "idle", pc'[w] # "idle"
        PROVE  job'[v] # job'[w]
    <3>1. ASSUME NEW u \in Workers, u # p, pc'[u] # "idle"
          PROVE  job'[u] = job[u] /\ pc[u] # "idle" /\ job[u] # x
      BY <3>1, Handlers DEF Moves
    <3> QED
      BY <1>1, <2>1, <3>1 DEF Alone
  <2> QED
    BY <2>1 DEF Alone
<1>6. ASSUME NEW r \in Receivers PROVE ReceiverOK(r)'
  <2>1. CASE r = p
    BY <2>1 DEF OwnOK
  <2>2. CASE r # p
    BY <1>1, <2>2, Handlers, ReceiverStays DEF Moves
  <2> QED
    BY <2>1, <2>2
<1>7. SignerOK'
  <2>1. CASE Signer = p
    BY <2>1 DEF OwnOK
  <2>2. CASE Signer # p
    <3>1. \A n \in DOMAIN queue :
              queue[n].status \in {"closed", "failed"} =>
                  n \in DOMAIN queue' /\ queue'[n] = queue[n]
      BY <2>2
    <3>2. pc'[Signer] = pc[Signer] /\ todo'[Signer] = todo[Signer]
      BY <2>2, Handlers DEF Moves
    <3> QED
      BY <1>1, <3>1, <3>2, SignerStays
  <2> QED
    BY <2>1, <2>2
<1>8. RowsOK'
  <2>1. ASSUME NEW n \in DOMAIN queue' PROVE RowOK(n)'
    <3>1. CASE n = x
      BY <3>1
    <3>2. CASE n # x
      <4>1. n \in DOMAIN queue /\ queue'[n] = queue[n]
        BY <3>2
      <4> QED
        BY <1>1, <4>1, RowStays
    <3> QED
      BY <3>1, <3>2
  <2>2. ASSUME NEW m \in DOMAIN queue', NEW n \in DOMAIN queue',
               queue'[m].source = queue'[n].source
        PROVE  m = n
    BY <1>1, <2>2 DEF RowsOK, RowsOf
  <2>3. ASSUME NEW k \in DOMAIN acts', RowsOf(k)' = {} PROVE Undone(k)'
    BY <1>1, <2>3, UnqueuedStays
  <2> QED
    BY <2>1, <2>2, <2>3 DEF RowsOK
<1>9. ActsOK'
  <2>1. ASSUME NEW k PROVE (Once(k) => Once(k)') /\ (MayDispatch(k) <=> MayDispatch(k)')
    BY DEF Once, Told, MayDispatch, IsTap
  <2>2. \A k, n : Told(n, k, {"dispatching"})' <=> Told(n, k, {"dispatching"})
    BY DEF Told
  <2> QED
    BY <1>1, <2>1, <2>2 DEF ActsOK, AllDangerous, world
<1> QED
  BY <1>3, <1>4, <1>5, <1>6, <1>7, <1>8, <1>9 DEF LegacyInv

LEMMA QuietStep ==
    ASSUME LegacyInv, NEW p \in Procs, Moves(p),
           UNCHANGED <<acts, queue, world>>,
           p \in Workers /\ pc'[p] # "idle" =>
               pc[p] # "idle" /\ job'[p] = job[p],
           OwnOK(p)'
    PROVE  LegacyInv'
<1>1. /\ ActTypes' /\ Grows({}) /\ SignedStays /\ WorldTypes'
  BY SameActs DEF LegacyInv, SignedStays, world, WorldTypes, TypeOK
<1> QED
  BY <1>1, ActStep

------------------------------------------------------------------------------
\* Every step keeps the invariant: ends and failures.

LEMMA EndKeeps ==
    ASSUME LegacyInv, NEW p \in Procs, Ends(p), UNCHANGED <<acts, queue, world>>
    PROVE  LegacyInv'
<1>1. Moves(p) /\ pc'[p] = "idle" /\ todo'[p] = <<>>
  BY EndsMoves DEF LegacyInv
<1>2. OwnOK(p)'
  BY <1>1 DEF OwnOK, ReceiverOK, WorkerOK, SignerOK, ReceiverPCs, WorkerPCs,
     SignerPCs, Deciding
<1> QED
  BY <1>1, <1>2, QuietStep

------------------------------------------------------------------------------
\* Receivers.

LEMMA PostKeeps ==
    ASSUME LegacyInv, NEW r \in Receivers, NEW tap \in Taps, Post(r, tap)
    PROVE  LegacyInv'
<1> DEFINE act == [did |-> "tap", this |-> tap]
<1>1. TypeOK /\ r \in Procs /\ r \notin Workers /\ r # Signer
  BY Handlers DEF LegacyInv
<1>2. Moves(r) /\ pc'[r] = "load" /\ todo'[r] = todo[r]
  BY <1>1, StaysMoves DEF Post, Stays, PCs
<1>3. /\ acts' = acts \/ acts' = Append(acts, act)
      /\ queue' = queue /\ contract' = contract /\ redefined' = redefined
      /\ grant' = grant /\ requests < MaxRequests /\ requests' = requests + 1
  BY DEF Post
<1>4. ActTypes' /\ Grows({})
  <2>1. CASE acts' = acts
    BY <1>1, <2>1, SameActs
  <2>2. CASE acts' = Append(acts, act)
    <3>1. act \in Act /\ act.did = "tap"
      BY DEF Act
    <3> HIDE DEF act
    <3>2. acts \in Seq(Act) /\ Len(acts) \in Nat /\ DOMAIN acts = 1..Len(acts)
      BY <1>1 DEF TypeOK
    <3>3. /\ acts' \in Seq(Act) /\ DOMAIN acts' = 1..(Len(acts) + 1)
          /\ acts'[Len(acts) + 1] = act
          /\ \A j \in 1..Len(acts) : acts'[j] = acts[j]
      BY <2>2, <3>1, <3>2
    <3>4. \A j \in 1..(Len(acts) + 1) : j \in 1..Len(acts) \/ j = Len(acts) + 1
      BY <3>2
    <3>5. ActTypes'
      BY <1>1, <3>1, <3>2, <3>3, <3>4 DEF ActTypes, TypeOK, IsTap
    <3>6. Grows({})
      BY <3>1, <3>2, <3>3, <3>4, Dids DEF Grows
    <3> QED
      BY <3>5, <3>6
  <2> QED
    BY <1>3, <2>1, <2>2
<1>5. WorldTypes' /\ SignedStays
  BY <1>1, <1>3, LegacyAssumption
    DEF LegacyAssumption, WorldTypes, TypeOK, SignedStays
<1>6. OwnOK(r)'
  <2>1. ReceiverOK(r)
    BY DEF LegacyInv
  <2> QED
    BY <1>1, <1>2, <1>4, <2>1 DEF OwnOK, ReceiverOK, ReceiverPCs, Grows
<1> QED
  BY <1>1, <1>2, <1>3, <1>4, <1>5, <1>6, ActStep

LEMMA LoadKeeps ==
    ASSUME LegacyInv, NEW r \in Receivers, LoadCatalog(r)
    PROVE  LegacyInv'
<1>1. TypeOK /\ r \in Procs /\ r \notin Workers /\ r # Signer /\ ReceiverOK(r)
  BY Handlers DEF LegacyInv
<1>2. Moves(r) /\ pc'[r] = "select" /\ todo'[r] = todo[r]
  BY <1>1 DEF LoadCatalog, GoesTo, Moves, LocalTypes, TypeOK, PCs
<1>3. UNCHANGED <<acts, queue, world>>
  BY DEF LoadCatalog
<1>4. OwnOK(r)'
  BY <1>1, <1>2, <1>3 DEF OwnOK, ReceiverOK, ReceiverPCs
<1> QED
  BY <1>1, <1>2, <1>3, <1>4, QuietStep

LEMMA SelectKeeps ==
    ASSUME LegacyInv, NEW r \in Receivers, SelectRows(r)
    PROVE  LegacyInv'
<1> DEFINE n == IF Len(acts) < Limit THEN Len(acts) ELSE Limit
           s == [k \in 1..n |-> k]
<1>1. TypeOK /\ r \in Procs /\ r \notin Workers /\ r # Signer
  BY Handlers DEF LegacyInv
<1>2. /\ Len(acts) \in Nat /\ DOMAIN acts = 1..Len(acts) /\ n \in Nat
      /\ 1..n \subseteq 1..Len(acts)
  BY <1>1, LegacyAssumption DEF LegacyAssumption, TypeOK
<1>3. /\ todo' = [todo EXCEPT ![r] = s] /\ pc' = [pc EXCEPT ![r] = "scan"]
      /\ catalog' = catalog /\ job' = job /\ receipt' = receipt
  BY DEF SelectRows, GoesTo
<1> HIDE DEF n
<1>4. s \in Seq(Nat) /\ Len(s) = n /\ \A k \in 1..n : s[k] = k
  BY <1>2
<1> HIDE DEF s
<1>5. Moves(r) /\ pc'[r] = "scan" /\ todo'[r] = s
  BY <1>1, <1>3, <1>4 DEF Moves, LocalTypes, TypeOK, PCs
<1>6. UNCHANGED <<acts, queue, world>>
  BY DEF SelectRows
<1>7. OwnOK(r)'
  BY <1>1, <1>2, <1>4, <1>5, <1>6 DEF OwnOK, ReceiverOK, ReceiverPCs
<1> QED
  BY <1>1, <1>5, <1>6, <1>7, QuietStep

\* A receiver goes on with what it has yet to look at.
LEMMA ReceiverGoesOn ==
    ASSUME LegacyInv, NEW r \in Receivers, todo[r] # <<>>,
           NEW K, Grows(K),
           \/ NextAct(r, "scan")
           \/ Stays(r, "announce") \/ Stays(r, "doubt")
    PROVE  /\ Moves(r) /\ OwnOK(r)' /\ r \in Procs
           /\ r \notin Workers /\ r # Signer
<1>1. TypeOK /\ r \in Procs /\ r \notin Workers /\ r # Signer /\ ReceiverOK(r)
  BY Handlers DEF LegacyInv
<1>2. CASE NextAct(r, "scan")
  <2>1. /\ Moves(r) /\ pc'[r] = "scan" /\ todo'[r] = Tail(todo[r])
        /\ \A j \in 1..Len(todo'[r]) :
               j + 1 \in 1..Len(todo[r]) /\ todo'[r][j] = todo[r][j + 1]
    BY <1>1, <1>2, NextActMoves DEF PCs
  <2>2. ReceiverOK(r)'
    BY <1>1, <2>1 DEF ReceiverOK, ReceiverPCs, Grows
  <2> QED
    BY <1>1, <2>1, <2>2 DEF OwnOK
<1>3. ASSUME NEW next \in {"announce", "doubt"}, Stays(r, next)
      PROVE  Moves(r) /\ OwnOK(r)'
  <2>1. Moves(r) /\ pc'[r] = next /\ todo'[r] = todo[r]
    BY <1>1, <1>3, StaysMoves DEF PCs, Stays
  <2>2. ReceiverOK(r)'
    BY <1>1, <2>1 DEF ReceiverOK, ReceiverPCs, Grows
  <2> QED
    BY <1>1, <2>1, <2>2 DEF OwnOK
<1> QED
  BY <1>1, <1>2, <1>3

LEMMA HeadIsAct ==
    ASSUME LegacyInv, NEW p \in Receivers \cup {Signer}, todo[p] # <<>>
    PROVE  /\ Head(todo[p]) \in DOMAIN acts
           /\ p = Signer => MayDispatch(Head(todo[p]))
<1>1. todo[p] \in Seq(Nat)
  BY Handlers DEF LegacyInv, TypeOK
<1>2. 1 \in 1..Len(todo[p]) /\ Head(todo[p]) = todo[p][1]
  BY <1>1
<1> QED
  BY <1>2 DEF LegacyInv, ReceiverOK, SignerOK

LEMMA QueueAddKeeps ==
    ASSUME LegacyInv, NEW r \in Receivers, QueueAdd(r)
    PROVE  LegacyInv'
<1> DEFINE row == [source |-> Head(todo[r]), status |-> "queued", result |-> 0]
           x == Len(queue) + 1
<1>1. TypeOK /\ todo[r] # <<>> /\ Grows({}) /\ UNCHANGED <<acts, world>>
  BY SameActs DEF LegacyInv, QueueAdd
<1>2. Head(todo[r]) \in DOMAIN acts
  BY <1>1, HeadIsAct
<1>3. CASE NextAct(r, "scan") /\ UNCHANGED queue
  <2>1. Moves(r) /\ OwnOK(r)' /\ r \in Procs /\ r \notin Workers
    BY <1>1, <1>3, ReceiverGoesOn
  <2> QED
    BY <1>1, <1>3, <2>1, QuietStep
<1>4. CASE /\ RowsOf(Head(todo[r])) = {} /\ queue' = Append(queue, row)
           /\ Stays(r, "announce")
  <2>1. /\ Moves(r) /\ OwnOK(r)' /\ r \in Procs /\ r \notin Workers
        /\ r # Signer
    BY <1>1, <1>4, ReceiverGoesOn
  <2>2. row \in Row
    BY <1>1, <1>2 DEF TypeOK, Row
  <2>3. queue \in Seq(Row) /\ Len(queue) \in Nat /\ DOMAIN queue = 1..Len(queue)
    BY <1>1 DEF TypeOK
  <2>4. row.source = Head(todo[r]) /\ row.status = "queued" /\ row.result = 0
    OBVIOUS
  <2> HIDE DEF row
  <2>5. /\ queue' \in Seq(Row) /\ DOMAIN queue' = 1..x /\ queue'[x] = row
        /\ \A n \in DOMAIN queue : n \in DOMAIN queue' /\ queue'[n] = queue[n]
        /\ \A n \in 1..x : n \in DOMAIN queue \/ n = x
        /\ x \notin DOMAIN queue /\ x \in 1..x
    BY <1>4, <2>2, <2>3
  <2>6. PICK k : k = Head(todo[r])
    OBVIOUS
  <2>7. Undone(k)'
    <3>1. Undone(k)
      BY <1>2, <1>4, <2>6 DEF LegacyInv, RowsOK
    <3> QED
      BY <1>1, <3>1, Kept
  <2> HIDE DEF x
  <2>8. PICK y : y = x
    OBVIOUS
  <2>9. RowOK(y)'
    BY <2>4, <2>5, <2>6, <2>7, <2>8 DEF RowOK
  <2>10. \A w \in Workers \ {r} : pc[w] # "idle" => job[w] # y
    BY <2>5, <2>8 DEF LegacyInv, WorkerOK
  <2> QED
    BY <1>1, <1>2, <1>4, <2>1, <2>4, <2>5, <2>8, <2>9, <2>10, QueueStep
<1> QED
  BY <1>3, <1>4 DEF QueueAdd

\* An Act that neither dispatches nor answers.
LEMMA LightAppend ==
    ASSUME LegacyInv, NEW p \in Receivers \cup {Signer}, todo[p] # <<>>,
           NEW did \in {"queued", "doubt"}, Appends(Head(todo[p]), did)
    PROVE  ActTypes' /\ Grows({})
<1>1. Head(todo[p]) \in DOMAIN acts /\ TypeOK
  BY HeadIsAct DEF LegacyInv
<1>2. did \in RuntimeDids /\ did \notin Weighty
  BY Dids
<1> QED
  BY <1>1, <1>2, AppendedAct

LEMMA AppendStep ==
    ASSUME LegacyInv, NEW p \in Receivers \cup {Signer}, todo[p] # <<>>,
           NEW did \in {"queued", "doubt"}, Appends(Head(todo[p]), did),
           UNCHANGED <<queue, world>>, Moves(p), OwnOK(p)'
    PROVE  LegacyInv'
<1>1. ActTypes' /\ Grows({}) /\ p \in Procs /\ p \notin Workers
  BY LightAppend, Handlers
<1>2. WorldTypes' /\ SignedStays
  BY DEF LegacyInv, TypeOK, WorldTypes, world, SignedStays
<1> QED
  BY <1>1, <1>2, ActStep

LEMMA AnnounceKeeps ==
    ASSUME LegacyInv, NEW r \in Receivers, AnnounceQueued(r) \/ RaiseDoubt(r)
    PROVE  LegacyInv'
<1>1. /\ todo[r] # <<>> /\ NextAct(r, "scan") /\ UNCHANGED <<queue, world>>
      /\ \E did \in {"queued", "doubt"} : Appends(Head(todo[r]), did)
  BY DEF AnnounceQueued, RaiseDoubt, LegacyInv, ReceiverOK
<1>2. PICK did \in {"queued", "doubt"} : Appends(Head(todo[r]), did)
  BY <1>1
<1>3. Grows({})
  BY <1>1, <1>2, LightAppend
<1>4. Moves(r) /\ OwnOK(r)'
  BY <1>1, <1>3, ReceiverGoesOn
<1> QED
  BY <1>1, <1>2, <1>4, AppendStep

LEMMA DoubtKeeps ==
    ASSUME LegacyInv, NEW r \in Receivers, LookForDoubt(r)
    PROVE  LegacyInv'
<1>1. /\ todo[r] # <<>> /\ UNCHANGED <<acts, queue, world>> /\ Grows({})
      /\ NextAct(r, "scan") \/ Stays(r, "doubt")
  BY SameActs DEF LookForDoubt, LegacyInv
<1>2. Moves(r) /\ OwnOK(r)' /\ r \in Procs /\ r \notin Workers
  BY <1>1, ReceiverGoesOn
<1> QED
  BY <1>1, <1>2, QuietStep

------------------------------------------------------------------------------
\* Executors.

LEMMA ClaimKeeps ==
    ASSUME LegacyInv, NEW w \in Workers, Claim(w)
    PROVE  LegacyInv'
<1>1. PICK n \in DOMAIN queue :
          /\ pc[w] = "idle" /\ Queued(n)
          /\ queue' = [queue EXCEPT ![n].status = "claimed"]
          /\ job' = [job EXCEPT ![w] = n]
          /\ GoesTo(w, "decide")
          /\ UNCHANGED <<acts, world, todo, catalog, receipt>>
  BY DEF Claim
<1>2. /\ TypeOK /\ w \in Procs /\ w # Signer /\ w \notin Receivers
      /\ queue \in Seq(Row) /\ n \in Nat /\ RowOK(n) /\ queue[n] \in Row
  BY Handlers DEF LegacyInv, TypeOK, RowsOK
<1>3. /\ queue' \in Seq(Row) /\ DOMAIN queue' = DOMAIN queue
      /\ queue'[n] = [queue[n] EXCEPT !.status = "claimed"]
      /\ \A m \in DOMAIN queue : m # n => queue'[m] = queue[m]
  <2>1. [queue[n] EXCEPT !.status = "claimed"] \in Row
    BY <1>2 DEF Row
  <2> QED
    BY <1>1, <1>2, <2>1
<1>4. /\ queue'[n].status = "claimed" /\ queue'[n].result = queue[n].result
      /\ queue'[n].source = queue[n].source
  BY <1>2, <1>3 DEF Row
<1>5. /\ Moves(w) /\ pc'[w] = "decide" /\ job'[w] = n
  BY <1>1, <1>2 DEF GoesTo, Moves, LocalTypes, TypeOK, PCs
<1>6. RowOK(n)'
  BY <1>1, <1>2, <1>4 DEF RowOK, Queued
<1>7. Undone(Source(w))'
  <2>1. PICK k : k = queue[n].source
    OBVIOUS
  <2>2. Undone(k)
    BY <1>1, <1>2, <2>1 DEF RowOK, Queued
  <2>3. Undone(k)'
    BY <1>1, <2>2 DEF Undone, Silent, Told
  <2> QED
    BY <1>4, <1>5, <2>1, <2>3 DEF Source
<1>8. OwnOK(w)'
  BY <1>2, <1>3, <1>4, <1>5, <1>7 DEF OwnOK, WorkerOK, WorkerPCs, Deciding
<1>9. \A v \in Workers \ {w} : pc[v] # "idle" => job[v] # n
  BY <1>1 DEF LegacyInv, WorkerOK, Queued
<1>10. queue[n].status \notin {"closed", "failed"}
  BY <1>1 DEF Queued
<1> QED
  BY <1>1, <1>2, <1>3, <1>4, <1>5, <1>6, <1>8, <1>9, <1>10, QueueStep

\* A worker at work.
LEMMA AtWork ==
    ASSUME LegacyInv, NEW w \in Workers, pc[w] # "idle"
    PROVE  /\ TypeOK /\ WorkerOK(w)
           /\ w \in Procs /\ w # Signer /\ w \notin Receivers
           /\ queue \in Seq(Row) /\ job[w] \in DOMAIN queue
           /\ queue[job[w]] \in Row /\ queue[job[w]].status = "claimed"
           /\ RowOK(job[w])
           /\ Source(w) \in DOMAIN acts /\ catalog[w] \in Contracts
           /\ receipt[w] \in [did : Results, at : Nat]
BY Handlers DEF LegacyInv, TypeOK, WorkerOK, Source, RowsOK

\* It decides, and the tables are as they were.
LEMMA DecidingKeeps ==
    ASSUME LegacyInv, NEW w \in Workers, pc[w] \in Deciding,
           UNCHANGED <<acts, queue, world, todo, job>>,
           catalog' \in [Procs -> Contracts],
           \/ \E next \in {"grant", "signoff", "dispatch"} :
                 /\ GoesTo(w, next) /\ UNCHANGED receipt
                 /\ AllDangerous => MayDispatch(Source(w))
                 /\ AllDangerous /\ next = "dispatch" => grant.signed
           \/ \E did \in {"refused", "unsigned"} : Declines(w, did)
    PROVE  LegacyInv'
<1>1. pc[w] # "idle"
  BY DEF Deciding
<1>2. TypeOK /\ WorkerOK(w) /\ w \in Procs /\ w # Signer /\ w \notin Receivers
      /\ job[w] \in DOMAIN queue /\ queue[job[w]].status = "claimed"
      /\ receipt[w] \in [did : Results, at : Nat]
  BY <1>1, AtWork
<1>3. PICK k : k = Source(w)
  OBVIOUS
<1>4. Source(w)' = k /\ Undone(k)' /\ (MayDispatch(k) <=> MayDispatch(k)')
  <2>1. Undone(k)
    BY <1>2, <1>3 DEF WorkerOK
  <2> QED
    BY <1>3, <2>1 DEF Source, Undone, Silent, Told, MayDispatch, IsTap
<1>5. ASSUME NEW next \in {"grant", "signoff", "dispatch"}, GoesTo(w, next),
             UNCHANGED receipt, AllDangerous => MayDispatch(Source(w)),
             AllDangerous /\ next = "dispatch" => grant.signed
      PROVE  LegacyInv'
  <2>1. Moves(w) /\ pc'[w] = next
    BY <1>2, <1>5 DEF GoesTo, Moves, LocalTypes, TypeOK, PCs
  <2>2. WorkerOK(w)'
    BY <1>2, <1>3, <1>4, <1>5, <2>1
      DEF WorkerOK, WorkerPCs, Deciding, AllDangerous, world
  <2> QED
    BY <1>1, <1>2, <2>1, <2>2, QuietStep DEF OwnOK
<1>6. ASSUME NEW did \in {"refused", "unsigned"}, Declines(w, did)
      PROVE  LegacyInv'
  <2>1. /\ [receipt[w] EXCEPT !.did = did] \in [did : Results, at : Nat]
        /\ [receipt[w] EXCEPT !.did = did].did = did
    BY <1>2, Dids
  <2>2. /\ receipt' \in [Workers -> [did : Results, at : Nat]]
        /\ receipt'[w].did = did
        /\ \A v \in Workers \ {w} : receipt'[v] = receipt[v]
    BY <1>2, <1>6, <2>1 DEF Declines, TypeOK
  <2>3. Moves(w) /\ pc'[w] = "refuse"
    BY <1>2, <1>6, <2>2 DEF Declines, GoesTo, Moves, LocalTypes, TypeOK, PCs
  <2>4. WorkerOK(w)'
    BY <1>2, <1>4, <2>2, <2>3 DEF WorkerOK, WorkerPCs, Deciding
  <2> QED
    BY <1>1, <1>2, <2>3, <2>4, QuietStep DEF OwnOK
<1> QED
  BY <1>5, <1>6

LEMMA DecideKeeps ==
    ASSUME LegacyInv, NEW w \in Workers,
           Decide(w) \/ CheckGrant(w) \/ CheckSignoff(w)
    PROVE  LegacyInv'
<1>1. pc[w] \in {"decide", "grant", "signoff"} /\ pc[w] # "idle"
      /\ UNCHANGED <<acts, queue, world, todo, job>>
  BY DEF Decide, CheckGrant, CheckSignoff
<1>2. /\ TypeOK /\ WorkerOK(w) /\ w \in Procs /\ contract \in Contracts
      /\ catalog' \in [Procs -> Contracts]
  BY <1>1, AtWork DEF TypeOK, Decide, CheckGrant, CheckSignoff
<1>3. ASSUME NEW c, ChecksAdapter(w, c),
             AllDangerous => MayDispatch(Source(w)) /\ grant.signed
      PROVE  LegacyInv'
  BY <1>1, <1>2, <1>3, DecidingKeeps DEF ChecksAdapter, Deciding
<1>4. CASE Decide(w)
  <2>1. Evaluates(Source(w), contract) =>
            /\ AllDangerous => contract.dangerous /\ MayDispatch(Source(w))
    BY <1>2 DEF Evaluates, AllDangerous, MayDispatch
  <2> QED
    BY <1>1, <1>2, <1>3, <1>4, <2>1, DecidingKeeps
      DEF Decide, NeedsGrant, Deciding
<1>5. CASE CheckGrant(w)
  BY <1>1, <1>2, <1>5, DecidingKeeps DEF CheckGrant, Deciding, WorkerOK
<1>6. CASE CheckSignoff(w)
  BY <1>1, <1>2, <1>3, <1>6, DecidingKeeps DEF CheckSignoff, Deciding, WorkerOK
<1> QED
  BY <1>4, <1>5, <1>6

\* What the Act that is appended changes of what is told about its source.
LEMMA AppendTells ==
    ASSUME LegacyInv, NEW k \in DOMAIN acts, NEW did \in RuntimeDids,
           Appends(k, did), NEW D
    PROVE  \A n : Told(n, k, D)' <=>
                      Told(n, k, D) \/ (n = Len(acts) + 1 /\ did \in D)
<1>1. TypeOK
  BY DEF LegacyInv
<1>2. PICK a : a = Len(acts) + 1
  OBVIOUS
<1>3. /\ Len(acts) \in Nat /\ DOMAIN acts = 1..Len(acts)
      /\ DOMAIN acts' = 1..(Len(acts) + 1)
      /\ acts'[a] = [did |-> did, this |-> k] /\ Grows({k})
  BY <1>1, <1>2, AppendedAct
<1>4. /\ a \in DOMAIN acts' /\ a \notin DOMAIN acts
      /\ acts'[a].did = did /\ acts'[a].this = k
      /\ \A n \in DOMAIN acts : n \in DOMAIN acts' /\ acts'[n] = acts[n]
      /\ \A n \in DOMAIN acts' : n \in DOMAIN acts \/ n = a
  BY <1>2, <1>3 DEF Grows
<1> HIDE DEF Appends
<1> QED
  BY <1>2, <1>4 DEF Told

\* A worker appends about its source.
LEMMA AnswerStep ==
    ASSUME LegacyInv, NEW w \in Workers, pc[w] # "idle",
           NEW did \in Weighty, Appends(Source(w), did), Moves(w),
           UNCHANGED <<queue, world>>, job'[w] = job[w],
           \A k : k = Source(w) => Once(k)',
           AllDangerous => \/ MayDispatch(Source(w)) /\ grant.signed
                           \/ did # "dispatching" /\
                              Silent(Source(w), {"dispatching"}),
           WorkerOK(w)'
    PROVE  LegacyInv'
<1>1. TypeOK /\ Source(w) \in DOMAIN acts /\ did \in RuntimeDids
      /\ w \in Procs /\ w # Signer /\ w \notin Receivers
  BY AtWork, Dids DEF Weighty
<1>2. PICK k : k = Source(w)
  OBVIOUS
<1>3. ActTypes' /\ Grows({k}) /\ WorldTypes' /\ SignedStays
  BY <1>1, <1>2, AppendedAct DEF TypeOK, WorldTypes, world, SignedStays
<1>4. did # "dispatching" /\ Silent(k, {"dispatching"}) =>
          Silent(k, {"dispatching"})'
  <2>1. \A n : Told(n, k, {"dispatching"})' <=>
                   \/ Told(n, k, {"dispatching"})
                   \/ n = Len(acts) + 1 /\ did \in {"dispatching"}
    BY <1>1, <1>2, AppendTells
  <2> QED
    BY <2>1 DEF Silent, Told
<1>5. Once(k)' /\ (\/ ~AllDangerous
                   \/ MayDispatch(k) /\ grant.signed
                   \/ Silent(k, {"dispatching"})')
  BY <1>2, <1>4
<1>6. OwnOK(w)'
  BY <1>1 DEF OwnOK
<1> QED
  BY <1>1, <1>2, <1>3, <1>5, <1>6, ActStep

\* What was appended last is the last result.
LEMMA NewestIsLast ==
    ASSUME TypeOK, NEW k, NEW a, a = Len(acts) + 1,
           \A n : Told(n, k, Results)' <=> Told(n, k, Results) \/ n = a
    PROVE  LastResult(a, k)'
<1>1. Len(acts) \in Nat /\ DOMAIN acts = 1..Len(acts)
  BY DEF TypeOK
<1>2. \A n : Told(n, k, Results) => n <= a
  BY <1>1 DEF Told
<1>3. a <= a
  BY <1>1
<1>4. \A n : Told(n, k, Results)' => n <= a
  BY <1>2, <1>3
<1> QED
  BY <1>4 DEF LastResult

LEMMA RefuseKeeps ==
    ASSUME LegacyInv, NEW w \in Workers, Refuse(w)
    PROVE  LegacyInv'
<1>0. PICK a : a = Len(acts) + 1
  OBVIOUS
<1>1. /\ pc[w] = "refuse" /\ pc[w] # "idle" /\ TypeOK /\ WorkerOK(w)
      /\ w \in Procs /\ Source(w) \in DOMAIN acts
      /\ job[w] \in DOMAIN queue /\ queue[job[w]].status = "claimed"
      /\ receipt[w] \in [did : Results, at : Nat]
      /\ Len(acts) \in Nat /\ DOMAIN acts = 1..Len(acts)
  BY AtWork DEF Refuse, TypeOK
<1>2. PICK did \in {"refused", "unsigned"}, k \in DOMAIN acts :
          did = receipt[w].did /\ k = Source(w)
  BY <1>1 DEF WorkerOK
<1>3. /\ Appends(k, did) /\ did \in RuntimeDids /\ did \in Weighty
      /\ did \in Results /\ did \notin Outcomes /\ did # "dispatching"
      /\ UNCHANGED <<queue, world, todo, catalog, job>>
  BY <1>2, Dids DEF Refuse, Outcomes
<1>4. /\ receipt' \in [Workers -> [did : Results, at : Nat]]
      /\ receipt'[w].at = a
      /\ \A v \in Workers \ {w} : receipt'[v] = receipt[v]
  <2>1. receipt' = [receipt EXCEPT ![w] = [receipt[w] EXCEPT !.at = a]]
    BY <1>0, <1>1 DEF Refuse, TypeOK
  <2>2. /\ [receipt[w] EXCEPT !.at = a] \in [did : Results, at : Nat]
        /\ [receipt[w] EXCEPT !.at = a].at = a
    BY <1>0, <1>1
  <2> QED
    BY <1>1, <2>1, <2>2 DEF TypeOK
<1>5. Moves(w) /\ pc'[w] = "close"
  BY <1>1, <1>3, <1>4 DEF Refuse, GoesTo, Moves, LocalTypes, TypeOK, PCs
<1>6. \A n : /\ Told(n, k, Outcomes)' <=> Told(n, k, Outcomes)
             /\ Told(n, k, {"dispatching"})' <=> Told(n, k, {"dispatching"})
             /\ Told(n, k, Results)' <=> Told(n, k, Results) \/ n = a
  BY <1>0, <1>3, AppendTells
<1>7. Undone(k)'
  BY <1>1, <1>2, <1>6 DEF WorkerOK, Deciding, Undone, Silent, Told
<1>8. Once(k)' /\ Silent(k, {"dispatching"})
  <2>1. Silent(k, {"dispatching"})
    BY <1>1, <1>2 DEF WorkerOK, Deciding, Undone
  <2> QED
    BY <1>7, <2>1 DEF Once, Undone, Silent
<1>9. LastResult(a, k)'
  BY <1>0, <1>1, <1>3, <1>6, NewestIsLast
<1>10. Source(w)' = k
  BY <1>2, <1>3 DEF Source
<1>11. WorkerOK(w)'
  BY <1>1, <1>3, <1>4, <1>5, <1>7, <1>9, <1>10 DEF WorkerOK, WorkerPCs, Deciding
<1> QED
  BY <1>1, <1>2, <1>3, <1>5, <1>8, <1>11, AnswerStep

LEMMA DispatchKeeps ==
    ASSUME LegacyInv, NEW w \in Workers, Dispatch(w)
    PROVE  LegacyInv'
<1>1. /\ pc[w] = "dispatch" /\ pc[w] # "idle" /\ TypeOK /\ WorkerOK(w)
      /\ w \in Procs /\ Source(w) \in DOMAIN acts
      /\ job[w] \in DOMAIN queue /\ queue[job[w]].status = "claimed"
      /\ receipt[w] \in [did : Results, at : Nat]
      /\ Len(acts) \in Nat /\ DOMAIN acts = 1..Len(acts)
  BY AtWork DEF Dispatch, TypeOK
<1>2. PICK k \in DOMAIN acts : k = Source(w)
  BY <1>1
<1>3. /\ Appends(k, "dispatching") /\ "dispatching" \in RuntimeDids
      /\ "dispatching" \in Weighty /\ "dispatching" \notin Outcomes
      /\ UNCHANGED <<queue, world, todo, catalog, job>>
  BY <1>2, Dids DEF Dispatch, Outcomes, Weighty
<1>4. /\ receipt' \in [Workers -> [did : Results, at : Nat]]
      /\ receipt'[w].did \in Outcomes
      /\ \A v \in Workers \ {w} : receipt'[v] = receipt[v]
  <2>1. PICK out \in Outcomes :
            receipt' = [receipt EXCEPT ![w].did = out]
    BY Dids DEF Dispatch
  <2>2. /\ [receipt[w] EXCEPT !.did = out] \in [did : Results, at : Nat]
        /\ [receipt[w] EXCEPT !.did = out].did = out
    BY <1>1, Dids
  <2> QED
    BY <1>1, <2>1, <2>2 DEF TypeOK
<1>5. Moves(w) /\ pc'[w] = "result"
  BY <1>1, <1>3, <1>4 DEF Dispatch, GoesTo, Moves, LocalTypes, TypeOK, PCs
<1>6. \A n : /\ Told(n, k, Outcomes)' <=> Told(n, k, Outcomes)
             /\ Told(n, k, {"dispatching"})' <=>
                    Told(n, k, {"dispatching"}) \/ n = Len(acts) + 1
  BY <1>3, AppendTells
<1>7. Silent(k, {"dispatching"}) /\ Silent(k, Outcomes)
  BY <1>1, <1>2 DEF WorkerOK, Deciding, Undone
<1>8. Silent(k, Outcomes)' /\ ~Silent(k, {"dispatching"})' /\ Once(k)'
  BY <1>6, <1>7 DEF Silent, Told, Once
<1>9. Source(w)' = k
  BY <1>2, <1>3 DEF Source
<1>10. WorkerOK(w)'
  BY <1>1, <1>3, <1>4, <1>5, <1>8, <1>9 DEF WorkerOK, WorkerPCs, Deciding
<1>11. AllDangerous => MayDispatch(k) /\ grant.signed
  BY <1>1, <1>2 DEF WorkerOK
<1> QED
  BY <1>1, <1>2, <1>3, <1>5, <1>8, <1>10, <1>11, AnswerStep

\* The outcome of a dispatch is its only one, and follows it.
LEMMA OutcomeAppended ==
    ASSUME LegacyInv, NEW w \in Workers, pc[w] = "result",
           Appends(Source(w), receipt[w].did), NEW k, k = Source(w),
           NEW a, a = Len(acts) + 1
    PROVE  /\ Once(k)' /\ LastResult(a, k)' /\ acts'[a].did = receipt[w].did
           /\ receipt[w].did \in Outcomes
           /\ AllDangerous => MayDispatch(k) /\ grant.signed
<1>1. /\ pc[w] # "idle" /\ TypeOK /\ WorkerOK(w) /\ k \in DOMAIN acts
      /\ Len(acts) \in Nat /\ DOMAIN acts = 1..Len(acts)
  BY AtWork DEF TypeOK
<1>2. /\ receipt[w].did \in Outcomes /\ Silent(k, Outcomes)
      /\ ~Silent(k, {"dispatching"})
  BY <1>1 DEF WorkerOK
<1>3. PICK did \in Outcomes : did = receipt[w].did
  BY <1>2
<1>4. /\ did \in Results /\ did \in RuntimeDids /\ did # "dispatching"
      /\ Appends(k, did)
  BY <1>3, Dids DEF Outcomes
<1>5. \A n : /\ Told(n, k, Outcomes)' <=> Told(n, k, Outcomes) \/ n = a
             /\ Told(n, k, {"dispatching"})' <=> Told(n, k, {"dispatching"})
             /\ Told(n, k, Results)' <=> Told(n, k, Results) \/ n = a
  BY <1>1, <1>4, AppendTells
<1>6. LastResult(a, k)'
  BY <1>1, <1>5, NewestIsLast
<1>7. PICK m \in DOMAIN acts : Told(m, k, {"dispatching"})
  BY <1>2 DEF Silent
<1>8. Once(k)'
  <2>1. Once(k) /\ m < a
    BY <1>1, <1>7 DEF LegacyInv, ActsOK
  <2>2. \A n : Told(n, k, Outcomes)' => n = a
    BY <1>2, <1>5 DEF Silent, Told
  <2>3. \A n : Told(n, k, {"dispatching"})' => n = m
    BY <1>5, <1>7, <2>1 DEF Once, Told
  <2>4. m \in DOMAIN acts' /\ Told(m, k, {"dispatching"})'
    BY <1>5, <1>7 DEF Told
  <2> QED
    BY <2>1, <2>2, <2>3, <2>4 DEF Once
<1>9. acts'[a].did = did
  <2>1. acts'[Len(acts) + 1] = [did |-> did, this |-> k]
    BY <1>1, <1>4, AppendedAct
  <2> QED
    BY <2>1
<1>10. AllDangerous => MayDispatch(k) /\ grant.signed
  BY <1>1, <1>7 DEF LegacyInv, ActsOK
<1> QED
  BY <1>3, <1>6, <1>8, <1>9, <1>10

LEMMA AppendResultKeeps ==
    ASSUME LegacyInv, NEW w \in Workers, AppendResult(w)
    PROVE  LegacyInv'
<1>0. PICK a : a = Len(acts) + 1
  OBVIOUS
<1>1. /\ pc[w] = "result" /\ pc[w] # "idle" /\ TypeOK /\ WorkerOK(w)
      /\ w \in Procs /\ Source(w) \in DOMAIN acts
      /\ job[w] \in DOMAIN queue /\ queue[job[w]].status = "claimed"
      /\ receipt[w] \in [did : Results, at : Nat] /\ a \in Nat
  BY <1>0, AtWork DEF AppendResult, TypeOK
<1>2. PICK k \in DOMAIN acts : k = Source(w)
  BY <1>1
<1>3. /\ Appends(k, receipt[w].did)
      /\ UNCHANGED <<queue, world, todo, catalog, job>>
  BY <1>2 DEF AppendResult
<1>4. /\ receipt' \in [Workers -> [did : Results, at : Nat]]
      /\ receipt'[w].at = a
      /\ \A v \in Workers \ {w} : receipt'[v] = receipt[v]
  <2>1. receipt' = [receipt EXCEPT ![w] = [receipt[w] EXCEPT !.at = a]]
    BY <1>0, <1>1 DEF AppendResult, TypeOK
  <2>2. /\ [receipt[w] EXCEPT !.at = a] \in [did : Results, at : Nat]
        /\ [receipt[w] EXCEPT !.at = a].at = a
    BY <1>1
  <2> QED
    BY <1>1, <2>1, <2>2 DEF TypeOK
<1>5. Moves(w) /\ pc'[w] = "close"
  BY <1>1, <1>3, <1>4
    DEF AppendResult, GoesTo, Moves, LocalTypes, TypeOK, PCs
<1>6. /\ Once(k)' /\ LastResult(a, k)' /\ acts'[a].did = receipt[w].did
      /\ receipt[w].did \in Outcomes
      /\ AllDangerous => MayDispatch(k) /\ grant.signed
  BY <1>0, <1>1, <1>2, <1>3, OutcomeAppended
<1>7. Source(w)' = k /\ acts'[a].did # "unsigned"
  BY <1>2, <1>3, <1>6, Dids DEF Source
<1>8. WorkerOK(w)'
  BY <1>1, <1>3, <1>4, <1>5, <1>6, <1>7 DEF WorkerOK, WorkerPCs, Deciding
<1> QED
  BY <1>1, <1>2, <1>3, <1>5, <1>6, <1>8, Dids, AnswerStep

\* The row of a worker whose query failed is still its own.
LEMMA QueryFailsKeeps ==
    ASSUME LegacyInv, NEW w \in Workers, QueryFails(w)
    PROVE  LegacyInv'
<1>1. pc[w] # "idle" /\ UNCHANGED <<queue, world, todo, catalog, job, receipt>>
  BY DEF QueryFails, Awaited
<1>2. /\ TypeOK /\ WorkerOK(w) /\ w \in Procs /\ w # Signer
      /\ w \notin Receivers /\ Source(w) \in DOMAIN acts
      /\ job[w] \in DOMAIN queue /\ queue[job[w]].status = "claimed"
  BY <1>1, AtWork
<1>3. Moves(w) /\ pc'[w] = "fail"
  BY <1>1, <1>2 DEF QueryFails, GoesTo, Moves, LocalTypes, TypeOK, PCs
<1>4. WorkerOK(w)'
  BY <1>1, <1>2, <1>3 DEF WorkerOK, WorkerPCs, Deciding
<1>5. CASE UNCHANGED acts
  BY <1>1, <1>2, <1>3, <1>4, <1>5, QuietStep DEF OwnOK
<1>6. CASE pc[w] = "result" /\ Appends(Source(w), receipt[w].did)
  <2>1. PICK k, a : k = Source(w) /\ a = Len(acts) + 1
    OBVIOUS
  <2>2. /\ Once(k)' /\ receipt[w].did \in Outcomes
        /\ AllDangerous => MayDispatch(k) /\ grant.signed
    BY <1>6, <2>1, OutcomeAppended
  <2> QED
    BY <1>1, <1>3, <1>4, <1>6, <2>1, <2>2, Dids, AnswerStep
<1> QED
  BY <1>5, <1>6 DEF QueryFails

\* A worker writes its row and is over.
LEMMA EndsRowKeeps ==
    ASSUME LegacyInv, NEW w \in Workers, pc[w] \in {"close", "fail"},
           NEW x, x = job[w], NEW row \in Row, row.source = queue[x].source,
           queue' = [queue EXCEPT ![x] = row], Ends(w),
           UNCHANGED <<acts, world>>,
           row.status \in {"closed", "failed"},
           row.status = "closed" =>
               /\ LastResult(row.result, Source(w))
               /\ acts[row.result].did = "unsigned" => Undone(Source(w)),
           row.status = "failed" => row.result = 0
    PROVE  LegacyInv'
<1>1. /\ pc[w] # "idle" /\ TypeOK /\ WorkerOK(w) /\ w \in Procs /\ w # Signer
      /\ w \notin Receivers /\ queue \in Seq(Row) /\ x \in DOMAIN queue
      /\ queue[x].status = "claimed"
  BY AtWork
<1>2. /\ Moves(w) /\ pc'[w] = "idle"
  BY <1>1, EndsMoves
<1>3. /\ queue' \in Seq(Row) /\ DOMAIN queue' = DOMAIN queue /\ queue'[x] = row
      /\ \A n \in DOMAIN queue : n # x => queue'[n] = queue[n]
  BY <1>1
<1>4. PICK k : k = Source(w)
  OBVIOUS
<1>5. RowOK(x)'
  <2>1. row.source = k
    BY <1>4 DEF Source
  <2>2. row.status = "closed" =>
            /\ LastResult(row.result, k)'
            /\ acts'[row.result].did = "unsigned" => Undone(k)'
    BY <1>4 DEF LastResult, Undone, Silent, Told
  <2> QED
    BY <1>3, <2>1, <2>2 DEF RowOK
<1>6. \A v \in Workers \ {w} : pc[v] # "idle" => job[v] # x
  BY <1>1 DEF LegacyInv, Alone
<1>7. OwnOK(w)'
  BY <1>1, <1>2 DEF OwnOK, WorkerOK, WorkerPCs, Deciding
<1> QED
  BY <1>1, <1>2, <1>3, <1>5, <1>6, <1>7, QueueStep

LEMMA CloseKeeps ==
    ASSUME LegacyInv, NEW w \in Workers, CloseQueue(w) \/ FailQueue(w)
    PROVE  LegacyInv'
<1>1. /\ pc[w] \in {"close", "fail"} /\ pc[w] # "idle" /\ Ends(w)
      /\ UNCHANGED <<acts, world>>
  BY DEF CloseQueue, FailQueue
<1>2. PICK x, old : x = job[w] /\ old = queue[x]
  OBVIOUS
<1>3. /\ queue \in Seq(Row) /\ x \in DOMAIN queue /\ old \in Row
      /\ old.status = "claimed" /\ RowOK(x) /\ WorkerOK(w)
      /\ receipt[w] \in [did : Results, at : Nat]
  BY <1>1, <1>2, AtWork
<1>4. CASE CloseQueue(w)
  <2>1. PICK at \in Nat : at = receipt[w].at
    BY <1>3
  <2>2. queue' = [queue EXCEPT ![x] = [source |-> old.source,
                                       status |-> "closed", result |-> at]]
    <3> DEFINE shut(n) == [source |-> old.source, status |-> "closed",
                           result |-> n]
    <3>1. PICK half : half = [queue EXCEPT ![x] = [old EXCEPT !.status = "closed"]]
      OBVIOUS
    <3>2. [old EXCEPT !.status = "closed"] = shut(old.result)
      <4>1. old = [source |-> old.source, status |-> old.status,
                   result |-> old.result]
        BY <1>3 DEF Row
      <4>2. PICK s, t, r : old = [source |-> s, status |-> t, result |-> r]
        BY <4>1
      <4> QED
        BY <4>2
    <3>3. queue' = [half EXCEPT ![x] = [half[x] EXCEPT !.result = at]]
      BY <1>2, <1>3, <1>4, <2>1, <3>1 DEF CloseQueue
    <3>4. DOMAIN half = DOMAIN queue /\ half[x] = shut(old.result)
      BY <1>3, <3>1, <3>2
    <3>5. [shut(old.result) EXCEPT !.result = at] = shut(at)
      OBVIOUS
    <3> HIDE DEF shut
    <3>6. queue' = [half EXCEPT ![x] = shut(at)]
      BY <3>3, <3>4, <3>5
    <3>7. [half EXCEPT ![x] = shut(at)] = [queue EXCEPT ![x] = shut(at)]
      BY <1>3, <3>1
    <3> QED
      BY <3>6, <3>7 DEF shut
  <2>3. /\ LastResult(at, Source(w))
        /\ acts[at].did = "unsigned" => Undone(Source(w))
    BY <1>3, <1>4, <2>1 DEF WorkerOK, CloseQueue
  <2>4. [source |-> old.source, status |-> "closed", result |-> at] \in Row
    BY <1>3, <2>1 DEF Row
  <2> QED
    BY <1>1, <1>2, <2>2, <2>3, <2>4, EndsRowKeeps
<1>5. CASE FailQueue(w)
  <2>1. queue' = [queue EXCEPT ![x] = [old EXCEPT !.status = "failed"]]
    BY <1>2, <1>3, <1>5 DEF FailQueue
  <2>2. PICK row : row = [old EXCEPT !.status = "failed"]
    OBVIOUS
  <2>3. /\ row \in Row /\ row.status = "failed" /\ row.source = old.source
        /\ row.result = old.result
    BY <1>3, <2>2 DEF Row
  <2>4. row.result = 0
    BY <1>2, <1>3, <2>3 DEF RowOK
  <2> QED
    BY <1>1, <1>2, <2>1, <2>2, <2>3, <2>4, EndsRowKeeps
<1> QED
  BY <1>4, <1>5

------------------------------------------------------------------------------
\* The grant, the contract and the signer.

LEMMA SignKeeps ==
    ASSUME LegacyInv, SignGrant
    PROVE  LegacyInv'
<1>1. TypeOK /\ SignerOK /\ Signer \in Procs /\ Signer \notin Workers
      /\ Signer \notin Receivers
  BY Handlers DEF LegacyInv
<1>2. Moves(Signer) /\ pc'[Signer] = "sources" /\ todo'[Signer] = todo[Signer]
  BY <1>1, StaysMoves DEF SignGrant, Stays, PCs
<1>3. /\ UNCHANGED <<acts, queue, requests, contract, redefined>>
      /\ grant' \in [signed : BOOLEAN, void : BOOLEAN] /\ grant'.signed
  BY <1>1 DEF SignGrant, TypeOK
<1>4. ActTypes' /\ Grows({}) /\ WorldTypes' /\ SignedStays
  BY <1>1, <1>3, SameActs DEF WorldTypes, TypeOK, SignedStays
<1>5. OwnOK(Signer)'
  BY <1>1, <1>2, <1>3
    DEF OwnOK, SignerOK, SignerPCs, MayDispatch, IsTap
<1> QED
  BY <1>1, <1>2, <1>3, <1>4, <1>5, ActStep

\* What moves no handler.
LEMMA WorldKeeps ==
    ASSUME LegacyInv, VoidGrant \/ \E c \in Contracts : Redefine(c)
    PROVE  LegacyInv'
<1>1. TypeOK /\ Signer \in Procs /\ Signer \notin Workers
      /\ Signer \notin Receivers
  BY Handlers DEF LegacyInv
<1>2. UNCHANGED <<acts, queue, requests, pc, todo, catalog, job, receipt>>
  BY DEF VoidGrant, Redefine
<1>3. Moves(Signer)
  BY <1>1, <1>2 DEF Moves, LocalTypes, TypeOK
<1>4. WorldTypes' /\ SignedStays
  <2>1. CASE VoidGrant
    BY <1>1, <2>1 DEF VoidGrant, WorldTypes, TypeOK, SignedStays
  <2>2. CASE \E c \in Contracts : Redefine(c)
    BY <1>1, <2>2, LegacyAssumption
      DEF LegacyAssumption, Redefine, WorldTypes, TypeOK, SignedStays
  <2> QED
    BY <2>1, <2>2
<1>5. ActTypes' /\ Grows({})
  BY <1>1, <1>2, SameActs
<1>6. OwnOK(Signer)'
  BY <1>1, <1>2, <1>4, <1>5, SignerStays DEF OwnOK
<1> QED
  BY <1>1, <1>2, <1>3, <1>4, <1>5, <1>6, ActStep

LEMMA SourcesKeeps ==
    ASSUME LegacyInv, ResumeSources
    PROVE  LegacyInv'
<1>1. /\ TypeOK /\ SignerOK /\ Signer \in Procs /\ Signer \notin Workers
      /\ Signer \notin Receivers /\ pc[Signer] = "sources"
      /\ UNCHANGED <<acts, queue, world>>
  BY Handlers DEF LegacyInv, ResumeSources
<1>2. PICK sources : sources =
          {k \in DOMAIN acts : IsTap(k) /\ acts[k].this \in Citing}
  OBVIOUS
<1>3. PICK s \in [1..Cardinality(sources) -> sources] :
          todo' = [todo EXCEPT ![Signer] = s]
  BY <1>2 DEF ResumeSources
<1>4. DOMAIN acts = 1..Len(acts) /\ Len(acts) \in Nat
  BY <1>1 DEF TypeOK
<1>5. Cardinality(sources) \in Nat
  <2>1. IsFiniteSet(1..Len(acts)) /\ sources \subseteq 1..Len(acts)
    BY <1>2, <1>4, FS_Interval
  <2>2. IsFiniteSet(sources)
    BY <2>1, FS_Subset
  <2> QED
    BY <2>2, FS_CardinalityType
<1>6. \A j \in 1..Cardinality(sources) :
          s[j] \in Nat /\ s[j] \in DOMAIN acts /\ MayDispatch(s[j])
  BY <1>2, <1>3, <1>4 DEF MayDispatch
<1>7. s \in Seq(Nat) /\ Len(s) = Cardinality(sources)
  BY <1>3, <1>5, <1>6
<1>8. Moves(Signer) /\ pc'[Signer] = "rows" /\ todo'[Signer] = s
  BY <1>1, <1>3, <1>7
    DEF ResumeSources, GoesTo, Moves, LocalTypes, TypeOK, PCs
<1>9. OwnOK(Signer)'
  BY <1>1, <1>6, <1>7, <1>8
    DEF OwnOK, SignerOK, SignerPCs, MayDispatch, IsTap, world
<1> QED
  BY <1>1, <1>8, <1>9, QuietStep

\* The signer goes on with what it has yet to look at.
LEMMA SignerGoesOn ==
    ASSUME LegacyInv, todo[Signer] # <<>>, pc[Signer] # "idle",
           NEW K, Grows(K), UNCHANGED world,
           NextAct(Signer, "rows") \/ Stays(Signer, "announce")
    PROVE  /\ Moves(Signer) /\ OwnOK(Signer)' /\ Signer \in Procs
           /\ Signer \notin Workers /\ Signer \notin Receivers
<1>1. /\ TypeOK /\ SignerOK /\ Signer \in Procs /\ Signer \notin Workers
      /\ Signer \notin Receivers
  BY Handlers DEF LegacyInv
<1>2. ASSUME NEW k \in DOMAIN acts, MayDispatch(k)
      PROVE  k \in DOMAIN acts' /\ MayDispatch(k)'
  BY <1>2 DEF MayDispatch, IsTap, Grows
<1>3. CASE NextAct(Signer, "rows")
  <2>1. /\ Moves(Signer) /\ pc'[Signer] = "rows"
        /\ \A j \in 1..Len(todo'[Signer]) :
               /\ j + 1 \in 1..Len(todo[Signer])
               /\ todo'[Signer][j] = todo[Signer][j + 1]
    BY <1>1, <1>3, NextActMoves DEF PCs
  <2>2. SignerOK'
    BY <1>1, <1>2, <2>1 DEF SignerOK, SignerPCs, world
  <2> QED
    BY <1>1, <2>1, <2>2 DEF OwnOK
<1>4. CASE Stays(Signer, "announce")
  <2>1. /\ Moves(Signer) /\ pc'[Signer] = "announce"
        /\ todo'[Signer] = todo[Signer]
    BY <1>1, <1>4, StaysMoves DEF PCs, Stays
  <2>2. SignerOK'
    BY <1>1, <1>2, <2>1 DEF SignerOK, SignerPCs, world
  <2> QED
    BY <1>1, <2>1, <2>2 DEF OwnOK
<1> QED
  BY <1>3, <1>4

LEMMA ResumeRowKeeps ==
    ASSUME LegacyInv, ResumeRow
    PROVE  LegacyInv'
<1>1. /\ todo[Signer] # <<>> /\ pc[Signer] # "idle" /\ TypeOK /\ SignerOK
      /\ UNCHANGED <<acts, queue, world>> /\ Grows({})
      /\ Signer \in Procs /\ Signer \notin Workers /\ Signer \notin Receivers
  BY SameActs, Handlers DEF ResumeRow, LegacyInv
<1>2. CASE NextAct(Signer, "rows")
  BY <1>1, <1>2, SignerGoesOn, QuietStep
<1>3. CASE /\ \E n \in RowsOf(Head(todo[Signer])) : StoppedUnsigned(queue[n])
           /\ Stays(Signer, "requeue")
  <2>1. /\ Moves(Signer) /\ pc'[Signer] = "requeue"
        /\ todo'[Signer] = todo[Signer]
    BY <1>1, <1>3, StaysMoves DEF PCs, Stays
  <2>2. PICK n \in DOMAIN queue : /\ queue[n].source = Head(todo[Signer])
                                  /\ StoppedUnsigned(queue[n])
    BY <1>3 DEF RowsOf
  <2>3. /\ n \in DOMAIN queue' /\ queue'[n].source = Head(todo'[Signer])
        /\ StoppedUnsigned(queue[n])' /\ queue'[n] = queue[n]
    BY <1>1, <2>1, <2>2 DEF StoppedUnsigned
  <2>4. SignerOK'
    BY <1>1, <2>1, <2>3 DEF SignerOK, SignerPCs, MayDispatch, IsTap, world
  <2> QED
    BY <1>1, <2>1, <2>4, QuietStep DEF OwnOK
<1> QED
  BY <1>2, <1>3 DEF ResumeRow

LEMMA RequeueKeeps ==
    ASSUME LegacyInv, Requeue
    PROVE  LegacyInv'
<1>1. /\ todo[Signer] # <<>> /\ pc[Signer] = "requeue" /\ pc[Signer] # "idle"
      /\ TypeOK /\ SignerOK /\ RowsOK /\ Grows({}) /\ UNCHANGED <<acts, world>>
      /\ queue \in Seq(Row)
  BY SameActs DEF Requeue, LegacyInv, SignerOK, TypeOK
<1>2. PICK n \in DOMAIN queue :
          /\ queue[n].source = Head(todo[Signer])
          /\ \/ /\ queue[n].status \in {"closed", "failed"}
                /\ queue' = [queue EXCEPT ![n].status = "queued",
                                          ![n].result = 0]
                /\ Stays(Signer, "announce")
             \/ NextAct(Signer, "rows") /\ UNCHANGED queue
  BY <1>1 DEF Requeue, RowsOf
<1>3. CASE NextAct(Signer, "rows") /\ UNCHANGED queue
  BY <1>1, <1>3, SignerGoesOn, QuietStep
<1>4. CASE /\ queue[n].status \in {"closed", "failed"}
           /\ queue' = [queue EXCEPT ![n].status = "queued", ![n].result = 0]
           /\ Stays(Signer, "announce")
  <2>1. /\ Moves(Signer) /\ OwnOK(Signer)' /\ Signer \in Procs
        /\ Signer \notin Workers
    BY <1>1, <1>4, SignerGoesOn
  <2>2. PICK k : k = queue[n].source
    OBVIOUS
  <2>3. Undone(k)
    <3>1. StoppedUnsigned(queue[n])
      BY <1>1, <1>2 DEF SignerOK, RowsOK
    <3> QED
      BY <1>1, <2>2, <3>1 DEF RowsOK, RowOK, StoppedUnsigned
  <2>4. Undone(k)'
    BY <1>1, <2>3, Kept
  <2>5. /\ queue' \in Seq(Row) /\ DOMAIN queue' = DOMAIN queue
        /\ queue'[n].source = k /\ queue'[n].status = "queued"
        /\ queue'[n].result = 0
        /\ \A m \in DOMAIN queue : m # n => queue'[m] = queue[m]
    <3>1. PICK old \in Row : old = queue[n] /\ old.source = k
      BY <1>1, <2>2
    <3>2. PICK row : row = [old EXCEPT !.status = "queued"]
      OBVIOUS
    <3>3. row \in Row /\ row.source = k /\ row.status = "queued"
      BY <3>1, <3>2 DEF Row
    <3>4. PICK half : half = [queue EXCEPT ![n] = row]
      OBVIOUS
    <3>5. /\ half \in Seq(Row) /\ DOMAIN half = DOMAIN queue /\ half[n] = row
          /\ \A m \in DOMAIN queue : m # n => half[m] = queue[m]
      BY <1>1, <3>3, <3>4
    <3>6. PICK last : last = [row EXCEPT !.result = 0]
      OBVIOUS
    <3>7. /\ last \in Row /\ last.source = k /\ last.status = "queued"
          /\ last.result = 0
      BY <3>3, <3>6 DEF Row
    <3>8. queue' = [half EXCEPT ![n] = last]
      <4>1. queue' = [half EXCEPT ![n] = [half[n] EXCEPT !.result = 0]]
        BY <1>4, <3>1, <3>2, <3>4
      <4> QED
        BY <3>5, <3>6, <4>1
    <3> QED
      BY <3>5, <3>7, <3>8
  <2>6. RowOK(n)'
    BY <2>4, <2>5 DEF RowOK
  <2>7. \A w \in Workers : pc[w] # "idle" => job[w] # n
    BY <1>4 DEF LegacyInv, WorkerOK
  <2> QED
    BY <1>1, <2>1, <2>2, <2>5, <2>6, <2>7, QueueStep
<1> QED
  BY <1>2, <1>3, <1>4

LEMMA AnnounceResumedKeeps ==
    ASSUME LegacyInv, AnnounceResumed
    PROVE  LegacyInv'
<1>1. /\ todo[Signer] # <<>> /\ pc[Signer] # "idle" /\ NextAct(Signer, "rows")
      /\ UNCHANGED <<queue, world>> /\ Appends(Head(todo[Signer]), "queued")
  BY DEF AnnounceResumed, LegacyInv, SignerOK
<1>2. Grows({})
  BY <1>1, LightAppend
<1>3. Moves(Signer) /\ OwnOK(Signer)'
  BY <1>1, <1>2, SignerGoesOn
<1> QED
  BY <1>1, <1>3, AppendStep

------------------------------------------------------------------------------
\* The specification.

LEMMA InitHolds == Init => LegacyInv
<1> SUFFICES ASSUME Init PROVE LegacyInv
  OBVIOUS
<1>1. /\ acts = <<>> /\ queue = <<>> /\ DOMAIN acts = {} /\ DOMAIN queue = {}
      /\ acts \in Seq(Act) /\ queue \in Seq(Row)
  BY EmptySeq DEF Init
<1>2. NoReceipt \in [did : Results, at : Nat] /\ "idle" \in PCs
  BY DEF NoReceipt, Results, PCs
<1>3. /\ requests \in 0..MaxRequests /\ redefined \in 0..MaxRedefined
      /\ contract \in Contracts /\ grant \in [signed : BOOLEAN, void : BOOLEAN]
  BY LegacyAssumption DEF LegacyAssumption, Init
<1>4. /\ pc \in [Procs -> PCs] /\ todo \in [Procs -> Seq(Nat)]
      /\ catalog \in [Procs -> Contracts] /\ job \in [Workers -> Nat]
      /\ receipt \in [Workers -> [did : Results, at : Nat]]
      /\ \A p \in Procs : pc[p] = "idle" /\ todo[p] = <<>>
  BY <1>2, EmptySeq, Handlers DEF Init
<1>5. TypeOK
  BY <1>1, <1>3, <1>4 DEF TypeOK
<1>6. ActsOK /\ RowsOK
  BY <1>1 DEF ActsOK, RowsOK
<1>7. ASSUME NEW w \in Workers PROVE WorkerOK(w)
  BY <1>4, Handlers DEF WorkerOK, WorkerPCs, Deciding
<1>8. Alone
  BY <1>4, Handlers DEF Alone
<1>9. ASSUME NEW r \in Receivers PROVE ReceiverOK(r)
  BY <1>4, Handlers DEF ReceiverOK, ReceiverPCs
<1>10. SignerOK
  BY <1>4, Handlers DEF SignerOK, SignerPCs
<1> QED
  BY <1>5, <1>6, <1>7, <1>8, <1>9, <1>10 DEF LegacyInv

LEMMA StutterKeeps == ASSUME LegacyInv, UNCHANGED vars PROVE LegacyInv'
<1>1. /\ UNCHANGED <<acts, queue, world>> /\ Signer \in Procs /\ TypeOK
      /\ Signer \notin Workers /\ Signer \notin Receivers
      /\ UNCHANGED <<pc, todo, catalog, job, receipt>>
  BY Handlers DEF LegacyInv, vars, world
<1>2. Moves(Signer) /\ Grows({}) /\ SignedStays
  BY <1>1, SameActs DEF Moves, LocalTypes, TypeOK, SignedStays, world
<1>3. OwnOK(Signer)'
  BY <1>1, <1>2, SignerStays DEF OwnOK
<1> QED
  BY <1>1, <1>2, <1>3, QuietStep

LEMMA NextKeeps == LegacyInv /\ [Next]_vars => LegacyInv'
<1> SUFFICES ASSUME LegacyInv, [Next]_vars PROVE LegacyInv'
  OBVIOUS
<1>1. ASSUME NEW r \in Receivers, Receive(r) PROVE LegacyInv'
  <2>1. CASE ReceiverDone(r)
    BY <2>1, EndKeeps, Handlers DEF ReceiverDone
  <2> QED
    BY <1>1, <2>1, LoadKeeps, SelectKeeps, QueueAddKeeps, AnnounceKeeps,
       DoubtKeeps DEF Receive
<1>2. ASSUME NEW r \in Receivers, NEW tap \in Taps, Post(r, tap)
      PROVE  LegacyInv'
  BY <1>2, PostKeeps
<1>3. ASSUME NEW w \in Workers, Execute(w) PROVE LegacyInv'
  BY <1>3, DecideKeeps, RefuseKeeps, DispatchKeeps, AppendResultKeeps,
     CloseKeeps DEF Execute
<1>4. ASSUME NEW w \in Workers, Claim(w) PROVE LegacyInv'
  BY <1>4, ClaimKeeps
<1>5. CASE Resume
  <2>1. CASE SignerDone
    BY <2>1, EndKeeps, Handlers DEF SignerDone
  <2> QED
    BY <1>5, <2>1, SourcesKeeps, ResumeRowKeeps, RequeueKeeps,
       AnnounceResumedKeeps DEF Resume
<1>6. CASE Environment
  BY <1>6, SignKeeps, WorldKeeps DEF Environment
<1>7. CASE Fail
  <2>1. ASSUME NEW p \in Procs, Crash(p) \/ QueryEnds(p) PROVE LegacyInv'
    BY <2>1, EndKeeps DEF Crash, QueryEnds
  <2> QED
    BY <1>7, <2>1, QueryFailsKeeps DEF Fail
<1>8. CASE UNCHANGED vars
  BY <1>8, StutterKeeps
<1> QED
  BY <1>1, <1>2, <1>3, <1>4, <1>5, <1>6, <1>7, <1>8 DEF Next

\* What the handlers know of the rows and Acts they have yet to touch holds
\* throughout, whoever overlaps, fails or dies (legacy-runtime.ts as a whole).
THEOREM AlwaysInv == Spec => []LegacyInv
BY InitHolds, NextKeeps, PTL DEF Spec

\* Every value the compatibility runtime keeps has its type, and every row and
\* every runtime Act is about an Act that is in the ledger.
THEOREM TypeCorrect == Spec => []TypeOK
<1>1. LegacyInv => TypeOK
  BY DEF LegacyInv
<1> QED
  BY <1>1, AlwaysInv, PTL

\* What Says and Told have in common.
LEMMA SaysIsTold ==
    ASSUME TypeOK, NEW k, NEW did \in RuntimeDids
    PROVE  \A n : n \in Says(k, did) <=> n \in DOMAIN acts /\ Told(n, k, {did})
<1>1. ASSUME NEW n \in DOMAIN acts
      PROVE  acts[n] = [did |-> did, this |-> k] <=>
                 acts[n].did = did /\ acts[n].this = k
  <2>1. acts[n] \in Act
    BY DEF TypeOK
  <2>2. acts[n] = [did |-> acts[n].did, this |-> acts[n].this]
    BY <2>1 DEF Act
  <2> QED
    BY <2>2
<1> QED
  BY <1>1 DEF Says, Told

\* A set of which any two members are one has at most one.
LEMMA AtMostOne ==
    ASSUME NEW S, \A m, n \in S : m = n
    PROVE  Cardinality(S) <= 1
<1>1. CASE S = {}
  BY <1>1, FS_EmptySet
<1>2. CASE S # {}
  <2>1. PICK m : S = {m}
    BY <1>2
  <2>2. Cardinality({m}) = 1
    BY FS_Singleton
  <2>3. Cardinality(S) = 1
    BY <2>1, <2>2
  <2> QED
    BY <2>3
<1> QED
  BY <1>1, <1>2

\* However receivers, executors and a resumption overlap and whatever fails, an
\* Act is dispatched once and answered once, in that order: the claim, the
\* unique key of runtime_queue and the resumption of rows that were stopped
\* before their dispatch leave no second way in.
THEOREM DispatchesOnce == Spec => []DispatchedOnce
<1>1. LegacyInv => DispatchedOnce
  <2> SUFFICES ASSUME LegacyInv, NEW k \in DOMAIN acts
               PROVE  LET outcomes == Says(k, "fechado") \cup
                                          Says(k, "evidence_incomplete") IN
                      /\ Cardinality(Says(k, "dispatching")) <= 1
                      /\ Cardinality(outcomes) <= 1
                      /\ \A n \in outcomes :
                             \E m \in Says(k, "dispatching") : m < n
    BY DEF DispatchedOnce
  <2> DEFINE outcomes == Says(k, "fechado") \cup Says(k, "evidence_incomplete")
  <2>1. TypeOK /\ Once(k)
    BY DEF LegacyInv, ActsOK
  <2>2. \A n : n \in Says(k, "dispatching") <=>
                   n \in DOMAIN acts /\ Told(n, k, {"dispatching"})
    BY <2>1, Dids, SaysIsTold
  <2>3. \A n : n \in outcomes <=> n \in DOMAIN acts /\ Told(n, k, Outcomes)
    <3>1. /\ \A n : n \in Says(k, "fechado") <=>
                        n \in DOMAIN acts /\ Told(n, k, {"fechado"})
          /\ \A n : n \in Says(k, "evidence_incomplete") <=>
                        n \in DOMAIN acts /\ Told(n, k, {"evidence_incomplete"})
      BY <2>1, Dids, SaysIsTold
    <3> QED
      BY <3>1 DEF Told, Outcomes
  <2>4. Cardinality(Says(k, "dispatching")) <= 1
    BY <2>1, <2>2, AtMostOne DEF Once
  <2>5. Cardinality(outcomes) <= 1
    BY <2>1, <2>3, AtMostOne DEF Once
  <2>6. \A n \in outcomes : \E m \in Says(k, "dispatching") : m < n
    BY <2>1, <2>2, <2>3 DEF Once
  <2> QED
    BY <2>4, <2>5, <2>6
<1> QED
  BY <1>1, AlwaysInv, PTL

\* closeQueue writes by queue_id alone, and yet no late worker leaves an older
\* answer on a row: what a closed row names is the last result of its source.
THEOREM ClosedRowsAnswer == Spec => []ClosedNamesLastResult
<1>1. LegacyInv => ClosedNamesLastResult
  <2> SUFFICES ASSUME LegacyInv, NEW n \in DOMAIN queue,
                      queue[n].status = "closed"
               PROVE  LET results == UNION {Says(queue[n].source, did) :
                                                did \in Results}
                      IN  /\ queue[n].result \in results
                          /\ \A m \in results : m <= queue[n].result
    BY DEF ClosedNamesLastResult
  <2>1. PICK k, at : k = queue[n].source /\ at = queue[n].result
    OBVIOUS
  <2>2. TypeOK /\ LastResult(at, k)
    BY <2>1 DEF LegacyInv, RowsOK, RowOK
  <2>3. \A m : (\E did \in Results : m \in Says(k, did)) <=>
                   m \in DOMAIN acts /\ Told(m, k, Results)
    <3>1. ASSUME NEW did \in Results, NEW m
          PROVE  m \in Says(k, did) <=> m \in DOMAIN acts /\ Told(m, k, {did})
      BY <2>2, <3>1, Dids, SaysIsTold
    <3> QED
      BY <3>1 DEF Told
  <2>4. /\ \E did \in Results : at \in Says(k, did)
        /\ \A did \in Results : \A m \in Says(k, did) : m <= at
    BY <2>2, <2>3 DEF LastResult, Told
  <2> QED
    BY <2>1, <2>4
<1> QED
  BY <1>1, AlwaysInv, PTL

\* Where every contract the process may have is dangerous, nothing goes out but
\* for Acts that cite the grant, and only once it is signed off: what the
\* executor checked holds when it dispatches (dangerousControlDecision).
THEOREM DangerIsSigned == Spec => []DangerousDispatchSigned
<1>1. LegacyInv => DangerousDispatchSigned
  <2> SUFFICES ASSUME LegacyInv, AllDangerous, NEW k \in DOMAIN acts,
                      NEW n \in DOMAIN acts, n \in Says(k, "dispatching")
               PROVE  IsTap(k) /\ acts[k].this \in Citing /\ grant.signed
    BY DEF DangerousDispatchSigned, AllDangerous
  <2>1. TypeOK /\ Told(n, k, {"dispatching"})
    BY Dids, SaysIsTold DEF LegacyInv
  <2> QED
    BY <2>1 DEF LegacyInv, ActsOK, MayDispatch
<1> QED
  BY <1>1, AlwaysInv, PTL

\* Only the resumption touches a row that has ended.
LEMMA EndedStays ==
    ASSUME LegacyInv, [Next]_vars, NEW n \in DOMAIN queue,
           queue[n].status \in {"closed", "failed"}
    PROVE  queue'[n] = queue[n] \/ Requeue
<1>1. queue \in Seq(Row) /\ TypeOK
  BY DEF LegacyInv, TypeOK
<1>2. ASSUME NEW r \in Receivers,
             Receive(r) \/ \E tap \in Taps : Post(r, tap)
      PROVE  queue'[n] = queue[n]
  <2>1. UNCHANGED queue \/ QueueAdd(r)
    BY <1>2 DEF Receive, Post, LoadCatalog, SelectRows, AnnounceQueued,
       LookForDoubt, RaiseDoubt, ReceiverDone
  <2>2. CASE QueueAdd(r)
    <3>1. UNCHANGED queue \/ \E row : queue' = Append(queue, row)
      BY <2>2 DEF QueueAdd
    <3> QED
      BY <1>1, <3>1
  <2> QED
    BY <2>1, <2>2
<1>3. ASSUME NEW w \in Workers, Claim(w) \/ Execute(w)
      PROVE  queue'[n] = queue[n]
  <2>1. CASE Claim(w)
    BY <1>1, <2>1 DEF Claim, Queued
  <2>2. CASE CloseQueue(w) \/ FailQueue(w)
    <3>1. pc[w] # "idle"
      BY <2>2 DEF CloseQueue, FailQueue
    <3>2. job[w] # n
      BY <3>1, AtWork
    <3> QED
      BY <1>1, <2>2, <3>2 DEF CloseQueue, FailQueue
  <2> QED
    BY <1>3, <2>1, <2>2 DEF Execute, Decide, CheckGrant, CheckSignoff, Refuse,
       Dispatch, AppendResult
<1>4. CASE Resume
  BY <1>4 DEF Resume, ResumeSources, ResumeRow, AnnounceResumed, SignerDone
<1>5. CASE Environment \/ Fail
  BY <1>5 DEF Environment, SignGrant, VoidGrant, Redefine, Fail, Crash,
     QueryEnds, QueryFails
<1>6. CASE UNCHANGED vars
  BY <1>6 DEF vars
<1> QED
  BY <1>2, <1>3, <1>4, <1>5, <1>6 DEF Next

\* Ended work comes back only through a signoff, and only if it was stopped for
\* want of it: legacyResumeGrantSources finds the row it looked at, whatever
\* executors did to it between the two queries.
THEOREM OnlyUnsignedResumes == Spec => ResumedOnlyUnsigned
<1>1. ASSUME LegacyInv, [Next]_vars, NEW n \in DOMAIN queue,
             queue[n].status \in {"closed", "failed"},
             queue'[n].status \notin {"closed", "failed"}
      PROVE  /\ queue'[n].status = "queued"
             /\ grant.signed
             /\ acts[queue[n].source].this \in Citing
             /\ StoppedForSignoff(queue[n])
  <2>1. Requeue
    BY <1>1, EndedStays
  <2>2. /\ pc[Signer] = "requeue" /\ SignerOK /\ RowsOK /\ queue \in Seq(Row)
        /\ pc[Signer] # "idle" /\ todo[Signer] # <<>>
    BY <1>1, <2>1 DEF Requeue, LegacyInv, TypeOK, SignerOK
  <2>3. PICK m \in DOMAIN queue :
            /\ queue[m].source = Head(todo[Signer])
            /\ \/ queue' = [queue EXCEPT ![m].status = "queued",
                                         ![m].result = 0]
               \/ UNCHANGED queue
    BY <2>1 DEF Requeue, RowsOf
  <2>4. m = n /\ queue' = [queue EXCEPT ![n].status = "queued",
                                        ![n].result = 0]
    BY <1>1, <2>2, <2>3
  <2>5. StoppedUnsigned(queue[n])
    BY <2>2, <2>3, <2>4 DEF SignerOK, RowsOK
  <2>6. StoppedForSignoff(queue[n])
    BY <2>2, <2>5
      DEF StoppedUnsigned, StoppedForSignoff, RowsOK, RowOK, LastResult, Told
  <2>7. Head(todo[Signer]) \in DOMAIN acts /\ MayDispatch(Head(todo[Signer]))
    BY <1>1, <2>2, HeadIsAct
  <2>8. queue'[n].status = "queued"
    <3>1. PICK row : row = [queue[n] EXCEPT !.status = "queued"]
      OBVIOUS
    <3>2. row.status = "queued"
      BY <2>2, <3>1 DEF Row
    <3>3. PICK last : last = [row EXCEPT !.result = 0]
      OBVIOUS
    <3>4. last.status = "queued"
      <4>1. queue[n] \in Row
        BY <2>2
      <4>2. row \in Row
        BY <3>1, <4>1 DEF Row
      <4> QED
        BY <3>2, <3>3, <4>2 DEF Row
    <3>5. queue' = [queue EXCEPT ![n] = last]
      BY <2>2, <2>4, <3>1, <3>3
    <3> QED
      BY <2>2, <3>4, <3>5
  <2> QED
    BY <2>2, <2>3, <2>4, <2>6, <2>7, <2>8 DEF SignerOK, MayDispatch
<1>2. LegacyInv /\ [Next]_vars =>
          [\A n \in DOMAIN queue :
              /\ queue[n].status \in {"closed", "failed"}
              /\ queue'[n].status \notin {"closed", "failed"}
              => /\ queue'[n].status = "queued"
                 /\ grant.signed
                 /\ acts[queue[n].source].this \in Citing
                 /\ StoppedForSignoff(queue[n])]_vars
  BY <1>1
<1> QED
  BY <1>2, AlwaysInv, PTL DEF Spec, ResumedOnlyUnsigned
------------------------------------------------------------------------------
\* Doubts.

\* Receivers that have found Act k without a doubt and go on to append one.
Doubting(k) == {r \in Receivers : pc[r] = "doubt" /\ Head(todo[r]) = k}

DoubtInv ==
    /\ LegacyInv
    /\ \A k \in Nat :
           Cardinality(Says(k, "doubt")) + Cardinality(Doubting(k))
               <= Cardinality(Receivers)

\* What a step does to the doubts about Act k and to those who are about to
\* raise one.
DoubtStep(k) ==
    \/ /\ Says(k, "doubt")' = Says(k, "doubt")
       /\ Doubting(k)' \subseteq Doubting(k) \/ Says(k, "doubt") = {}
    \/ \E r \in Doubting(k) :
           /\ Says(k, "doubt")' = Says(k, "doubt") \cup {Len(acts) + 1}
           /\ Doubting(k)' \subseteq Doubting(k) \ {r}

\* An Act that is no doubt leaves the doubts as they are.
LEMMA OtherActs ==
    ASSUME TypeOK, NEW k, NEW e, e.did # "doubt", acts' = Append(acts, e)
    PROVE  Says(k, "doubt")' = Says(k, "doubt")
<1>1. /\ acts \in Seq(Act) /\ DOMAIN acts = 1..Len(acts) /\ Len(acts) \in Nat
      /\ DOMAIN acts' = 1..Len(acts) + 1 /\ acts'[Len(acts) + 1] = e
      /\ \A n \in DOMAIN acts : acts'[n] = acts[n]
  BY DEF TypeOK
<1>2. e # [did |-> "doubt", this |-> k]
  OBVIOUS
<1>3. Says(k, "doubt")' = {n \in DOMAIN acts' :
                               acts'[n] = [did |-> "doubt", this |-> k]}
  BY DEF Says
<1> QED
  BY <1>1, <1>2, <1>3 DEF Says

\* Only LookForDoubt brings a receiver to its append.
LEMMA ComesToDoubt ==
    ASSUME LegacyInv, [Next]_vars, NEW r \in Receivers, pc'[r] = "doubt"
    PROVE  \/ pc[r] = "doubt" /\ todo'[r] = todo[r]
           \/ LookForDoubt(r) /\ todo'[r] = todo[r]
<1>0. /\ r \in Procs /\ r \notin Workers /\ r # Signer /\ Signer \in Procs
      /\ pc \in [Procs -> PCs] /\ todo \in [Procs -> Seq(Nat)]
      /\ Workers \subseteq Procs /\ Receivers \subseteq Procs
  BY Handlers DEF LegacyInv, TypeOK, Procs
<1>1. ASSUME NEW q \in Receivers, Receive(q) \/ \E tap \in Taps : Post(q, tap)
      PROVE  \/ pc[r] = "doubt" /\ todo'[r] = todo[r]
             \/ LookForDoubt(r) /\ todo'[r] = todo[r]
  BY <1>0, <1>1 DEF Receive, Post, LoadCatalog, SelectRows, QueueAdd,
     AnnounceQueued, LookForDoubt, RaiseDoubt, ReceiverDone, Ends, GoesTo,
     NextAct, Stays
<1>2. ASSUME NEW w \in Workers, Claim(w) \/ Execute(w)
      PROVE  pc'[r] = pc[r] /\ todo'[r] = todo[r]
  BY <1>0, <1>2 DEF Claim, Execute, Decide, CheckGrant, CheckSignoff, Refuse,
     Dispatch, AppendResult, CloseQueue, FailQueue, Declines, ChecksAdapter,
     Ends, GoesTo
<1>3. CASE Resume
  BY <1>0, <1>3 DEF Resume, ResumeSources, ResumeRow, Requeue,
     AnnounceResumed, SignerDone, Ends, GoesTo, NextAct, Stays
<1>4. CASE Environment
  BY <1>0, <1>4 DEF Environment, SignGrant, VoidGrant, Redefine, Stays, GoesTo
<1>5. CASE Fail
  BY <1>0, <1>5 DEF Fail, Crash, QueryEnds, QueryFails, Ends, GoesTo
<1>6. CASE UNCHANGED vars
  BY <1>6 DEF vars
<1> QED
  BY <1>1, <1>2, <1>3, <1>4, <1>5, <1>6 DEF Next

\* What is appended is a doubt only at RaiseDoubt.
LEMMA WhatIsAppended ==
    ASSUME LegacyInv, [Next]_vars
    PROVE  \/ UNCHANGED acts
           \/ \E e : e.did # "doubt" /\ acts' = Append(acts, e)
           \/ \E r \in Receivers : RaiseDoubt(r)
<1>1. ASSUME NEW k, NEW did, did # "doubt", Appends(k, did)
      PROVE  \E e : e.did # "doubt" /\ acts' = Append(acts, e)
  BY <1>1 DEF Appends
<1>2. ASSUME NEW r \in Receivers, Receive(r) \/ \E tap \in Taps : Post(r, tap)
      PROVE  \/ UNCHANGED acts
             \/ \E e : e.did # "doubt" /\ acts' = Append(acts, e)
             \/ RaiseDoubt(r)
  <2>1. ASSUME NEW tap \in Taps, Post(r, tap)
        PROVE  UNCHANGED acts \/ acts' = Append(acts, [did |-> "tap", this |-> tap])
    BY <2>1 DEF Post
  <2>2. \A tap : [did |-> "tap", this |-> tap].did # "doubt"
    OBVIOUS
  <2> QED
    BY <1>1, <1>2, <2>1, <2>2 DEF Receive, LoadCatalog, SelectRows, QueueAdd,
       AnnounceQueued, LookForDoubt, ReceiverDone
<1>3. ASSUME NEW w \in Workers, Claim(w) \/ Execute(w)
      PROVE  \/ UNCHANGED acts
             \/ \E e : e.did # "doubt" /\ acts' = Append(acts, e)
  <2>1. receipt[w].did # "doubt"
    BY DEF LegacyInv, TypeOK, Results
  <2> QED
    BY <1>1, <1>3, <2>1 DEF Claim, Execute, Decide, CheckGrant, CheckSignoff,
       Refuse, Dispatch, AppendResult, CloseQueue, FailQueue
<1>4. CASE Resume
  BY <1>1, <1>4 DEF Resume, ResumeSources, ResumeRow, Requeue,
     AnnounceResumed, SignerDone
<1>5. CASE Environment \/ UNCHANGED vars
  BY <1>5 DEF Environment, SignGrant, VoidGrant, Redefine, vars
<1>6. CASE Fail
  <2>1. \A w \in Workers : receipt[w].did # "doubt"
    BY DEF LegacyInv, TypeOK, Results
  <2> QED
    BY <1>1, <1>6, <2>1 DEF Fail, Crash, QueryEnds, QueryFails
<1> QED
  BY <1>2, <1>3, <1>4, <1>5, <1>6 DEF Next

\* Every step is one that DoubtStep allows, for every Act.
LEMMA NextDoubts ==
    ASSUME LegacyInv, [Next]_vars, NEW k \in Nat
    PROVE  DoubtStep(k)
<1>0. TypeOK
  BY DEF LegacyInv
<1>1. ASSUME UNCHANGED acts \/ \E e : e.did # "doubt" /\ acts' = Append(acts, e)
      PROVE  DoubtStep(k)
  <2>1. Says(k, "doubt")' = Says(k, "doubt")
    BY <1>0, <1>1, OtherActs DEF Says
  <2>2. ASSUME Says(k, "doubt") # {}
        PROVE  Doubting(k)' \subseteq Doubting(k)
    <3> SUFFICES ASSUME NEW r \in Receivers,
                        pc'[r] = "doubt", Head(todo'[r]) = k
                 PROVE  pc[r] = "doubt" /\ Head(todo[r]) = k
      BY DEF Doubting
    <3>1. CASE LookForDoubt(r) /\ todo'[r] = todo[r]
      <4>1. pc[r] = "scan" /\ Head(todo[r]) = k
        BY <3>1 DEF LookForDoubt
      <4>2. NextAct(r, "scan")
        BY <2>2, <3>1, <4>1 DEF LookForDoubt
      <4>3. pc'[r] = "scan"
        BY <1>0, <4>2, Handlers DEF NextAct, GoesTo, TypeOK
      <4> QED
        BY <4>3
    <3> QED
      BY <3>1, ComesToDoubt
  <2> QED
    BY <2>1, <2>2 DEF DoubtStep
<1>2. ASSUME NEW r \in Receivers, RaiseDoubt(r) PROVE DoubtStep(k)
  <2> DEFINE h == Head(todo[r])
             e == [did |-> "doubt", this |-> h]
  <2>1. /\ pc[r] = "doubt" /\ acts' = Append(acts, e) /\ NextAct(r, "scan")
    BY <1>2 DEF RaiseDoubt, Appends
  <2>2. /\ pc' = [pc EXCEPT ![r] = "scan"] /\ r \in Procs
        /\ \A q \in Receivers : q # r => todo'[q] = todo[q] /\ pc'[q] = pc[q]
        /\ pc'[r] = "scan"
    BY <1>0, <2>1, Handlers DEF NextAct, GoesTo, TypeOK, Procs
  <2>3. Doubting(k)' \subseteq Doubting(k) \ {r}
    BY <2>2 DEF Doubting
  <2>4. /\ acts \in Seq(Act) /\ DOMAIN acts = 1..Len(acts) /\ Len(acts) \in Nat
        /\ DOMAIN acts' = 1..Len(acts) + 1 /\ acts'[Len(acts) + 1] = e
        /\ \A n \in DOMAIN acts : acts'[n] = acts[n]
    BY <1>0, <2>1 DEF TypeOK
  <2>5. Says(k, "doubt")' = {n \in DOMAIN acts' :
                                 acts'[n] = [did |-> "doubt", this |-> k]}
    BY DEF Says
  <2>6. CASE h = k
    <3>1. r \in Doubting(k)
      BY <2>1, <2>6 DEF Doubting
    <3>2. Says(k, "doubt")' = Says(k, "doubt") \cup {Len(acts) + 1}
      BY <2>4, <2>5, <2>6 DEF Says
    <3> QED
      BY <2>3, <3>1, <3>2 DEF DoubtStep
  <2>7. CASE h # k
    <3>1. e # [did |-> "doubt", this |-> k]
      <4>1. e.this # [did |-> "doubt", this |-> k].this
        BY <2>7
      <4> QED
        BY <4>1
    <3> HIDE DEF e
    <3>2. Says(k, "doubt")' = Says(k, "doubt")
      BY <2>4, <2>5, <3>1 DEF Says
    <3> QED
      BY <2>3, <3>2 DEF DoubtStep
  <2> QED
    BY <2>6, <2>7
<1> QED
  BY <1>1, <1>2, WhatIsAppended

\* What there is to count is finite.
LEMMA DoubtsFinite ==
    ASSUME TypeOK, NEW k
    PROVE  /\ IsFiniteSet(Says(k, "doubt"))
           /\ Len(acts) + 1 \notin Says(k, "doubt")
<1>1. DOMAIN acts = 1..Len(acts) /\ Len(acts) \in Nat
  BY DEF TypeOK
<1>2. IsFiniteSet(1..Len(acts))
  BY <1>1, FS_Interval
<1>3. Says(k, "doubt") \in SUBSET (1..Len(acts))
  BY <1>1 DEF Says
<1> QED
  BY <1>1, <1>2, <1>3, FS_Subset

\* A receiver that raises its doubt is one the fewer that may raise it.
LEMMA NextDoubtInv ==
    ASSUME IsFiniteSet(Receivers), DoubtInv, [Next]_vars
    PROVE  DoubtInv'
<1>0. LegacyInv /\ LegacyInv' /\ TypeOK
  BY NextKeeps DEF DoubtInv, LegacyInv
<1> SUFFICES ASSUME NEW k \in Nat
             PROVE  (Cardinality(Says(k, "doubt")) + Cardinality(Doubting(k))
                         <= Cardinality(Receivers))'
  BY <1>0 DEF DoubtInv
<1> DEFINE D == Says(k, "doubt")
           A == Doubting(k)
           D2 == Says(k, "doubt")'
           A2 == Doubting(k)'
           N == Cardinality(Receivers)
<1>1. /\ A \in SUBSET Receivers /\ A2 \in SUBSET Receivers
  BY DEF Doubting
<1>2. /\ IsFiniteSet(A) /\ IsFiniteSet(A2) /\ IsFiniteSet(D)
      /\ Len(acts) + 1 \notin D
  BY <1>0, <1>1, DoubtsFinite, FS_Subset
<1>3. /\ Cardinality(D) \in Nat /\ Cardinality(A) \in Nat
      /\ Cardinality(A2) \in Nat /\ N \in Nat
  BY <1>2, FS_CardinalityType
<1>4. Cardinality(D) + Cardinality(A) <= N
  BY DEF DoubtInv
<1>5. Cardinality(A2) <= N
  BY <1>1, FS_Subset
<1>6. \/ D2 = D /\ (A2 \subseteq A \/ D = {})
      \/ \E r \in A : D2 = D \cup {Len(acts) + 1} /\ A2 \subseteq A \ {r}
  BY <1>0, NextDoubts DEF DoubtStep
<1> HIDE DEF D, A, D2, A2, N
<1>7. CASE D2 = D /\ A2 \subseteq A
  <2>1. Cardinality(A2) <= Cardinality(A)
    BY <1>2, <1>7, FS_Subset
  <2>2. Cardinality(D2) + Cardinality(A2) <= N
    BY <1>3, <1>4, <1>7, <2>1
  <2> QED
    BY <2>2 DEF D2, A2, N
<1>8. CASE D2 = D /\ D = {}
  <2>1. Cardinality(D2) = 0
    BY <1>8, FS_EmptySet
  <2>2. Cardinality(D2) + Cardinality(A2) <= N
    BY <1>3, <1>5, <2>1
  <2> QED
    BY <2>2 DEF D2, A2, N
<1>9. ASSUME NEW r \in A, D2 = D \cup {Len(acts) + 1}, A2 \subseteq A \ {r}
      PROVE  (Cardinality(Says(k, "doubt")) + Cardinality(Doubting(k))
                  <= Cardinality(Receivers))'
  <2>1. Cardinality(D2) = Cardinality(D) + 1
    BY <1>2, <1>9, FS_AddElement
  <2>2. IsFiniteSet(A \ {r}) /\ Cardinality(A \ {r}) = Cardinality(A) - 1
    BY <1>2, FS_RemoveElement
  <2>3. Cardinality(A2) <= Cardinality(A) - 1
    BY <1>9, <2>2, FS_Subset
  <2>4. Cardinality(D2) + Cardinality(A2) <= N
    BY <1>3, <1>4, <2>1, <2>3
  <2> QED
    BY <2>4 DEF D2, A2, N
<1> QED
  BY <1>6, <1>7, <1>8, <1>9

\* The doubts about an Act and the receivers about to raise one are together no
\* more than there are receivers (raiseDoubt looks, and appends a query later).
THEOREM DoubtLaw == IsFiniteSet(Receivers) => (Spec => []DoubtInv)
<1> SUFFICES ASSUME IsFiniteSet(Receivers) PROVE Spec => []DoubtInv
  OBVIOUS
<1>1. Init => DoubtInv
  <2> SUFFICES ASSUME Init PROVE DoubtInv
    OBVIOUS
  <2>1. \A k \in Nat : Says(k, "doubt") = {} /\ Doubting(k) = {}
    BY DEF Init, Says, Doubting, Procs
  <2>2. Cardinality(Receivers) \in Nat /\ Cardinality({}) = 0
    BY FS_CardinalityType, FS_EmptySet
  <2> QED
    BY <2>1, <2>2, InitHolds DEF DoubtInv
<1>2. DoubtInv /\ [Next]_vars => DoubtInv'
  BY NextDoubtInv
<1> QED
  BY <1>1, <1>2, PTL DEF Spec

\* However often an Act is looked at, by however many deliveries and retries,
\* at most one doubt about it for each concurrent receiver is appended: only
\* those that all looked before any of them appended (raiseDoubt).
THEOREM DoubtsStayBounded ==
    IsFiniteSet(Receivers) => (Spec => []DoubtsBounded)
<1> SUFFICES ASSUME IsFiniteSet(Receivers) PROVE Spec => []DoubtsBounded
  OBVIOUS
<1>1. DoubtInv => DoubtsBounded
  <2> SUFFICES ASSUME DoubtInv, NEW k \in DOMAIN acts
               PROVE  Cardinality(Says(k, "doubt")) <= Cardinality(Receivers)
    BY DEF DoubtsBounded
  <2>1. TypeOK /\ k \in Nat
    BY DEF DoubtInv, LegacyInv, TypeOK
  <2>2. Doubting(k) \in SUBSET Receivers
    BY DEF Doubting
  <2>3. IsFiniteSet(Doubting(k)) /\ IsFiniteSet(Says(k, "doubt"))
    BY <2>1, <2>2, DoubtsFinite, FS_Subset
  <2>4. /\ Cardinality(Doubting(k)) \in Nat
        /\ Cardinality(Says(k, "doubt")) \in Nat
        /\ Cardinality(Receivers) \in Nat
    BY <2>3, FS_CardinalityType
  <2> QED
    BY <2>1, <2>4 DEF DoubtInv
<1> QED
  BY <1>1, DoubtLaw, PTL
------------------------------------------------------------------------------
\* The window.

\* A receiver that announces a row has found or made one.
WindowInv ==
    /\ LegacyInv
    /\ \A r \in Receivers :
           pc[r] = "announce" => RowsOf(Head(todo[r])) # {}

\* No row is deleted or given another source.
LEMMA RowsRemain ==
    ASSUME LegacyInv, [Next]_vars, NEW n \in DOMAIN queue
    PROVE  n \in DOMAIN queue' /\ queue'[n].source = queue[n].source
<1>1. queue \in Seq(Row) /\ TypeOK
  BY DEF LegacyInv, TypeOK
<1>2. ASSUME NEW m \in DOMAIN queue, NEW row, row.source = queue[m].source,
             queue' = [queue EXCEPT ![m] = row]
      PROVE  n \in DOMAIN queue' /\ queue'[n].source = queue[n].source
  BY <1>1, <1>2
<1>3. ASSUME NEW r \in Receivers,
             Receive(r) \/ \E tap \in Taps : Post(r, tap)
      PROVE  n \in DOMAIN queue' /\ queue'[n].source = queue[n].source
  <2>1. UNCHANGED queue \/ \E row : queue' = Append(queue, row)
    BY <1>3 DEF Receive, Post, LoadCatalog, SelectRows, QueueAdd,
       AnnounceQueued, LookForDoubt, RaiseDoubt, ReceiverDone
  <2> QED
    BY <1>1, <2>1
<1>4. ASSUME NEW w \in Workers, Claim(w) \/ Execute(w)
      PROVE  n \in DOMAIN queue' /\ queue'[n].source = queue[n].source
  <2>1. CASE Claim(w)
    BY <1>1, <2>1 DEF Claim, Row
  <2>2. CASE FailQueue(w)
    BY <1>1, <2>2 DEF FailQueue, Row
  <2>3. CASE CloseQueue(w)
    <3>1. PICK row : row = [queue[job[w]] EXCEPT !.status = "closed"]
      OBVIOUS
    <3>2. PICK last : last = [row EXCEPT !.result = receipt[w].at]
      OBVIOUS
    <3>3. queue' = [queue EXCEPT ![job[w]] = last]
      BY <1>1, <2>3, <3>1, <3>2 DEF CloseQueue
    <3>4. CASE job[w] \in DOMAIN queue
      <4>0. queue[job[w]] \in Row
        BY <1>1, <3>4
      <4>1. row \in Row /\ row.source = queue[job[w]].source
        BY <3>1, <4>0 DEF Row
      <4>2. last.source = row.source
        BY <3>2, <4>1 DEF Row
      <4> QED
        BY <1>2, <3>3, <3>4, <4>1, <4>2
    <3>5. CASE job[w] \notin DOMAIN queue
      BY <1>1, <3>3, <3>5
    <3> QED
      BY <3>4, <3>5
  <2> QED
    BY <1>4, <2>1, <2>2, <2>3 DEF Execute, Decide, CheckGrant, CheckSignoff,
       Refuse, Dispatch, AppendResult
<1>5. CASE Requeue
  <2>1. PICK m \in DOMAIN queue :
            \/ queue' = [queue EXCEPT ![m].status = "queued", ![m].result = 0]
            \/ UNCHANGED queue
    BY <1>5 DEF Requeue, RowsOf
  <2>2. CASE queue' = [queue EXCEPT ![m].status = "queued", ![m].result = 0]
    <3>1. PICK row : row = [queue[m] EXCEPT !.status = "queued"]
      OBVIOUS
    <3>2. PICK last : last = [row EXCEPT !.result = 0]
      OBVIOUS
    <3>3. queue' = [queue EXCEPT ![m] = last]
      BY <1>1, <2>2, <3>1, <3>2
    <3>4. row \in Row /\ row.source = queue[m].source
      <4>1. queue[m] \in Row
        BY <1>1
      <4> QED
        BY <3>1, <4>1 DEF Row
    <3>5. last.source = row.source
      BY <3>2, <3>4 DEF Row
    <3> QED
      BY <1>2, <3>3, <3>4, <3>5
  <2> QED
    BY <2>1, <2>2
<1>6. CASE Resume
  BY <1>5, <1>6 DEF Resume, ResumeSources, ResumeRow, AnnounceResumed, SignerDone
<1>7. CASE Environment \/ Fail \/ UNCHANGED vars
  BY <1>7 DEF Environment, SignGrant, VoidGrant, Redefine, Fail, Crash,
     QueryEnds, QueryFails, vars
<1> QED
  BY <1>3, <1>4, <1>6, <1>7 DEF Next

\* Clients alone post taps.
LEMMA OnlyClientsTap ==
    ASSUME LegacyInv, [Next]_vars
    PROVE  \/ UNCHANGED acts
           \/ \E e : e.did # "tap" /\ acts' = Append(acts, e)
           \/ \E r \in Receivers, tap \in Taps :
                  Post(r, tap) /\ \E e : acts' = Append(acts, e)
<1>1. ASSUME NEW k, NEW did, did # "tap", Appends(k, did)
      PROVE  \E e : e.did # "tap" /\ acts' = Append(acts, e)
  BY <1>1 DEF Appends
<1>2. ASSUME NEW r \in Receivers, Receive(r)
      PROVE  \/ UNCHANGED acts
             \/ \E e : e.did # "tap" /\ acts' = Append(acts, e)
  BY <1>1, <1>2 DEF Receive, LoadCatalog, SelectRows, QueueAdd,
     AnnounceQueued, LookForDoubt, RaiseDoubt, ReceiverDone
<1>3. ASSUME NEW r \in Receivers, NEW tap \in Taps, Post(r, tap)
      PROVE  UNCHANGED acts \/ \E e : acts' = Append(acts, e)
  BY <1>3 DEF Post
<1>4. \A w \in Workers : receipt[w].did # "tap"
  BY DEF LegacyInv, TypeOK, Results
<1>5. ASSUME NEW w \in Workers, Claim(w) \/ Execute(w)
      PROVE  \/ UNCHANGED acts
             \/ \E e : e.did # "tap" /\ acts' = Append(acts, e)
  BY <1>1, <1>4, <1>5 DEF Claim, Execute, Decide, CheckGrant, CheckSignoff,
     Refuse, Dispatch, AppendResult, CloseQueue, FailQueue
<1>6. CASE Resume
  BY <1>1, <1>6 DEF Resume, ResumeSources, ResumeRow, Requeue,
     AnnounceResumed, SignerDone
<1>7. CASE Environment \/ UNCHANGED vars
  BY <1>7 DEF Environment, SignGrant, VoidGrant, Redefine, vars
<1>8. CASE Fail
  BY <1>1, <1>4, <1>8 DEF Fail, Crash, QueryEnds, QueryFails
<1> QED
  BY <1>2, <1>3, <1>5, <1>6, <1>7, <1>8 DEF Next

\* A receiver moves by a step of its own, or is ended by a failure.
LEMMA ReceiverMoves ==
    ASSUME LegacyInv, [Next]_vars, NEW r \in Receivers
    PROVE  \/ pc'[r] = pc[r] /\ todo'[r] = todo[r]
           \/ Receive(r)
           \/ \E tap \in Taps : Post(r, tap)
           \/ Fail /\ pc'[r] = "idle"
<1>0. /\ r \in Procs /\ r \notin Workers /\ r # Signer /\ Signer \in Procs
      /\ pc \in [Procs -> PCs] /\ todo \in [Procs -> Seq(Nat)]
      /\ Workers \subseteq Procs /\ Receivers \subseteq Procs
  BY Handlers DEF LegacyInv, TypeOK, Procs
<1>1. ASSUME NEW q \in Receivers, q # r,
             Receive(q) \/ \E tap \in Taps : Post(q, tap)
      PROVE  pc'[r] = pc[r] /\ todo'[r] = todo[r]
  BY <1>0, <1>1 DEF Receive, Post, LoadCatalog, SelectRows, QueueAdd,
     AnnounceQueued, LookForDoubt, RaiseDoubt, ReceiverDone, Ends, GoesTo,
     NextAct, Stays
<1>2. ASSUME NEW w \in Workers, Claim(w) \/ Execute(w)
      PROVE  pc'[r] = pc[r] /\ todo'[r] = todo[r]
  BY <1>0, <1>2 DEF Claim, Execute, Decide, CheckGrant, CheckSignoff, Refuse,
     Dispatch, AppendResult, CloseQueue, FailQueue, Declines, ChecksAdapter,
     Ends, GoesTo
<1>3. CASE Resume
  BY <1>0, <1>3 DEF Resume, ResumeSources, ResumeRow, Requeue,
     AnnounceResumed, SignerDone, Ends, GoesTo, NextAct, Stays
<1>4. CASE Environment
  BY <1>0, <1>4 DEF Environment, SignGrant, VoidGrant, Redefine, Stays, GoesTo
<1>5. CASE Fail
  BY <1>0, <1>5 DEF Fail, Crash, QueryEnds, QueryFails, Ends, GoesTo
<1>6. CASE UNCHANGED vars
  BY <1>6 DEF vars
<1> QED
  BY <1>1, <1>2, <1>3, <1>4, <1>5, <1>6 DEF Next

\* An Act that has been queued or doubted stays so.
LEMMA AnsweredStays ==
    ASSUME LegacyInv, [Next]_vars, NEW k, Answered(k)
    PROVE  Answered(k)'
<1>1. ASSUME NEW n \in RowsOf(k) PROVE Answered(k)'
  BY RowsRemain DEF Answered, RowsOf
<1>2. ASSUME NEW n \in Says(k, "doubt") PROVE Answered(k)'
  <2>1. n \in DOMAIN acts' /\ acts'[n] = acts[n]
    <3>1. acts \in Seq(Act) /\ n \in DOMAIN acts
      BY <1>2 DEF LegacyInv, TypeOK, Says
    <3>2. UNCHANGED acts \/ \E e : acts' = Append(acts, e)
      BY OnlyClientsTap
    <3> QED
      BY <3>1, <3>2
  <2> QED
    BY <1>2, <2>1 DEF Answered, Says
<1> QED
  BY <1>1, <1>2 DEF Answered

\* The row that is announced is there, since no row is ever deleted.
LEMMA NextWindowInv == WindowInv /\ [Next]_vars => WindowInv'
<1> SUFFICES ASSUME WindowInv, [Next]_vars PROVE WindowInv'
  OBVIOUS
<1>0. LegacyInv /\ LegacyInv' /\ TypeOK
  BY NextKeeps DEF WindowInv, LegacyInv
<1>1. SUFFICES ASSUME NEW r \in Receivers, pc'[r] = "announce"
               PROVE  (RowsOf(Head(todo[r])) # {})'
  BY <1>0 DEF WindowInv
<1>2. r \in Procs /\ pc \in [Procs -> PCs] /\ queue \in Seq(Row)
  BY <1>0, Handlers DEF TypeOK
<1>3. CASE pc'[r] = pc[r] /\ todo'[r] = todo[r]
  <2>1. PICK n \in DOMAIN queue : queue[n].source = Head(todo[r])
    BY <1>1, <1>3 DEF WindowInv, RowsOf
  <2> QED
    BY <1>0, <1>3, <2>1, RowsRemain DEF RowsOf
<1>4. CASE Receive(r)
  <2>1. QueueAdd(r)
    BY <1>1, <1>2, <1>4 DEF Receive, LoadCatalog, SelectRows, AnnounceQueued,
       LookForDoubt, RaiseDoubt, ReceiverDone, Ends, GoesTo, NextAct, Stays
  <2>2. /\ todo'[r] = todo[r]
        /\ queue' = Append(queue, [source |-> Head(todo[r]),
                                   status |-> "queued", result |-> 0])
    BY <1>1, <1>2, <2>1 DEF QueueAdd, NextAct, GoesTo, Stays
  <2>3. /\ Len(queue) + 1 \in DOMAIN queue'
        /\ queue'[Len(queue) + 1].source = Head(todo[r])
    BY <1>2, <2>2
  <2> QED
    BY <2>2, <2>3 DEF RowsOf
<1>5. CASE \E tap \in Taps : Post(r, tap)
  BY <1>1, <1>2, <1>5 DEF Post, Stays, GoesTo
<1> QED
  BY <1>0, <1>1, <1>3, <1>4, <1>5, ReceiverMoves

\* A step of a receiver on its way to Act k leaves it on its way, or comes to k
\* and answers it or finds it answered.
LEMMA ComesToAct ==
    ASSUME WindowInv, [Next]_vars, NEW r \in Receivers, Receive(r),
           NEW k \in 1..Limit, k \in DOMAIN acts, OnItsWay(r, k)
    PROVE  Answered(k)' \/ OnItsWay(r, k)'
<1>0. /\ LegacyInv /\ TypeOK /\ r \in Procs /\ pc \in [Procs -> PCs]
      /\ queue \in Seq(Row) /\ acts \in Seq(Act) /\ ReceiverOK(r)
      /\ todo \in [Procs -> Seq(Nat)] /\ todo[r] \in Seq(Nat)
  BY Handlers DEF WindowInv, LegacyInv, TypeOK
<1>1. Answered(k) => Answered(k)'
  BY <1>0, AnsweredStays
<1>2. ASSUME NextAct(r, "scan"), pc[r] \notin {"load", "select"},
             Head(todo[r]) = k => Answered(k)'
      PROVE  Answered(k)' \/ OnItsWay(r, k)'
  <2>1. PICK i \in DOMAIN todo[r] : todo[r][i] = k
    BY <1>2 DEF OnItsWay
  <2>2. CASE i = 1
    BY <1>0, <1>2, <2>1, <2>2
  <2>3. CASE i # 1
    <3>1. /\ todo'[r] = Tail(todo[r]) /\ i - 1 \in DOMAIN Tail(todo[r])
          /\ Tail(todo[r])[i - 1] = todo[r][i]
      BY <1>0, <1>2, <2>3 DEF NextAct
    <3> QED
      BY <2>1, <3>1 DEF OnItsWay
  <2> QED
    BY <2>2, <2>3
<1>3. ASSUME NEW next \in {"announce", "doubt"}, Stays(r, next),
             pc[r] \notin {"load", "select"}
      PROVE  OnItsWay(r, k)'
  BY <1>0, <1>3 DEF Stays, GoesTo, OnItsWay
<1>4. CASE LoadCatalog(r)
  BY <1>0, <1>4 DEF LoadCatalog, GoesTo, OnItsWay
<1>5. CASE SelectRows(r)
  <2>1. k \in 1..(IF Len(acts) < Limit THEN Len(acts) ELSE Limit)
    BY <1>0, LegacyAssumption DEF LegacyAssumption
  <2>2. k \in DOMAIN todo'[r] /\ todo'[r][k] = k
    BY <1>0, <1>5, <2>1 DEF SelectRows
  <2> QED
    BY <2>2 DEF OnItsWay
<1>6. CASE QueueAdd(r)
  <2>1. CASE RowsOf(Head(todo[r])) = {}
    BY <1>3, <1>6, <2>1 DEF QueueAdd
  <2>2. CASE RowsOf(Head(todo[r])) # {}
    BY <1>1, <1>2, <1>6, <2>2 DEF QueueAdd, Answered
  <2> QED
    BY <2>1, <2>2
<1>7. CASE AnnounceQueued(r)
  <2>1. RowsOf(Head(todo[r])) # {}
    BY <1>7 DEF AnnounceQueued, WindowInv
  <2> QED
    BY <1>1, <1>2, <1>7, <2>1 DEF AnnounceQueued, Answered
<1>8. CASE LookForDoubt(r)
  <2>1. CASE Says(Head(todo[r]), "doubt") = {}
    BY <1>3, <1>8, <2>1 DEF LookForDoubt
  <2>2. CASE Says(Head(todo[r]), "doubt") # {}
    BY <1>1, <1>2, <1>8, <2>2 DEF LookForDoubt, Answered
  <2> QED
    BY <2>1, <2>2
<1>9. CASE RaiseDoubt(r)
  <2>1. Head(todo[r]) = k => Answered(k)'
    <3> SUFFICES ASSUME Head(todo[r]) = k PROVE Answered(k)'
      OBVIOUS
    <3>1. acts' = Append(acts, [did |-> "doubt", this |-> k])
      BY <1>9 DEF RaiseDoubt, Appends
    <3>2. /\ Len(acts) + 1 \in DOMAIN acts'
          /\ acts'[Len(acts) + 1] = [did |-> "doubt", this |-> k]
      BY <1>0, <3>1
    <3> QED
      BY <3>2 DEF Answered, Says
  <2> QED
    BY <1>2, <1>9, <2>1 DEF RaiseDoubt
<1>10. CASE ReceiverDone(r)
  BY <1>0, <1>10 DEF ReceiverDone, OnItsWay
<1> QED
  BY <1>4, <1>5, <1>6, <1>7, <1>8, <1>9, <1>10 DEF Receive

\* A tap of the window is queued, doubted or awaited by a receiver from the
\* moment it is posted, and only a handler that fails takes that from it
\* (legacyReceiverSelect and the queries of queueAdd and raiseDoubt).
THEOREM WindowTapsAnswered == Spec => WindowTapKept
<1> DEFINE kept(k) == Answered(k) \/ \E r \in Receivers : OnItsWay(r, k)
<1>1. ASSUME WindowInv, [Next]_vars, NEW k \in 1..Limit,
             k \in DOMAIN acts', acts'[k].did = "tap",
             k \in DOMAIN acts => kept(k), ~Fail
      PROVE  kept(k)'
  <2>0. LegacyInv /\ TypeOK /\ acts \in Seq(Act) /\ Receivers \subseteq Procs
        /\ pc \in [Procs -> PCs]
    BY <1>1, Handlers DEF WindowInv, LegacyInv, TypeOK
  <2>1. CASE k \notin DOMAIN acts
    <3>1. PICK r \in Receivers, tap \in Taps : Post(r, tap)
      BY <1>1, <2>0, <2>1, OnlyClientsTap
    <3>2. pc'[r] = "load"
      BY <2>0, <3>1 DEF Post, Stays, GoesTo
    <3> QED
      BY <3>2 DEF OnItsWay
  <2>2. CASE Answered(k)
    BY <1>1, <2>0, <2>2, AnsweredStays
  <2>3. ASSUME k \in DOMAIN acts, NEW r \in Receivers, OnItsWay(r, k)
        PROVE  kept(k)'
    <3>1. CASE pc'[r] = pc[r] /\ todo'[r] = todo[r]
      BY <2>3, <3>1 DEF OnItsWay
    <3>2. CASE Receive(r)
      BY <1>1, <2>3, <3>2, ComesToAct
    <3>3. CASE \E tap \in Taps : Post(r, tap)
      <4>1. pc'[r] = "load"
        BY <2>0, <3>3 DEF Post, Stays, GoesTo
      <4> QED
        BY <4>1 DEF OnItsWay
    <3> QED
      BY <1>1, <2>0, <3>1, <3>2, <3>3, ReceiverMoves
  <2> QED
    BY <1>1, <2>1, <2>2, <2>3
<1>2. WindowInv /\ [Next]_vars =>
          [\A k \in 1..Limit :
              LET kept2 == Answered(k) \/ \E r \in Receivers : OnItsWay(r, k) IN
              /\ k \in DOMAIN acts' /\ acts'[k].did = "tap"
              /\ ~kept2'
              => (k \in DOMAIN acts /\ ~kept2) \/ Fail]_vars
  BY <1>1
<1>3. Init => WindowInv
  BY InitHolds DEF WindowInv, Init, Procs
<1> QED
  BY <1>2, <1>3, NextWindowInv, PTL DEF Spec, WindowTapKept
=============================================================================
