--------------------------- MODULE ChatTurnProofs ---------------------------
(***************************************************************************)
(* What holds of ChatTurn for any number of turns, instances and tool      *)
(* calls, and whatever the model says: its turns are requests like any     *)
(* other, so what is proved of CustodyRuntime holds with them too, and     *)
(* what a turn has in hand is in the ledger.                               *)
(***************************************************************************)
EXTENDS ChatTurn, CustodyRowsProofs

------------------------------------------------------------------------------
\* The refinement.

LEMMA ConverseIsNext ==
    ASSUME NEW t \in Turns, Converse(t) \/ TurnDies(t)
    PROVE  [Next]_vars
<1>0. t \in Callers /\ t \in Procs
  BY ChatAssumption DEF Procs
<1>1. CASE UNCHANGED vars
  BY <1>1
<1>2. ASSUME NEW i \in Instances, ProposeOpening(t, i) PROVE Next
  BY <1>0, <1>2 DEF ProposeOpening, Submit, Next
<1>3. ASSUME NEW i \in Instances, NEW act \in RequestActs(i),
             ProposeDispatch(t, i, act)
      PROVE  Next
  BY <1>0, <1>3 DEF ProposeDispatch, Submit, Next
<1>4. CASE RecordsAct(t) \/ Routes(t) \/ HasReceipt(t)
  <2>1. Register(t)
    BY <1>4 DEF RecordsAct, Routes, HasReceipt, Register
  <2> QED
    BY <1>0, <2>1 DEF Next
<1>5. CASE AppendFails(t) \/ ConsequenceFails(t)
  <2>1. Register(t) \/ Fail(t)
    BY <1>5 DEF AppendFails, ConsequenceFails, Register, Fail
  <2> QED
    BY <1>0, <2>1 DEF Next
<1>6. CASE TurnDies(t)
  <2>1. UNCHANGED vars \/ Fail(t)
    BY <1>6 DEF TurnDies, Fail
  <2> QED
    BY <1>0, <2>1 DEF Next
<1>7. CASE \/ \E n \in 1..MaxBatch : CallTools(t, n)
           \/ Reply(t) \/ ModelFails(t) \/ OtherCall(t) \/ SearchTypes(t)
           \/ \E i \in Instances : \E n \in 1..MaxActs + 1 : SearchActs(t, i, n)
           \/ \E i \in Instances : SearchInstance(t, i)
           \/ \E i \in Instances : \E k \in 0..MaxActs - 1 : SearchTuple(t, i, k)
           \/ BatchDone(t) \/ StoreQuestion(t) \/ StoreReply(t)
           \/ StoreFails(t)
  BY <1>7 DEF CallTools, Reply, ModelFails, OtherCall, SearchTypes,
              SearchActs, SearchInstance, SearchTuple, BatchDone,
              StoreQuestion, StoreReply, StoreFails
<1> QED
  BY <1>1, <1>2, <1>3, <1>4, <1>5, <1>6, <1>7 DEF Converse

LEMMA OthersAreNext ==
    ASSUME Others PROVE Next
  BY DEF Others, Next

LEMMA ChatIsNext ==
    ASSUME [NextChat]_chatVars PROVE [Next]_vars
<1>1. CASE UNCHANGED chatVars
  BY <1>1 DEF chatVars
<1> QED
  BY <1>1, ConverseIsNext, OthersAreNext DEF NextChat

\* Whatever the model asks for and whatever its calls do, the tables change as
\* requests and executors change them: chat has no way past the membrane
\* (runDreamTurn calls registerFlow and nothing else that writes the ledger or
\* the queue).
THEOREM ChatIsRequests == SpecChat => ActsAsRequests
<1>1. InitChat => Init
  BY DEF InitChat
<1>2. [NextChat]_chatVars => [Next]_vars
  BY ChatIsNext
<1> QED
  BY <1>1, <1>2, PTL DEF SpecChat, ActsAsRequests, Spec

\* So with turns among the requests no head is answered twice.
THEOREM ChatNeverForks == SpecChat => []SingleChain
  BY ChatIsRequests, NoForks, PTL DEF ActsAsRequests

\* And whatever the model says, its turns move one token for each instance,
\* close no head's custody, and lose none but by a failure (a turn that dies
\* between its append and its route is one).
THEOREM ChatKeepsCustody ==
    SpecChat => MovesOneToken /\ HeadKeepsCustody /\ []ClosedIsSpent
  BY ChatIsRequests, OneTokenEach, CustodyIsKept, CurrentStaysOpen, PTL
  DEF ActsAsRequests

------------------------------------------------------------------------------
\* What a turn knows.

\* The tuple that a registration in progress is about.
TupleOf(entry) ==
    <<entry.instance, IF entry.act = NoAct THEN 0 ELSE entry.act.parent + 1>>

InLedger(tuple) ==
    /\ tuple[1] \in opened
    /\ tuple[2] \in 0..Len(ledger[tuple[1]])

\* The guard on the parent of a dispatch.
Searched(locals, entry) ==
    \/ entry.act.parent < locals.shown[entry.instance]
    \/ <<entry.instance, entry.act.parent>> \in locals.typed

\* One turn: its receipts are among what it wrote, which is in the ledger; its
\* searches have found no tuple that is not there; it has written the tuple whose
\* consequences it routes; and the parent it proposes was found, or typed.
TurnOK(t) ==
    /\ (pc[t] # "idle") <=> (turn[t].phase = "append")
    /\ turn[t].phase = "append" => turn[t].calls > 0
    /\ turn[t].registrations \subseteq turn[t].wrote
    /\ \A tuple \in turn[t].wrote : InLedger(tuple)
    /\ \A i \in Instances : turn[t].shown[i] <= Len(ledger[i]) + 1
    /\ pc[t] # "idle" => proposal[t].instance \in opened
    /\ pc[t] = "append" => Searched(turn[t], proposal[t])
    /\ pc[t] \in {"close", "project", "enqueue"} =>
           TupleOf(proposal[t]) \in turn[t].wrote

ChatInv ==
    /\ TypeInv
    /\ LedgerInv
    /\ turn \in [Turns -> Turn]
    /\ chat \in Seq(Message)
    /\ \A t \in Turns : TurnOK(t)

LEMMA NextGrows ==
    ASSUME TypeInv, LedgerInv, [Next]_vars
    PROVE  LedgerGrows
<1>1. Inserts /\ ledger \in [Instances -> Seq(Act)]
  BY NextVerified, Shared
<1>2. CASE UNCHANGED ledger
  BY <1>1, <1>2 DEF LedgerGrows
<1>3. CASE ~UNCHANGED ledger
  <2>1. \A i \in Instances :
            \/ ledger'[i] = ledger[i]
            \/ \E new \in Act : ledger'[i] = Append(ledger[i], new)
    BY <1>1, <1>3, InsertKeepsChain
  <2> QED
    BY <1>1, <2>1 DEF LedgerGrows
<1> QED
  BY <1>2, <1>3

LEMMA InLedgerStays ==
    ASSUME TypeInv, TypeInv', opened \subseteq opened', LedgerGrows,
           NEW tuple \in Tuple, InLedger(tuple)
    PROVE  InLedger(tuple)'
<1>1. tuple[1] \in Instances /\ tuple[1] \in opened /\ tuple[1] \in opened'
  BY DEF Tuple, InLedger
<1>2. ledger[tuple[1]] \in Seq(Act) /\ ledger'[tuple[1]] \in Seq(Act)
  BY <1>1 DEF TypeInv, TypeOK
<1> QED
  BY <1>1, <1>2 DEF InLedger, LedgerGrows

\* What a turn has written and has been shown is still there.
LEMMA KnownStays ==
    ASSUME ChatInv, TypeInv', opened \subseteq opened', LedgerGrows,
           NEW t \in Turns
    PROVE  /\ \A tuple \in turn[t].wrote : InLedger(tuple)'
           /\ \A i \in Instances : turn[t].shown[i] <= Len(ledger'[i]) + 1
<1>1. turn[t] \in Turn /\ TurnOK(t) /\ TypeInv
  BY DEF ChatInv
<1>2. ASSUME NEW tuple \in turn[t].wrote PROVE InLedger(tuple)'
  <2>1. tuple \in Tuple
    BY <1>1 DEF Turn
  <2>2. InLedger(tuple)
    BY <1>1 DEF TurnOK
  <2> QED
    BY <1>1, <2>1, <2>2, InLedgerStays
<1>3. ASSUME NEW i \in Instances
      PROVE  turn[t].shown[i] <= Len(ledger'[i]) + 1
  <2>1. turn[t].shown \in [Instances -> Nat]
    BY <1>1 DEF Turn
  <2>2. turn[t].shown[i] \in Nat /\ turn[t].shown[i] <= Len(ledger[i]) + 1
    BY <1>1, <2>1 DEF TurnOK
  <2>3. ledger[i] \in Seq(Act) /\ ledger'[i] \in Seq(Act)
    BY <1>1 DEF TypeInv, TypeOK
  <2>4. Len(ledger[i]) <= Len(ledger'[i])
    BY <2>3 DEF LedgerGrows
  <2> QED
    BY <2>2, <2>3, <2>4
<1> QED
  BY <1>2, <1>3

\* A turn that takes no part in a step keeps what it knows.
LEMMA BystanderOK ==
    ASSUME ChatInv, TypeInv', opened \subseteq opened', LedgerGrows,
           NEW t \in Turns, TurnOK(t),
           turn'[t] = turn[t], pc'[t] = pc[t], proposal'[t] = proposal[t]
    PROVE  TurnOK(t)'
<1>1. pc[t] # "idle" => proposal[t].instance \in opened'
  BY DEF TurnOK
<1> QED
  BY <1>1, KnownStays DEF TurnOK

\* Turn t took the step; its locals are still those of a turn.
Changes(t) ==
    /\ turn' \in [Turns -> Turn]
    /\ \A u \in Turns : u # t => turn'[u] = turn[u]

\* Whatever moves, the invariant holds after it if it holds of the one turn
\* that took part.
LEMMA TurnSteps ==
    ASSUME ChatInv, [Next]_vars, NEW t \in Turns, Changes(t),
           \A u \in Turns : u # t => pc'[u] = pc[u] /\ proposal'[u] = proposal[u],
           chat' \in Seq(Message),
           (/\ TypeInv'
            /\ \A tuple \in turn[t].wrote : InLedger(tuple)'
            /\ \A i \in Instances : turn[t].shown[i] <= Len(ledger'[i]) + 1)
               => TurnOK(t)'
    PROVE  ChatInv'
<1>1. TypeInv' /\ LedgerInv' /\ LedgerGrows /\ opened \subseteq opened'
  BY NextType, NextLedgerInv, NextGrows, OpenedGrows DEF ChatInv
<1>2. ASSUME NEW u \in Turns PROVE TurnOK(u)'
  <2>1. CASE u # t
    <3>1. turn'[u] = turn[u] /\ TurnOK(u)
      BY <2>1 DEF ChatInv, Changes
    <3> QED
      BY <1>1, <2>1, <3>1, BystanderOK
  <2> QED
    BY <1>1, <2>1, KnownStays
<1> QED
  BY <1>1, <1>2 DEF ChatInv, Changes

\* After the step the turn has no append under way and no receipt it had not.
LEMMA TurnRests ==
    ASSUME ChatInv, [Next]_vars, NEW t \in Turns, Changes(t),
           \A u \in Turns : u # t => pc'[u] = pc[u] /\ proposal'[u] = proposal[u],
           chat' \in Seq(Message),
           pc'[t] = "idle", turn'[t].phase # "append",
           turn'[t].registrations \subseteq turn'[t].wrote,
           turn'[t].wrote \subseteq turn[t].wrote,
           \A i \in Instances :
               \/ turn'[t].shown[i] = turn[t].shown[i]
               \/ turn'[t].shown[i] = 0
               \/ UNCHANGED ledger /\ turn'[t].shown[i] <= Len(ledger[i]) + 1
    PROVE  ChatInv'
<1>1. SUFFICES ASSUME TypeInv',
                      \A tuple \in turn[t].wrote : InLedger(tuple)',
                      \A i \in Instances :
                          turn[t].shown[i] <= Len(ledger'[i]) + 1
               PROVE  TurnOK(t)'
  BY TurnSteps
<1>2. ASSUME NEW i \in Instances
      PROVE  turn'[t].shown[i] <= Len(ledger'[i]) + 1
  <2>1. ledger'[i] \in Seq(Act)
    BY <1>1 DEF TypeInv, TypeOK
  <2> QED
    BY <1>1, <2>1
<1> QED
  BY <1>1, <1>2 DEF TurnOK

\* The same, of a step that touches no table.
LEMMA TurnMoves ==
    ASSUME ChatInv, UNCHANGED vars, NEW t \in Turns, Changes(t),
           turn[t].phase # "append", turn'[t].phase # "append",
           chat' \in Seq(Message),
           turn'[t].registrations \subseteq turn[t].registrations,
           turn'[t].wrote = turn[t].wrote,
           \A i \in Instances :
               \/ turn'[t].shown[i] = turn[t].shown[i]
               \/ turn'[t].shown[i] = 0
               \/ turn'[t].shown[i] <= Len(ledger[i]) + 1
    PROVE  ChatInv'
<1>1. TurnOK(t)
  BY DEF ChatInv
<1>2. pc' = pc /\ proposal' = proposal /\ ledger' = ledger
  BY DEF vars
<1>3. pc[t] = "idle" /\ turn[t].registrations \subseteq turn[t].wrote
  BY <1>1 DEF TurnOK
<1> QED
  BY <1>2, <1>3, TurnRests

LEMMA TurnKnown ==
    ASSUME ChatInv, NEW t \in Turns
    PROVE  /\ turn[t] \in Turn /\ TurnOK(t)
           /\ turn[t].wrote \in SUBSET Tuple
           /\ turn[t].registrations \in SUBSET Tuple
           /\ turn[t].shown \in [Instances -> Nat]
           /\ turn[t].calls \in Nat /\ turn[t].responses \in Nat
           /\ turn[t].phase # "append" => pc[t] = "idle"
           /\ TypeInv /\ LedgerInv
           /\ LocalsOK
           /\ t \in Procs /\ t \notin Workers
           /\ turn \in [Turns -> Turn]
           /\ chat \in Seq(Message)
<1>1. turn[t] \in Turn /\ TurnOK(t) /\ TypeInv /\ LedgerInv
  BY DEF ChatInv
<1>2. t \in Procs /\ t \notin Workers
  BY ChatAssumption, RuntimeAssumption DEF Procs
<1>3. LocalsOK
  BY <1>1, Shared
<1> QED
  BY <1>1, <1>2, <1>3 DEF Turn, TurnOK, ChatInv

------------------------------------------------------------------------------
\* The steps of a turn.

LEMMA LeavesChanges ==
    ASSUME ChatInv, NEW t \in Turns, NEW outcome \in {"question", "failed"},
           NEW receipts \in SUBSET turn[t].registrations,
           Leaves(t, outcome, receipts)
    PROVE  /\ Changes(t)
           /\ turn'[t].phase # "append"
           /\ turn'[t].registrations \subseteq turn[t].registrations
           /\ turn'[t].wrote = turn[t].wrote
           /\ \A i \in Instances : turn'[t].shown[i] = 0
<1> DEFINE new == [NewTurn EXCEPT !.phase = outcome,
                                  !.registrations = receipts,
                                  !.wrote = turn[t].wrote]
<1>1. new \in Turn
  BY TurnKnown DEF NewTurn, Turn
<1>2. turn' = [turn EXCEPT ![t] = new] /\ turn \in [Turns -> Turn]
  BY DEF Leaves, ChatInv
<1>3. /\ new.phase # "append" /\ new.registrations = receipts
      /\ new.wrote = turn[t].wrote
      /\ \A i \in Instances : new.shown[i] = 0
  BY DEF NewTurn
<1> HIDE DEF new
<1> QED
  BY <1>1, <1>2, <1>3 DEF Changes

LEMMA EntersChanges ==
    ASSUME ChatInv, NEW t \in Turns,
           NEW phase \in {"model", "reply", "answered", "append"},
           Enters(t, phase)
    PROVE  /\ Changes(t)
           /\ turn'[t].phase = phase
           /\ turn'[t].registrations = turn[t].registrations
           /\ turn'[t].wrote = turn[t].wrote
           /\ turn'[t].shown = turn[t].shown
           /\ turn'[t].calls = turn[t].calls
<1>1. turn \in [Turns -> Turn] /\ turn[t] \in Turn
  BY DEF ChatInv
<1> QED
  BY <1>1 DEF Enters, Changes, Turn

LEMMA CallToolsStep ==
    ASSUME ChatInv, NEW t \in Turns, NEW n \in 1..MaxBatch, CallTools(t, n)
    PROVE  ChatInv'
<1>1. turn \in [Turns -> Turn] /\ turn[t] \in Turn /\ n \in Nat
  BY ChatAssumption DEF ChatInv
<1>2. /\ Changes(t) /\ turn'[t].phase = "tools"
      /\ turn'[t].registrations = turn[t].registrations
      /\ turn'[t].wrote = turn[t].wrote
      /\ turn'[t].shown = turn[t].shown
  BY <1>1 DEF CallTools, Changes, Turn
<1>3. UNCHANGED vars /\ turn[t].phase # "append" /\ chat' \in Seq(Message)
  BY DEF CallTools, ChatInv
<1> QED
  BY <1>2, <1>3, TurnMoves

LEMMA ModelStep ==
    ASSUME ChatInv, NEW t \in Turns,
           \/ Reply(t) \/ ModelFails(t) \/ BatchDone(t)
           \/ StoreQuestion(t) \/ StoreReply(t) \/ StoreFails(t)
    PROVE  ChatInv'
<1>1. UNCHANGED vars /\ turn[t].phase # "append" /\ chat' \in Seq(Message)
  <2>1. UNCHANGED vars /\ turn[t].phase # "append"
    BY DEF Reply, ModelFails, BatchDone, StoreQuestion, StoreReply, StoreFails
  <2>2. \/ chat' = chat
        \/ \E message \in Message : chat' = Append(chat, message)
    BY DEF Reply, ModelFails, BatchDone, StoreQuestion, StoreReply, StoreFails,
           Message
  <2>3. chat \in Seq(Message)
    BY DEF ChatInv
  <2> QED
    BY <2>1, <2>2, <2>3
<1>2. \/ \E outcome \in {"question", "failed"} :
             \E receipts \in SUBSET turn[t].registrations :
                 Leaves(t, outcome, receipts)
      \/ \E phase \in {"model", "reply", "answered"} : Enters(t, phase)
  BY DEF Reply, ModelFails, BatchDone, StoreQuestion, StoreReply, StoreFails
<1>3. CASE \E outcome \in {"question", "failed"} :
               \E receipts \in SUBSET turn[t].registrations :
                   Leaves(t, outcome, receipts)
  BY <1>1, <1>3, LeavesChanges, TurnMoves
<1>4. CASE \E phase \in {"model", "reply", "answered"} : Enters(t, phase)
  BY <1>1, <1>4, EntersChanges, TurnMoves
<1> QED
  BY <1>2, <1>3, <1>4

LEMMA CallDoneChanges ==
    ASSUME ChatInv, NEW t \in Turns, turn[t].calls > 0, CallDone(t)
    PROVE  /\ Changes(t)
           /\ turn'[t].phase = "tools"
           /\ turn'[t].registrations = turn[t].registrations
           /\ turn'[t].wrote = turn[t].wrote
           /\ turn'[t].shown = turn[t].shown
<1>1. turn \in [Turns -> Turn] /\ turn[t] \in Turn
  BY DEF ChatInv
<1>2. turn[t].calls - 1 \in Nat
  BY <1>1 DEF Turn
<1> QED
  BY <1>1, <1>2 DEF CallDone, Changes, Turn

\* A search names no tuple that is not in the ledger, but the one typed.
LEMMA NamesStep ==
    ASSUME ChatInv, UNCHANGED <<vars, chat>>, NEW t \in Turns, Calls(t),
           NEW i \in Instances, NEW n \in Nat, n <= Len(ledger[i]) + 1,
           NEW typed \in SUBSET Tuple, Names(t, i, n, typed)
    PROVE  ChatInv'
<1> DEFINE upto == IF n > turn[t].shown[i] THEN n ELSE turn[t].shown[i]
<1>0. /\ turn \in [Turns -> Turn] /\ turn[t] \in Turn /\ TurnOK(t)
      /\ turn[t].shown \in [Instances -> Nat]
      /\ chat \in Seq(Message)
  BY TurnKnown
<1>1. turn[t].phase = "tools" /\ turn[t].calls > 0 /\ turn[t].calls - 1 \in Nat
  BY <1>0 DEF Calls, Turn
<1>2. upto \in Nat /\ upto <= Len(ledger[i]) + 1
  BY <1>0 DEF TurnOK
<1>3. turn' = [turn EXCEPT ![t].calls = @ - 1, ![t].searched = TRUE,
                           ![t].met = @ \cup {i}, ![t].shown[i] = upto,
                           ![t].typed = @ \cup typed]
  BY <1>0 DEF Names, Turn
<1> HIDE DEF upto
<1> DEFINE reach == [turn[t].shown EXCEPT ![i] = upto]
           new == [turn[t] EXCEPT !.calls = @ - 1, !.searched = TRUE,
                                  !.met = @ \cup {i}, !.shown = reach,
                                  !.typed = @ \cup typed]
<1>4. /\ Changes(t) /\ turn'[t].phase = "tools"
      /\ turn'[t].registrations = turn[t].registrations
      /\ turn'[t].wrote = turn[t].wrote
      /\ turn'[t].shown = reach
  <2>1. reach \in [Instances -> Nat]
    BY <1>0, <1>2
  <2>2. turn' = [turn EXCEPT ![t] = new]
    BY <1>0, <1>3 DEF Turn
  <2> HIDE DEF reach
  <2>3. /\ new \in Turn /\ new.phase = turn[t].phase
        /\ new.registrations = turn[t].registrations
        /\ new.wrote = turn[t].wrote /\ new.shown = reach
    BY <1>0, <1>1, <2>1 DEF Turn
  <2> HIDE DEF new
  <2> QED
    BY <1>0, <1>1, <2>2, <2>3 DEF Changes
<1>5. \A j \in Instances : \/ turn'[t].shown[j] = turn[t].shown[j]
                           \/ turn'[t].shown[j] <= Len(ledger[j]) + 1
  BY <1>0, <1>2, <1>4
<1> QED
  BY <1>0, <1>1, <1>4, <1>5, TurnMoves

LEMMA LookStep ==
    ASSUME ChatInv, NEW t \in Turns,
           \/ OtherCall(t) \/ SearchTypes(t)
           \/ \E i \in Instances : \E n \in 1..MaxActs + 1 : SearchActs(t, i, n)
           \/ \E i \in Instances : SearchInstance(t, i)
           \/ \E i \in Instances : \E k \in 0..MaxActs - 1 : SearchTuple(t, i, k)
    PROVE  ChatInv'
<1>0. turn \in [Turns -> Turn] /\ turn[t] \in Turn
  BY DEF ChatInv
<1>1. /\ turn[t].phase = "tools" /\ turn[t].calls > 0 /\ Calls(t)
      /\ turn[t].calls - 1 \in Nat
      /\ UNCHANGED <<vars, chat>> /\ chat' \in Seq(Message)
  <2>1. Calls(t) /\ UNCHANGED <<vars, chat>>
    BY DEF OtherCall, SearchTypes, SearchActs, SearchInstance, SearchTuple
  <2>2. turn[t].calls \in Nat /\ chat \in Seq(Message)
    BY TurnKnown
  <2> QED
    BY <2>1, <2>2 DEF Calls
<1>2. CASE OtherCall(t)
  <2>1. CallDone(t)
    BY <1>2 DEF OtherCall
  <2> QED
    BY <1>1, <2>1, CallDoneChanges, TurnMoves
<1>3. CASE SearchTypes(t)
  <2>1. /\ Changes(t) /\ turn'[t].phase = "tools"
        /\ turn'[t].registrations = turn[t].registrations
        /\ turn'[t].wrote = turn[t].wrote
        /\ turn'[t].shown = turn[t].shown
    BY <1>0, <1>1, <1>3 DEF SearchTypes, Changes, Turn
  <2> QED
    BY <1>1, <2>1, TurnMoves
<1>4. \A i \in Instances : Len(ledger[i]) \in Nat
  BY Shared DEF ChatInv
<1>5. ASSUME NEW i \in Instances, NEW n \in 1..MaxActs + 1, SearchActs(t, i, n)
      PROVE  ChatInv'
  <2>1. n \in Nat /\ n <= Len(ledger[i]) + 1 /\ Names(t, i, n, {})
    BY <1>4, <1>5 DEF SearchActs
  <2> QED
    BY <1>1, <2>1, NamesStep
<1>6. ASSUME NEW i \in Instances, SearchInstance(t, i) PROVE ChatInv'
  <2>1. PICK n \in Nat : n <= Len(ledger[i]) + 1 /\ Names(t, i, n, {})
    BY <1>4, <1>6 DEF SearchInstance
  <2> QED
    BY <1>1, <2>1, NamesStep
<1>7. ASSUME NEW i \in Instances, NEW k \in 0..MaxActs - 1, SearchTuple(t, i, k)
      PROVE  ChatInv'
  <2>0. k \in Nat
    BY TypeAssumption
  <2>1. PICK hash \in Tuple : hash = <<i, k>>
    BY <2>0 DEF Tuple
  <2>2. CASE i \in opened /\ k <= Len(ledger[i])
    <3>1. PICK n \in Nat : n <= Len(ledger[i]) + 1 /\ Names(t, i, n, {hash})
      BY <1>4, <1>7, <2>1, <2>2 DEF SearchTuple
    <3> QED
      BY <1>1, <3>1, NamesStep
  <2>3. CASE ~(i \in opened /\ k <= Len(ledger[i]))
    <3>1. turn' = [turn EXCEPT ![t].calls = @ - 1, ![t].searched = TRUE,
                               ![t].typed = @ \cup {hash}]
      BY <1>7, <2>1, <2>3 DEF SearchTuple
    <3>2. /\ Changes(t) /\ turn'[t].phase = "tools"
          /\ turn'[t].registrations = turn[t].registrations
          /\ turn'[t].wrote = turn[t].wrote
          /\ turn'[t].shown = turn[t].shown
      BY <1>0, <1>1, <3>1 DEF Changes, Turn
    <3> QED
      BY <1>1, <3>2, TurnMoves
  <2> QED
    BY <2>2, <2>3
<1> QED
  BY <1>2, <1>3, <1>5, <1>6, <1>7

\* registerFlow, called by a turn.

\* An opening, or an Act that is proposed, verified and not yet inserted.
LEMMA ProposeStep ==
    ASSUME ChatInv, NEW t \in Turns, NEW i \in Instances,
           \/ ProposeOpening(t, i)
           \/ \E act \in RequestActs(i) : ProposeDispatch(t, i, act)
    PROVE  ChatInv'
<1>0. /\ turn \in [Turns -> Turn] /\ turn[t] \in Turn
      /\ LocalsOK /\ t \in Procs
      /\ turn[t].phase = "tools" /\ turn[t].calls > 0
  BY TurnKnown DEF ProposeOpening, ProposeDispatch, Calls
<1>1. [Next]_vars
  BY ConverseIsNext DEF Converse
<1>2. CASE ProposeOpening(t, i)
  <2>1. /\ Changes(t) /\ turn'[t].phase = "append"
        /\ turn'[t].calls = turn[t].calls
        /\ turn'[t].registrations = turn[t].registrations
        /\ turn'[t].wrote = turn[t].wrote \cup {<<i, 0>>}
        /\ turn'[t].shown = turn[t].shown
    <3>1. PICK pair \in Tuple : pair = <<i, 0>>
      BY DEF Tuple
    <3>2. turn' = [turn EXCEPT ![t].phase = "append",
                               ![t].wrote = @ \cup {pair}]
      BY <1>2, <3>1 DEF ProposeOpening
    <3>3. /\ Changes(t) /\ turn'[t].phase = "append"
          /\ turn'[t].calls = turn[t].calls
          /\ turn'[t].registrations = turn[t].registrations
          /\ turn'[t].wrote = turn[t].wrote \cup {pair}
          /\ turn'[t].shown = turn[t].shown
      BY <1>0, <3>2 DEF Changes, Turn
    <3> QED
      BY <3>1, <3>3
  <2>2. /\ i \in opened' /\ pc'[t] = "project"
        /\ proposal'[t] = [instance |-> i, act |-> NoAct]
        /\ \A u \in Procs :
               u # t => pc'[u] = pc[u] /\ proposal'[u] = proposal[u]
        /\ chat' = chat
    BY <1>0, <1>2 DEF ProposeOpening, SubmitOpening, LocalsOK
  <2>3. SUFFICES ASSUME TypeInv',
                        \A tuple \in turn[t].wrote : InLedger(tuple)',
                        \A j \in Instances :
                            turn[t].shown[j] <= Len(ledger'[j]) + 1
                 PROVE  TurnOK(t)'
    BY <1>1, <2>1, <2>2, TurnSteps, TurnKnown
  <2>4. ASSUME NEW tuple \in turn'[t].wrote PROVE InLedger(tuple)'
    <3>1. 0 \in 0..Len(ledger'[i])
      <4>1. ledger'[i] \in Seq(Act)
        BY <2>3 DEF TypeInv, TypeOK
      <4> QED
        BY <4>1
    <3>2. CASE tuple = <<i, 0>>
      BY <2>2, <3>1, <3>2 DEF InLedger
    <3> QED
      BY <2>1, <2>3, <3>2
  <2>5. TupleOf(proposal'[t]) = <<i, 0>>
    BY <2>2 DEF TupleOf
  <2>6. /\ TurnOK(t)
        /\ <<i, 0>> \in turn'[t].wrote
    BY <2>1, TurnKnown
  <2> QED
    BY <1>0, <2>1, <2>2, <2>3, <2>4, <2>5, <2>6 DEF TurnOK
<1>3. ASSUME NEW act \in RequestActs(i), ProposeDispatch(t, i, act)
      PROVE  ChatInv'
  <2>1. /\ Changes(t) /\ turn'[t].phase = "append"
        /\ turn'[t].calls = turn[t].calls
        /\ turn'[t].registrations = turn[t].registrations
        /\ turn'[t].wrote = turn[t].wrote
        /\ turn'[t].shown = turn[t].shown
        /\ turn'[t].typed = turn[t].typed
    <3>1. Enters(t, "append")
      BY <1>3 DEF ProposeDispatch
    <3>2. turn'[t].typed = turn[t].typed
      BY <1>0, <3>1 DEF Enters, Turn
    <3> QED
      BY <3>1, <3>2, EntersChanges
  <2>2. /\ i \in opened' /\ pc'[t] = "append"
        /\ proposal'[t] = [instance |-> i, act |-> act]
        /\ Searched(turn[t], [instance |-> i, act |-> act])
        /\ \A u \in Procs :
               u # t => pc'[u] = pc[u] /\ proposal'[u] = proposal[u]
        /\ chat' = chat
    BY <1>0, <1>3
    DEF ProposeDispatch, SubmitDispatch, Consulted, Searched, LocalsOK
  <2>3. SUFFICES ASSUME TypeInv',
                        \A tuple \in turn[t].wrote : InLedger(tuple)',
                        \A j \in Instances :
                            turn[t].shown[j] <= Len(ledger'[j]) + 1
                 PROVE  TurnOK(t)'
    BY <1>1, <2>1, <2>2, TurnSteps, TurnKnown
  <2>4. Searched(turn'[t], proposal'[t])
    BY <2>1, <2>2 DEF Searched
  <2> QED
    BY <1>0, <2>1, <2>2, <2>3, <2>4, TurnKnown DEF TurnOK
<1> QED
  BY <1>2, <1>3

\* The insert: the tuple is in the ledger when the turn counts it as written.
LEMMA RecordsStep ==
    ASSUME ChatInv, NEW t \in Turns, RecordsAct(t)
    PROVE  ChatInv'
<1> DEFINE i == proposal[t].instance
           act == proposal[t].act
<1>0. /\ turn \in [Turns -> Turn] /\ turn[t] \in Turn
      /\ LocalsOK /\ t \in Procs /\ TypeInv /\ LedgerInv
      /\ chat \in Seq(Message) /\ TurnOK(t)
  BY TurnKnown
<1>1. /\ pc[t] = "append" /\ GoesTo(t, "close")
      /\ ledger' = Inserted(i, act) /\ chat' = chat
  BY DEF RecordsAct, AppendAct
<1>2. i \in Instances /\ act \in Act /\ act # NoAct /\ act.parent \in Nat
  <2>1. i \in Instances /\ act \in Act
    BY <1>0, <1>1, Locals DEF Registering, WithAct
  <2> QED
    BY <2>1, RuntimeAssumption DEF Act
<1>3. [Next]_vars
  BY ConverseIsNext DEF Converse
<1>4. /\ Changes(t) /\ turn'[t].phase = turn[t].phase
      /\ turn'[t].calls = turn[t].calls
      /\ turn'[t].registrations = turn[t].registrations
      /\ turn'[t].wrote = turn[t].wrote \cup {<<i, act.parent + 1>>}
      /\ turn'[t].shown = turn[t].shown
  <2>1. <<i, act.parent + 1>> \in Tuple
    BY <1>2 DEF Tuple
  <2>2. turn' = [turn EXCEPT ![t].wrote = @ \cup {<<i, act.parent + 1>>}]
    BY DEF RecordsAct
  <2> HIDE DEF i, act
  <2> QED
    BY <1>0, <2>1, <2>2 DEF Changes, Turn
<1>5. /\ pc'[t] = "close" /\ proposal' = proposal
      /\ \A u \in Turns : u # t => pc'[u] = pc[u]
  BY <1>0, <1>1 DEF GoesTo, LocalsOK
<1>6. /\ SingleChain' /\ opened \subseteq opened'
      /\ \E k \in DOMAIN ledger'[i] : ledger'[i][k] = act
  <2>1. SingleChain' /\ opened \subseteq opened'
    BY <1>0, <1>3, NextLedgerInv, OpenedGrows DEF LedgerInv
  <2>2. ledger \in [Instances -> Seq(Act)] /\ LedgerReplays
    BY <1>0, Shared DEF TypeInv
  <2> HIDE DEF i, act
  <2> QED
    BY <1>1, <1>2, <2>1, <2>2, InsertedType
<1>7. SUFFICES ASSUME TypeInv',
                      \A tuple \in turn[t].wrote : InLedger(tuple)',
                      \A j \in Instances :
                          turn[t].shown[j] <= Len(ledger'[j]) + 1
               PROVE  TurnOK(t)'
  BY <1>0, <1>1, <1>3, <1>4, <1>5, TurnSteps
<1>8. i \in opened' /\ act.parent + 1 \in 0..Len(ledger'[i])
  <2>1. i \in opened'
    BY <1>0, <1>1, <1>6 DEF TurnOK
  <2>2. ledger'[i] \in Seq(Act) /\ Chained(ledger'[i])
    BY <1>2, <1>6, <1>7 DEF TypeInv, TypeOK, SingleChain
  <2>3. PICK k \in DOMAIN ledger'[i] : ledger'[i][k] = act
    BY <1>6
  <2>4. act.parent = k - 1 /\ k \in 1..Len(ledger'[i])
    BY <2>2, <2>3 DEF Chained
  <2> QED
    BY <1>2, <2>1, <2>2, <2>4
<1>9. ASSUME NEW tuple \in turn'[t].wrote PROVE InLedger(tuple)'
  <2>1. CASE tuple = <<i, act.parent + 1>>
    <3>1. tuple[1] = i /\ tuple[2] = act.parent + 1
      BY <2>1
    <3> HIDE DEF act
    <3> QED
      BY <1>8, <3>1 DEF InLedger
  <2> QED
    BY <1>4, <1>7, <2>1
<1>10. /\ TupleOf(proposal'[t]) = <<i, act.parent + 1>>
       /\ <<i, act.parent + 1>> \in turn'[t].wrote
  BY <1>2, <1>4, <1>5 DEF TupleOf
<1>11. proposal'[t].instance \in opened'
  BY <1>5, <1>8
<1> HIDE DEF act, i
<1> QED
  BY <1>0, <1>1, <1>4, <1>5, <1>7, <1>9, <1>10, <1>11 DEF TurnOK

\* The route: the tuple it is about stays the one that was written.
LEMMA RoutesStep ==
    ASSUME ChatInv, NEW t \in Turns, Routes(t)
    PROVE  ChatInv'
<1>0. /\ turn \in [Turns -> Turn] /\ turn[t] \in Turn
      /\ LocalsOK /\ t \in Procs
      /\ chat \in Seq(Message) /\ TurnOK(t)
  BY TurnKnown
<1>1. /\ pc[t] \in {"close", "project"} /\ pc'[t] \in {"project", "enqueue"}
      /\ proposal' = proposal /\ turn' = turn /\ chat' = chat
      /\ \A u \in Turns : u # t => pc'[u] = pc[u]
  <2>1. turn' = turn /\ chat' = chat
    BY DEF Routes
  <2>2. pc[t] \in {"close", "project"} /\ proposal' = proposal
    BY DEF Routes, ClosePriorCustody, ProjectHead, GoesTo
  <2>3. PICK next \in {"project", "enqueue"} : pc' = [pc EXCEPT ![t] = next]
    BY DEF Routes, ClosePriorCustody, ProjectHead, GoesTo
  <2>4. \A u \in Turns : u \in Procs
    BY ChatAssumption DEF Procs
  <2> QED
    BY <1>0, <2>1, <2>2, <2>3, <2>4 DEF LocalsOK
<1>2. [Next]_vars /\ Changes(t)
  BY <1>0, <1>1, ConverseIsNext DEF Converse, Changes
<1>3. SUFFICES ASSUME TypeInv',
                      \A tuple \in turn[t].wrote : InLedger(tuple)',
                      \A i \in Instances :
                          turn[t].shown[i] <= Len(ledger'[i]) + 1
               PROVE  TurnOK(t)'
  BY <1>0, <1>1, <1>2, TurnSteps
<1>4. proposal[t].instance \in opened'
  BY <1>0, <1>1, <1>2, OpenedGrows DEF TurnOK
<1>5. TupleOf(proposal'[t]) \in turn'[t].wrote
  BY <1>0, <1>1 DEF TurnOK
<1> QED
  BY <1>0, <1>1, <1>3, <1>4, <1>5 DEF TurnOK

\* The handler ends, one way or the other.
LEMMA CallEnds ==
    ASSUME ChatInv, NEW t \in Turns,
           HasReceipt(t) \/ AppendFails(t) \/ ConsequenceFails(t)
    PROVE  /\ Ends(t) /\ chat' = chat /\ [Next]_vars
           /\ turn[t].calls > 0
<1>1. t \notin Workers /\ TurnOK(t) /\ t \in Procs
  BY TurnKnown
<1>2. Ends(t) /\ chat' = chat
  <2>1. CASE HasReceipt(t)
    BY <1>1, <2>1 DEF HasReceipt, QueueCustody
  <2>2. CASE AppendFails(t)
    BY <1>1, <2>2 DEF AppendFails, AppendRejected, QueryFails, Fails
  <2>3. CASE ConsequenceFails(t)
    BY <1>1, <2>3 DEF ConsequenceFails, RouteFails
  <2> QED
    BY <2>1, <2>2, <2>3
<1>3. pc[t] # "idle"
  BY DEF HasReceipt, QueueCustody, AppendFails, AppendRejected,
         QueryFails, ConsequenceFails, RouteFails
<1> QED
  BY <1>1, <1>2, <1>3, ConverseIsNext DEF Converse, TurnOK

LEMMA FailedCallStep ==
    ASSUME ChatInv, NEW t \in Turns, AppendFails(t) \/ ConsequenceFails(t)
    PROVE  ChatInv'
<1>1. Ends(t) /\ chat' = chat /\ [Next]_vars /\ turn[t].calls > 0
  BY CallEnds
<1>2. LocalsOK /\ t \in Procs /\ chat \in Seq(Message) /\ TurnOK(t)
  BY TurnKnown
<1>3. /\ pc'[t] = "idle"
      /\ \A u \in Turns : u # t => pc'[u] = pc[u] /\ proposal'[u] = proposal[u]
  BY <1>1, <1>2, ChatAssumption DEF Ends, LocalsOK, Procs
<1>4. CallDone(t)
  BY DEF AppendFails, ConsequenceFails
<1>5. /\ Changes(t) /\ turn'[t].phase = "tools"
      /\ turn'[t].registrations = turn[t].registrations
      /\ turn'[t].wrote = turn[t].wrote
      /\ turn'[t].shown = turn[t].shown
  BY <1>1, <1>4, CallDoneChanges
<1> QED
  BY <1>1, <1>2, <1>3, <1>5, TurnRests DEF TurnOK

LEMMA HasReceiptStep ==
    ASSUME ChatInv, NEW t \in Turns, HasReceipt(t)
    PROVE  ChatInv'
<1>0. turn \in [Turns -> Turn] /\ turn[t] \in Turn
  BY TurnKnown
<1>1. Ends(t) /\ chat' = chat /\ [Next]_vars /\ turn[t].calls > 0
  BY CallEnds
<1>2. LocalsOK /\ t \in Procs /\ chat \in Seq(Message) /\ TurnOK(t)
  BY TurnKnown
<1>3. /\ pc'[t] = "idle"
      /\ \A u \in Turns : u # t => pc'[u] = pc[u] /\ proposal'[u] = proposal[u]
  BY <1>1, <1>2, ChatAssumption DEF Ends, LocalsOK, Procs
<1>4. PICK receipt \in turn[t].wrote : receipt = TupleOf(proposal[t])
  BY <1>2 DEF HasReceipt, QueueCustody, TurnOK
<1>5. turn' = [turn EXCEPT ![t].phase = "tools", ![t].calls = @ - 1,
                           ![t].registrations = @ \cup {receipt}]
  BY <1>4 DEF HasReceipt, TupleOf
<1>6. receipt \in Tuple /\ turn[t].calls - 1 \in Nat
  BY <1>0, <1>1 DEF Turn
<1>7. /\ Changes(t) /\ turn'[t].phase = "tools"
      /\ turn'[t].registrations = turn[t].registrations \cup {receipt}
      /\ turn'[t].wrote = turn[t].wrote
      /\ turn'[t].shown = turn[t].shown
  BY <1>0, <1>5, <1>6 DEF Changes, Turn
<1>8. turn'[t].registrations \subseteq turn'[t].wrote
  BY <1>2, <1>4, <1>7 DEF TurnOK
<1> QED
  BY <1>1, <1>2, <1>3, <1>7, <1>8, TurnRests

LEMMA TurnDiesStep ==
    ASSUME ChatInv, NEW t \in Turns, TurnDies(t)
    PROVE  ChatInv'
<1> DEFINE new == [NewTurn EXCEPT !.phase = "dead"]
<1>0. /\ turn \in [Turns -> Turn]
      /\ LocalsOK /\ t \in Procs /\ chat \in Seq(Message)
  BY TurnKnown
<1>1. new \in Turn
  BY DEF NewTurn, Turn
<1>2. turn' = [turn EXCEPT ![t] = new] /\ chat' = chat
  BY DEF TurnDies
<1>3. /\ new.phase = "dead" /\ new.registrations = {} /\ new.wrote = {}
      /\ \A i \in Instances : new.shown[i] = 0
  BY DEF NewTurn
<1>4. [Next]_vars
  BY ConverseIsNext
<1>5. /\ pc'[t] = "idle"
      /\ \A u \in Turns : u # t => pc'[u] = pc[u] /\ proposal'[u] = proposal[u]
  BY <1>0, ChatAssumption DEF TurnDies, Crash, Ends, vars, LocalsOK, Procs
<1> HIDE DEF new
<1>6. /\ Changes(t) /\ turn'[t] = new
  BY <1>0, <1>1, <1>2 DEF Changes
<1> QED
  BY <1>0, <1>2, <1>3, <1>4, <1>5, <1>6, TurnRests

\* What the others do leaves every turn's locals alone.
LEMMA OthersStep ==
    ASSUME ChatInv, Others, UNCHANGED <<turn, chat>>
    PROVE  ChatInv'
<1>0. TypeInv /\ LocalsOK /\ LedgerInv
  BY Shared DEF ChatInv
<1>1. \A t \in Turns : pc'[t] = pc[t] /\ proposal'[t] = proposal[t]
  <2>0. SUFFICES ASSUME NEW t \in Turns
                 PROVE  pc'[t] = pc[t] /\ proposal'[t] = proposal[t]
    OBVIOUS
  <2>1. t \in Procs /\ t \notin Workers
    BY ChatAssumption, RuntimeAssumption DEF Procs
  <2>2. ASSUME NEW c \in Callers \ Turns, Submit(c)
        PROVE  pc'[t] = pc[t] /\ proposal'[t] = proposal[t]
    BY <1>0, <2>1, <2>2 DEF Submit, SubmitOpening, SubmitDispatch, LocalsOK
  <2>3. ASSUME NEW p \in Procs \ Turns, Register(p) \/ Fail(p)
        PROVE  pc'[t] = pc[t] /\ proposal'[t] = proposal[t]
    BY <1>0, <2>1, <2>3
    DEF Register, AppendAct, AppendRejected, ClosePriorCustody, ProjectHead,
        QueueCustody, Fail, Crash, QueryFails, RouteFails, Fails, GoesTo, Ends,
        LocalsOK
  <2>4. ASSUME NEW w \in Workers, Invoke(w) \/ Work(w) \/ RecordFails(w)
        PROVE  pc'[t] = pc[t] /\ proposal'[t] = proposal[t]
    BY <1>0, <2>1, <2>4
    DEF Invoke, Claim, Work, Reproject, CloseStaleClaim, RunActivity,
        ActivityRefused, VerifyProposal, RecordExecutionResult,
        RecordExecutionError, RecordFails, Fails, GoesTo, Ends, LocalsOK
  <2>5. CASE Environment
    BY <2>5 DEF Environment, LeaseExpires, SignGrant, VoidGrant,
                ResumeGrantSources, LoseResume
  <2> QED
    BY <2>2, <2>3, <2>4, <2>5 DEF Others
<1>2. TypeInv' /\ LedgerInv' /\ LedgerGrows /\ opened \subseteq opened'
  BY <1>0, OthersAreNext, NextType, NextLedgerInv, NextGrows, OpenedGrows
<1>3. ASSUME NEW t \in Turns PROVE TurnOK(t)'
  <2>1. TurnOK(t) /\ turn'[t] = turn[t]
    BY DEF ChatInv
  <2> QED
    BY <1>1, <1>2, <2>1, BystanderOK
<1> QED
  BY <1>2, <1>3 DEF ChatInv

------------------------------------------------------------------------------
LEMMA InitChatInv ==
    ASSUME InitChat PROVE ChatInv
<1>1. TypeInv /\ LedgerInv
  BY InitType, InitLedgerInv DEF InitChat
<1>2. turn \in [Turns -> Turn]
  BY DEF InitChat, NewTurn, Turn
<1>3. ASSUME NEW t \in Turns PROVE TurnOK(t)
  <2>1. pc[t] = "idle"
    BY ChatAssumption DEF InitChat, Init, Procs
  <2>2. turn[t] = NewTurn
    BY DEF InitChat
  <2>3. \A i \in Instances : ledger[i] = <<>>
    BY DEF InitChat, Init
  <2> QED
    BY <2>1, <2>2, <2>3 DEF TurnOK, NewTurn
<1> QED
  BY <1>1, <1>2, <1>3 DEF ChatInv, InitChat

LEMMA NextChatInv ==
    ASSUME ChatInv, [NextChat]_chatVars
    PROVE  ChatInv'
<1>1. ASSUME NEW t \in Turns, Converse(t) PROVE ChatInv'
  BY <1>1, CallToolsStep, ModelStep, LookStep, ProposeStep, RecordsStep,
     RoutesStep, HasReceiptStep, FailedCallStep DEF Converse
<1>2. ASSUME NEW t \in Turns, TurnDies(t) PROVE ChatInv'
  BY <1>2, TurnDiesStep
<1>3. CASE Others /\ UNCHANGED <<turn, chat>>
  BY <1>3, OthersStep
<1>4. CASE UNCHANGED chatVars
  <2>1. UNCHANGED vars /\ turn' = turn /\ chat' = chat
    BY <1>4 DEF chatVars
  <2>2. TypeInv' /\ LedgerInv' /\ LedgerGrows /\ opened \subseteq opened'
    BY <2>1, NextType, NextLedgerInv, NextGrows, OpenedGrows DEF ChatInv
  <2>3. ASSUME NEW t \in Turns PROVE TurnOK(t)'
    <3>1. TurnOK(t) /\ turn'[t] = turn[t]
          /\ pc'[t] = pc[t] /\ proposal'[t] = proposal[t]
      BY <2>1 DEF ChatInv, vars
    <3> QED
      BY <2>2, <3>1, BystanderOK
  <2> QED
    BY <2>1, <2>2, <2>3 DEF ChatInv
<1> QED
  BY <1>1, <1>2, <1>3, <1>4 DEF NextChat

\* The invariant of turns: inductive only with what is known of the tuple that
\* a registration in progress is about.
THEOREM TurnsKnowTheLedger == SpecChat => []ChatInv
  BY InitChatInv, NextChatInv, PTL DEF SpecChat

\* Type correctness of turns, whatever the model says.
THEOREM ChatTypeCorrect == SpecChat => []ChatTypeOK
<1>1. ChatInv => ChatTypeOK
  <2>1. ASSUME ChatInv PROVE ChatTypeOK
    BY <2>1 DEF ChatInv, ChatTypeOK, TypeInv, TurnOK
  <2> QED
    BY <2>1
<1> QED
  BY <1>1, TurnsKnowTheLedger, PTL

\* A receipt that a turn has in hand, returns and has stored in the reply names
\* a tuple whose append the ledger acknowledged to this turn and which is in
\* it, whatever else was tried, refused or lost.
THEOREM ReceiptsInLedger == SpecChat => []ReceiptsAreDurable
<1>1. ChatInv => ReceiptsAreDurable
  <2>1. ASSUME ChatInv, NEW t \in Turns, NEW receipt \in turn[t].registrations
        PROVE  receipt \in turn[t].wrote /\ InLedger(receipt)
    BY <2>1 DEF ChatInv, TurnOK
  <2> QED
    BY <2>1 DEF ReceiptsAreDurable, InLedger
<1> QED
  BY <1>1, TurnsKnowTheLedger, PTL

\* An Act that a turn records answers the last tuple its searches found, and
\* nothing came after it, unless the hash of the head was itself a query: the
\* guard asks only for a parent among the hashes of its searches, verification
\* and the unique index do the rest.
THEOREM NeverActsBlind == SpecChat => ActsOnWhatItSaw
<1>1. ASSUME ChatInv, NEW t \in Turns, NEW i \in Instances,
             RecordsAct(t), ledger'[i] # ledger[i]
      PROVE  \/ turn[t].shown[i] = Len(ledger[i]) + 1
             \/ <<i, Len(ledger[i])>> \in turn[t].typed
  <2> DEFINE act == proposal[t].act
  <2>1. /\ TypeInv /\ LedgerInv /\ TurnOK(t)
        /\ turn[t].shown \in [Instances -> Nat]
        /\ pc[t] = "append" /\ t \in Procs
    BY <1>1, TurnKnown DEF RecordsAct, AppendAct
  <2>2. proposal[t].instance \in Instances /\ act \in Act
    BY <2>1, Locals DEF Registering, WithAct
  <2>3. ledger \in [Instances -> Seq(Act)]
    BY <2>1, Shared
  <2>4. /\ ledger' = [ledger EXCEPT ![proposal[t].instance] = Append(@, act)]
        /\ Children(ledger[proposal[t].instance], act.parent) = {}
    BY <1>1 DEF RecordsAct, AppendAct, Inserted, Conflicts
  <2>5. proposal[t].instance = i
    BY <1>1, <2>2, <2>3, <2>4
  <2>6. act.parent = Len(ledger[i])
    <3>1. /\ ledger[i] \in Seq(Act) /\ Replayable(ledger[i])
          /\ Chained(ledger[i]) /\ Lawful(ledger[i])
          /\ Admissible(ledger[i], act)
      BY <2>1, <2>3, <2>5
      DEF TypeInv, LedgerReplays, LedgerInv, SingleChain, LawfulHistory, Pending
    <3> HIDE DEF act
    <3> QED
      BY <2>2, <2>4, <2>5, <3>1, AppendLawful DEF Admissible
  <2>7. /\ \/ act.parent < turn[t].shown[i]
           \/ <<i, act.parent>> \in turn[t].typed
        /\ turn[t].shown[i] <= Len(ledger[i]) + 1
    BY <2>1, <2>5 DEF TurnOK, Searched
  <2>8. turn[t].shown[i] \in Nat /\ Len(ledger[i]) \in Nat
    BY <2>1, <2>3
  <2> HIDE DEF act
  <2> QED
    BY <2>6, <2>7, <2>8
<1>2. ChatInv =>
          [\A t \in Turns : \A i \in Instances :
              (RecordsAct(t) /\ ledger'[i] # ledger[i]) =>
                  \/ turn[t].shown[i] = Len(ledger[i]) + 1
                  \/ <<i, Len(ledger[i])>> \in turn[t].typed]_chatVars
  BY <1>1
<1> QED
  BY <1>2, TurnsKnowTheLedger, PTL DEF ActsOnWhatItSaw
=============================================================================
