------------------------------ MODULE ChatTurn ------------------------------
(***************************************************************************)
(* POST /api/chat/turn: a model is asked again and again, each response is *)
(* a text or a batch of tool calls (about, search, append), and what the   *)
(* tools return goes into the next request.  An append goes through        *)
(* registerFlow like any other request, but whatever it throws becomes a   *)
(* tool result.  The turn ends with the first batch in which something was *)
(* registered, with a text, with an error, or when the loop is exhausted;  *)
(* then the question and the reply are stored in D1.                       *)
(*                                                                         *)
(* The model is free: it may call anything with any argument it knows.     *)
(* Each turn is also one of the callers of CustodyRuntime, whose actions   *)
(* it takes one by one.                                                    *)
(***************************************************************************)
EXTENDS CustodyRuntime, FiniteSets

CONSTANTS
    Turns,          \* chat turns, among the Callers
    MaxResponses,   \* responses of the model in one turn: 10 in the code
    MaxBatch        \* bound: tool calls in one response

ASSUME ChatAssumption ==
    /\ Turns \subseteq Callers
    /\ MaxResponses \in Nat
    /\ MaxBatch \in Nat

VARIABLES
    turn,       \* per turn, the locals of runDreamTurn
    chat        \* chat_turns: the messages that are stored

chatVars == <<vars, turn, chat>>

\* `calls` are left of the batch.  `met`, `shown` and `typed` are searchedHashes:
\* the instances, and of each instance the first tuples, that its searches named,
\* and the tuples whose hash was itself a query, found or not.  `registrations`
\* are the receipts it has in hand, the opening's being tuple 0.  `wrote` is a
\* history variable: the tuples whose append the ledger has acknowledged to it.
Tuple == Instances \X Nat

Turn == [phase : {"model", "tools", "append", "question", "reply",
                  "answered", "failed", "dead"},
         responses : Nat, calls : Nat, searched : BOOLEAN,
         met : SUBSET Instances, shown : [Instances -> Nat],
         typed : SUBSET Tuple,
         registrations : SUBSET Tuple, wrote : SUBSET Tuple]

Message == [turn : Turns, role : {"user", "assistant"}]

NewTurn == [phase |-> "model", responses |-> 0, calls |-> 0, searched |-> FALSE,
            met |-> {}, shown |-> [i \in Instances |-> 0], typed |-> {},
            registrations |-> {}, wrote |-> {}]

InitChat ==
    /\ Init
    /\ turn = [t \in Turns |-> NewTurn]
    /\ chat = <<>>

Enters(t, phase) == turn' = [turn EXCEPT ![t].phase = phase]

\* runDreamTurn is over with `registrations`, which it returns unless it has
\* thrown; its locals are gone.
Leaves(t, outcome, registrations) ==
    turn' = [turn EXCEPT ![t] = [NewTurn EXCEPT !.phase = outcome,
                                                !.registrations = registrations,
                                                !.wrote = turn[t].wrote]]

\* A call that fails takes the next one with it.
CallSkipsOne(t) == turn' = [turn EXCEPT ![t].phase = "tools", ![t].calls = @ - 2]

\* The call has its result, good or bad, and the next one is due.
CallDone(t) == turn' = [turn EXCEPT ![t].phase = "tools", ![t].calls = @ - 1]

------------------------------------------------------------------------------
\* The model.

\* A loop without its counter.
CallToolsForever(t, n) ==
    /\ turn[t].phase = "model"
    /\ turn' = [turn EXCEPT ![t].phase = "tools", ![t].calls = n]
    /\ UNCHANGED <<vars, chat>>

\* A response with n tool calls.
CallTools(t, n) ==
    /\ turn[t].phase = "model"
    /\ turn[t].responses < MaxResponses
    /\ turn' = [turn EXCEPT ![t].phase = "tools", ![t].calls = n,
                            ![t].responses = @ + 1]
    /\ UNCHANGED <<vars, chat>>

\* A response that is text is the reply.
Reply(t) ==
    /\ turn[t].phase = "model"
    /\ turn[t].responses < MaxResponses
    /\ Leaves(t, "question", turn[t].registrations)
    /\ UNCHANGED <<vars, chat>>

\* The catalogue, the bridge or the response is bad, or the loop is exhausted:
\* runDreamTurn throws.
ModelFails(t) ==
    /\ turn[t].phase = "model"
    /\ Leaves(t, "failed", {})
    /\ UNCHANGED <<vars, chat>>

------------------------------------------------------------------------------
\* Tools.

Calls(t) == turn[t].phase = "tools" /\ turn[t].calls > 0

\* about, an unknown tool, and an append that one of the guards or
\* verifyProposal refuses: nothing but a result.
OtherCall(t) ==
    /\ Calls(t)
    /\ CallDone(t)
    /\ UNCHANGED <<vars, chat>>

\* search of the catalogue shows hashes of types.
SearchTypes(t) ==
    /\ Calls(t)
    /\ turn' = [turn EXCEPT ![t].calls = @ - 1, ![t].searched = TRUE]
    /\ UNCHANGED <<vars, chat>>

\* What a search has named: instance i, and its tuples before number n.  Of those
\* a query by text or a small limit may leave out some, which does not matter: a
\* tuple that has been answered is no parent any more.
Names(t, i, n, typed) ==
    turn' = [turn EXCEPT ![t].calls = @ - 1, ![t].searched = TRUE,
                         ![t].met = @ \cup {i},
                         ![t].shown[i] = IF n > @ THEN n ELSE @,
                         ![t].typed = @ \cup typed]

\* search by some text: it finds Acts of an instance, the last of them at any
\* place of its history.
SearchActs(t, i, n) ==
    /\ Calls(t)
    /\ i \in opened
    /\ n \in 1..Len(ledger[i]) + 1
    /\ Names(t, i, n, {})
    /\ UNCHANGED <<vars, chat>>

\* search by the hash of an instance returns its current tuple, and the hash
\* itself as the query, whether the instance is there or not.
SearchInstance(t, i) ==
    /\ Calls(t)
    /\ Names(t, i, IF i \in opened THEN Len(ledger[i]) + 1 ELSE 0, {})
    /\ UNCHANGED <<vars, chat>>

\* search by the hash of a tuple returns the Act and the one that answers it,
\* with their instance, if they are there, and the hash itself in any case.
SearchTuple(t, i, k) ==
    /\ Calls(t)
    /\ IF i \in opened /\ k <= Len(ledger[i])
       THEN Names(t, i, IF k < Len(ledger[i]) THEN k + 2 ELSE k + 1, {<<i, k>>})
       ELSE turn' = [turn EXCEPT ![t].calls = @ - 1, ![t].searched = TRUE,
                                 ![t].typed = @ \cup {<<i, k>>}]
    /\ UNCHANGED <<vars, chat>>

\* The guard on a dispatch, and one that asks for some search only.
SearchedAnything(t, i, act) == turn[t].searched

Consulted(t, i, act) ==
    /\ i \in turn[t].met
    /\ \/ act.parent < turn[t].shown[i]
       \/ <<i, act.parent>> \in turn[t].typed

ProposeOpening(t, i) ==
    /\ Calls(t)
    /\ turn[t].searched
    /\ SubmitOpening(t, i)
    /\ turn' = [turn EXCEPT ![t].phase = "append",
                            ![t].wrote = @ \cup {<<i, 0>>}]
    /\ UNCHANGED chat

\* An append tool that inserts without verifying.
ProposeUnverified(t, i, act) ==
    /\ Calls(t)
    /\ Consulted(t, i, act)
    /\ pc' = [pc EXCEPT ![t] = "append"]
    /\ proposal' = [proposal EXCEPT ![t] = [instance |-> i, act |-> act]]
    /\ Len(ledger[i]) < MaxActs
    /\ UNCHANGED <<opened, ledger, grant, queue, job, view>>
    /\ Enters(t, "append")
    /\ UNCHANGED chat

ProposeDispatch(t, i, act) ==
    /\ Calls(t)
    /\ Consulted(t, i, act)
    /\ SubmitDispatch(t, i, act)
    /\ Enters(t, "append")
    /\ UNCHANGED chat

\* registerFlow goes on.
RecordsAct(t) ==
    /\ AppendAct(t)
    /\ turn' = [turn EXCEPT ![t].wrote = @ \cup
                    {<<proposal[t].instance,
                       proposal[t].act.parent + 1>>}]
    /\ UNCHANGED chat

Routes(t) ==
    /\ ClosePriorCustody(t) \/ ProjectHead(t)
    /\ UNCHANGED <<turn, chat>>

\* registerResponse: the receipt is in hand.
HasReceipt(t) ==
    LET tuple == IF proposal[t].act = NoAct THEN 0
                 ELSE proposal[t].act.parent + 1
    IN  /\ QueueCustody(t)
        /\ turn' = [turn EXCEPT ![t].phase = "tools", ![t].calls = @ - 1,
                                ![t].registrations =
                                    @ \cup {<<proposal[t].instance, tuple>>}]
        /\ UNCHANGED chat

\* The receipt is counted before registerFlow has come back with it.
AppendFailsCounted(t) ==
    /\ AppendRejected(t) \/ QueryFails(t)
    /\ turn' = [turn EXCEPT ![t].phase = "tools", ![t].calls = @ - 1,
                            ![t].registrations = @ \cup
                                {<<proposal[t].instance,
                                   proposal[t].act.parent + 1>>}]
    /\ UNCHANGED chat

\* The insert breaks the unique index, or a query before the route fails or
\* loses its answer.
AppendFails(t) ==
    /\ AppendRejected(t) \/ QueryFails(t)
    /\ CallDone(t)
    /\ UNCHANGED chat

\* The route fails after the append.  RegisterActivationError has the receipt;
\* processError keeps the message, and the call has failed like any other.
ConsequenceFails(t) ==
    /\ RouteFails(t)
    /\ CallDone(t)
    /\ UNCHANGED chat

\* The batch is over: the model is asked again unless something was registered.
BatchDone(t) ==
    /\ turn[t].phase = "tools"
    /\ turn[t].calls = 0
    /\ IF turn[t].registrations # {}
       THEN Leaves(t, "question", turn[t].registrations)
       ELSE Enters(t, "model")
    /\ UNCHANGED <<vars, chat>>

------------------------------------------------------------------------------
\* storeConversationPair: two inserts into D1.

StoreQuestion(t) ==
    /\ turn[t].phase = "question"
    /\ chat' = Append(chat, [turn |-> t, role |-> "user"])
    /\ Enters(t, "reply")
    /\ UNCHANGED vars

StoreReply(t) ==
    /\ turn[t].phase = "reply"
    /\ chat' = Append(chat, [turn |-> t, role |-> "assistant"])
    /\ Enters(t, "answered")
    /\ UNCHANGED vars

\* D1 refuses, and the request ends in chat_turn_failed.
StoreFails(t) ==
    /\ turn[t].phase \in {"question", "reply"}
    /\ Leaves(t, "failed", {})
    /\ UNCHANGED <<vars, chat>>

\* The isolate is gone: nobody gets an answer.
TurnDies(t) ==
    /\ "crash" \in Faults
    /\ turn[t].phase \notin {"answered", "failed", "dead"}
    /\ IF pc[t] = "idle" THEN UNCHANGED vars ELSE Crash(t)
    /\ turn' = [turn EXCEPT ![t] = [NewTurn EXCEPT !.phase = "dead"]]
    /\ UNCHANGED chat

------------------------------------------------------------------------------
Converse(t) ==
    \/ \E n \in 1..MaxBatch : CallTools(t, n)
    \/ Reply(t)
    \/ ModelFails(t)
    \/ OtherCall(t)
    \/ SearchTypes(t)
    \/ \E i \in Instances : \E n \in 1..MaxActs + 1 : SearchActs(t, i, n)
    \/ \E i \in Instances : SearchInstance(t, i)
    \/ \E i \in Instances : \E k \in 0..MaxActs - 1 : SearchTuple(t, i, k)
    \/ \E i \in Instances : ProposeOpening(t, i)
    \/ \E i \in Instances : \E act \in RequestActs(i) : ProposeDispatch(t, i, act)
    \/ RecordsAct(t)
    \/ Routes(t)
    \/ HasReceipt(t)
    \/ AppendFails(t)
    \/ ConsequenceFails(t)
    \/ BatchDone(t)
    \/ StoreQuestion(t)
    \/ StoreReply(t)
    \/ StoreFails(t)

\* Everybody else.
Others ==
    \/ \E c \in Callers \ Turns : Submit(c)
    \/ \E p \in Procs \ Turns : Register(p) \/ Fail(p)
    \/ \E w \in Workers : Invoke(w) \/ Work(w) \/ RecordFails(w)
    \/ Environment

NextChat ==
    \/ \E t \in Turns : Converse(t) \/ TurnDies(t)
    \/ Others /\ UNCHANGED <<turn, chat>>

SpecChat == InitChat /\ [][NextChat]_chatVars

\* The model answers, and a request that is not dead goes on.
FairChat == SpecChat /\ \A t \in Turns : WF_chatVars(Converse(t))

------------------------------------------------------------------------------
\* Properties.

\* Type invariant.
ChatTypeOK ==
    /\ TypeOK
    /\ turn \in [Turns -> Turn]
    /\ chat \in Seq(Message)
    /\ \A t \in Turns : (pc[t] # "idle") <=> (turn[t].phase = "append")
    /\ \A t \in Turns : turn[t].phase = "append" => turn[t].calls > 0

\* "Chat uses the same canonical universal membrane" (docs/API.md): whatever
\* the model asks for, the tables change as they do when ordinary requests and
\* executors change them.
ActsAsRequests == Spec

\* A dispatch of a turn is recorded only on a head that its searches have found,
\* or whose hash the model typed as a query of its own: had anybody moved the
\* instance on since it was found, the guard, verification or the unique index
\* would have stopped it.
ActsOnWhatItSaw ==
    [][\A t \in Turns : \A i \in Instances :
          (RecordsAct(t) /\ ledger'[i] # ledger[i]) =>
              \/ turn[t].shown[i] = Len(ledger[i]) + 1
              \/ <<i, Len(ledger[i])>> \in turn[t].typed]_chatVars

\* What the response and the stored reply say is registered is in the ledger:
\* a receipt in hand is of a tuple whose append was acknowledged, and neither a
\* refused call nor one that lost a race to another request left one
\* (registrations.push after the await).
ReceiptsAreDurable ==
    \A t \in Turns : \A receipt \in turn[t].registrations :
        /\ receipt \in turn[t].wrote
        /\ receipt[1] \in opened
        /\ receipt[2] \in 0..Len(ledger[receipt[1]])

\* Every turn comes to an end, whatever the model calls and whichever calls
\* fail: the loop is bounded, and a batch is.
TurnEnds ==
    \A t \in Turns :
        <>(turn[t].phase \in {"answered", "failed", "dead"})

\* "If the Act was durably appended, the response must not pretend it was
\* never recorded" (docs/API.md): when the turn is answered, what it wrote is
\* among its registrations, and an error says nothing of any.
DurableActsReported ==
    \A t \in Turns :
        /\ turn[t].phase = "answered" => turn[t].wrote \subseteq turn[t].registrations
        /\ turn[t].phase = "failed" => turn[t].wrote = {}
=============================================================================
