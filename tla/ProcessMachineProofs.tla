------------------------ MODULE ProcessMachineProofs ------------------------
(***************************************************************************)
(* Facts about replay that hold of every history and process type.         *)
(*                                                                         *)
(* Replay is a recursive function, so that it exists and is unique needs   *)
(* an induction over the history.  It is carried by the behaviours that    *)
(* build the history instead: ReplayDefined holds of the empty history and *)
(* is kept by every appended row, together with what replay then yields.   *)
(***************************************************************************)
EXTENDS ProcessMachine, TLAPS

IsReplay(history, states) ==
    states = [k \in 0..Len(history) |->
                 IF k = 0 THEN OpeningState
                 ELSE Observe(states[k - 1], history[k], k)]

ReplayDefined(history) ==
    /\ \E states : IsReplay(history, states)
    /\ \A f, g : IsReplay(history, f) /\ IsReplay(history, g) => f = g

\* What an invariant keeps about one instance's history.
Replayable(history) ==
    /\ ReplayDefined(history)
    /\ Replay(history) \in [0..Len(history) -> State]

\* Replay is the function its recursive definition describes.
LEMMA ReplayEquation ==
    ASSUME NEW history, ReplayDefined(history)
    PROVE  IsReplay(history, Replay(history))
<1>1. Replay(history) = CHOOSE states : IsReplay(history, states)
  BY DEF Replay, IsReplay
<1> QED
  BY <1>1 DEF ReplayDefined

\* A replay row by row.
LEMMA ReplayRows ==
    ASSUME NEW history \in Seq(Act), NEW states, IsReplay(history, states)
    PROVE  /\ DOMAIN states = 0..Len(history)
           /\ states[0] = OpeningState
           /\ \A k \in 1..Len(history) :
                 states[k] = Observe(states[k - 1], history[k], k)
  BY DEF IsReplay

\* The history of an instance that was just opened replays to its opening.
LEMMA ReplayEmpty ==
    /\ ReplayDefined(<<>>)
    /\ Replay(<<>>) = [k \in 0..0 |-> OpeningState]
<1> DEFINE states == [k \in 0..0 |-> OpeningState]
<1>1. IsReplay(<<>>, states)
  BY DEF IsReplay
<1>2. ASSUME NEW f, NEW g, IsReplay(<<>>, f), IsReplay(<<>>, g)
      PROVE  f = g
  BY <1>2 DEF IsReplay
<1>3. ReplayDefined(<<>>)
  BY <1>1, <1>2 DEF ReplayDefined
<1>4. IsReplay(<<>>, Replay(<<>>))
  BY <1>3, ReplayEquation
<1> QED
  BY <1>1, <1>3, <1>4 DEF ReplayDefined

\* Appending a row keeps the states before it and adds one turn of the loop:
\* recomputing the projection from the ledger never rewrites the past.
LEMMA ReplayAppend ==
    ASSUME NEW history \in Seq(Act), NEW act \in Act, ReplayDefined(history)
    PROVE  /\ ReplayDefined(Append(history, act))
           /\ DOMAIN Replay(Append(history, act)) = 0..Len(history) + 1
           /\ \A k \in 0..Len(history) :
                 Replay(Append(history, act))[k] = Replay(history)[k]
           /\ Replay(Append(history, act))[Len(history) + 1] =
                 Observe(Replay(history)[Len(history)], act, Len(history) + 1)
<1> DEFINE longer == Append(history, act)
           n == Len(history)
           Extend(f) == [k \in 0..n + 1 |->
                            IF k = n + 1 THEN Observe(f[n], act, n + 1)
                            ELSE f[k]]
           Restrict(f) == [k \in 0..n |-> f[k]]
<1>0. /\ n \in Nat
      /\ longer \in Seq(Act)
      /\ Len(longer) = n + 1
      /\ longer[n + 1] = act
      /\ \A k \in 1..n : longer[k] = history[k]
  OBVIOUS
<1>1. ASSUME NEW f, IsReplay(history, f)
      PROVE  IsReplay(longer, Extend(f))
  <2>1. /\ f[0] = OpeningState
        /\ \A k \in 1..n : f[k] = Observe(f[k - 1], history[k], k)
    BY <1>1, ReplayRows
  <2>2. ASSUME NEW k \in 0..n + 1
        PROVE  Extend(f)[k] = IF k = 0 THEN OpeningState
                              ELSE Observe(Extend(f)[k - 1], longer[k], k)
    <3>1. CASE k = 0
      BY <1>0, <2>1, <3>1
    <3>2. CASE k \in 1..n
      BY <1>0, <2>1, <3>2
    <3>3. CASE k = n + 1
      BY <1>0, <3>3
    <3> QED
      BY <1>0, <3>1, <3>2, <3>3
  <2> QED
    BY <1>0, <2>2 DEF IsReplay
<1>2. ASSUME NEW g, IsReplay(longer, g)
      PROVE  /\ IsReplay(history, Restrict(g))
             /\ g = Extend(Restrict(g))
  <2>1. /\ g = [k \in 0..n + 1 |-> g[k]]
        /\ g[0] = OpeningState
        /\ \A k \in 1..n + 1 : g[k] = Observe(g[k - 1], longer[k], k)
    BY <1>0, <1>2 DEF IsReplay
  <2>2. ASSUME NEW k \in 0..n
        PROVE  Restrict(g)[k] = IF k = 0 THEN OpeningState
                                ELSE Observe(Restrict(g)[k - 1], history[k], k)
    <3>1. CASE k = 0
      BY <2>1, <3>1
    <3>2. CASE k \in 1..n
      <4>1. k # 0 /\ k - 1 \in 0..n /\ k \in 1..n + 1
        BY <1>0, <3>2
      <4>2. g[k] = Observe(g[k - 1], history[k], k)
        BY <1>0, <2>1, <3>2, <4>1
      <4>3. Restrict(g)[k] = g[k] /\ Restrict(g)[k - 1] = g[k - 1]
        BY <4>1
      <4> QED
        BY <4>1, <4>2, <4>3
    <3> QED
      BY <1>0, <3>1, <3>2
  <2>3. IsReplay(history, Restrict(g))
    BY <2>2 DEF IsReplay
  <2>4. ASSUME NEW k \in 0..n + 1
        PROVE  g[k] = Extend(Restrict(g))[k]
    BY <1>0, <2>1
  <2> QED
    BY <2>1, <2>3, <2>4
<1>3. IsReplay(history, Replay(history))
  BY ReplayEquation
<1>4. ReplayDefined(longer)
  <2>1. \E f : IsReplay(longer, f)
    BY <1>1, <1>3
  <2>2. ASSUME NEW f, NEW g, IsReplay(longer, f), IsReplay(longer, g)
        PROVE  f = g
    <3>1. Restrict(f) = Restrict(g)
      <4>1. IsReplay(history, Restrict(f)) /\ IsReplay(history, Restrict(g))
        BY <1>2, <2>2
      <4> HIDE DEF Restrict
      <4> QED
        BY <4>1 DEF ReplayDefined
    <3>2. f = Extend(Restrict(f)) /\ g = Extend(Restrict(g))
      BY <1>2, <2>2
    <3> HIDE DEF Restrict, Extend
    <3> QED
      BY <3>1, <3>2
  <2> QED
    BY <2>1, <2>2 DEF ReplayDefined
<1>5. Replay(longer) = Extend(Replay(history))
  <2>1. IsReplay(longer, Replay(longer))
    BY <1>4, ReplayEquation
  <2>2. IsReplay(longer, Extend(Replay(history)))
    BY <1>1, <1>3
  <2> HIDE DEF longer, Extend
  <2> QED
    BY <1>4, <2>1, <2>2 DEF ReplayDefined
<1> QED
  BY <1>0, <1>4, <1>5

\* One turn of the loop ends in a state.
LEMMA ObserveType ==
    ASSUME NEW state \in State, NEW act \in Act, NEW k \in Nat
    PROVE  Observe(state, act, k) \in State
<1>1. CASE /\ act.parent = state.tuple
           /\ IsOpen(state)
           /\ act.status \in Outcomes
  <2>1. Branch[state.node][act.status] \in Targets
    BY <1>1, TypeAssumption DEF IsOpen
  <2> QED
    BY <1>1, <2>1 DEF Observe, State
<1>2. CASE ~(/\ act.parent = state.tuple
             /\ IsOpen(state)
             /\ act.status \in Outcomes)
  BY <1>2 DEF Observe
<1> QED
  BY <1>1, <1>2

\* Whatever row is appended, the longer history replays too.
LEMMA ReplayableAppend ==
    ASSUME NEW history \in Seq(Act), NEW act \in Act, Replayable(history)
    PROVE  Replayable(Append(history, act))
<1> DEFINE longer == Append(history, act)
           n == Len(history)
<1>0. n \in Nat /\ Len(longer) = n + 1
  OBVIOUS
<1>1. /\ ReplayDefined(longer)
      /\ \A k \in 0..n : Replay(longer)[k] = Replay(history)[k]
      /\ Replay(longer)[n + 1] = Observe(Replay(history)[n], act, n + 1)
  BY ReplayAppend DEF Replayable
<1>2. \A k \in 0..n : Replay(longer)[k] \in State
  BY <1>1 DEF Replayable
<1>3. Replay(longer)[n + 1] \in State
  BY <1>0, <1>1, ObserveType DEF Replayable
<1>4. \A k \in 0..n + 1 : Replay(longer)[k] \in State
  BY <1>0, <1>2, <1>3
<1>5. Replay(longer) = [k \in 0..n + 1 |-> Replay(longer)[k]]
  BY <1>0, <1>1, ReplayEquation DEF IsReplay
<1> HIDE DEF longer, n
<1>6. Replay(longer) \in [0..n + 1 -> State]
  BY <1>4, <1>5
<1> QED
  BY <1>0, <1>1, <1>6 DEF Replayable, longer, n

\* The empty history replays, and so does the head of every history that does.
LEMMA ReplayableEmpty == Replayable(<<>>)
<1>1. OpeningState \in State
  BY TypeAssumption DEF OpeningState, State, Targets
<1> QED
  BY <1>1, ReplayEmpty DEF Replayable

LEMMA HeadType ==
    ASSUME NEW history \in Seq(Act), Replayable(history)
    PROVE  processCurrentState(history) \in State
<1>1. Len(history) \in 0..Len(history)
  OBVIOUS
<1> QED
  BY <1>1 DEF processCurrentState, Replayable

\* In a lawful history the projected head is the last row.
LEMMA HeadIsLast ==
    ASSUME NEW history \in Seq(Act), Replayable(history), Lawful(history),
           NEW k \in 0..Len(history)
    PROVE  Replay(history)[k].tuple = k
<1>0. ReplayDefined(history)
  BY DEF Replayable
<1>1. CASE k = 0
  BY <1>0, <1>1, ReplayEquation, ReplayRows DEF OpeningState
<1>2. CASE k \in 1..Len(history)
  <2>1. LawfulMove(history, k)
    BY <1>2 DEF Lawful
  <2> QED
    BY <2>1 DEF LawfulMove
<1> QED
  BY <1>1, <1>2

\* What an appended row finds and leaves, when it answers a tuple nobody has
\* answered and whose node is its author's: the chain stays a chain, and the
\* row is a lawful move from the head.
LEMMA AppendLawful ==
    ASSUME NEW history \in Seq(Act), NEW act \in Act,
           Replayable(history), Chained(history), Lawful(history),
           act.parent \in 0..Len(history),
           Children(history, act.parent) = {},
           IsOpen(Replay(history)[act.parent]),
           act.who = Responsible[Replay(history)[act.parent].node],
           act.status \in Outcomes,
           Branch[Replay(history)[act.parent].node][act.status] # Missing
    PROVE  /\ act.parent = Len(history)
           /\ Replayable(Append(history, act))
           /\ Chained(Append(history, act))
           /\ Lawful(Append(history, act))
           /\ \A k \in 0..Len(history) :
                 Replay(Append(history, act))[k] = Replay(history)[k]
<1> DEFINE longer == Append(history, act)
           n == Len(history)
           head == Replay(history)[n]
<1>0. /\ n \in Nat
      /\ longer \in Seq(Act)
      /\ Len(longer) = n + 1
      /\ DOMAIN history = 1..n
      /\ DOMAIN longer = 1..n + 1
      /\ longer[n + 1] = act
      /\ \A k \in 1..n : longer[k] = history[k]
  OBVIOUS
<1>1. act.parent = n
  <2>1. ASSUME act.parent # n PROVE FALSE
    <3>1. act.parent + 1 \in DOMAIN history
      BY <1>0, <2>1
    <3>2. history[act.parent + 1].parent = act.parent
      BY <1>0, <3>1 DEF Chained
    <3> QED
      BY <3>1, <3>2 DEF Children
  <2> QED
    BY <2>1
<1>2. head.tuple = n
  BY <1>0, HeadIsLast
<1>3. /\ ReplayDefined(longer)
      /\ DOMAIN Replay(longer) = 0..n + 1
      /\ \A k \in 0..n : Replay(longer)[k] = Replay(history)[k]
      /\ Replay(longer)[n + 1] = Observe(head, act, n + 1)
  BY ReplayAppend DEF Replayable
<1>4. Replay(longer)[n + 1] =
          [node |-> Branch[head.node][act.status], tuple |-> n + 1]
  BY <1>1, <1>2, <1>3 DEF Observe
<1>5. Replayable(longer)
  BY ReplayableAppend
<1>6. Chained(longer)
  BY <1>0, <1>1 DEF Chained
<1>7. ASSUME NEW k \in DOMAIN longer
      PROVE  LawfulMove(longer, k)
  <2>1. CASE k = n + 1
    <3>1. Replay(longer)[k - 1] = head
      BY <1>0, <1>3, <2>1
    <3>2. IsOpen(head) /\ act.who = Responsible[head.node]
      BY <1>1
    <3>3. Branch[head.node][act.status] # Missing
      BY <1>1
    <3>4. longer[k] = act
      BY <1>0, <2>1
    <3>5. Replay(longer)[k] =
              [node |-> Branch[head.node][act.status], tuple |-> k]
      BY <1>4, <2>1
    <3> HIDE DEF longer, head
    <3> QED
      BY <3>1, <3>2, <3>3, <3>4, <3>5 DEF LawfulMove
  <2>2. CASE k \in 1..n
    <3>1. LawfulMove(history, k)
      BY <1>0, <2>2 DEF Lawful
    <3>2. /\ Replay(longer)[k] = Replay(history)[k]
          /\ Replay(longer)[k - 1] = Replay(history)[k - 1]
      BY <1>0, <1>3, <2>2
    <3>3. longer[k] = history[k]
      BY <1>0, <2>2
    <3> HIDE DEF longer
    <3> QED
      BY <3>1, <3>2, <3>3 DEF LawfulMove
  <2> QED
    BY <1>0, <2>1, <2>2
<1> QED
  BY <1>0, <1>1, <1>3, <1>5, <1>6, <1>7 DEF Lawful
=============================================================================
