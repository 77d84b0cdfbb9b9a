------------------------- MODULE GrantSignoffProofs --------------------------
(***************************************************************************)
(* What holds of GrantSignoff for any number of grants, passkeys and       *)
(* concurrent requests, and wherever the requests die.                     *)
(***************************************************************************)
EXTENDS GrantSignoff, TLAPS

------------------------------------------------------------------------------
\* Types, and what a handler knows at each of its queries.

AskerPCs == {"idle", "retire", "insert", "refresh"}
VerifierPCs == {"idle", "authenticator", "consume", "enroll", "counter",
                "signoff"}

\* The options of a signoff are for a passkey that was enrolled.
AskerOK(o) ==
    /\ pc[o] \in AskerPCs
    /\ pc[o] # "idle" => req[o] \in Challenges
    /\ pc[o] = "retire" => req[o] \in Keys
    /\ pc[o] \in {"insert", "refresh"} /\ req[o] \in Grants => view[o].key \in Keys

\* An answer to a signoff is one that was made, and passes every check that
\* lies behind the handler.
VerifierOK(v) ==
    /\ pc[v] \in VerifierPCs
    /\ pc[v] # "idle" => req[v] \in Answer
    /\ pc[v] = "enroll" => req[v].grant = NoGrant
    /\ pc[v] \in {"authenticator", "counter", "signoff"} => req[v] \in answers
    /\ pc[v] = "consume" /\ req[v].grant # NoGrant =>
           req[v] \in answers /\ view[v].key = req[v].key
    /\ pc[v] \in {"counter", "signoff"} => req[v].good /\ view[v].key = req[v].key

AnswersOK == \A answer \in answers : answer.grant \in Grants

TypeInv ==
    /\ TypeOK
    /\ AnswersOK
    /\ \A o \in Askers : AskerOK(o)
    /\ \A v \in Verifiers : VerifierOK(v)

------------------------------------------------------------------------------
\* Who holds a used challenge, and what came of it.

\* Verifiers that have consumed a challenge and not yet recorded for what.
Holding(v) == pc[v] \in {"enroll", "counter", "signoff"}

\* The challenge an answer is to, and an Act of a ceremony stands for.
Answers(answer) == IF answer.grant = NoGrant THEN answer.key ELSE answer.grant
Ceremony(act) == IF act.did = "enroll" THEN act.key ELSE act.grant

Concluded == {n \in DOMAIN ledger : ledger[n].did # "counter"}

\* A used challenge has one holder or one Act, never both: it is what makes
\* the use of a challenge exclusive although nothing spans D1 and Postgres.
ChallengeInv ==
    /\ \A v \in Verifiers : Holding(v) => challenge[Answers(req[v])] = "used"
    /\ \A v, w \in Verifiers :
           Holding(v) /\ Holding(w) /\ Answers(req[v]) = Answers(req[w]) => v = w
    /\ \A n \in Concluded : challenge[Ceremony(ledger[n])] = "used"
    /\ \A n, m \in Concluded : Ceremony(ledger[n]) = Ceremony(ledger[m]) => n = m
    /\ \A n \in Concluded, v \in Verifiers :
           Holding(v) => Ceremony(ledger[n]) # Answers(req[v])

\* Before position n of a ledger the count of a passkey was recorded.
Recorded(acts, n, key, count) ==
    \E m \in DOMAIN acts :
        /\ m < n /\ acts[m].did = "counter"
        /\ acts[m].key = key /\ acts[m].count = count

\* A verifier about to sign off has recorded its counter, and a signoff in the
\* ledger had its answer and its counter.
CounterInv ==
    /\ \A v \in Verifiers :
           pc[v] = "signoff" => Recorded(ledger, Len(ledger) + 1, req[v].key, req[v].count)
    /\ \A n \in Acts("signoff") :
           /\ [grant |-> ledger[n].grant, key |-> ledger[n].key,
               count |-> ledger[n].count, good |-> TRUE] \in answers
           /\ Recorded(ledger, n, ledger[n].key, ledger[n].count)

------------------------------------------------------------------------------
\* How a handler moves on.

\* The other handlers' locals stay.
OthersStay(p) ==
    \A q \in Procs : q # p => pc'[q] = pc[q] /\ req'[q] = req[q] /\ view'[q] = view[q]

\* What one handler's step must show.
StepsType(p) ==
    /\ pc' \in [Procs -> PCs] /\ req' \in [Procs -> Req] /\ view' \in [Procs -> View]
    /\ OthersStay(p)
    /\ answers' = answers /\ recognized' = recognized
    /\ revoked' = revoked /\ device' = device

LEMMA MovesType ==
    ASSUME TypeInv, NEW p \in Procs, StepsType(p),
           challenge' \in [Challenges -> Statuses], ledger' \in Seq(Act),
           offered' \in SUBSET Offer,
           p \in Askers => AskerOK(p)', p \in Verifiers => VerifierOK(p)'
    PROVE  TypeInv'
<1>1. ASSUME NEW o \in Askers PROVE AskerOK(o)'
  <2>1. CASE o = p
    BY <1>1, <2>1
  <2>2. CASE o # p
    BY <1>1, <2>2 DEF TypeInv, AskerOK, StepsType, OthersStay, Procs
  <2> QED
    BY <2>1, <2>2
<1>2. ASSUME NEW v \in Verifiers PROVE VerifierOK(v)'
  <2>1. CASE v = p
    BY <1>2, <2>1
  <2>2. CASE v # p
    BY <1>2, <2>2 DEF TypeInv, VerifierOK, StepsType, OthersStay, Procs
  <2> QED
    BY <2>1, <2>2
<1> QED
  BY <1>1, <1>2 DEF TypeInv, TypeOK, AnswersOK, StepsType

LEMMA EndsType ==
    ASSUME TypeInv, NEW p \in Procs, Ends(p), answers' = answers,
           recognized' = recognized, revoked' = revoked, device' = device,
           challenge' \in [Challenges -> Statuses], ledger' \in Seq(Act),
           offered' \in SUBSET Offer
    PROVE  TypeInv'
<1>1. StepsType(p)
  BY DEF TypeInv, TypeOK, Ends, StepsType, OthersStay, PCs, Req, View, NoView
<1>2. AskerOK(p)' /\ (p \in Verifiers => VerifierOK(p)')
  BY DEF TypeInv, TypeOK, AskerOK, VerifierOK, Ends, AskerPCs, VerifierPCs
<1> QED
  BY <1>1, <1>2, MovesType

LEMMA InitType ==
    ASSUME Init PROVE TypeInv
<1>1. TypeOK
  BY SignoffAssumption DEF Init, TypeOK, Statuses, PCs, Req, View, NoView, Challenges
<1> QED
  BY <1>1 DEF Init, TypeInv, AnswersOK, AskerOK, VerifierOK, AskerPCs,
              VerifierPCs, Procs

------------------------------------------------------------------------------
\* The requests for options.

\* A passkey that is offered was enrolled.
LEMMA CurrentIsKey ==
    ASSUME TypeOK, NEW n \in Current
    PROVE  ledger[n].key \in Keys
  BY DEF TypeOK, Current, Newest, Enrolled, Acts, Act

LEMMA DeliversType ==
    ASSUME TypeInv, NEW o \in Askers, pc[o] \in {"insert", "refresh"}, Delivers(o)
    PROVE  offered' \in SUBSET Offer
  BY DEF TypeInv, TypeOK, AskerOK, Delivers, Offer

LEMMA AskerType ==
    ASSUME TypeInv, NEW o \in Askers, Ask(o)
    PROVE  TypeInv'
<1>0. /\ o \in Procs /\ o \notin Verifiers
      /\ TypeOK /\ AskerOK(o)
  BY SignoffAssumption DEF TypeInv, Procs
<1>1. ASSUME NEW key \in Keys, AskEnroll(o, key) PROVE TypeInv'
  <2>1. StepsType(o)
    BY <1>0, <1>1 DEF AskEnroll, Begins, client, TypeOK, StepsType,
                      OthersStay, PCs, Req, Challenges
  <2>2. AskerOK(o)'
    BY <1>0, <1>1 DEF AskEnroll, Begins, TypeOK, AskerOK, AskerPCs, Challenges
  <2> QED
    BY <1>0, <1>1, <2>1, <2>2, MovesType DEF AskEnroll, client, TypeOK
<1>2. ASSUME NEW grant \in Grants, AskSign(o, grant) PROVE TypeInv'
  <2>1. PICK n \in Current : view' = [view EXCEPT ![o].key = ledger[n].key]
    BY <1>2 DEF AskSign
  <2>2. ledger[n].key \in Keys
    BY <1>0, CurrentIsKey
  <2>5. view'[o].key = ledger[n].key
    BY <1>0, <2>1 DEF TypeOK, View
  <2>3. StepsType(o)
    BY <1>0, <1>2, <2>1, <2>2 DEF AskSign, Begins, client, TypeOK, StepsType,
                      OthersStay, PCs, Req, View, Challenges
  <2>4. AskerOK(o)'
    BY <1>0, <1>2, <2>2, <2>5 DEF AskSign, Begins, TypeOK, AskerOK, AskerPCs, Challenges
  <2> QED
    BY <1>0, <1>2, <2>3, <2>4, MovesType DEF AskSign, client, TypeOK
<1>3. CASE RetireEnrolments(o)
  <2>1. StepsType(o) /\ AskerOK(o)'
    BY <1>0, <1>3, SignoffAssumption DEF RetireEnrolments, GoesTo, client, TypeOK, StepsType,
                      OthersStay, PCs, AskerOK, AskerPCs
  <2>2. challenge' \in [Challenges -> Statuses]
    BY <1>0, <1>3 DEF RetireEnrolments, TypeOK, Statuses
  <2> QED
    BY <1>0, <1>3, <2>1, <2>2, MovesType DEF RetireEnrolments, client, TypeOK
<1>4. CASE InsertChallenge(o)
  <2>1. CASE challenge[req[o]] = "none"
    BY <1>0, <1>4, <2>1, EndsType, DeliversType DEF InsertChallenge, TypeOK, Statuses
  <2>2. CASE challenge[req[o]] # "none"
    <3>1. StepsType(o) /\ AskerOK(o)'
      BY <1>0, <1>4, <2>2 DEF InsertChallenge, GoesTo, TypeOK, StepsType,
                        OthersStay, PCs, AskerOK, AskerPCs
    <3> QED
      BY <1>0, <1>4, <2>2, <3>1, MovesType DEF InsertChallenge, TypeOK
  <2> QED
    BY <2>1, <2>2
<1>5. CASE RefreshChallenge(o)
  <2>1. challenge' \in [Challenges -> Statuses] /\ offered' \in SUBSET Offer
    BY <1>0, <1>5, DeliversType DEF RefreshChallenge, TypeOK, Statuses
  <2> QED
    BY <1>0, <1>5, <2>1, EndsType DEF RefreshChallenge, TypeOK
<1> QED
  BY <1>1, <1>2, <1>3, <1>4, <1>5 DEF Ask

------------------------------------------------------------------------------
\* The requests that bring an answer.

LEMMA AppendsType ==
    ASSUME TypeOK, NEW did \in {"enroll", "counter", "signoff"}, NEW key \in Keys,
           NEW count \in Nat, NEW grant, Appends(did, key, count, grant),
           IF did = "signoff" THEN grant \in Grants ELSE grant = NoGrant
    PROVE  /\ ledger' \in Seq(Act)
           /\ Len(ledger') = Len(ledger) + 1
           /\ \A n \in DOMAIN ledger : ledger'[n] = ledger[n]
           /\ ledger'[Len(ledger')] =
                  [did |-> did, key |-> key, count |-> count, grant |-> grant]
<1>1. [did |-> did, key |-> key, count |-> count, grant |-> grant] \in Act
  BY DEF Act
<1> QED
  BY <1>1 DEF TypeOK, Appends

LEMMA VerifierType ==
    ASSUME TypeInv, NEW v \in Verifiers, Verify(v)
    PROVE  TypeInv'
<1>0. /\ v \in Procs /\ v \notin Askers
      /\ TypeOK /\ VerifierOK(v)
  BY SignoffAssumption DEF TypeInv, Procs
<1>1. ASSUME NEW key \in Keys, NEW good \in BOOLEAN, SendEnrolment(v, key, good)
      PROVE  TypeInv'
  <2>1. [grant |-> NoGrant, key |-> key, count |-> 0, good |-> good] \in Answer
    BY DEF Answer
  <2>2. StepsType(v)
    BY <1>0, <1>1, <2>1 DEF SendEnrolment, Begins, client, TypeOK, StepsType,
                      OthersStay, PCs, Req
  <2>3. VerifierOK(v)'
    BY <1>0, <1>1, <2>1 DEF SendEnrolment, Begins, TypeOK, VerifierOK, VerifierPCs
  <2> QED
    BY <1>0, <1>1, <2>2, <2>3, MovesType DEF SendEnrolment, client, TypeOK
<1>2. ASSUME NEW answer \in answers, SendAnswer(v, answer)
      PROVE  TypeInv'
  <2>1. StepsType(v)
    BY <1>0, <1>2 DEF SendAnswer, Begins, client, TypeOK, StepsType,
                      OthersStay, PCs, Req
  <2>2. VerifierOK(v)'
    BY <1>0, <1>2 DEF SendAnswer, Begins, client, TypeOK, VerifierOK, VerifierPCs
  <2> QED
    BY <1>0, <1>2, <2>1, <2>2, MovesType DEF SendAnswer, client, TypeOK
<1>3. CASE ReadAuthenticator(v)
  <2>1. CASE \E n \in Current : ledger[n].key = req[v].key
    <3>1. PICK m \in Counted(req[v].key) :
              view' = [view EXCEPT ![v] = [key |-> req[v].key,
                                           count |-> ledger[m].count]]
      BY <1>3, <2>1 DEF ReadAuthenticator
    <3>2. ledger[m].count \in Nat
      BY <1>0 DEF TypeOK, Counted, Newest, Acts, Act
    <3>3. req[v] \in Answer /\ req[v] \in answers /\ req[v].key \in Keys
      BY <1>0, <1>3 DEF ReadAuthenticator, VerifierOK, Answer
    <3>4. [key |-> req[v].key, count |-> ledger[m].count] \in View
      BY <3>2, <3>3 DEF View
    <3>5. StepsType(v)
      BY <1>0, <1>3, <2>1, <3>1, <3>4 DEF ReadAuthenticator, client, TypeOK,
                        StepsType, OthersStay, PCs
    <3>6. VerifierOK(v)'
      BY <1>0, <1>3, <2>1, <3>1, <3>3 DEF ReadAuthenticator, client, TypeOK,
                        VerifierOK, VerifierPCs
    <3> QED
      BY <1>0, <1>3, <3>5, <3>6, MovesType DEF ReadAuthenticator, client, TypeOK
  <2>2. CASE ~ \E n \in Current : ledger[n].key = req[v].key
    BY <1>0, <1>3, <2>2, EndsType DEF ReadAuthenticator, client, TypeOK
  <2> QED
    BY <2>1, <2>2
<1>4. CASE ConsumeEnrolment(v)
  <2>1. challenge' \in [Challenges -> Statuses]
    BY <1>0, <1>4 DEF ConsumeEnrolment, TypeOK, Statuses
  <2>2. CASE GoesTo(v, "enroll")
    <3>1. StepsType(v) /\ VerifierOK(v)'
      BY <1>0, <1>4, <2>2 DEF ConsumeEnrolment, GoesTo, client, TypeOK, StepsType,
                        OthersStay, PCs, VerifierOK, VerifierPCs
    <3> QED
      BY <1>0, <1>4, <2>1, <3>1, MovesType DEF ConsumeEnrolment, client, TypeOK
  <2>3. CASE Ends(v)
    BY <1>0, <1>4, <2>1, <2>3, EndsType DEF ConsumeEnrolment, client, TypeOK
  <2> QED
    BY <1>4, <2>2, <2>3 DEF ConsumeEnrolment
<1>5. CASE ConsumeSignoff(v)
  <2>1. challenge' \in [Challenges -> Statuses]
    BY <1>0, <1>5 DEF ConsumeSignoff, TypeOK, Statuses
  <2>2. CASE GoesTo(v, "counter") /\ Verifies(req[v], view[v])
    <3>1. StepsType(v) /\ VerifierOK(v)'
      BY <1>0, <1>5, <2>2 DEF ConsumeSignoff, Verifies, GoesTo, client, TypeOK, StepsType,
                        OthersStay, PCs, VerifierOK, VerifierPCs
    <3> QED
      BY <1>0, <1>5, <2>1, <3>1, MovesType DEF ConsumeSignoff, client, TypeOK
  <2>3. CASE Ends(v)
    BY <1>0, <1>5, <2>1, <2>3, EndsType DEF ConsumeSignoff, client, TypeOK
  <2> QED
    BY <1>5, <2>2, <2>3 DEF ConsumeSignoff
<1>6. CASE RecordEnrolment(v)
  <2>1. req[v].key \in Keys
    BY <1>0, <1>6 DEF RecordEnrolment, VerifierOK, Answer
  <2>2. ledger' \in Seq(Act)
    BY <1>0, <1>6, <2>1, AppendsType DEF RecordEnrolment
  <2> QED
    BY <1>0, <1>6, <2>2, EndsType DEF RecordEnrolment, client, TypeOK
<1>7. CASE recordCounter(v)
  <2>1. view[v].key \in Keys /\ req[v].count \in Nat
    BY <1>0, <1>7 DEF recordCounter, VerifierOK, Answer
  <2>2. ledger' \in Seq(Act)
    BY <1>0, <1>7, <2>1, AppendsType DEF recordCounter
  <2>3. StepsType(v) /\ VerifierOK(v)'
    BY <1>0, <1>7 DEF recordCounter, GoesTo, client, TypeOK, StepsType,
                      OthersStay, PCs, VerifierOK, VerifierPCs
  <2> QED
    BY <1>0, <1>7, <2>2, <2>3, MovesType DEF recordCounter, client, TypeOK
<1>8. CASE RecordSignoff(v)
  <2>1. view[v].key \in Keys /\ req[v].count \in Nat /\ req[v].grant \in Grants
    BY <1>0, <1>8 DEF RecordSignoff, VerifierOK, Answer, TypeInv, AnswersOK
  <2>2. ledger' \in Seq(Act)
    BY <1>0, <1>8, <2>1, AppendsType DEF RecordSignoff
  <2> QED
    BY <1>0, <1>8, <2>2, EndsType DEF RecordSignoff, client, TypeOK
<1> QED
  BY <1>1, <1>2, <1>3, <1>4, <1>5, <1>6, <1>7, <1>8 DEF Verify

------------------------------------------------------------------------------
\* The world, and the type invariant.

\* No handler moves and the answers that were made stay.
LEMMA WorldMovesType ==
    ASSUME TypeInv, UNCHANGED <<pc, req, view>>,
           answers \subseteq answers', answers' \in SUBSET Answer, AnswersOK',
           challenge' \in [Challenges -> Statuses], ledger' = ledger,
           recognized' \in BOOLEAN, revoked' \in SUBSET Keys,
           device' \in [Keys -> Nat], offered' = offered
    PROVE  TypeInv'
<1>1. ASSUME NEW o \in Askers PROVE AskerOK(o)'
  BY <1>1 DEF TypeInv, AskerOK
<1>2. ASSUME NEW v \in Verifiers PROVE VerifierOK(v)'
  BY <1>2 DEF TypeInv, VerifierOK
<1> QED
  BY <1>1, <1>2 DEF TypeInv, TypeOK

LEMMA WorldType ==
    ASSUME TypeInv, World
    PROVE  TypeInv'
<1>0. TypeOK /\ AnswersOK
  BY DEF TypeInv
<1>1. ASSUME NEW offer \in offered, NEW good \in BOOLEAN, Sign(offer, good)
      PROVE  TypeInv'
  <2> DEFINE count == device[offer.key] + (IF offer.key \in Counting THEN 1 ELSE 0)
  <2>1. offer.key \in Keys /\ offer.grant \in Grants
    BY <1>0 DEF TypeOK, Offer
  <2>2. count \in Nat
    BY <1>0, <2>1 DEF TypeOK
  <2>3. [grant |-> offer.grant, key |-> offer.key, count |-> count, good |-> good]
            \in Answer
    BY <2>1, <2>2 DEF Answer
  <2>4. /\ device' = [device EXCEPT ![offer.key] = count]
        /\ answers' = answers \cup {[grant |-> offer.grant, key |-> offer.key,
                                     count |-> count, good |-> good]}
        /\ UNCHANGED <<challenge, ledger, recognized, revoked, offered, pc, req, view>>
    BY <1>1 DEF Sign
  <2> HIDE DEF count
  <2>5. AnswersOK' /\ answers' \in SUBSET Answer /\ device' \in [Keys -> Nat]
    BY <1>0, <2>1, <2>2, <2>3, <2>4 DEF AnswersOK, TypeOK
  <2> QED
    BY <1>0, <2>4, <2>5, WorldMovesType DEF TypeOK
<1>2. ASSUME NEW x \in Challenges, Expire(x) PROVE TypeInv'
  BY <1>0, <1>2, WorldMovesType DEF Expire, client, TypeOK, AnswersOK, Statuses
<1>3. ASSUME NEW key \in Keys, RevokeKey(key) PROVE TypeInv'
  BY <1>0, <1>3, WorldMovesType DEF RevokeKey, TypeOK, AnswersOK
<1>4. CASE RevokeAuthority
  BY <1>0, <1>4, WorldMovesType DEF RevokeAuthority, TypeOK, AnswersOK
<1>5. ASSUME NEW p \in Procs, Crash(p) PROVE TypeInv'
  BY <1>0, <1>5, EndsType DEF Crash, client, TypeOK
<1> QED
  BY <1>1, <1>2, <1>3, <1>4, <1>5 DEF World

LEMMA NextType ==
    ASSUME TypeInv, [Next]_vars
    PROVE  TypeInv'
<1>1. CASE UNCHANGED vars
  BY <1>1 DEF vars, TypeInv, TypeOK, AnswersOK, AskerOK, VerifierOK
<1> QED
  BY <1>1, AskerType, VerifierType, WorldType DEF Next

\* Every step of every ceremony keeps the challenges, the ledger and the
\* handlers' locals well typed.
THEOREM TypeCorrect == Spec => []TypeOK
<1>1. Init => TypeInv
  BY InitType
<1>2. TypeInv /\ [Next]_vars => TypeInv'
  BY NextType
<1>3. TypeInv => TypeOK
  BY DEF TypeInv
<1> QED
  BY <1>1, <1>2, <1>3, PTL DEF Spec

------------------------------------------------------------------------------
\* Challenges are used once.

LEMMA HeldIsChallenge ==
    ASSUME TypeInv, NEW v \in Verifiers, pc[v] # "idle"
    PROVE  Answers(req[v]) \in Challenges
  BY DEF TypeInv, VerifierOK, Answer, Answers, Challenges

LEMMA ConcludedIsChallenge ==
    ASSUME TypeOK, NEW n \in Concluded
    PROVE  Ceremony(ledger[n]) \in Challenges
  BY DEF TypeOK, Concluded, Ceremony, Act, Challenges

\* Nothing begins to hold a challenge and none becomes usable again.
LEMMA QuietStep ==
    ASSUME TypeInv, ChallengeInv, ledger' = ledger,
           \A x \in Challenges : challenge[x] = "used" => challenge'[x] = "used",
           \A v \in Verifiers : Holding(v)' => Holding(v) /\ req'[v] = req[v]
    PROVE  ChallengeInv'
<1>1. ASSUME NEW v \in Verifiers, Holding(v)
      PROVE  Answers(req[v]) \in Challenges
  BY <1>1, HeldIsChallenge DEF Holding
<1>2. \A n \in Concluded : Ceremony(ledger[n]) \in Challenges
  BY ConcludedIsChallenge DEF TypeInv
<1> QED
  BY <1>1, <1>2 DEF ChallengeInv, Concluded

\* A fresh challenge has no holder and no Act: whoever uses it is alone.
LEMMA ConsumeStep ==
    ASSUME TypeInv, ChallengeInv, NEW v \in Verifiers, NEW x \in Challenges,
           x = Answers(req[v]), challenge[x] = "fresh",
           challenge' = [challenge EXCEPT ![x] = "used"],
           ledger' = ledger,
           Holding(v)' => req'[v] = req[v],
           \A w \in Verifiers : w # v => (Holding(w)' <=> Holding(w)) /\ req'[w] = req[w]
    PROVE  ChallengeInv'
<1>1. /\ challenge \in [Challenges -> Statuses] /\ "fresh" # "used"
      /\ \A n \in Concluded : Ceremony(ledger[n]) \in Challenges
  BY ConcludedIsChallenge DEF TypeInv, TypeOK
<1>2. ASSUME NEW w \in Verifiers, Holding(w)
      PROVE  Answers(req[w]) \in Challenges /\ Answers(req[w]) # x
  BY <1>1, <1>2, HeldIsChallenge DEF Holding, ChallengeInv
<1>3. \A n \in Concluded : Ceremony(ledger[n]) # x
  BY <1>1 DEF ChallengeInv
<1>4. Concluded' = Concluded
  BY DEF Concluded
<1>5. \A y \in Challenges : challenge[y] = "used" => challenge'[y] = "used"
  BY <1>1
<1>6. \A w \in Verifiers : Holding(w)' => challenge'[Answers(req'[w])] = "used"
  BY <1>1, <1>2, <1>5 DEF ChallengeInv
<1>7. \A u, w \in Verifiers :
          Holding(u)' /\ Holding(w)' /\ Answers(req'[u]) = Answers(req'[w]) => u = w
  BY <1>2 DEF ChallengeInv
<1>8. \A n \in Concluded, w \in Verifiers :
          Holding(w)' => Ceremony(ledger[n]) # Answers(req'[w])
  BY <1>3 DEF ChallengeInv
<1> QED
  BY <1>1, <1>4, <1>5, <1>6, <1>7, <1>8 DEF ChallengeInv, Answers

\* A holder records what its challenge was used for, and lets go of it.
LEMMA ConcludeStep ==
    ASSUME TypeInv, ChallengeInv, NEW v \in Verifiers, Holding(v), ~Holding(v)',
           NEW act \in Act, act.did # "counter", Ceremony(act) = Answers(req[v]),
           ledger' = Append(ledger, act), challenge' = challenge,
           \A w \in Verifiers : w # v => (Holding(w)' <=> Holding(w)) /\ req'[w] = req[w]
    PROVE  ChallengeInv'
<1> DEFINE new == Len(ledger) + 1
<1>1. /\ DOMAIN ledger = 1..Len(ledger) /\ DOMAIN ledger' = 1..new
      /\ Len(ledger) \in Nat
      /\ ledger'[new] = act
      /\ \A n \in DOMAIN ledger : ledger'[n] = ledger[n]
  BY DEF TypeInv, TypeOK
<1>2. Concluded' = Concluded \cup {new} /\ new \notin Concluded
  BY <1>1 DEF Concluded
<1>3. \A n \in Concluded : ledger'[n] = ledger[n] /\ Ceremony(ledger[n]) # Ceremony(act)
  BY <1>1 DEF ChallengeInv, Concluded
<1>4. \A w \in Verifiers : Holding(w)' =>
          /\ Holding(w) /\ req'[w] = req[w]
          /\ Answers(req[w]) # Ceremony(act)
  BY DEF ChallengeInv
<1>5. challenge[Ceremony(act)] = "used"
  BY DEF ChallengeInv
<1>6. \A n \in Concluded' : challenge'[Ceremony(ledger'[n])] = "used"
  BY <1>1, <1>2, <1>3, <1>5 DEF ChallengeInv
<1>7. ASSUME NEW n \in Concluded', NEW m \in Concluded',
             Ceremony(ledger'[n]) = Ceremony(ledger'[m])
      PROVE  n = m
  <2>1. CASE n \in Concluded /\ m \in Concluded
    <3>1. Ceremony(ledger'[m]) = Ceremony(ledger[m]) /\ Ceremony(ledger'[n]) = Ceremony(ledger[n])
      BY <1>3, <2>1
    <3> QED
      BY <1>7, <2>1, <3>1 DEF ChallengeInv
  <2>2. CASE n = new /\ m \in Concluded
    <3>1. Ceremony(ledger'[n]) = Ceremony(act) /\ Ceremony(ledger'[m]) = Ceremony(ledger[m])
      BY <1>1, <1>3, <2>2
    <3> QED
      BY <1>3, <1>7, <2>2, <3>1
  <2>3. CASE m = new /\ n \in Concluded
    <3>1. Ceremony(ledger'[m]) = Ceremony(act) /\ Ceremony(ledger'[n]) = Ceremony(ledger[n])
      BY <1>1, <1>3, <2>3
    <3> QED
      BY <1>3, <1>7, <2>3, <3>1
  <2> QED
    BY <1>2, <2>1, <2>2, <2>3
<1>8. ASSUME NEW n \in Concluded', NEW w \in Verifiers, Holding(w)'
      PROVE  Ceremony(ledger'[n]) # Answers(req'[w])
  <2>1. CASE n \in Concluded
    <3>1. Ceremony(ledger'[n]) = Ceremony(ledger[n]) /\ Answers(req'[w]) = Answers(req[w])
      BY <1>3, <1>4, <1>8, <2>1
    <3> QED
      BY <1>4, <1>8, <2>1, <3>1 DEF ChallengeInv
  <2>2. CASE n = new
    <3>1. Ceremony(ledger'[n]) = Ceremony(act) /\ Answers(req'[w]) = Answers(req[w])
      BY <1>1, <1>4, <1>8, <2>2
    <3> QED
      BY <1>4, <1>8, <3>1
  <2> QED
    BY <1>2, <2>1, <2>2
<1>9. /\ \A w \in Verifiers : Holding(w)' => challenge'[Answers(req'[w])] = "used"
      /\ \A u, w \in Verifiers :
             Holding(u)' /\ Holding(w)' /\ Answers(req'[u]) = Answers(req'[w]) => u = w
  BY <1>4 DEF ChallengeInv
<1> QED
  BY <1>6, <1>7, <1>8, <1>9 DEF ChallengeInv, Ceremony, Answers

\* A counter is recorded.
LEMMA CountStep ==
    ASSUME TypeInv, ChallengeInv, NEW act \in Act, act.did = "counter",
           ledger' = Append(ledger, act), challenge' = challenge,
           \A w \in Verifiers : (Holding(w)' <=> Holding(w)) /\ req'[w] = req[w]
    PROVE  ChallengeInv'
<1>1. /\ DOMAIN ledger = 1..Len(ledger) /\ DOMAIN ledger' = 1..(Len(ledger) + 1)
      /\ Len(ledger) \in Nat
      /\ ledger'[Len(ledger) + 1] = act
      /\ \A n \in DOMAIN ledger : ledger'[n] = ledger[n]
  BY DEF TypeInv, TypeOK
<1>2. Concluded' = Concluded
  BY <1>1 DEF Concluded
<1>3. \A n \in Concluded : Ceremony(ledger'[n]) = Ceremony(ledger[n])
  BY <1>1 DEF Concluded
<1>4. \A w \in Verifiers : Answers(req'[w]) = Answers(req[w])
  OBVIOUS
<1>5. /\ \A w \in Verifiers : Holding(w)' => challenge'[Answers(req'[w])] = "used"
      /\ \A u, w \in Verifiers :
             Holding(u)' /\ Holding(w)' /\ Answers(req'[u]) = Answers(req'[w]) => u = w
  BY <1>4 DEF ChallengeInv
<1>6. \A n \in Concluded' : challenge'[Ceremony(ledger'[n])] = "used"
  BY <1>2, <1>3 DEF ChallengeInv
<1>7. ASSUME NEW n \in Concluded', NEW m \in Concluded',
             Ceremony(ledger'[n]) = Ceremony(ledger'[m])
      PROVE  n = m
  <2>1. /\ n \in Concluded /\ m \in Concluded
        /\ Ceremony(ledger'[n]) = Ceremony(ledger[n])
        /\ Ceremony(ledger'[m]) = Ceremony(ledger[m])
    BY <1>2, <1>3
  <2>2. \A k, l \in Concluded : Ceremony(ledger[k]) = Ceremony(ledger[l]) => k = l
    BY DEF ChallengeInv
  <2> QED
    BY <1>7, <2>1, <2>2
<1>8. \A n \in Concluded', w \in Verifiers :
          Holding(w)' => Ceremony(ledger'[n]) # Answers(req'[w])
  <2>1. \A n \in Concluded, w \in Verifiers :
            Holding(w) => Ceremony(ledger[n]) # Answers(req[w])
    BY DEF ChallengeInv
  <2> QED
    BY <1>2, <1>3, <1>4, <2>1
<1> QED
  BY <1>5, <1>6, <1>7, <1>8 DEF ChallengeInv, Ceremony, Answers

------------------------------------------------------------------------------
\* Counters come before signoffs.

LEMMA CountersStay ==
    ASSUME CounterInv, ledger' = ledger, answers \subseteq answers',
           \A v \in Verifiers :
               pc'[v] = "signoff" => pc[v] = "signoff" /\ req'[v] = req[v]
    PROVE  CounterInv'
  BY DEF CounterInv, Recorded, Acts

LEMMA RecordedGrows ==
    ASSUME NEW acts \in Seq(Act), NEW act \in Act,
           NEW n \in 1..(Len(acts) + 1), NEW key, NEW count, Recorded(acts, n, key, count)
    PROVE  /\ Recorded(Append(acts, act), n, key, count)
           /\ Recorded(Append(acts, act), Len(acts) + 2, key, count)
<1>1. PICK m \in DOMAIN acts :
          /\ m < n /\ acts[m].did = "counter"
          /\ acts[m].key = key /\ acts[m].count = count
  BY DEF Recorded
<1>2. /\ m \in 1..Len(acts) /\ Len(acts) \in Nat
      /\ m \in DOMAIN Append(acts, act) /\ Append(acts, act)[m] = acts[m]
      /\ m < Len(acts) + 2
  BY <1>1
<1> QED
  BY <1>1, <1>2 DEF Recorded

\* An Act is appended; when it is a signoff or makes a handler ready to sign
\* off, its counter has been recorded.
LEMMA CountersGrow ==
    ASSUME TypeInv, CounterInv, NEW act \in Act, ledger' = Append(ledger, act),
           answers' = answers,
           act.did = "signoff" =>
               /\ [grant |-> act.grant, key |-> act.key, count |-> act.count,
                   good |-> TRUE] \in answers
               /\ Recorded(ledger, Len(ledger) + 1, act.key, act.count),
           \A v \in Verifiers : pc'[v] = "signoff" =>
               \/ pc[v] = "signoff" /\ req'[v] = req[v]
               \/ act.did = "counter" /\ act.key = req'[v].key /\ act.count = req'[v].count
    PROVE  CounterInv'
<1> DEFINE new == Len(ledger) + 1
<1>0. ledger \in Seq(Act)
  BY DEF TypeInv, TypeOK
<1>1. /\ DOMAIN ledger = 1..Len(ledger) /\ DOMAIN ledger' = 1..new
      /\ Len(ledger) \in Nat /\ Len(ledger') = new /\ new + 1 = Len(ledger) + 2
      /\ ledger'[new] = act
      /\ \A n \in DOMAIN ledger : ledger'[n] = ledger[n]
  BY <1>0
<1>2. ASSUME NEW n \in 1..new, NEW key, NEW count, Recorded(ledger, n, key, count)
      PROVE  /\ Recorded(ledger', n, key, count)
             /\ Recorded(ledger', Len(ledger') + 1, key, count)
  BY <1>0, <1>1, <1>2, RecordedGrows
<1>3. new \in 1..new
  BY <1>1
<1>4. ASSUME NEW v \in Verifiers, pc'[v] = "signoff"
      PROVE  Recorded(ledger', Len(ledger') + 1, req'[v].key, req'[v].count)
  <2>1. CASE pc[v] = "signoff" /\ req'[v] = req[v]
    <3>1. Recorded(ledger, new, req[v].key, req[v].count)
      BY <2>1 DEF CounterInv
    <3> QED
      BY <1>2, <1>3, <2>1, <3>1
  <2>2. CASE act.did = "counter" /\ act.key = req'[v].key /\ act.count = req'[v].count
    BY <1>1, <2>2 DEF Recorded
  <2> QED
    BY <1>4, <2>1, <2>2
<1>5. ASSUME NEW n \in DOMAIN ledger', ledger'[n].did = "signoff"
      PROVE  /\ [grant |-> ledger'[n].grant, key |-> ledger'[n].key,
                 count |-> ledger'[n].count, good |-> TRUE] \in answers
             /\ Recorded(ledger', n, ledger'[n].key, ledger'[n].count)
  <2>1. CASE n \in DOMAIN ledger
    <3>1. n \in Acts("signoff") /\ ledger'[n] = ledger[n] /\ n \in 1..new
      BY <1>1, <1>5, <2>1 DEF Acts
    <3>2. /\ [grant |-> ledger[n].grant, key |-> ledger[n].key,
              count |-> ledger[n].count, good |-> TRUE] \in answers
          /\ Recorded(ledger, n, ledger[n].key, ledger[n].count)
      BY <3>1 DEF CounterInv
    <3> QED
      BY <1>2, <3>1, <3>2
  <2>2. CASE n = new
    <3>1. Recorded(ledger', new, act.key, act.count)
      BY <1>1, <1>5, <1>2, <1>3, <2>2
    <3> QED
      BY <1>1, <1>5, <2>2, <3>1
  <2>3. n \in DOMAIN ledger \/ n = new
    BY <1>1
  <2> QED
    BY <2>1, <2>2, <2>3
<1> QED
  BY <1>4, <1>5 DEF CounterInv, Acts

------------------------------------------------------------------------------
\* The steps.

SafeInv == ChallengeInv /\ CounterInv

UsedStays == \A x \in Challenges : challenge[x] = "used" => challenge'[x] = "used"

\* What verifier v holds it held before.
HoldsNoMore(v) == Holding(v)' => pc'[v] = pc[v] /\ req'[v] = req[v]

LEMMA QuietSafe ==
    ASSUME TypeInv, SafeInv, ledger' = ledger, answers \subseteq answers',
           UsedStays, \A v \in Verifiers : HoldsNoMore(v)
    PROVE  SafeInv'
<1>1. \A v \in Verifiers : Holding(v)' => Holding(v) /\ req'[v] = req[v]
  BY DEF HoldsNoMore, Holding
<1>2. \A v \in Verifiers : pc'[v] = "signoff" => pc[v] = "signoff" /\ req'[v] = req[v]
  BY DEF HoldsNoMore, Holding
<1> QED
  BY <1>1, <1>2, QuietStep, CountersStay DEF SafeInv, UsedStays

\* A handler that moves on or ends leaves the others' locals.
LEMMA OthersHold ==
    ASSUME TypeOK, NEW p \in Procs,
           \/ Ends(p)
           \/ \E next \in PCs : GoesTo(p, next)
           \/ \E next \in PCs, what \in Req : Begins(p, next, what)
    PROVE  \A v \in Verifiers : v # p =>
               pc'[v] = pc[v] /\ req'[v] = req[v] /\ (Holding(v)' <=> Holding(v))
  BY DEF TypeOK, Ends, GoesTo, Begins, Holding, Procs

LEMMA EndsHolding ==
    ASSUME TypeOK, NEW p \in Procs, Ends(p)
    PROVE  ~Holding(p)'
  BY DEF TypeOK, Ends, Holding

LEMMA AskerSafe ==
    ASSUME TypeInv, SafeInv, NEW o \in Askers, Ask(o)
    PROVE  SafeInv'
<1>1. TypeOK /\ AskerOK(o) /\ o \in Procs /\ \A v \in Verifiers : v # o
  BY SignoffAssumption DEF TypeInv, Procs
<1>2. \/ Ends(o)
      \/ \E next \in PCs : GoesTo(o, next)
      \/ \E next \in PCs, what \in Req : Begins(o, next, what)
  BY DEF Ask, AskEnroll, AskSign, RetireEnrolments, InsertChallenge,
         RefreshChallenge, PCs, Req, Challenges
<1>3. \A v \in Verifiers : HoldsNoMore(v)
  BY <1>1, <1>2, OthersHold DEF HoldsNoMore
<1>4. ledger' = ledger /\ answers' = answers
  BY DEF Ask, AskEnroll, AskSign, RetireEnrolments, InsertChallenge,
         RefreshChallenge, client
<1>5. UsedStays
  BY <1>1 DEF Ask, AskEnroll, AskSign, RetireEnrolments, InsertChallenge,
         RefreshChallenge, UsedStays, TypeOK, AskerOK
<1> QED
  BY <1>3, <1>4, <1>5, QuietSafe

LEMMA WorldSafe ==
    ASSUME TypeInv, SafeInv, World
    PROVE  SafeInv'
<1>1. TypeOK
  BY DEF TypeInv
<1>2. ledger' = ledger /\ answers \subseteq answers'
  BY DEF World, Sign, Expire, RevokeKey, RevokeAuthority, Crash, client
<1>3. UsedStays
  BY <1>1 DEF World, Sign, Expire, RevokeKey, RevokeAuthority, Crash, UsedStays, TypeOK
<1>4. CASE \E p \in Procs : Crash(p)
  <2>1. PICK p \in Procs : Crash(p)
    BY <1>4
  <2>2. Ends(p)
    BY <2>1 DEF Crash
  <2> QED
    BY <1>1, <1>2, <1>3, <2>2, OthersHold, EndsHolding, QuietSafe DEF HoldsNoMore
<1>5. CASE UNCHANGED <<pc, req>>
  BY <1>2, <1>3, <1>5, QuietSafe DEF HoldsNoMore
<1> QED
  BY <1>4, <1>5 DEF World, Sign, Expire, RevokeKey, RevokeAuthority

LEMMA VerifierSafe ==
    ASSUME TypeInv, SafeInv, NEW v \in Verifiers, Verify(v)
    PROVE  SafeInv'
<1>0. TypeOK /\ VerifierOK(v) /\ v \in Procs /\ ChallengeInv /\ CounterInv
  BY DEF TypeInv, SafeInv, Procs
<1>1. ASSUME NEW key \in Keys, NEW good \in BOOLEAN, SendEnrolment(v, key, good)
      PROVE  SafeInv'
  <2>1. \A w \in Verifiers : HoldsNoMore(w)
    BY <1>0, <1>1 DEF SendEnrolment, Begins, HoldsNoMore, Holding, TypeOK
  <2> QED
    BY <1>1, <2>1, QuietSafe DEF SendEnrolment, client, UsedStays
<1>2. ASSUME NEW answer \in answers, SendAnswer(v, answer)
      PROVE  SafeInv'
  <2>1. \A w \in Verifiers : HoldsNoMore(w)
    BY <1>0, <1>2 DEF SendAnswer, Begins, HoldsNoMore, Holding, TypeOK
  <2> QED
    BY <1>2, <2>1, QuietSafe DEF SendAnswer, client, UsedStays
<1>3. CASE ReadAuthenticator(v)
  <2>1. \A w \in Verifiers : HoldsNoMore(w)
    <3>1. Ends(v) \/ (pc' = [pc EXCEPT ![v] = "consume"] /\ req' = req)
      BY <1>3 DEF ReadAuthenticator
    <3>2. CASE Ends(v)
      BY <1>0, <3>2, OthersHold, EndsHolding DEF HoldsNoMore
    <3>3. CASE pc' = [pc EXCEPT ![v] = "consume"] /\ req' = req
      BY <1>0, <3>3 DEF HoldsNoMore, Holding, TypeOK
    <3> QED
      BY <3>1, <3>2, <3>3
  <2> QED
    BY <1>3, <2>1, QuietSafe DEF ReadAuthenticator, client, UsedStays
<1>4. ASSUME NEW x \in Challenges, x = Answers(req[v]), ~Usable(x), Ends(v),
             UNCHANGED <<challenge, ledger, client>>
      PROVE  SafeInv'
  <2>1. \A w \in Verifiers : HoldsNoMore(w)
    BY <1>0, <1>4, OthersHold, EndsHolding DEF HoldsNoMore
  <2> QED
    BY <1>4, <2>1, QuietSafe DEF client, UsedStays
<1>5. ASSUME NEW x \in Challenges, x = Answers(req[v]), Usable(x),
             challenge' = [challenge EXCEPT ![x] = "used"],
             Ends(v) \/ (\E next \in {"enroll", "counter"} : GoesTo(v, next)),
             UNCHANGED <<ledger, client>>
      PROVE  SafeInv'
  <2>1. \A w \in Verifiers : w # v =>
            pc'[w] = pc[w] /\ req'[w] = req[w] /\ (Holding(w)' <=> Holding(w))
    BY <1>0, <1>5, OthersHold DEF PCs
  <2>2. Holding(v)' => req'[v] = req[v] /\ pc'[v] # "signoff"
    BY <1>0, <1>5, EndsHolding DEF GoesTo, TypeOK
  <2>3. ChallengeInv'
    BY <1>0, <1>5, <2>1, <2>2, ConsumeStep DEF Usable
  <2>4. \A w \in Verifiers : pc'[w] = "signoff" => pc[w] = "signoff" /\ req'[w] = req[w]
    BY <2>1, <2>2 DEF Holding
  <2>5. CounterInv'
    BY <1>0, <1>5, <2>4, CountersStay DEF client
  <2> QED
    BY <2>3, <2>5 DEF SafeInv
<1>6. CASE ConsumeEnrolment(v)
  <2>1. req[v].key \in Challenges /\ req[v].key = Answers(req[v])
    BY <1>0, <1>6, HeldIsChallenge DEF ConsumeEnrolment, Answers
  <2> QED
    BY <1>4, <1>5, <1>6, <2>1 DEF ConsumeEnrolment
<1>7. CASE ConsumeSignoff(v)
  <2>1. req[v].grant \in Challenges /\ req[v].grant = Answers(req[v])
    BY <1>0, <1>7, HeldIsChallenge DEF ConsumeSignoff, Answers
  <2> QED
    BY <1>4, <1>5, <1>7, <2>1 DEF ConsumeSignoff
<1>8. CASE RecordEnrolment(v)
  <2> DEFINE act == [did |-> "enroll", key |-> req[v].key, count |-> 0, grant |-> NoGrant]
  <2>1. /\ act \in Act /\ act.did = "enroll"
        /\ Ceremony(act) = Answers(req[v]) /\ Holding(v)
    BY <1>0, <1>8 DEF RecordEnrolment, VerifierOK, Answer, Act, Ceremony, Answers, Holding
  <2>2. /\ ledger' = Append(ledger, act) /\ Ends(v)
        /\ challenge' = challenge /\ answers' = answers
    BY <1>8 DEF RecordEnrolment, Appends, client
  <2> HIDE DEF act
  <2>3. ~Holding(v)' /\ \A w \in Verifiers : w # v =>
            pc'[w] = pc[w] /\ req'[w] = req[w] /\ (Holding(w)' <=> Holding(w))
    BY <1>0, <2>2, OthersHold, EndsHolding
  <2>4. ChallengeInv'
    BY <1>0, <2>1, <2>2, <2>3, ConcludeStep
  <2>5. \A w \in Verifiers : pc'[w] = "signoff" => pc[w] = "signoff" /\ req'[w] = req[w]
    BY <2>3 DEF Holding
  <2>6. CounterInv'
    BY <1>0, <2>1, <2>2, <2>5, CountersGrow
  <2> QED
    BY <2>4, <2>6 DEF SafeInv
<1>9. CASE recordCounter(v)
  <2> DEFINE act == [did |-> "counter", key |-> view[v].key, count |-> req[v].count,
                     grant |-> NoGrant]
  <2>1. /\ act \in Act /\ act.did = "counter"
        /\ act.key = req[v].key /\ act.count = req[v].count
    BY <1>0, <1>9 DEF recordCounter, VerifierOK, Answer, Act
  <2>2. /\ ledger' = Append(ledger, act) /\ GoesTo(v, "signoff") /\ pc[v] = "counter"
        /\ challenge' = challenge /\ answers' = answers
    BY <1>9 DEF recordCounter, Appends, client
  <2> HIDE DEF act
  <2>3. \A w \in Verifiers : w # v =>
            pc'[w] = pc[w] /\ req'[w] = req[w] /\ (Holding(w)' <=> Holding(w))
    BY <1>0, <2>2, OthersHold DEF PCs
  <2>4. Holding(v)' /\ Holding(v) /\ req'[v] = req[v]
    BY <1>0, <2>2 DEF GoesTo, Holding, TypeOK
  <2>5. ChallengeInv'
    BY <1>0, <2>1, <2>2, <2>3, <2>4, CountStep
  <2>6. \A w \in Verifiers : pc'[w] = "signoff" =>
            \/ pc[w] = "signoff" /\ req'[w] = req[w]
            \/ act.did = "counter" /\ act.key = req'[w].key /\ act.count = req'[w].count
    BY <2>1, <2>3, <2>4
  <2>7. CounterInv'
    BY <2>1, <2>2, <2>6, <1>0, CountersGrow
  <2> QED
    BY <2>5, <2>7 DEF SafeInv
<1>10. CASE RecordSignoff(v)
  <2> DEFINE act == [did |-> "signoff", key |-> view[v].key, count |-> req[v].count,
                     grant |-> req[v].grant]
  <2>0. req[v] \in Answer /\ req[v] \in answers /\ req[v].good /\ view[v].key = req[v].key
        /\ req[v].grant \in Grants /\ req[v].grant # NoGrant
    BY <1>0, <1>10, SignoffAssumption
       DEF RecordSignoff, VerifierOK, TypeInv, AnswersOK, Challenges
  <2>1. /\ act \in Act /\ act.did = "signoff"
        /\ act.key = req[v].key /\ act.count = req[v].count
        /\ Ceremony(act) = Answers(req[v]) /\ Holding(v)
    BY <1>10, <2>0 DEF RecordSignoff, Answer, Act, Ceremony, Answers, Holding
  <2>2. [grant |-> act.grant, key |-> act.key, count |-> act.count, good |-> TRUE] = req[v]
    BY <2>0 DEF Answer
  <2>3. /\ ledger' = Append(ledger, act) /\ Ends(v) /\ pc[v] = "signoff"
        /\ challenge' = challenge /\ answers' = answers
    BY <1>10 DEF RecordSignoff, Appends, client
  <2> HIDE DEF act
  <2>4. ~Holding(v)' /\ \A w \in Verifiers : w # v =>
            pc'[w] = pc[w] /\ req'[w] = req[w] /\ (Holding(w)' <=> Holding(w))
    BY <1>0, <2>3, OthersHold, EndsHolding
  <2>5. ChallengeInv'
    BY <1>0, <2>1, <2>3, <2>4, ConcludeStep
  <2>6. Recorded(ledger, Len(ledger) + 1, act.key, act.count)
    BY <1>0, <2>1, <2>3 DEF CounterInv
  <2>7. \A w \in Verifiers : pc'[w] = "signoff" => pc[w] = "signoff" /\ req'[w] = req[w]
    BY <2>4 DEF Holding
  <2>8. CounterInv'
    BY <1>0, <2>0, <2>1, <2>2, <2>3, <2>6, <2>7, CountersGrow
  <2> QED
    BY <2>5, <2>8 DEF SafeInv
<1> QED
  BY <1>1, <1>2, <1>3, <1>6, <1>7, <1>8, <1>9, <1>10 DEF Verify

LEMMA InitSafe ==
    ASSUME Init PROVE SafeInv
  BY DEF Init, SafeInv, ChallengeInv, CounterInv, Holding, Concluded, Acts, Procs

LEMMA NextSafe ==
    ASSUME TypeInv, SafeInv, [Next]_vars
    PROVE  SafeInv'
<1>1. CASE UNCHANGED vars
  BY <1>1, QuietSafe DEF vars, UsedStays, HoldsNoMore
<1> QED
  BY <1>1, AskerSafe, VerifierSafe, WorldSafe DEF Next

\* Challenges and counters are lawful in every reachable state.
THEOREM CeremoniesLawful == Spec => []SafeInv
<1>1. Init => TypeInv /\ SafeInv
  BY InitType, InitSafe
<1>2. TypeInv /\ SafeInv /\ [Next]_vars => TypeInv' /\ SafeInv'
  BY NextType, NextSafe
<1> QED
  BY <1>1, <1>2, PTL DEF Spec

\* A grant is signed off at most once: the challenge that a refresh never
\* gives back has one holder, and its holder or its Act keeps others out.
THEOREM GrantsSignedOnce == Spec => []SignedOffOnce
<1>1. SafeInv => SignedOffOnce
  BY DEF SafeInv, ChallengeInv, SignedOffOnce, Concluded, Acts, Ceremony
<1> QED
  BY <1>1, CeremoniesLawful, PTL

\* A ceremony enrols at most one passkey.
THEOREM KeysEnrolledOnce == Spec => []EnrolledOnce
<1>1. SafeInv => EnrolledOnce
  BY DEF SafeInv, ChallengeInv, EnrolledOnce, Concluded, Acts, Ceremony
<1> QED
  BY <1>1, CeremoniesLawful, PTL

\* A signoff rests on a good assertion for its grant, a used challenge and a
\* counter recorded before it.
THEOREM SignoffsAnswer == Spec => []SignoffAnswersGrant
<1>1. SafeInv => SignoffAnswersGrant
  BY DEF SafeInv, ChallengeInv, CounterInv, SignoffAnswersGrant, Recorded,
         Concluded, Acts, Ceremony
<1> QED
  BY <1>1, CeremoniesLawful, PTL
=============================================================================
