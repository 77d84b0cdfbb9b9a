---------------------------- MODULE GrantSignoff -----------------------------
(***************************************************************************)
(* The WebAuthn ceremonies of the Worker API (webauthn.ts) by which the    *)
(* authority that granted something enrols passkeys and signs grants off.  *)
(*                                                                         *)
(* Challenges live in D1 and are used once; the challenge of an enrolment  *)
(* is random, that of a signoff is the hash of the grant.  Enrolments,     *)
(* counters and signoffs are Acts in Postgres.  No transaction spans the   *)
(* two, and none spans two queries of either.                              *)
(***************************************************************************)
EXTENDS Integers, Sequences, FiniteSets

CONSTANTS
    Grants,     \* grants of one authority
    Keys,       \* enrolment ceremonies, and the passkeys they make
    Counting,   \* passkeys that count; the others always say zero
    Askers,     \* concurrent requests for options
    Verifiers,  \* concurrent requests that bring an answer
    MaxSigns,   \* bound: assertions the authority's devices make
    Crashes,    \* whether handlers may die between two queries
    NoGrant, NoKey, None

Procs == Askers \cup Verifiers
Challenges == Grants \cup Keys

ASSUME SignoffAssumption ==
    /\ Grants \cap Keys = {}
    /\ Counting \subseteq Keys
    /\ Askers \cap Verifiers = {}
    /\ MaxSigns \in Nat
    /\ Crashes \in BOOLEAN
    /\ NoGrant \notin Challenges /\ NoKey \notin Challenges

VARIABLES
    challenge,  \* webauthn_challenges: per challenge, what became of it
    ledger,     \* the Acts of the ceremonies, in ledger order
    recognized, \* the authority is recognized
    revoked,    \* passkeys with an authenticator-revoke Act
    device,     \* per passkey, its own counter
    offered,    \* sign options that reached the client
    answers,    \* answers the client has made, to be sent any number of times
    pc, req, view   \* per handler, its next query and its locals

vars == <<challenge, ledger, recognized, revoked, device, offered, answers,
          pc, req, view>>
client == <<recognized, revoked, device, offered, answers>>

------------------------------------------------------------------------------
\* Values.

\* "used" is used=1; the others are rows with used=0, or no row.
Statuses == {"none", "fresh", "expired", "used"}

Act == [did : {"enroll"}, key : Keys, count : Nat, grant : {NoGrant}]
  \cup [did : {"counter"}, key : Keys, count : Nat, grant : {NoGrant}]
  \cup [did : {"signoff"}, key : Keys, count : Nat, grant : Grants]

Offer == [grant : Grants, key : Keys]

\* "good" is what the signature, the origin and the user verification are.
Answer == [grant : Grants \cup {NoGrant}, key : Keys, count : Nat,
           good : BOOLEAN]

NoView == [key |-> NoKey, count |-> 0]
View == [key : Keys \cup {NoKey}, count : Nat]

PCs == {"idle", "retire", "insert", "refresh",
        "authenticator", "consume", "enroll", "counter", "signoff"}

\* What a handler works on: a challenge (Asker), an answer (Verifier).
Req == Challenges \cup Answer \cup {None}

Acts(did) == {n \in DOMAIN ledger : ledger[n].did = did}

Newest(S) == {n \in S : \A m \in S : m <= n}

\* getAuthenticator: the newest enrolment that has not been revoked ...
Enrolled == {n \in Acts("enroll") : ledger[n].key \notin revoked}
Current == Newest(Enrolled)

\* ... and the newest count recorded for a passkey, at first by its enrolment.
Counted(key) == Newest({n \in Acts("enroll") \cup Acts("counter") :
                            ledger[n].key = key})

\* The library's check of an assertion, and signCountRegressed after it.
Verifies(answer, seen) ==
    /\ answer.good
    /\ \/ answer.count > seen.count
       \/ answer.count = 0 /\ seen.count = 0

------------------------------------------------------------------------------
Init ==
    /\ challenge = [x \in Challenges |-> "none"]
    /\ ledger = <<>>
    /\ recognized = TRUE
    /\ revoked = {}
    /\ device = [key \in Keys |-> 0]
    /\ offered = {}
    /\ answers = {}
    /\ pc = [p \in Procs |-> "idle"]
    /\ req = [p \in Procs |-> None]
    /\ view = [p \in Procs |-> NoView]

Begins(p, next, what) ==
    /\ pc[p] = "idle"
    /\ pc' = [pc EXCEPT ![p] = next]
    /\ req' = [req EXCEPT ![p] = what]

GoesTo(p, next) == pc' = [pc EXCEPT ![p] = next] /\ UNCHANGED <<req, view>>

Ends(p) ==
    /\ pc' = [pc EXCEPT ![p] = "idle"]
    /\ req' = [req EXCEPT ![p] = None]
    /\ view' = [view EXCEPT ![p] = NoView]

Appends(did, key, count, grant) ==
    ledger' = Append(ledger, [did |-> did, key |-> key, count |-> count,
                              grant |-> grant])

------------------------------------------------------------------------------
\* createEnrollmentOptions, createSignOptions and storeChallenge.

\* The challenge of an enrolment is new every time.
AskEnroll(o, key) ==
    /\ recognized
    /\ challenge[key] = "none"
    /\ \A p \in Askers : req[p] # key
    /\ Begins(o, "retire", key)
    /\ UNCHANGED <<challenge, ledger, client, view>>

\* Mutant: options for an authority without a passkey.
AskSignAnyway(o, grant) ==
    /\ recognized
    /\ IF Current = {} THEN UNCHANGED view
       ELSE \E n \in Current : view' = [view EXCEPT ![o].key = ledger[n].key]
    /\ Begins(o, "insert", grant)
    /\ UNCHANGED <<challenge, ledger, client>>

\* The authority has a passkey; which one is offered is read here.
AskSign(o, grant) ==
    /\ recognized
    /\ \E n \in Current : view' = [view EXCEPT ![o].key = ledger[n].key]
    /\ Begins(o, "insert", grant)
    /\ UNCHANGED <<challenge, ledger, client>>

\* A new enrolment ceremony uses up the older ones.
RetireEnrolments(o) ==
    /\ pc[o] = "retire"
    /\ challenge' = [x \in Challenges |->
            IF x \in Keys /\ challenge[x] # "none" THEN "used"
            ELSE challenge[x]]
    /\ GoesTo(o, "insert")
    /\ UNCHANGED <<ledger, client>>

\* The options of a signoff reach the client with the challenge.
Delivers(o) ==
    offered' = IF req[o] \in Grants
               THEN offered \cup {[grant |-> req[o], key |-> view[o].key]}
               ELSE offered

\* INSERT OR IGNORE ...
InsertChallenge(o) ==
    /\ pc[o] = "insert"
    /\ IF challenge[req[o]] = "none"
       THEN /\ challenge' = [challenge EXCEPT ![req[o]] = "fresh"]
            /\ Delivers(o)
            /\ Ends(o)
       ELSE GoesTo(o, "refresh") /\ UNCHANGED <<challenge, offered>>
    /\ UNCHANGED <<ledger, recognized, revoked, device, answers>>

\* Mutant: a refresh that gives a used challenge back.
RefreshAny(o) ==
    /\ pc[o] = "refresh"
    /\ challenge' = [challenge EXCEPT ![req[o]] = "fresh"]
    /\ Delivers(o)
    /\ Ends(o)
    /\ UNCHANGED <<ledger, recognized, revoked, device, answers>>

\* ... and the guarded refresh of a challenge that was not used.
RefreshChallenge(o) ==
    /\ pc[o] = "refresh"
    /\ IF challenge[req[o]] \in {"fresh", "expired"}
       THEN challenge' = [challenge EXCEPT ![req[o]] = "fresh"] /\ Delivers(o)
       ELSE UNCHANGED <<challenge, offered>>
    /\ Ends(o)
    /\ UNCHANGED <<ledger, recognized, revoked, device, answers>>

------------------------------------------------------------------------------
\* consumeChallenge, verifyEnrollment, verifyGrantSignoff.

\* Mutant: the expiry is looked at, the use is not.
NotExpired(x) == challenge[x] \in {"fresh", "used"}

Usable(x) == challenge[x] = "fresh"

SendEnrolment(v, key, good) ==
    /\ recognized
    /\ Begins(v, "consume", [grant |-> NoGrant, key |-> key, count |-> 0,
                             good |-> good])
    /\ UNCHANGED <<challenge, ledger, client, view>>

SendAnswer(v, answer) ==
    /\ recognized
    /\ Begins(v, "authenticator", answer)
    /\ UNCHANGED <<challenge, ledger, client, view>>

\* validateGrantAssertionEnvelope: the answer is of the current passkey.
ReadAuthenticator(v) ==
    /\ pc[v] = "authenticator"
    /\ IF \E n \in Current : ledger[n].key = req[v].key
       THEN /\ \E m \in Counted(req[v].key) :
                  view' = [view EXCEPT ![v] = [key |-> req[v].key,
                                               count |-> ledger[m].count]]
            /\ pc' = [pc EXCEPT ![v] = "consume"]
            /\ UNCHANGED req
       ELSE Ends(v)
    /\ UNCHANGED <<challenge, ledger, client>>

\* The challenge is used up before the answer is verified, whatever comes of it.
ConsumeEnrolment(v) ==
    LET key == req[v].key IN
    /\ pc[v] = "consume" /\ req[v].grant = NoGrant
    /\ IF Usable(key)
       THEN /\ challenge' = [challenge EXCEPT ![key] = "used"]
            /\ IF req[v].good THEN GoesTo(v, "enroll") ELSE Ends(v)
       ELSE Ends(v) /\ UNCHANGED challenge
    /\ UNCHANGED <<ledger, client>>

ConsumeSignoff(v) ==
    LET grant == req[v].grant IN
    /\ pc[v] = "consume" /\ grant # NoGrant
    /\ IF Usable(grant)
       THEN /\ challenge' = [challenge EXCEPT ![grant] = "used"]
            /\ IF Verifies(req[v], view[v]) THEN GoesTo(v, "counter")
               ELSE Ends(v)
       ELSE Ends(v) /\ UNCHANGED challenge
    /\ UNCHANGED <<ledger, client>>

RecordEnrolment(v) ==
    /\ pc[v] = "enroll"
    /\ Appends("enroll", req[v].key, 0, NoGrant)
    /\ Ends(v)
    /\ UNCHANGED <<challenge, client>>

\* Mutant: the signoff before the counter, which a crash then leaves out.
SignoffFirst(v) ==
    /\ pc[v] = "counter"
    /\ Appends("signoff", view[v].key, req[v].count, req[v].grant)
    /\ GoesTo(v, "signoff")
    /\ UNCHANGED <<challenge, client>>

recordCounter(v) ==
    /\ pc[v] = "counter"
    /\ Appends("counter", view[v].key, req[v].count, NoGrant)
    /\ GoesTo(v, "signoff")
    /\ UNCHANGED <<challenge, client>>

RecordSignoff(v) ==
    /\ pc[v] = "signoff"
    /\ Appends("signoff", view[v].key, req[v].count, req[v].grant)
    /\ Ends(v)
    /\ UNCHANGED <<challenge, client>>

------------------------------------------------------------------------------
\* The client, its passkeys, time, and what the laboratory does.

\* A passkey that is offered a grant answers; one that counts counts up.
Sign(offer, good) ==
    LET count == device[offer.key] + (IF offer.key \in Counting THEN 1 ELSE 0)
    IN
    /\ Cardinality(answers) < MaxSigns
    /\ device' = [device EXCEPT ![offer.key] = count]
    /\ answers' = answers \cup {[grant |-> offer.grant, key |-> offer.key,
                                 count |-> count, good |-> good]}
    /\ UNCHANGED <<challenge, ledger, recognized, revoked, offered, pc, req, view>>

Expire(x) ==
    /\ challenge[x] = "fresh"
    /\ challenge' = [challenge EXCEPT ![x] = "expired"]
    /\ UNCHANGED <<ledger, client, pc, req, view>>

RevokeKey(key) ==
    /\ key \notin revoked /\ \E n \in Acts("enroll") : ledger[n].key = key
    /\ revoked' = revoked \cup {key}
    /\ UNCHANGED <<challenge, ledger, recognized, device, offered, answers,
                   pc, req, view>>

RevokeAuthority ==
    /\ recognized /\ recognized' = FALSE
    /\ UNCHANGED <<challenge, ledger, revoked, device, offered, answers, pc,
                   req, view>>

\* The isolate dies or a query fails: the handler ends where it is.
Crash(p) ==
    /\ Crashes /\ pc[p] # "idle"
    /\ Ends(p)
    /\ UNCHANGED <<challenge, ledger, client>>

------------------------------------------------------------------------------
Ask(o) ==
    \/ \E key \in Keys : AskEnroll(o, key)
    \/ \E grant \in Grants : AskSign(o, grant)
    \/ RetireEnrolments(o)
    \/ InsertChallenge(o)
    \/ RefreshChallenge(o)

Verify(v) ==
    \/ \E key \in Keys, good \in BOOLEAN : SendEnrolment(v, key, good)
    \/ \E answer \in answers : SendAnswer(v, answer)
    \/ ReadAuthenticator(v)
    \/ ConsumeEnrolment(v)
    \/ ConsumeSignoff(v)
    \/ RecordEnrolment(v)
    \/ recordCounter(v)
    \/ RecordSignoff(v)

World ==
    \/ \E offer \in offered, good \in BOOLEAN : Sign(offer, good)
    \/ \E x \in Challenges : Expire(x)
    \/ \E key \in Keys : RevokeKey(key)
    \/ RevokeAuthority
    \/ \E p \in Procs : Crash(p)

Next ==
    \/ \E o \in Askers : Ask(o)
    \/ \E v \in Verifiers : Verify(v)
    \/ World

Spec == Init /\ [][Next]_vars

------------------------------------------------------------------------------
\* Properties.

\* Type invariant.
TypeOK ==
    /\ challenge \in [Challenges -> Statuses]
    /\ ledger \in Seq(Act)
    /\ recognized \in BOOLEAN
    /\ revoked \in SUBSET Keys
    /\ device \in [Keys -> Nat]
    /\ offered \in SUBSET Offer
    /\ answers \in SUBSET Answer
    /\ pc \in [Procs -> PCs]
    /\ req \in [Procs -> Req]
    /\ view \in [Procs -> View]

\* A grant is signed off at most once, however often its options are asked
\* for, its answers sent again and its verifications interleaved
\* (verifyGrantSignoff burns the deterministic challenge first).
SignedOffOnce ==
    \A n, m \in Acts("signoff") : ledger[n].grant = ledger[m].grant => n = m

\* A ceremony enrols at most one passkey, however often its answer is sent and
\* its options are asked for (verifyEnrollment consumes the challenge first).
EnrolledOnce ==
    \A n, m \in Acts("enroll") : ledger[n].key = ledger[m].key => n = m

\* A signoff rests on an assertion the authority's passkey made for that very
\* grant, on a used challenge, and its counter was recorded before it.
SignoffAnswersGrant ==
    \A n \in Acts("signoff") :
        /\ challenge[ledger[n].grant] = "used"
        /\ [grant |-> ledger[n].grant, key |-> ledger[n].key,
            count |-> ledger[n].count, good |-> TRUE] \in answers
        /\ \E m \in Acts("counter") :
               /\ m < n
               /\ ledger[m].key = ledger[n].key
               /\ ledger[m].count = ledger[n].count
=============================================================================
