# Verification of the Dream Machine runtime

TLA+ models of the parts of this repository in which ordering, concurrency and failure
decide whether the ledger tells the truth, TLC configurations that check them on small
instances, and TLAPS proofs of the properties that matter most for every value of the
constants.

The ledger (`logline_acts`) is append-only and everything else is derived from it. The
Worker API (`workers/api/src`) writes it from request handlers and cron invocations that
run concurrently, issue one SQL statement at a time and use **no transaction**: every
`client.query` commits by itself. A handler can therefore be overtaken, lose its
connection, or die with its isolate, between any two of its queries. Most of the
properties below say that something still holds when that happens.

## 1. Inventory

| Component | Code | State it keeps | Operations | Talks to |
|---|---|---|---|---|
| Process machine | `process-machine.ts`, `migrations/0008` | none of its own: replays the rows of an instance | `processCurrentState`, `verifyProcessProposal`, `routeProcessReceipt` | register flow, custody executor |
| Register flow | `register-flow.ts`, `universal-tools.ts`, `proposal-verifier.ts`, `db.ts` | `logline_acts` | verify, append, route; `RegisterActivationError` when the route fails | everything that appends |
| Custody executor | `custody-executor.ts`, `custody-activities.ts`, `runtime.ts` | `runtime_custody_queue` | claim under a lease, re-project, safety, activity, append, result or error; resume after a signoff | process machine, register flow, grants |
| Grants and WebAuthn signoff | `grants.ts`, `grant-policy.ts`, `webauthn.ts`, `webauthn-challenge.ts` | D1 `webauthn_challenges`; Acts `grant`, `authority`, `authenticator-*`, `grant-signoff` | enrolment, sign options, verify, revoke; the check before execution | both executors |
| Compatibility runtime | `legacy-runtime.ts`, `evaluator.ts`, `activation-predicates.ts`, `contracts.ts` | `runtime_queue`; Acts `queued`, `doubt`, `dispatching`, results | receiver select, queue add, doubt, claim, dispatch, close, fail, resume | register flow, grants, registry |
| Ledger registry | `ledger-registry.ts`, `vocabulary.ts`, `process-migrate.ts`, `seed-contracts.ts`, `contract-registration.ts`, `process-tools.ts` | definition Acts, views of `migrations/0007` | define, supersede, bootstrap | all of the above read it |
| Conversational agent | `dream-agent.ts`, `chat.ts`, `model-catalog.ts`, `messages.ts` | D1 `chat_turns` | bounded tool loop over model calls | register flow |
| HTTP surface | `index.ts`, `control-plane.ts`, `receipt.ts`, `process-inspect.ts` | none | routes, cron | all of the above |
| Schema migrations | `migrations/`, `workers/api/migrations/` | the tables and indexes | DDL | |
| Python laboratory | `lab/*.py` | SQLite: Acts, queue, projections | the same roles on one machine, with an SQLite transaction here and there | |
| Python surfaces, web UI, build tools | `lab/api.py`, `lab/cli.py`, `ui/`, `workers/ui`, `tools/`, `scripts/` | none of the system | I/O and presentation | |

What is hard about each, and what makes it correct:

* **Process machine and register flow.** Verification reads the head, the insert comes
  later; only the unique index over (process, parent) of `migrations/0008` stands between
  two writers who verified the same head. The router projects the head and inserts the
  custody row in later queries still, so routers of successive Acts interleave.
  *Correct:* one chain per instance; every recorded Act lawful when it was recorded; a
  custody row is closed only when its source is answered, names the node replay reaches,
  and is the only one for its source.
* **Custody executor.** Claims have a 60 s lease and cron comes every minute, so an
  invocation may overlap the one that takes its row over. All updates but the claim are
  guarded by `queue_id` alone. *Correct:* results answer their source, current work is
  never closed away, no executor acts dangerously without a signed grant, and work gets done
  in the end although invocations die.
* **Grants and signoff.** Challenges live in one database, the Acts in another. The
  challenge is burned before verification. *Correct:* a challenge serves once, a signoff
  rests on a good assertion for that very grant and on a counter recorded first.
* **Compatibility runtime.** A queue without leases, doubts raised by look-then-append, a
  window of 50 rows over a ledger that the runtime itself writes to. *Correct:* an Act is
  dispatched at most once, never unsigned when dangerous, a closed row names its last
  result, a resumption revives only what the missing signoff had stopped; taps are
  answered.
* **Ledger registry.** Definitions are Acts, the law in force is a view over them, and a
  mutable table caches the contracts of the last release migrated. A migration is some
  dozens of queries, releases are deployed and rolled back, two may migrate at once, and
  clients define and cite meanwhile. *Correct:* the table cites definitions of its types, a
  retry imports nothing twice, a migration alone leaves its release complete, the law of a
  type is replaced by newer law only, an admitted Act cites a definition of its type.
* **Current work.** One query for the open rows, then a replay per row while heads move.
  *Correct:* nothing that was answered before the request is shown, nothing twice, no
  standing turn is missed unless the window or the response is full.
* **Conversational agent.** A model asked up to ten times calls tools in batches, and what a
  failed append throws becomes a tool result. *Correct:* it does to the ledger what requests
  do, acts only on what it saw or named itself, reports nothing the ledger has not, and ends.
* **Python laboratory.** Release of a claimed item while its worker works on it, close and
  fail by `queue_id` alone. It is the reference of the compatibility runtime, which is the
  one modelled.

`PROJECT.json` lists the hazards one by one, each at its line and with the properties that
would notice it going wrong.

## 2. Modules

    ProcessMachine          pure replay, verification, over any process type
      ProcessMachineProofs    lemmas about replay and the verification of a move
      CustodyRuntime        register flow + router + custody executor + grant
        MCCustodyRuntime      small process types, symmetry
        CustodyRuntimeProofs  type invariant, SingleChain, LawfulHistory
        CustodyRowsProofs     the custody queue, the token, custody of heads, leases, the grant
        CustodyViews          the projection of pendencies, composed with CustodyRuntime
          MCCustodyViews, CustodyViewsProofs
        ChatTurn              the conversational agent, composed with CustodyRuntime
          MCChatTurn, ChatTurnProofs
    ProcessToken            abstract: one token per instance; CustodyRuntime implements it
    LegacyRuntime           compatibility receiver, queue, executor, resumption
      MCLegacyRuntime, LegacyRuntimeProofs
    GrantSignoff            WebAuthn ceremonies over D1 and Postgres
      MCGrantSignoff, GrantSignoffProofs
    TypeRegistry            definitions, views, cached contracts, migrations of releases
      MCTypeRegistry, TypeRegistryProofs

### ProcessMachine, CustodyRuntime, ProcessToken

A *process type* is `Nodes`, `Start`, `Responsible` and `Branch`, as parsed from a
definition. An instance's `ledger[i]` is the sequence of its process-bound Acts; the tuple
hash of an Act is its position, 0 stands for the opening, and `parent` names the tuple the
Act answers. `Replay` is the loop of `processCurrentState` (an Act that does not answer the
open head is skipped) and `Permitted` is `verifyProcessProposal` together with
`verifyProposal`'s checks of the author.

One action of CustodyRuntime is one query, and `pc` says which query a handler issues next:

| Action | Query |
|---|---|
| `SubmitOpening`, `SubmitDispatch`, `VerifyProposal` | the reads of verification |
| `AppendAct`, `AppendRejected` | `INSERT ... ON CONFLICT`: same tuple is idempotent, same (process, parent) breaks the index |
| `ClosePriorCustody`, `ProjectHead`, `QueueCustody` | the three queries of `routeProcessReceipt` |
| `Claim`, `LeaseExpires` | `claimCustody`; its lease running out |
| `Reproject`, `CloseStaleClaim`, `RunActivity`, `ActivityRefused` | `claimCurrentCustody`, then source, handler and `enforceSafety` |
| `RecordExecutionResult`, `RecordExecutionError` | updates by `queue_id` alone |
| `SignGrant`, `VoidGrant`, `ResumeGrantSources`, `LoseResume` | the grant, the update that resumes, its loss |
| `Crash`, `QueryFails`, `RouteFails`, `RecordFails` | failures; a failed insert may have happened |

ProcessToken is what the README of the repository promises of deterministic routing: an
instance is one token that moves along the branches of its type, by the outcome of the node
that holds it and by that node's responsible actor only. `MovesOneToken` is that
specification under the refinement mapping `Token` at the end of CustodyRuntime.

### LegacyRuntime

One `process_id` and the Acts that name it, those of the runtime included, because
`legacyReceiverSelect` reads them too. `acts` is in ledger order and an Act of the runtime
says which Act it is about. `Post` and the `Receive` actions are `registerFlow` for an Act
without an instance; `Claim` and the `Execute` actions are `legacyExecutorRunOnce`;
`ResumeSources` to `SignerDone` are `legacyResumeGrantSources`. A contract is the few fields
the executor and the evaluator look at, and may be redefined at any time. Slot predicates
are abstracted to the set of taps that are complete. `closeWithoutDispatch` and `closeQueue`
are returned without `await` inside the `try`, so their failure does not reach the catch:
`QueryFails` leads to `FailQueue`, `QueryEnds` leaves the row claimed. An insert or update
whose answer is lost leaves what the step itself, followed by a failure or a crash at the
handler's next query, leaves; the result insert is the exception, since a failure after it
would not be caught while its own is, so `QueryFails` has that case.

### GrantSignoff

The grants of one authority and the enrolment ceremonies by which it gets passkeys. A
challenge is "none", "fresh", "expired" or "used". The random challenge of an enrolment is
named by the passkey it makes, that of a signoff by its grant. `Asker`s run
`createEnrollmentOptions` and `createSignOptions`, `Verifier`s `verifyEnrollment` and
`verifyGrantSignoff`. An answer, once made, can be sent any number of times. Passkeys
outside `Counting` always report a counter of zero, as synced passkeys do. The library's
check of an assertion is external and modelled from how it is called: `Verifies`.

### CustodyViews

`Readers` are GET requests that run beside everything in CustodyRuntime and change none of
it. `ReadRows` is the one query of `currentCustodies`, which returns `RowLimit` rows if there
are more: which ones depends on `updated_at`, a column the model does not keep, so any
`RowLimit` of them. `MatchRow` replays the instance of one row, in any order, and keeps it if
`currentMatches` of `runtime.ts` holds and the row needs somebody: a person's turn, or runtime
work whose error the first query showed. With `ItemLimit` items the loop breaks. `since` and
`known` are history variables, the length of each history and of the queue at that query. Only the pendency projection is
modelled: the lists of moving work and of processes take the newest open row without matching
it, and may be stale.

### ChatTurn

A turn is one of the callers of CustodyRuntime with a loop around it. The model is free: a
response is text or up to `MaxBatch` calls, a call is `about`, a search, or an append with
any argument. `ProposeOpening` and `ProposeDispatch` are the append tool after its guards and
take the very actions of CustodyRuntime; `RecordsAct`, `Routes`, `HasReceipt` and the two
failures are `registerFlow` going on. The guard of a dispatch asks that the instance and the
parent be among the hashes the turn's searches have returned (`collectHashes`). `met` and
`shown` are what they found, instances and a prefix of each history: a text search may show
the history up to any place. But `searchLedger` returns the query as well, so a hash the model
typed as a query counts although nothing was found; those of tuples are `typed`, and may name
an Act that is only appended later. The guard on Acts of the
compatibility runtime is among the calls that only fail. The stored conversation is written
and, as in the code, not read back by the model of a later turn.

### TypeRegistry

`entries` are the Acts that define a type, a term or the authority; the k-th has the content
hash k. `CurrentType` is the view `current_process_types`: the newest definition that nothing
supersedes, whatever type the superseding one is of. What a client's definition supersedes is checked by
nobody, so `Nameable` is any hash, also one of an Act to come (`Foresight` bounds how far
ahead), except that hashes cannot be circular. `RevokeAuthority` is external: no route of the
Worker appends an `authority-revoke`, `lab/authority.py` does, and from then on every migration
appends the genesis authority again (`Recognized`). `cache` is `process_contracts`. A
migration (`Start` to `Cite`) is `/api/migrate`: install, upsert every seed, then per seed
look for authority, bootstrap vocabulary and definition, append what is missing, write the
hash. Releases are sequences of seeds; which one is deployed may change between any two
migrations. Without `GENESIS_AUTHORITY` a migration stops after the upserts, which is the
migration that dies there. `Define` and `Propose` are clients; verification asks the view and
then, for a type it does not show, the table.

## 3. Runs

| Run | Distinct states | What it shows |
|---|---|---|
| `custody_safety` | 308,884 | `SingleChain`, `LawfulHistory`, `ClosedIsSpent`, `CustodyIsTheHeads`, `ResultAnswersSource`, `LiveClaimKept`, `HeadKeepsCustody` with every failure anywhere, a request that may author as anyone, a looping type with an undefined branch; and the refinement `MovesOneToken` |
| `custody_recovery` | 81,084 | `ExecutorActsSigned`, `ExecutorAdvances`, `SignedWorkAdvances`, `StaleCustodySwept` with two instances in one queue, of which one has no grant and fails again and again |
| `custody_views` | 1,375,271 | `PendencyWasCurrent`, `OnePendencyEach`, `TurnIsListed` for a reader beside a request, an executor and their failures, with a window of three rows and a response of two items |
| `chat` | 484,390 | `ReceiptsAreDurable`, `ActsOnWhatItSaw`, `TurnEnds`, and the refinement `ActsAsRequests` |
| `legacy_safety` | 1,236,825 | `DispatchedOnce`, `ClosedNamesLastResult`, `DangerousDispatchSigned`, `ResumedOnlyUnsigned`, `DoubtsBounded`, `WindowTapKept` with every failure anywhere, two requests at once and a contract that is retired |
| `signoff_safety` | 459,978 | `SignedOffOnce`, `EnrolledOnce`, `SignoffAnswersGrant` |
| `registry_safety` | 922,455 | `CacheNamesLaw`, `ActCitesItsType`, `DuplicatesNeedOverlap`, `LoneMigrationAgrees`, `LawMovesForward` |

Each safety run has the type invariant of its module as well. Five more runs each find a
counterexample to one sentence of a document or comment; see "Findings".

**Bounds.** `MaxActs` (Acts of one instance) is 3 or 2: enough for a round of the loop and a
branch out of it, for two routers of successive Acts to overlap a third append, and for rows
that are queued, stale and closed at once. Two workers are what overlapping leases, claims
and results need, and one request next to them suffices for a rival append; with two
requests the behaviours are those of a request and a worker. Instances share the queue's
order and nothing else: where that matters, in `custody_recovery`, there are two, so that a
row may expire, go stale or fail for ever in front of current work, and in `custody_views`,
whose window two instances can fill. The other runs have one and the proofs cover any number.
Two responses and two calls
a batch let a turn search, act on it, fail and try again (`MaxResponses`, `MaxBatch`); the
code's bound is ten responses and the proofs hold for every value. One tap posted three times by two requests, a window
of two rows, two executors and one redefinition make receivers race each other over a tap and
over the runtime's own Acts, and put a change between any two queries; a tap that cites no
grant, other adapters and evidence are left to the proofs, which cover every contract.
One grant, two passkeys and two assertions give refreshes, replays, a passkey that
counts and one that does not, and a second enrolment while the first is in use; `MaxSigns`
bounds assertions because the counter would otherwise grow. Two types of which one has two
contracts, two releases, two migrations at a time and three requests (`MaxRequests`) are what a
deployment, its rollback or retry and a client's definition among them need; a definition may
name a hash four Acts ahead (`Foresight`), as far as the first contract that a migration after
it appends. Symmetry is used
over workers, callers, receivers, verifiers, migrations and readers only, and only in runs of safety.

**Deadlock.** Custody and chat runs check it. In LegacyRuntime, GrantSignoff and TypeRegistry
clients post, sign and migrate a bounded number of times, after which the system rests, so
their configurations turn the check off.

**Fairness.** A handler in progress runs on (weak fairness of its steps: the runtime
schedules it). `/api/advance` and the cron trigger of `wrangler.jsonc`, every minute, keep
invoking executors. Time passes, so each lease ends: fairness is for the lease of each row,
and nothing is assumed of the order in which leases and invocations come. A request that signed a grant goes on to
resume, unless it is lost (`LoseResume`). `CrashesEnd` says that failures are not endless,
without which no work need ever be done. `FairChat` says that the model answers, well or
badly, and that a turn whose isolate lives goes on: nothing else is needed for a turn to end,
since the loop counts its responses. `legacy_window` uses `FairSpec` without failures.

The liveness properties of the custody queue except one case, which is the code's: the claim
takes the oldest row first, so a row that fails for ever is claimed again whenever its lease
is over just before an invocation comes. `OlderWorkFails` is that case and nothing else: some
worker records again and again the failure of a row older than the one in question. In
`custody_recovery` the instance without a grant is such a row in front of the other's, and
the properties hold of all that it does not starve.

## 4. Findings

* `late_error_steals`: "live claims are never stolen" (`custody-executor.ts`), but
  `recordExecutionError` writes by `queue_id` alone. A worker that lost its lease marks the
  row of the worker that now holds it, and the update of `resumeGrantSources` takes that row
  for a failed claim. Without a resumption the sentence holds (`custody_safety`).
* `unsigned_by_name`: "L4/L5 effects require the applicable grant/signoff" (`SECURITY.md:68-70`)
  and "cannot bypass required grant/signoff checks" (`docs/API.md:224-225`), but the check is
  the executor's. A request without an identity may author its Act as `runtime.executor`, and
  verification takes it for the responsible's answer to the dangerous node. What an executor
  invocation itself appends is signed (`ExecutorActsSigned`).
* `expired_lease`: "expired leases [...] must not be converted into successful execution"
  (`SECURITY.md:68-70`), but the lease is looked at by the claim only. A worker whose lease ends
  while its handler runs appends and records all the same; the ledger and the rows stay right
  (`ResultAnswersSource`, `SingleChain`).
* `legacy_window`: taps are "never dropped silently", but the receiver reads the oldest 50
  Acts of a `process_id`, answered ones and its own among them; a later tap is not seen.
* `chat_unreported`: "if the Act was durably appended, the response must not pretend it was
  never recorded", but in a chat turn the error that carries the receipt becomes a tool
  result that does not, and an error at the end of the turn drops the receipts it had.

Disagreements that no run shows, since each is the shape of one guard or query:

* "human/team custody remains visible work" (`README.md:143`): an Act whose route fails after
  the append is not routed again, unless the very same Act is posted once more, and the person
  whose turn it is has no row. `HeadKeepsCustody` and the theorem `TurnsStayVisible` say that
  nothing but such a failure leaves an open head without its row.
* "an idempotent `doubt` receipt" (`CHANGELOG.md:125-126`): `raiseDoubt` looks and then appends
  an Act with its own time, so two receivers that overlap doubt an Act once each.
  `DoubtsBounded` is what holds.
* "process dispatch must use the instance and current tuple returned by search"
  (`dream-agent.ts:240`): `searchLedger` returns the query, so the hash a model typed passes the
  guard without having been found, and an earlier tuple passes it too. Verification and the
  unique index are what stops a dispatch on an answered tuple.

Observed and not a disagreement with any document:

* once the genesis authority is revoked, every `/api/migrate` appends its Act again and it stays
  revoked (`authorityRecognized`, `index.ts:346`);
* recorded passkey counters may go down when two signoffs of one passkey overlap
  (`webauthn.ts:289`);
* a grant whose signing request dies after the challenge is burned cannot be signed any more;
* a signoff that lands between the compatibility executor's look at the grant and its close
  leaves the work stopped;
* a release that goes back to an earlier definition finds its old Act and appends nothing: the
  table goes back, the view stays with the newer definition;
* as soon as one type is defined in the ledger, `loadContracts` shows the ledger's types only,
  while the check of one proposal still falls back to the table type by type;
* a definition of another process_id that supersedes a type hides it, one that names a hash in
  advance hides the Act that has it as soon as it is appended, and overlapping imports can bring
  a superseded seed back as the newest definition;
* stale rows of people's turns, which no executor sweeps, can fill the window of the current-work
  query and hide a turn (`TurnIsListed` says that nothing else does).

## 5. Proofs

All of it is checked by TLAPS (9,461 proof obligations in eight modules) with no fact taken
on trust. A theorem holds for any number of instances, handlers, types and rows, and with
every failure the models have, unless it names a hypothesis; there are four of those, listed
below. Every invariant, action property and refinement that a passing run checks is proved.

The invariants the runs check are rarely inductive, and for one reason: a handler has read
something, others act, and it writes later. Each inductive invariant therefore adds *what a
handler in progress may still rely on* at each of its queries.

*ProcessMachineProofs* (233 obligations): a recursive function that replays a history is
determined by it; a longer history replays as its prefix does; an Act that answers the last
tuple of a lawful chain keeps it lawful.

*CustodyRuntimeProofs* (990):

* `TypeCorrect == Spec => []TypeOK`. Inductive with `LedgerReplays` (every history has a
  replay) and `Registered` (what an executor has registered is in the ledger, which is what
  `RecordExecutionResult` looks up).
* `NoForks == Spec => []SingleChain` and `OnlyLawfulMoves == Spec => []LawfulHistory`. The
  invariant `LedgerInv` adds `Pending`: the Act a handler is about to insert is *admissible*,
  which means lawful if its parent is still unanswered. Appends by others keep it so, since
  they leave prefixes alone, and the unique index does the rest.

*CustodyRowsProofs* (1,775) has five parts:

* The queue: `RowsOfHeads`, `CurrentStaysOpen` and `ResultsAnswer`, from `RowsInv`: a row
  names the node that replay reaches at its source; a router closes custody of a tuple whose
  answer is recorded and queues a state that replay has reached, however long ago; an executor
  calls stale only what has been answered, and what it registers answers the row it claimed,
  whoever has claimed that row since.
* The token: `OneTokenEach == Spec => MovesOneToken`, the refinement of ProcessToken. Of all
  the actions only an insert moves a token. The row it adds is admissible (`LedgerInv`) and
  the unique index makes it the first answer to the head, so replay takes it and ends one
  branch further; an idempotent insert and every other query map to a stutter. `TokenInv` adds
  that an instance not yet opened has no Acts.
* Custody of heads: `CustodyIsKept == Spec => HeadKeepsCustody`. A head has custody by its
  open row, or by a router on its way to queue it (`OnItsWay`); by `RowsInv` no row of a head
  is ever closed, so only the step of that router could lose it, and that step queues the row
  or fails. `TurnsStayVisible` follows by induction: where handlers neither die nor fail in a
  query, a person's turn has its row whenever the handlers are at rest.
* Leases: `OnlyResumesTakeClaims`, for all constants, and `LiveClaimsKept` where no grant is
  cited, from `ClaimInv` (a row under lease is claimed; a resume is due only if something
  cites the grant).
* The grant: `DangerIsSigned == Spec => ExecutorActsSigned`, from `GrantInv`: an executor at
  `verify` or `append` on a dangerous row is `Cleared`, that is its source cites the grant and
  the grant was signed, which nothing undoes even if the grant is voided, the lease runs out and
  the row is taken over meanwhile (`Guarded` says who comes to an insert and by which way). It
  speaks of what executor invocations append; what a request appends in their name is the
  finding `unsigned_by_name`.

*CustodyViewsProofs* (381): `PendenciesWereCurrent`, `PendenciesAreUnique` and
`TurnsAreListed`, from `ViewInv` over `RowsInv`: a row that matched was the head of the
history as it then was, and histories only grow. For `TurnsAreListed` the invariant adds that a
window with room has every row that was current at the query, and that a row is dropped only
if it did not match or the response is full. `ViewTypeCorrect`, and
`ReadersChangeNothing == SpecView => Spec`: what is proved of CustodyRuntime holds beside any
number of readers.

*ChatTurnProofs* (765): `ChatIsRequests == SpecChat => ActsAsRequests`, the refinement, step
by step, so that every theorem about CustodyRuntime holds with turns among the requests
(`ChatNeverForks`, `ChatKeepsCustody`); `ReceiptsInLedger`, `NeverActsBlind` and `ChatTypeCorrect` from `ChatInv`:
what a turn was shown is a prefix of the history, and what it proposes answers a tuple of it or
one that it typed.

*GrantSignoffProofs* (827):

* `TypeCorrect`, inductive with what a handler knows at each query (`AskerOK`,
  `VerifierOK`).
* `GrantsSignedOnce`, `KeysEnrolledOnce`, `SignoffsAnswer`, from `SafeInv`. A used challenge
  has one holder (a verifier that burned it and has not recorded anything yet) or one Act,
  never both (`ChallengeInv`); a verifier about to sign off has its counter in the ledger
  (`CounterInv`). A step either leaves holders alone (`QuietStep`), makes one over a
  challenge that was fresh (`ConsumeStep`), or turns one into an Act (`ConcludeStep`).

*TypeRegistryProofs* (2,157): `TypeCorrect`, `CacheTellsTheLaw`, `CitationsHold` and
`TheLawMovesForward` from `RegistryInv`, which says what a migration holds in its hand
(the hash of a definition of the very item it is at) and what a client's citation was compared
with. It also carries that every non-empty set of entries has an oldest and a newest member,
because induction over the ledger is out of reach. `OnlyOverlapDuplicates` adds `LoneInv`: a
migration without overlap that is about to append has looked at the ledger as it is, as far as
imports go. `LoneMigrationsAgree == NamesOnce => (Spec => LoneMigrationAgrees)` adds `AgreeInv`:
the hash about to be cited defines the very contract that is wanted, for every migration; and
one without overlap finds in the table all contracts its first pass has put there and, for the
seeds it is done with, the hash of an Act that defines them. That the types are then
discoverable, or superseded by another, is `DefinedIsFound`: if every definition of a type were
superseded by one of that type, superseding would be a map of a finite set onto itself and so a
circle, which hashes cannot form (`NoCircle`). `TheLawMovesForward` excepts the two ways in which
an unchecked `supersedes` decides: by a definition of another type, and by one that names the
new law before it is appended. `OnlyOverlapDuplicates` excepts the revoked genesis authority.

*LegacyRuntimeProofs* (2,333): `TypeCorrect`, `DispatchesOnce`, `ClosedRowsAnswer`,
`DangerIsSigned` and `OnlyUnsignedResumes` from `LegacyInv`: the row a worker claimed is its
own while it runs (no other worker has it, its status is "claimed"), nothing was dispatched
for work that is queued, being decided or stopped for want of the signoff, what is not in the
queue was never dispatched, and the row the signer is about to put back is still stopped for
that reason or was never closed otherwise. Three lemmas, one for steps that append
(`ActStep`), one for steps that write a row (`QueueStep`), one for steps that do neither
(`QuietStep`), carry what the others know across a step. `DoubtsStayBounded` adds `DoubtInv`:
the doubts about an Act and the receivers that have looked and are about to append one are
together no more than the receivers, because a look that finds a doubt makes nobody such a
receiver, and one that finds none finds all receivers free to become one.
`WindowTapsAnswered == Spec => WindowTapKept` rests on `WindowInv`, that a receiver announces a
row that is there, and on rows and doubts never being deleted: a receiver that passes an Act
by has queued or doubted it, or has found that another did.

Assumptions: `TypeAssumption` (ProcessMachine), `RuntimeAssumption`, `ChatAssumption`,
`LegacyAssumption`, `SignoffAssumption` and `RegistryAssumption`: sets of handlers are
disjoint, sentinels are not data, bounds are naturals, seeds are sequences of definitions of
their types. TLC evaluates them in every run.

Hypotheses of single theorems, each written out in its statement:

| Theorem | Hypothesis | Why |
|---|---|---|
| `LiveClaimsKept` | `~GrantCited` | a resumption takes live claims that bear an error (`late_error_steals`) |
| `TurnsStayVisible` | `Faults \cap {"crash", "query"} = {}` | a route that fails is not routed again (section 4) |
| `LoneMigrationsAgree` | `NamesOnce` | `SEED_CONTRACTS` is generated from a dictionary by process_id (`load_catalog`) |
| `DoubtsStayBounded` | `IsFiniteSet(Receivers)` | the bound is their number |

Only model-checked: all liveness, which like ENABLED is outside the prover's reach
(`ExecutorAdvances`, `SignedWorkAdvances`, `StaleCustodySwept`, `TurnEnds`). That queued work of
the compatibility runtime ends is not claimed: its claim has no lease, so an item whose worker
dies stays claimed and nothing brings it back. Induction over data is outside it too: that a replay
exists for every history is proved step by step along the behaviour, not by induction over
the history.

## 6. Not modelled

* Clocks: rows are replayed in `(inserted_at, tuple_hash)` order; the models replay in
  insertion order. Leases and expiry are events that may happen at any time.
* The bound of 25 stale rows per executor invocation: a model worker that closes a stale row
  ends, and another invocation goes on.
* `updated_at` and with it the order of the current-work query: any rows may be its window.
* Real time between a lease and the next cron invocation, on which it depends whether a row
  that fails for ever takes every invocation.
* `enforceSafety`, `getAuthenticator` and the replay are several queries each and are read at
  once; what they read is append-only except for the grant, which LegacyRuntime reads in two
  steps.
* No Act of the compatibility runtime activates a contract (`Evaluates` asks for a tap). That
  holds of every shipped contract: each asks for a `did` and a status the runtime does not
  write.
* Hashing, canonical JSON, formatting, HTTP parsing, the other read-only routes and views,
  stored proposals of process types, prompts and the model itself, the web UI, build tools:
  pure or I/O.
* Registering a grant or an authority is one append; grants are there from the start.
* The Python laboratory (`lab/`): the twin of the compatibility runtime over SQLite, kept as
  its reference. Its one behaviour of its own, the release of a claimed item, is listed as a
  hazard.

Three quarters of the repository's script lines (30,273 of some 39,500) are three generated
copies of one bundle under `workers/api/.wrangler/tmp`, and `seed-contracts.ts`, the next
longest file, is data: a sequence of contracts, which TypeRegistry takes as `Seeds`. What is
modelled is hence a small share of the lines of the repository and most of the lines of
`workers/api/src` that write to a table.

## 7. Plan

Done: all modules of section 2, their runs and their proofs. What is left, by worth:

1. An abstract ticket (one piece of work: queued, held, ended) implemented by both queues.
2. An abstract signoff that GrantSignoff implements and whose steps are the `SignGrant` and
   `VoidGrant` of the two runtimes.
3. The lists of moving work and of processes, once the code matches their rows with heads.
4. The laboratory's release of claimed items, should the laboratory be deployed.

Runs are kept to a dozen, one per question; configurations are merged where their bounds
agree.
