---------------------------- MODULE TypeRegistry ----------------------------
(***************************************************************************)
(* The ledger registry: what is law for a process type, and how POST       *)
(* /api/migrate imports the contracts of a release into it.                *)
(*                                                                         *)
(* Definitions are Acts and are never changed; the view                    *)
(* current_process_types projects the newest one of a type that no other   *)
(* one supersedes.  The mutable table process_contracts caches the         *)
(* contract of the last release that was migrated, with the hash of the    *)
(* Act that defines it, and answers for a type the view does not show.     *)
(*                                                                         *)
(* A migration is a sequence of queries that commit one by one: it can be  *)
(* overtaken by another migration, of this or another release, by clients  *)
(* that define types or cite them, and it can die anywhere.  What clients  *)
(* say of a hash in `supersedes` is checked by nobody: any type may be     *)
(* superseded by a definition of any other, and by one that is older.      *)
(***************************************************************************)
EXTENDS Integers, Sequences, FiniteSets

CONSTANTS
    Types,          \* process ids
    Terms,          \* governed vocabulary terms
    Authority,      \* the key of the authority Act of GENESIS_AUTHORITY
    Bodies,         \* definitions, of types, terms and the authority
    Bootstrap,      \* BOOTSTRAP_VOCABULARY, as a sequence of items
    GenesisItem,    \* the genesis authority, as an item
    Releases,       \* versions of the Worker that may be deployed
    Seeds,          \* [Releases -> sequence of items]: SEED_CONTRACTS
    FirstRelease,   \* the one whose contracts migrations/0004 inserted
    Migrators,      \* concurrent POST /api/migrate requests
    Clients,        \* concurrent POST /api/append requests
    ClientItems,    \* what clients may define
    GovernedTypes,  \* types that clients propose Acts for
    MaxRequests,    \* bound: requests of any kind that are posted
    Foresight,      \* bound: how far ahead of the ledger a hash may be named
    None

Keys == Types \cup Terms \cup {Authority}
Item == [key : Keys, body : Bodies]

ASSUME RegistryAssumption ==
    /\ Types # {} /\ Types \cap Terms = {}
    /\ Authority \notin Types \cup Terms
    /\ Bootstrap \in Seq([key : Terms, body : Bodies])
    /\ GenesisItem \in [key : {Authority}, body : Bodies]
    /\ Seeds \in [Releases -> Seq([key : Types, body : Bodies])]
    /\ FirstRelease \in Releases
    /\ Migrators \cap Clients = {}
    /\ ClientItems \subseteq Item
    /\ GovernedTypes \subseteq Types
    /\ None \notin Bodies \cup Types \cup Releases
    /\ MaxRequests \in Nat
    /\ Foresight \in Nat

VARIABLES
    installed,  \* the registry views are there
    entries,    \* the Acts that define a key, in ledger order
    cache,      \* process_contracts
    revoked,    \* an authority-revoke Act names the genesis authority
    admitted,   \* the Acts that name a process_id and a contract_hash
    requests,   \* how many requests have been posted
    pc,         \* per handler, the query it issues next
    run,        \* per migration, where it is in its seeds
    claim       \* per client, the type and the hash its proposal cites

vars == <<installed, entries, cache, revoked, admitted, requests, pc, run, claim>>

------------------------------------------------------------------------------
\* Values.  The k-th entry has the content hash k; 0 is no hash.

NoHash == 0

Entry == [key : Keys, body : Bodies, supersedes : Nat, seed : BOOLEAN]

CacheRow == [body : Bodies \cup {None}, hash : Nat]

\* `step` counts what a migration ensures for one seed: 0 is the genesis
\* authority, then the bootstrap vocabulary, then the definition.  `found` is
\* the hash of the definition; `overlap` is a history variable: another
\* migration was under way at some time during this one.
Run == [release : Releases, seed : Nat, step : Nat, found : Nat,
        overlap : BOOLEAN]

Claim == [key : Types, hash : Nat]

NoRun == [release |-> FirstRelease, seed |-> 0, step |-> 0, found |-> NoHash,
          overlap |-> FALSE]
NoClaim == [key |-> CHOOSE t \in Types : TRUE, hash |-> NoHash]

MigratorPCs == {"idle", "install", "upsert", "look", "append", "cite"}
ClientPCs == {"idle", "view", "table", "append"}

SeedsOf(m) == Seeds[run[m].release]

\* What migration m ensures next.
Wanted(m) ==
    IF run[m].step = 0 THEN GenesisItem
    ELSE IF run[m].step <= Len(Bootstrap) THEN Bootstrap[run[m].step]
    ELSE SeedsOf(m)[run[m].seed]

EnsuresType(m) == run[m].step > Len(Bootstrap)

\* Entries that define the item, whether superseded or not.
Defining(item) ==
    {k \in DOMAIN entries : entries[k].key = item.key
                            /\ entries[k].body = item.body}

\* What a migration finds of an item: an active authority Act counts for nothing
\* once any Act has revoked the authority.
Recognized(item) ==
    IF item = GenesisItem /\ revoked THEN {} ELSE Defining(item)

\* A hash is computed from the hash it names: no chain of these comes back.
Acyclic(ledger) ==
    \A S \in SUBSET DOMAIN ledger :
        S # {} => \E k \in S : ledger[k].supersedes \notin S

------------------------------------------------------------------------------
\* The views.

\* Another definition, of whatever process_id, older or newer, says that it
\* supersedes k.
Superseded(k) == \E n \in DOMAIN entries : entries[n].supersedes = k

\* The oldest instead.
OldestType(t) ==
    LET own == {k \in DOMAIN entries : entries[k].key = t /\ ~Superseded(k)}
    IN  IF own = {} THEN NoHash
        ELSE CHOOSE k \in own : \A n \in own : k <= n

\* current_process_types: the newest definition of t that nothing supersedes.
CurrentType(t) ==
    LET own == {k \in DOMAIN entries : entries[k].key = t /\ ~Superseded(k)}
    IN  IF own = {} THEN NoHash
        ELSE CHOOSE k \in own : \A n \in own : n <= k

Discoverable == {t \in Types : CurrentType(t) # NoHash}

\* loadContracts: the ledger's types, or the cached ones if it has none.
LoadContracts ==
    IF installed /\ Discoverable # {} THEN Discoverable
    ELSE {t \in Types : cache[t].body # None}

------------------------------------------------------------------------------
\* The first release's contracts are in the table, their hashes are not.
Init ==
    /\ installed = FALSE
    /\ entries = <<>>
    /\ cache = [t \in Types |->
                   LET own == {k \in DOMAIN Seeds[FirstRelease] :
                                  Seeds[FirstRelease][k].key = t}
                   IN  [body |-> IF own = {} THEN None
                                 ELSE Seeds[FirstRelease]
                                          [CHOOSE k \in own : TRUE].body,
                        hash |-> NoHash]]
    /\ revoked = FALSE
    /\ admitted = <<>>
    /\ requests = 0
    /\ pc = [p \in Migrators \cup Clients |-> "idle"]
    /\ run = [m \in Migrators |-> NoRun]
    /\ claim = [c \in Clients |-> NoClaim]

GoesTo(p, next) == pc' = [pc EXCEPT ![p] = next]

------------------------------------------------------------------------------
\* POST /api/migrate.

\* Releases may be deployed, rolled back and migrated at any time.
Start(m, r) ==
    LET others == {n \in Migrators : pc[n] # "idle"} IN
    /\ pc[m] = "idle"
    /\ requests < MaxRequests
    /\ requests' = requests + 1
    /\ run' = [n \in Migrators |->
                  IF n = m THEN [NoRun EXCEPT !.release = r,
                                              !.overlap = others # {}]
                  ELSE IF n \in others THEN [run[n] EXCEPT !.overlap = TRUE]
                  ELSE run[n]]
    /\ GoesTo(m, "install")
    /\ UNCHANGED <<installed, entries, cache, revoked, admitted, claim>>

EndsRun(m) ==
    /\ GoesTo(m, "idle")
    /\ run' = [run EXCEPT ![m] = NoRun]

\* The views, created or replaced by one query.  The tables, constraints and
\* triggers before and after it are left out: the statements change nothing where
\* migrations/ or an earlier request made them.
Install(m) ==
    /\ pc[m] = "install"
    /\ installed' = TRUE
    /\ run' = [run EXCEPT ![m].seed = 1]
    /\ GoesTo(m, IF SeedsOf(m) = <<>> THEN "look" ELSE "upsert")
    /\ UNCHANGED <<entries, cache, revoked, admitted, requests, claim>>

\* The second pass over the seeds from where the first one ended.
UpsertOn(m) ==
    LET seed == SeedsOf(m)[run[m].seed] IN
    /\ pc[m] = "upsert"
    /\ cache' = [cache EXCEPT ![seed.key] =
                    [body |-> seed.body,
                     hash |-> IF @.body = seed.body THEN @.hash ELSE NoHash]]
    /\ run' = [run EXCEPT ![m].seed = @ + 1]
    /\ GoesTo(m, IF run[m].seed < Len(SeedsOf(m)) THEN "upsert" ELSE "look")
    /\ UNCHANGED <<installed, entries, revoked, admitted, requests, claim>>

\* One seed into the table; the hash is kept only with the same contract.
Upsert(m) ==
    LET seed == SeedsOf(m)[run[m].seed] IN
    /\ pc[m] = "upsert"
    /\ cache' = [cache EXCEPT ![seed.key] =
                    [body |-> seed.body,
                     hash |-> IF @.body = seed.body THEN @.hash ELSE NoHash]]
    /\ IF run[m].seed < Len(SeedsOf(m))
       THEN /\ run' = [run EXCEPT ![m].seed = @ + 1]
            /\ UNCHANGED pc
       ELSE /\ run' = [run EXCEPT ![m].seed = 1]
            /\ GoesTo(m, "look")
    /\ UNCHANGED <<installed, entries, revoked, admitted, requests, claim>>

\* m has ensured an item: the next one, of the same seed or the next.
Advances(m) ==
    IF /\ run[m].step > 0
       /\ ~EnsuresType(m)
    THEN /\ run' = [run EXCEPT ![m].step = @ + 1]
         /\ GoesTo(m, "look")
    ELSE IF run[m].step = 0 /\ SeedsOf(m) # <<>>
    THEN /\ run' = [run EXCEPT ![m].step = 1]
         /\ GoesTo(m, "look")
    ELSE IF run[m].step > 0 /\ run[m].seed < Len(SeedsOf(m))
    THEN /\ run' = [run EXCEPT ![m].seed = @ + 1, ![m].step = 1,
                               ![m].found = NoHash]
         /\ GoesTo(m, "look")
    ELSE EndsRun(m)

\* m has the hash of its item: a term or the authority is done with, the
\* definition of a type is then cited in the table.
Holds(m, hash) ==
    IF EnsuresType(m)
    THEN /\ run' = [run EXCEPT ![m].found = hash]
         /\ GoesTo(m, "cite")
    ELSE Advances(m)

\* A look among the definitions in force only.
LookInForce(m) ==
    LET inForce == {k \in Defining(Wanted(m)) : ~Superseded(k)} IN
    /\ pc[m] = "look"
    /\ IF inForce = {}
       THEN GoesTo(m, "append") /\ UNCHANGED run
       ELSE Holds(m, CHOOSE k \in inForce : \A n \in inForce : k <= n)
    /\ UNCHANGED <<installed, entries, cache, revoked, admitted, requests, claim>>

\* authorityRecognized, ensureBootstrapVocabulary, ensureRegisteredContract:
\* look for the oldest Act that defines exactly this ...
Look(m) ==
    LET there == Recognized(Wanted(m)) IN
    /\ pc[m] = "look"
    /\ IF there = {}
       THEN GoesTo(m, "append") /\ UNCHANGED run
       ELSE Holds(m, CHOOSE k \in there : \A n \in there : k <= n)
    /\ UNCHANGED <<installed, entries, cache, revoked, admitted, requests, claim>>

\* ... append one, which names no predecessor, if there was none ...
AppendItem(m) ==
    /\ pc[m] = "append"
    /\ entries' = Append(entries, [key |-> Wanted(m).key,
                                   body |-> Wanted(m).body,
                                   supersedes |-> NoHash, seed |-> TRUE])
    /\ Holds(m, Len(entries) + 1)
    /\ UNCHANGED <<installed, cache, revoked, admitted, requests, claim>>

\* The hash written to every row of the table, or only where there is none.
CiteEverywhere(m) ==
    /\ pc[m] = "cite"
    /\ cache' = [t \in Types |-> [cache[t] EXCEPT !.hash = run[m].found]]
    /\ Advances(m)
    /\ UNCHANGED <<installed, entries, revoked, admitted, requests, claim>>

CiteIfNull(m) ==
    /\ pc[m] = "cite"
    /\ cache' = [cache EXCEPT ![Wanted(m).key].hash =
                    IF @ = NoHash THEN run[m].found ELSE @]
    /\ Advances(m)
    /\ UNCHANGED <<installed, entries, revoked, admitted, requests, claim>>

\* ... and write its hash to the row, whatever contract the row holds by now.
Cite(m) ==
    /\ pc[m] = "cite"
    /\ cache' = [cache EXCEPT ![Wanted(m).key].hash = run[m].found]
    /\ Advances(m)
    /\ UNCHANGED <<installed, entries, revoked, admitted, requests, claim>>

\* The isolate dies, or a query fails and the request ends in an error.
MigrationFails(m) ==
    /\ pc[m] # "idle"
    /\ EndsRun(m)
    /\ UNCHANGED <<installed, entries, cache, revoked, admitted, requests, claim>>

------------------------------------------------------------------------------
\* POST /api/append.

Definition(item, supersedes) ==
    [key |-> item.key, body |-> item.body, supersedes |-> supersedes,
     seed |-> FALSE]

\* What a definition of the item may say that it supersedes: nothing, any Act
\* there is, and one that somebody is yet to append, if not itself.
Nameable(item) ==
    LET hash == Len(entries) + 1 IN
    {h \in 0..hash + Foresight :
        /\ h # hash
        /\ Superseded(hash) => Acyclic(Append(entries, Definition(item, h)))}

\* A client defines a type or a term; the kernel checks neither its authority
\* nor what it says that it supersedes.
Define(c, item, supersedes) ==
    /\ pc[c] = "idle"
    /\ requests < MaxRequests
    /\ requests' = requests + 1
    /\ supersedes # NoHash => item.key \in Types
    /\ entries' = Append(entries, Definition(item, supersedes))
    /\ UNCHANGED <<installed, cache, revoked, admitted, pc, run, claim>>

\* A client proposes an Act for a type, citing any definition of a type there
\* is; one that cites none says nothing of the registry.
Propose(c, t, hash) ==
    /\ pc[c] = "idle"
    /\ requests < MaxRequests
    /\ requests' = requests + 1
    /\ entries[hash].key \in Types
    /\ claim' = [claim EXCEPT ![c] = [key |-> t, hash |-> hash]]
    /\ GoesTo(c, "view")
    /\ UNCHANGED <<installed, entries, cache, revoked, admitted, run>>

Rejected(c) ==
    /\ GoesTo(c, "idle")
    /\ claim' = [claim EXCEPT ![c] = NoClaim]

\* contract_hash must be the registered hash; without the comparison any
\* existing hash would do.
CitesAny(c, registered) == TRUE

CitesRegistered(c, registered) == claim[c].hash = registered

Judge(c, registered) ==
    IF CitesRegistered(c, registered)
    THEN GoesTo(c, "append") /\ UNCHANGED claim
    ELSE Rejected(c)

\* requireProcessType: the view ...
VerifyByView(c) ==
    LET current == CurrentType(claim[c].key) IN
    /\ pc[c] = "view"
    /\ IF installed /\ current # NoHash
       THEN Judge(c, current)
       ELSE GoesTo(c, "table") /\ UNCHANGED claim
    /\ UNCHANGED <<installed, entries, cache, revoked, admitted, requests, run>>

\* ... and, for a type the view does not show, the table.
VerifyByTable(c) ==
    LET row == cache[claim[c].key] IN
    /\ pc[c] = "table"
    /\ IF row.body # None THEN Judge(c, row.hash) ELSE Rejected(c)
    /\ UNCHANGED <<installed, entries, cache, revoked, admitted, requests, run>>

AppendAct(c) ==
    /\ pc[c] = "append"
    /\ admitted' = Append(admitted, claim[c])
    /\ GoesTo(c, "idle")
    /\ claim' = [claim EXCEPT ![c] = NoClaim]
    /\ UNCHANGED <<installed, entries, cache, revoked, requests, run>>

\* No route of the Worker appends an authority-revoke: it comes from outside.
RevokeAuthority ==
    /\ ~revoked
    /\ revoked' = TRUE
    /\ UNCHANGED <<installed, entries, cache, admitted, requests, pc, run, claim>>

------------------------------------------------------------------------------
Migrate(m) ==
    \/ \E r \in Releases : Start(m, r)
    \/ Install(m)
    \/ Upsert(m)
    \/ Look(m)
    \/ AppendItem(m)
    \/ Cite(m)
    \/ MigrationFails(m)

Request(c) ==
    \/ \E item \in ClientItems : \E supersedes \in Nameable(item) :
           Define(c, item, supersedes)
    \/ \E t \in GovernedTypes : \E hash \in DOMAIN entries : Propose(c, t, hash)
    \/ VerifyByView(c)
    \/ VerifyByTable(c)
    \/ AppendAct(c)

Next ==
    \/ \E m \in Migrators : Migrate(m)
    \/ \E c \in Clients : Request(c)
    \/ RevokeAuthority

Spec == Init /\ [][Next]_vars
------------------------------------------------------------------------------
\* Properties.

\* Type invariant.
TypeOK ==
    /\ installed \in BOOLEAN
    /\ entries \in Seq(Entry)
    /\ cache \in [Types -> CacheRow]
    /\ revoked \in BOOLEAN
    /\ admitted \in Seq(Claim)
    /\ requests \in Nat
    /\ pc \in [Migrators \cup Clients -> MigratorPCs \cup ClientPCs]
    /\ run \in [Migrators -> Run]
    /\ claim \in [Clients -> Claim]
    /\ \A m \in Migrators : pc[m] \in MigratorPCs
    /\ \A c \in Clients : pc[c] \in ClientPCs
    /\ \A m \in Migrators :
           pc[m] \in {"upsert", "look", "append", "cite"} =>
               /\ run[m].seed \in 1..Len(SeedsOf(m)) \cup {1}
               /\ run[m].step \in 0..Len(Bootstrap) + 1
               /\ run[m].step > 0 \/ pc[m] = "upsert" => SeedsOf(m) # <<>>
    /\ \A m \in Migrators :
           pc[m] = "cite" => run[m].step = Len(Bootstrap) + 1

\* The hash a cached contract carries is that of a definition of that very
\* type, whatever migrations of whatever releases write into the table at
\* once (ensureRegisteredContract).
CacheNamesLaw ==
    \A t \in Types :
        cache[t].hash # NoHash =>
            /\ cache[t].hash \in DOMAIN entries
            /\ entries[cache[t].hash].key = t

\* An Act in the ledger that cites a contract_hash cites a definition of the
\* type it names, although verification may have compared it with the view
\* or with the table, and both may have changed since (requireProcessType).
ActCitesItsType ==
    \A k \in DOMAIN admitted :
        /\ admitted[k].hash \in DOMAIN entries
        /\ entries[admitted[k].hash].key = admitted[k].key

\* A migration imports what is already in the ledger a second time only when
\* it overlaps another one: posted again, rolled back, retried after it died,
\* it appends no Act whose like was imported before (the look before the
\* append in ensureRegisteredContract and ensureBootstrapVocabulary).  The
\* genesis authority is an exception once it has been revoked: then every
\* migration appends it anew.
DuplicatesNeedOverlap ==
    [][\A m \in Migrators :
          (/\ pc[m] = "append"
           /\ entries' # entries
           /\ \E k \in Defining(Wanted(m)) : entries[k].seed)
          => \/ run[m].overlap
             \/ pc'[m] = "append"
             \/ revoked /\ Wanted(m) = GenesisItem]_vars

\* Where the contracts of a release come out of a migration: each seed's row
\* holds that contract and the hash of an Act that defines it, and the type
\* is discoverable unless a definition of another type supersedes its own.
Imported(r) ==
    \A s \in DOMAIN Seeds[r] :
        LET key == Seeds[r][s].key
            row == cache[key]
        IN  /\ row.body = Seeds[r][s].body
            /\ row.hash \in DOMAIN entries
            /\ entries[row.hash].body = Seeds[r][s].body
            /\ \/ key \in LoadContracts
               \/ \E n \in DOMAIN entries :
                     /\ entries[n].supersedes \in DOMAIN entries
                     /\ entries[entries[n].supersedes].key = key
                     /\ entries[n].key # key

\* A migration that requests alone leaves the table and the ledger in agreement,
\* whatever earlier ones that overlapped or died had left in the table.
LoneMigrationAgrees ==
    [][\A m \in Migrators :
          (/\ pc[m] = "cite"
           /\ pc'[m] = "idle"
           /\ cache'[Wanted(m).key].hash = run[m].found
           /\ run[m].seed = Len(SeedsOf(m))
           /\ ~run[m].overlap)
          => \A r \in {run[m].release} : Imported(r)']_vars

\* A definition in force gives way to the newest one of its type.  Anything
\* else, an older law back in force or none, takes a definition that names this
\* very hash and is not in force itself: it is of another process_id, or its own
\* hash had been named in advance (the view asks a superseding definition for no
\* process_id, and not whether it is newer).
LawMovesForward ==
    [][\A t \in Types :
          LET new == Len(entries) + 1 IN
          (CurrentType(t) # NoHash /\ CurrentType(t)' # CurrentType(t)) =>
              \/ CurrentType(t)' = new
              \/ /\ entries'[new].supersedes = CurrentType(t)
                 /\ \/ entries'[new].key # t
                    \/ \E n \in DOMAIN entries : entries[n].supersedes = new]_vars
=============================================================================
