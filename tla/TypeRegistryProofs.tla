------------------------- MODULE TypeRegistryProofs -------------------------
(***************************************************************************)
(* What holds of the registry for any number of migrations, of any         *)
(* releases, beside any number of clients.                                 *)
(***************************************************************************)
EXTENDS TypeRegistry, SequenceTheorems, FiniteSetTheorems, TLAPS

------------------------------------------------------------------------------
\* The invariant.  A migration that is about to cite a hash has it from an Act
\* that defines its item; a client about to append has compared its hash with
\* one that defines its type.  Definitions do not supersede one another in a
\* circle, and among any of them there are an oldest and a newest.
Names(hash, t) == hash \in DOMAIN entries /\ entries[hash].key = t

Extremes ==
    \A S \in SUBSET DOMAIN entries :
        S # {} => \E lo, hi \in S : \A n \in S : lo <= n /\ n <= hi

MigratorOK(m) ==
    /\ pc[m] = "install" => run[m].step = 0
    /\ pc[m] = "cite" => Names(run[m].found, Wanted(m).key)

ClientOK(c) ==
    /\ pc[c] # "idle" => claim[c].hash \in DOMAIN entries
    /\ pc[c] = "append" => Names(claim[c].hash, claim[c].key)

RegistryInv ==
    /\ TypeOK
    /\ Acyclic(entries)
    /\ Extremes
    /\ CacheNamesLaw
    /\ ActCitesItsType
    /\ \A m \in Migrators : MigratorOK(m)
    /\ \A c \in Clients : ClientOK(c)

------------------------------------------------------------------------------
\* Types.

\* What TypeOK says of one migration.
Progress(m) ==
    /\ run[m] \in Run
    /\ pc[m] \in MigratorPCs
    /\ pc[m] \in {"upsert", "look", "append", "cite"} =>
           /\ run[m].seed \in 1..Len(SeedsOf(m)) \cup {1}
           /\ run[m].step \in 0..Len(Bootstrap) + 1
           /\ run[m].step > 0 \/ pc[m] = "upsert" => SeedsOf(m) # <<>>
    /\ pc[m] = "cite" => run[m].step = Len(Bootstrap) + 1

LEMMA ProgressOfAll ==
    ASSUME TypeOK, NEW m \in Migrators
    PROVE  Progress(m)
BY DEF TypeOK, Progress

LEMMA Constants ==
    /\ NoRun \in Run
    /\ Len(Bootstrap) \in Nat
    /\ \A r \in Releases : /\ Seeds[r] \in Seq([key : Types, body : Bodies])
                           /\ Len(Seeds[r]) \in Nat
    /\ GenesisItem \in Item
    /\ \A k \in 1..Len(Bootstrap) : Bootstrap[k] \in Item
<1>1. FirstRelease \in Releases
  BY RegistryAssumption DEF RegistryAssumption
<1>2. NoRun \in Run
  BY <1>1 DEF NoRun, Run, NoHash
<1>3. GenesisItem \in Item
  BY RegistryAssumption DEF RegistryAssumption, Item, Keys
<1>4. Bootstrap \in Seq([key : Terms, body : Bodies]) /\ Len(Bootstrap) \in Nat
  BY RegistryAssumption DEF RegistryAssumption
<1>5. ASSUME NEW k \in 1..Len(Bootstrap) PROVE Bootstrap[k] \in Item
  <2>1. Bootstrap[k] \in [key : Terms, body : Bodies]
    BY <1>4, ElementOfSeq
  <2> QED
    BY <2>1 DEF Item, Keys
<1>6. ASSUME NEW r \in Releases
      PROVE  /\ Seeds[r] \in Seq([key : Types, body : Bodies])
             /\ Len(Seeds[r]) \in Nat
  <2>1. Seeds[r] \in Seq([key : Types, body : Bodies])
    BY RegistryAssumption DEF RegistryAssumption
  <2> QED
    BY <2>1
<1> QED
  BY <1>2, <1>3, <1>4, <1>5, <1>6

\* What a migration ensures is an item, and a type's from the last step on.
LEMMA WantedIsItem ==
    ASSUME TypeOK, NEW m \in Migrators, pc[m] \in {"look", "append", "cite"}
    PROVE  /\ Wanted(m).key \in Keys /\ Wanted(m).body \in Bodies
           /\ EnsuresType(m) => Wanted(m).key \in Types
<1>1. /\ Progress(m) /\ run[m].step \in Nat /\ run[m].seed \in Nat
      /\ run[m].release \in Releases
  BY ProgressOfAll DEF Progress, Run
<1>2. Len(Bootstrap) \in Nat /\ Len(SeedsOf(m)) \in Nat
  BY <1>1, Constants DEF SeedsOf
<1>3. CASE run[m].step = 0
  BY <1>2, <1>3, Constants DEF Wanted, EnsuresType, Item
<1>4. CASE run[m].step > 0 /\ ~EnsuresType(m)
  <2>1. /\ run[m].step \in 1..Len(Bootstrap)
        /\ Wanted(m) = Bootstrap[run[m].step]
    BY <1>1, <1>2, <1>4 DEF Wanted, EnsuresType
  <2> QED
    BY <1>4, <2>1, Constants DEF Item
<1>5. CASE EnsuresType(m)
  <2>1. /\ run[m].seed \in 1..Len(SeedsOf(m))
        /\ Wanted(m) = SeedsOf(m)[run[m].seed]
        /\ SeedsOf(m) \in Seq([key : Types, body : Bodies])
    <3>1. SeedsOf(m) \in Seq([key : Types, body : Bodies])
      BY <1>1, Constants DEF SeedsOf
    <3>2. SeedsOf(m) # <<>> /\ run[m].seed \in 1..Len(SeedsOf(m)) \cup {1}
      BY <1>1, <1>2, <1>5 DEF EnsuresType, Progress
    <3>3. Len(SeedsOf(m)) > 0
      BY <3>1, <3>2, <1>2
    <3>4. Wanted(m) = SeedsOf(m)[run[m].seed]
      BY <1>1, <1>2, <1>5 DEF EnsuresType, Wanted
    <3> QED
      BY <1>1, <1>2, <3>1, <3>2, <3>3, <3>4
  <2>2. SeedsOf(m)[run[m].seed] \in [key : Types, body : Bodies]
    BY <2>1, ElementOfSeq
  <2> QED
    BY <2>1, <2>2 DEF Keys
<1> QED
  BY <1>1, <1>3, <1>4, <1>5

\* Only what a migration says of itself changes, and to good.
MigratorMoves(m) ==
    /\ run' \in [Migrators -> Run]
    /\ pc' \in [Migrators \cup Clients -> MigratorPCs \cup ClientPCs]
    /\ \A n \in Migrators \ {m} : run'[n] = run[n] /\ pc'[n] = pc[n]
    /\ \A c \in Clients : pc'[c] = pc[c]
    /\ pc'[m] # "idle" => run'[m].overlap = run[m].overlap
    /\ Progress(m)'

LEMMA MoveOf ==
    ASSUME TypeOK, NEW m \in Migrators, NEW next \in MigratorPCs,
           NEW new \in Run, GoesTo(m, next), run' = [run EXCEPT ![m] = new]
    PROVE  /\ run' \in [Migrators -> Run]
           /\ pc' \in [Migrators \cup Clients -> MigratorPCs \cup ClientPCs]
           /\ \A n \in Migrators \ {m} : run'[n] = run[n] /\ pc'[n] = pc[n]
           /\ \A c \in Clients : pc'[c] = pc[c]
           /\ run'[m] = new /\ pc'[m] = next
BY RegistryAssumption DEF RegistryAssumption, TypeOK, GoesTo

LEMMA EndsMoves ==
    ASSUME TypeOK, NEW m \in Migrators, EndsRun(m)
    PROVE  MigratorMoves(m) /\ pc'[m] = "idle"
<1>1. "idle" \in MigratorPCs
  BY DEF MigratorPCs
<1> QED
  BY <1>1, MoveOf, Constants DEF EndsRun, MigratorMoves, Progress

LEMMA AdvancesMoves ==
    ASSUME TypeOK, NEW m \in Migrators, pc[m] \in {"look", "append", "cite"},
           Advances(m)
    PROVE  MigratorMoves(m) /\ pc'[m] \in {"look", "idle"}
<1> DEFINE r == run[m]
<1>1. /\ Progress(m) /\ r \in Run /\ r.step \in Nat /\ r.seed \in Nat
      /\ r.release \in Releases
  BY ProgressOfAll DEF Progress, Run
<1>2. Len(Bootstrap) \in Nat /\ Len(SeedsOf(m)) \in Nat
  BY <1>1, Constants DEF SeedsOf
<1>3. "look" \in MigratorPCs
  BY DEF MigratorPCs
<1>4. ASSUME NEW new \in Run, run' = [run EXCEPT ![m] = new], GoesTo(m, "look"),
             new.release = r.release, new.seed \in 1..Len(SeedsOf(m)) \cup {1},
             new.step \in 0..Len(Bootstrap) + 1, SeedsOf(m) # <<>>,
             new.overlap = r.overlap
      PROVE  MigratorMoves(m) /\ pc'[m] = "look"
  <2>1. run'[m] = new /\ pc'[m] = "look"
    BY <1>3, <1>4, MoveOf
  <2>2. SeedsOf(m)' = SeedsOf(m)
    BY <1>4, <2>1 DEF SeedsOf
  <2>3. Progress(m)'
    BY <1>3, <1>4, <2>1, <2>2 DEF Progress
  <2> QED
    BY <1>3, <1>4, <2>1, <2>3, MoveOf DEF MigratorMoves
<1>5. CASE r.step > 0 /\ ~EnsuresType(m)
  <2> DEFINE new == [r EXCEPT !.step = r.step + 1]
  <2>1. run' = [run EXCEPT ![m] = new] /\ GoesTo(m, "look")
    BY <1>5 DEF Advances, TypeOK
  <2>2. /\ new \in Run /\ new.release = r.release /\ new.seed = r.seed
        /\ new.overlap = r.overlap
        /\ new.step = r.step + 1
    BY <1>1 DEF Run
  <2> HIDE DEF new
  <2>3. new.step \in 0..Len(Bootstrap) + 1
    BY <1>1, <1>2, <1>5, <2>2 DEF EnsuresType
  <2>4. new.seed \in 1..Len(SeedsOf(m)) \cup {1} /\ SeedsOf(m) # <<>>
    BY <1>1, <1>5, <2>2 DEF Progress
  <2> QED
    BY <1>4, <2>1, <2>2, <2>3, <2>4
<1>6. CASE r.step = 0 /\ SeedsOf(m) # <<>>
  <2> DEFINE new == [r EXCEPT !.step = 1]
  <2>1. run' = [run EXCEPT ![m] = new] /\ GoesTo(m, "look")
    BY <1>6 DEF Advances, TypeOK
  <2>2. /\ new \in Run /\ new.release = r.release /\ new.seed = r.seed
        /\ new.overlap = r.overlap
        /\ new.step = 1
    BY <1>1 DEF Run
  <2> HIDE DEF new
  <2>3. new.step \in 0..Len(Bootstrap) + 1
    BY <1>2, <2>2
  <2>4. new.seed \in 1..Len(SeedsOf(m)) \cup {1}
    BY <1>1, <2>2 DEF Progress
  <2> QED
    BY <1>4, <1>6, <2>1, <2>2, <2>3, <2>4
<1>7. CASE EnsuresType(m) /\ r.step > 0 /\ r.seed < Len(SeedsOf(m))
  <2> DEFINE one == [r EXCEPT !.seed = r.seed + 1]
             two == [one EXCEPT !.step = 1]
             new == [two EXCEPT !.found = NoHash]
  <2>1. GoesTo(m, "look")
        /\ run' = [run EXCEPT ![m].seed = @ + 1, ![m].step = 1,
                              ![m].found = NoHash]
    BY <1>1, <1>7 DEF Advances
  <2>2. run' = [run EXCEPT ![m] = new]
    BY <2>1 DEF TypeOK
  <2>3. /\ one \in Run /\ one.release = r.release /\ one.seed = r.seed + 1
        /\ one.overlap = r.overlap
    BY <1>1 DEF Run
  <2> HIDE DEF one
  <2>4. /\ two \in Run /\ two.release = r.release /\ two.seed = r.seed + 1
        /\ two.overlap = r.overlap
        /\ two.step = 1
    BY <2>3 DEF Run
  <2> HIDE DEF two
  <2>5. /\ new \in Run /\ new.release = r.release /\ new.seed = r.seed + 1
        /\ new.overlap = r.overlap
        /\ new.step = 1
    BY <2>4 DEF Run, NoHash
  <2> HIDE DEF new
  <2>6. new.step \in 0..Len(Bootstrap) + 1
    BY <1>2, <2>5
  <2>7. new.seed \in 1..Len(SeedsOf(m)) \cup {1}
    BY <1>1, <1>2, <1>7, <2>5
  <2>8. SeedsOf(m) # <<>>
    BY <1>1, <1>7 DEF Progress
  <2> QED
    BY <1>4, <2>1, <2>2, <2>5, <2>6, <2>7, <2>8
<1>8. CASE EndsRun(m)
  BY <1>8, EndsMoves
<1> QED
  BY <1>1, <1>2, <1>5, <1>6, <1>7, <1>8 DEF Advances, EnsuresType

LEMMA HoldsMoves ==
    ASSUME TypeOK, NEW m \in Migrators, pc[m] \in {"look", "append"},
           NEW hash \in Nat, Holds(m, hash)
    PROVE  /\ MigratorMoves(m)
           /\ pc'[m] \in {"look", "idle", "cite"}
           /\ pc'[m] = "cite" =>
                  run'[m].found = hash /\ Wanted(m)' = Wanted(m)
<1>1. /\ Progress(m) /\ run[m] \in Run /\ run[m].step \in Nat
  BY ProgressOfAll DEF Progress, Run
<1>2. CASE EnsuresType(m)
  <2> DEFINE new == [run[m] EXCEPT !.found = hash]
  <2>1. run' = [run EXCEPT ![m] = new] /\ GoesTo(m, "cite")
    BY <1>2 DEF Holds, TypeOK
  <2>2. /\ new \in Run /\ new.release = run[m].release
        /\ new.seed = run[m].seed /\ new.step = run[m].step
        /\ new.found = hash /\ new.overlap = run[m].overlap
    BY <1>1 DEF Run
  <2> HIDE DEF new
  <2>3. "cite" \in MigratorPCs
    BY DEF MigratorPCs
  <2>4. run'[m] = new /\ pc'[m] = "cite"
    BY <2>1, <2>2, <2>3, MoveOf
  <2>5. SeedsOf(m)' = SeedsOf(m)
    BY <2>2, <2>4 DEF SeedsOf
  <2>6. Wanted(m)' = Wanted(m)
    BY <2>2, <2>4, <2>5 DEF Wanted
  <2>7. Progress(m)'
    <3>1. Len(Bootstrap) \in Nat
      BY Constants
    <3> QED
      BY <1>1, <1>2, <2>2, <2>3, <2>4, <2>5, <3>1 DEF Progress, EnsuresType
  <2> QED
    BY <2>1, <2>2, <2>3, <2>4, <2>6, <2>7, MoveOf DEF MigratorMoves
<1>3. CASE ~EnsuresType(m)
  BY <1>3, AdvancesMoves DEF Holds
<1> QED
  BY <1>2, <1>3

------------------------------------------------------------------------------
\* The ledger.

Grows ==
    \A k \in DOMAIN entries : k \in DOMAIN entries' /\ entries'[k] = entries[k]

LedgerOK == entries \in Seq(Entry) /\ Acyclic(entries) /\ Extremes

LEMMA SameLedger ==
    ASSUME RegistryInv, UNCHANGED entries
    PROVE  Grows /\ LedgerOK'
BY DEF RegistryInv, TypeOK, Grows, LedgerOK, Extremes

LEMMA Appended ==
    ASSUME RegistryInv, NEW e \in Entry, Acyclic(Append(entries, e)),
           entries' = Append(entries, e)
    PROVE  /\ Grows /\ LedgerOK'
           /\ Len(entries) \in Nat
           /\ DOMAIN entries = 1..Len(entries)
           /\ DOMAIN entries' = 1..(Len(entries) + 1)
           /\ entries'[Len(entries) + 1] = e
<1> DEFINE n == Len(entries)
<1>1. entries \in Seq(Entry) /\ Extremes
  BY DEF RegistryInv, TypeOK
<1>2. n \in Nat /\ DOMAIN entries = 1..n
  BY <1>1
<1>3. /\ entries' \in Seq(Entry) /\ DOMAIN entries' = 1..(n + 1)
      /\ entries'[n + 1] = e /\ \A k \in 1..n : entries'[k] = entries[k]
  BY <1>1, <1>2
<1>4. Grows
  BY <1>2, <1>3 DEF Grows
<1>6. Extremes'
  <2>1. ASSUME NEW S \in SUBSET (1..(n + 1)), S # {}
        PROVE  \E lo, hi \in S : \A k \in S : lo <= k /\ k <= hi
    <3>1. CASE S \ {n + 1} = {}
      BY <1>2, <2>1, <3>1
    <3>2. CASE S \ {n + 1} # {}
      <4>1. PICK lo \in S \ {n + 1}, hi \in S \ {n + 1} :
                \A k \in S \ {n + 1} : lo <= k /\ k <= hi
        <5>1. \A k \in S \ {n + 1} : k \in 1..n
          BY <1>2, <2>1
        <5>2. S \ {n + 1} \in SUBSET DOMAIN entries
          BY <1>2, <5>1
        <5> QED
          BY <1>1, <3>2, <5>2 DEF Extremes
      <4>2. CASE n + 1 \in S
        <5>1. \A k \in S : lo <= k /\ k <= n + 1
          BY <1>2, <4>1
        <5> QED
          BY <4>2, <5>1
      <4>3. CASE n + 1 \notin S
        BY <4>1, <4>3
      <4> QED
        BY <4>2, <4>3
    <3> QED
      BY <3>1, <3>2
  <2> QED
    BY <1>3, <2>1 DEF Extremes
<1> QED
  BY <1>2, <1>3, <1>4, <1>6 DEF LedgerOK

\* A definition closes no circle if it supersedes nothing, or if no circle that
\* is closed without it leads to it.
LEMMA NoCircle ==
    ASSUME RegistryInv, NEW e \in Entry,
           \/ e.supersedes = NoHash
           \/ Superseded(Len(entries) + 1) => Acyclic(Append(entries, e)),
           e.supersedes # Len(entries) + 1
    PROVE  Acyclic(Append(entries, e))
<1> DEFINE n == Len(entries)
           grown == Append(entries, e)
<1>1. /\ entries \in Seq(Entry) /\ n \in Nat /\ DOMAIN entries = 1..n
      /\ DOMAIN grown = 1..(n + 1) /\ grown[n + 1] = e
      /\ \A k \in 1..n : grown[k] = entries[k]
  BY DEF RegistryInv, TypeOK
<1>2. CASE Superseded(n + 1) /\ e.supersedes # NoHash
  BY <1>2
<1>3. CASE ~Superseded(n + 1) \/ e.supersedes = NoHash
  <2>1. SUFFICES ASSUME NEW S \in SUBSET (1..(n + 1)), S # {},
                        \A k \in S : grown[k].supersedes \in S
                 PROVE  FALSE
    BY <1>1 DEF Acyclic
  <2> HIDE DEF grown
  <2>2. n + 1 \in S => e.supersedes \in 1..n /\ e.supersedes \in S
    <3>1. n + 1 \in S => e.supersedes \in S
      BY <1>1, <2>1
    <3>2. \A k \in S : k # n + 1 => k \in 1..n
      BY <1>1, <2>1
    <3> QED
      BY <3>1, <3>2
  <2>3. n + 1 \in S => ~Superseded(n + 1)
    BY <1>1, <1>3, <2>2 DEF NoHash
  <2> DEFINE rest == S \ {n + 1}
  <2>4. rest \in SUBSET (1..n) /\ rest # {}
    <3>1. rest \in SUBSET (1..n)
      <4>1. \A k \in rest : k \in 1..(n + 1) /\ k # n + 1
        BY <2>1
      <4>2. \A k \in 1..(n + 1) : k # n + 1 => k \in 1..n
        BY <1>1
      <4> HIDE DEF rest
      <4> QED
        BY <4>1, <4>2
    <3>2. CASE n + 1 \in S
      <4>1. e.supersedes \in rest
        BY <1>1, <2>2, <3>2
      <4> QED
        BY <3>1, <4>1
    <3>3. CASE n + 1 \notin S
      BY <2>1, <3>1, <3>3
    <3> QED
      BY <3>2, <3>3
  <2>5. ASSUME NEW k \in rest PROVE entries[k].supersedes \in rest
    <3>1. k \in 1..n /\ k \in S /\ entries[k].supersedes \in S
      BY <1>1, <2>1, <2>4
    <3>2. CASE n + 1 \in S
      <4>1. entries[k].supersedes # n + 1
        BY <1>1, <2>3, <3>1, <3>2 DEF Superseded
      <4> QED
        BY <3>1, <4>1
    <3>3. CASE n + 1 \notin S
      BY <3>1, <3>3
    <3> QED
      BY <3>2, <3>3
  <2> HIDE DEF rest
  <2>6. Acyclic(entries)
    BY DEF RegistryInv
  <2> QED
    BY <1>1, <2>4, <2>5, <2>6 DEF Acyclic
<1> QED
  BY <1>2, <1>3

\* What a migration imports, and what a client defines, is an entry.
LEMMA ImportIsEntry ==
    ASSUME RegistryInv, NEW m \in Migrators, pc[m] = "append",
           NEW e, e = [key |-> Wanted(m).key, body |-> Wanted(m).body,
                       supersedes |-> NoHash, seed |-> TRUE]
    PROVE  e \in Entry /\ Acyclic(Append(entries, e))
<1>1. TypeOK /\ Len(entries) \in Nat
  BY DEF RegistryInv, TypeOK
<1>2. e \in Entry /\ e.supersedes = NoHash
  BY <1>1, WantedIsItem DEF Entry, NoHash
<1>3. e.supersedes # Len(entries) + 1
  BY <1>1, <1>2 DEF NoHash
<1> QED
  BY <1>2, <1>3, NoCircle

LEMMA DefinitionIsEntry ==
    ASSUME RegistryInv, NEW item \in ClientItems,
           NEW supersedes \in Nameable(item)
    PROVE  /\ Definition(item, supersedes) \in Entry
           /\ Acyclic(Append(entries, Definition(item, supersedes)))
           /\ ~Definition(item, supersedes).seed
<1>1. Len(entries) \in Nat
  BY DEF RegistryInv, TypeOK
<1>2. item \in Item
  BY RegistryAssumption DEF RegistryAssumption
<1>3. supersedes \in Nat /\ supersedes # Len(entries) + 1
  BY <1>1, RegistryAssumption DEF Nameable, RegistryAssumption
<1>4. /\ Definition(item, supersedes) \in Entry
      /\ Definition(item, supersedes).supersedes = supersedes
      /\ ~Definition(item, supersedes).seed
  BY <1>2, <1>3 DEF Definition, Entry, Item
<1>5. Superseded(Len(entries) + 1) =>
          Acyclic(Append(entries, Definition(item, supersedes)))
  BY DEF Nameable
<1> QED
  BY <1>3, <1>4, <1>5, NoCircle

\* The oldest and the newest of some definitions.
LEMMA Oldest ==
    ASSUME Extremes, NEW S \in SUBSET DOMAIN entries, S # {}
    PROVE  /\ (CHOOSE k \in S : \A n \in S : k <= n) \in S
           /\ \A n \in S : (CHOOSE k \in S : \A j \in S : k <= j) <= n
BY DEF Extremes

LEMMA Newest ==
    ASSUME Extremes, NEW S \in SUBSET DOMAIN entries, S # {}
    PROVE  /\ (CHOOSE k \in S : \A n \in S : n <= k) \in S
           /\ \A n \in S : n <= (CHOOSE k \in S : \A j \in S : j <= k)
BY DEF Extremes

\* The definition in force is one of its type.
LEMMA CurrentNames ==
    ASSUME RegistryInv, NEW t \in Types, CurrentType(t) # NoHash
    PROVE  Names(CurrentType(t), t)
<1> DEFINE own == {k \in DOMAIN entries : entries[k].key = t /\ ~Superseded(k)}
<1>1. own # {}
  BY DEF CurrentType
<1>2. CurrentType(t) = CHOOSE k \in own : \A n \in own : n <= k
  BY <1>1 DEF CurrentType
<1>3. (CHOOSE k \in own : \A n \in own : n <= k) \in own
  <2>1. own \in SUBSET DOMAIN entries /\ Extremes
    BY DEF RegistryInv
  <2> HIDE DEF own
  <2> QED
    BY <1>1, <2>1, Newest
<1> QED
  BY <1>2, <1>3 DEF Names

------------------------------------------------------------------------------
\* What a step leaves alone.

LEMMA ActsStay ==
    ASSUME RegistryInv, Grows, UNCHANGED admitted
    PROVE  admitted' \in Seq(Claim) /\ ActCitesItsType'
BY DEF RegistryInv, TypeOK, ActCitesItsType, Grows

LEMMA CacheStays ==
    ASSUME RegistryInv, Grows, UNCHANGED cache
    PROVE  cache' \in [Types -> CacheRow] /\ CacheNamesLaw'
BY DEF RegistryInv, TypeOK, CacheNamesLaw, Grows

LEMMA ClientStays ==
    ASSUME RegistryInv, Grows, NEW c \in Clients,
           claim'[c] = claim[c], pc'[c] = pc[c]
    PROVE  ClientOK(c)'
<1>1. ClientOK(c)
  BY DEF RegistryInv
<1> QED
  BY <1>1 DEF ClientOK, Names, Grows

LEMMA MigratorStays ==
    ASSUME RegistryInv, Grows, NEW m \in Migrators, pc'[m] = pc[m],
           run'[m].found = run[m].found, run'[m].step = run[m].step,
           run'[m].seed = run[m].seed, run'[m].release = run[m].release,
           run'[m] \in Run
    PROVE  MigratorOK(m)' /\ Progress(m)'
<1>1. MigratorOK(m) /\ TypeOK
  BY DEF RegistryInv
<1>2. Progress(m)
  BY <1>1, ProgressOfAll
<1>3. SeedsOf(m)' = SeedsOf(m)
  BY DEF SeedsOf
<1>4. Wanted(m)' = Wanted(m)
  BY <1>3 DEF Wanted
<1>5. MigratorOK(m)'
  BY <1>1, <1>4 DEF MigratorOK, Names, Grows
<1>6. Progress(m)'
  BY <1>2, <1>3 DEF Progress
<1> QED
  BY <1>5, <1>6

\* The type invariant from its parts.
LEMMA TypesFromParts ==
    ASSUME installed' \in BOOLEAN, entries' \in Seq(Entry), revoked' \in BOOLEAN,
           cache' \in [Types -> CacheRow], admitted' \in Seq(Claim),
           requests' \in Nat, run' \in [Migrators -> Run],
           pc' \in [Migrators \cup Clients -> MigratorPCs \cup ClientPCs],
           claim' \in [Clients -> Claim],
           \A c \in Clients : pc'[c] \in ClientPCs,
           \A m \in Migrators : Progress(m)'
    PROVE  TypeOK'
BY DEF TypeOK, Progress

\* A step of a migration that says of itself what it should.
LEMMA MigrationKeeps ==
    ASSUME RegistryInv, NEW m \in Migrators, MigratorMoves(m), MigratorOK(m)',
           Grows, LedgerOK', installed' \in BOOLEAN,
           cache' \in [Types -> CacheRow], CacheNamesLaw',
           UNCHANGED <<revoked, admitted, requests, claim>>
    PROVE  RegistryInv'
<1>1. TypeOK
  BY DEF RegistryInv
<1>2. ASSUME NEW n \in Migrators PROVE MigratorOK(n)' /\ Progress(n)'
  <2>1. CASE n = m
    BY <2>1 DEF MigratorMoves
  <2>2. CASE n # m
    <3>1. run'[n] = run[n] /\ pc'[n] = pc[n] /\ run[n] \in Run
      BY <1>1, <2>2 DEF MigratorMoves, TypeOK
    <3> QED
      BY <3>1, MigratorStays
  <2> QED
    BY <2>1, <2>2
<1>3. ASSUME NEW c \in Clients PROVE ClientOK(c)' /\ pc'[c] \in ClientPCs
  <2>1. pc'[c] = pc[c] /\ claim'[c] = claim[c] /\ pc[c] \in ClientPCs
    BY <1>1 DEF MigratorMoves, TypeOK
  <2> QED
    BY <2>1, ClientStays
<1>4. admitted' \in Seq(Claim) /\ ActCitesItsType'
  BY ActsStay
<1>5. /\ requests' \in Nat /\ claim' \in [Clients -> Claim]
      /\ revoked' \in BOOLEAN
  BY <1>1 DEF TypeOK
<1>6. TypeOK'
  BY <1>2, <1>3, <1>4, <1>5, TypesFromParts DEF MigratorMoves, LedgerOK
<1> QED
  BY <1>2, <1>3, <1>4, <1>6 DEF RegistryInv, LedgerOK
\* A step of a client.
LEMMA ClientKeeps ==
    ASSUME RegistryInv, NEW c \in Clients, Grows, LedgerOK',
           requests' \in Nat, UNCHANGED <<installed, cache, revoked, run>>,
           NEW next \in ClientPCs, GoesTo(c, next),
           NEW new \in Claim, claim' = [claim EXCEPT ![c] = new], ClientOK(c)',
           admitted' \in Seq(Claim), ActCitesItsType'
    PROVE  RegistryInv'
<1>1. TypeOK
  BY DEF RegistryInv
<1>2. /\ pc' \in [Migrators \cup Clients -> MigratorPCs \cup ClientPCs]
      /\ pc'[c] = next
      /\ \A p \in Migrators \cup Clients : p # c => pc'[p] = pc[p]
      /\ claim' \in [Clients -> Claim]
      /\ \A d \in Clients \ {c} : claim'[d] = claim[d]
  BY <1>1 DEF TypeOK, GoesTo
<1>3. ASSUME NEW m \in Migrators PROVE MigratorOK(m)' /\ Progress(m)'
  <2>1. pc'[m] = pc[m] /\ run'[m] = run[m] /\ run[m] \in Run
    BY <1>1, <1>2, RegistryAssumption DEF RegistryAssumption, TypeOK
  <2> QED
    BY <2>1, MigratorStays
<1>4. ASSUME NEW d \in Clients PROVE ClientOK(d)' /\ pc'[d] \in ClientPCs
  <2>1. CASE d = c
    BY <1>2, <2>1
  <2>2. CASE d # c
    <3>1. pc'[d] = pc[d] /\ claim'[d] = claim[d] /\ pc[d] \in ClientPCs
      BY <1>1, <1>2, <2>2 DEF TypeOK
    <3> QED
      BY <3>1, ClientStays
  <2> QED
    BY <2>1, <2>2
<1>5. cache' \in [Types -> CacheRow] /\ CacheNamesLaw'
  BY CacheStays
<1>6. /\ installed' \in BOOLEAN /\ run' \in [Migrators -> Run]
      /\ revoked' \in BOOLEAN
  BY <1>1 DEF TypeOK
<1>7. TypeOK'
  BY <1>2, <1>3, <1>4, <1>5, <1>6, TypesFromParts DEF LedgerOK
<1> QED
  BY <1>3, <1>4, <1>5, <1>7 DEF RegistryInv, LedgerOK

------------------------------------------------------------------------------
\* Every step keeps the invariant.

LEMMA StartKeeps ==
    ASSUME RegistryInv, NEW m \in Migrators, NEW r \in Releases, Start(m, r)
    PROVE  RegistryInv'
<1>1. TypeOK /\ Grows /\ LedgerOK'
  BY SameLedger DEF RegistryInv, Start
<1>2. ASSUME NEW n \in Migrators
      PROVE  /\ run'[n] \in Run
             /\ n = m => run'[n].step = 0
             /\ n # m => /\ run'[n].found = run[n].found
                         /\ run'[n].step = run[n].step
                         /\ run'[n].seed = run[n].seed
                         /\ run'[n].release = run[n].release
  <2>1. run[n] \in Run /\ NoRun \in Run
    BY <1>1, Constants DEF TypeOK
  <2>2. CASE n = m
    <3> DEFINE one == [NoRun EXCEPT !.release = r]
               o == {q \in Migrators : pc[q] # "idle"} # {}
    <3>1. one \in Run /\ one.step = 0
      BY <2>1 DEF Run, NoRun
    <3> HIDE DEF one
    <3>2. /\ [one EXCEPT !.overlap = o] \in Run
          /\ [one EXCEPT !.overlap = o].step = 0
      <4>1. o \in BOOLEAN
        OBVIOUS
      <4> HIDE DEF o
      <4> QED
        BY <3>1, <4>1 DEF Run
    <3>3. run'[n] = [one EXCEPT !.overlap = o]
      BY <2>2 DEF Start, one
    <3> QED
      BY <2>2, <3>2, <3>3
  <2>3. CASE n # m
    <3>1. \/ run'[n] = run[n]
          \/ run'[n] = [run[n] EXCEPT !.overlap = TRUE]
      BY <2>3 DEF Start
    <3>2. /\ [run[n] EXCEPT !.overlap = TRUE] \in Run
          /\ [run[n] EXCEPT !.overlap = TRUE].found = run[n].found
          /\ [run[n] EXCEPT !.overlap = TRUE].step = run[n].step
          /\ [run[n] EXCEPT !.overlap = TRUE].seed = run[n].seed
          /\ [run[n] EXCEPT !.overlap = TRUE].release = run[n].release
      BY <2>1 DEF Run
    <3> QED
      BY <2>1, <2>3, <3>1, <3>2
  <2> QED
    BY <2>2, <2>3
<1>3. /\ pc' \in [Migrators \cup Clients -> MigratorPCs \cup ClientPCs]
      /\ pc'[m] = "install"
      /\ \A p \in Migrators \cup Clients : p # m => pc'[p] = pc[p]
  BY <1>1 DEF Start, GoesTo, TypeOK, MigratorPCs
<1>4. run' \in [Migrators -> Run]
  <2>1. \E F : run' = [n \in Migrators |-> F[n]]
    <3>1. run' = [n \in Migrators |-> run'[n]]
      BY DEF Start
    <3> QED
      BY <3>1
  <2> QED
    BY <1>2, <2>1
<1>5. ASSUME NEW n \in Migrators PROVE MigratorOK(n)' /\ Progress(n)'
  <2>1. CASE n = m
    BY <1>2, <1>3, <2>1 DEF MigratorOK, Progress, MigratorPCs
  <2>2. CASE n # m
    BY <1>1, <1>2, <1>3, <2>2, MigratorStays
  <2> QED
    BY <2>1, <2>2
<1>6. ASSUME NEW c \in Clients PROVE ClientOK(c)' /\ pc'[c] \in ClientPCs
  <2>1. pc'[c] = pc[c] /\ claim'[c] = claim[c] /\ pc[c] \in ClientPCs
    BY <1>1, <1>3, RegistryAssumption DEF RegistryAssumption, Start, TypeOK
  <2> QED
    BY <1>1, <2>1, ClientStays
<1>7. /\ cache' \in [Types -> CacheRow] /\ CacheNamesLaw'
      /\ admitted' \in Seq(Claim) /\ ActCitesItsType'
  BY <1>1, ActsStay, CacheStays DEF Start
<1>8. /\ installed' \in BOOLEAN /\ claim' \in [Clients -> Claim]
      /\ requests' \in Nat /\ revoked' \in BOOLEAN
  <2>1. /\ requests' = requests + 1 /\ installed' = installed
        /\ claim' = claim /\ revoked' = revoked
    BY DEF Start
  <2> QED
    BY <1>1, <2>1 DEF TypeOK
<1>9. TypeOK'
  BY <1>1, <1>3, <1>4, <1>5, <1>6, <1>7, <1>8, TypesFromParts DEF LedgerOK
<1> QED
  BY <1>1, <1>5, <1>6, <1>7, <1>9 DEF RegistryInv, LedgerOK
LEMMA InstallKeeps ==
    ASSUME RegistryInv, NEW m \in Migrators, Install(m)
    PROVE  RegistryInv' /\ MigratorMoves(m) /\ pc'[m] # "append"
<1> DEFINE new == [run[m] EXCEPT !.seed = 1]
           next == IF SeedsOf(m) = <<>> THEN "look" ELSE "upsert"
<1>1. TypeOK /\ Grows /\ LedgerOK'
  BY SameLedger DEF RegistryInv, Install
<1>2. run' = [run EXCEPT ![m] = new] /\ GoesTo(m, next)
  BY <1>1 DEF Install, TypeOK
<1>3. /\ new \in Run /\ new.release = run[m].release /\ new.seed = 1
      /\ new.step = run[m].step /\ new.overlap = run[m].overlap
  BY <1>1 DEF TypeOK, Run
<1>4. next \in MigratorPCs /\ next \in {"look", "upsert"}
  BY DEF MigratorPCs
<1>5. next = "upsert" <=> SeedsOf(m) # <<>>
  OBVIOUS
<1> HIDE DEF new, next
<1>6. run'[m] = new /\ pc'[m] = next /\ SeedsOf(m)' = SeedsOf(m)
  BY <1>1, <1>2, <1>3, <1>4, MoveOf DEF SeedsOf
<1>7. pc[m] = "install" /\ run[m].step = 0
  BY DEF Install, RegistryInv, MigratorOK
<1>8. MigratorMoves(m)
  <2>1. new.step = 0 /\ 0 \in 0..Len(Bootstrap) + 1
    BY <1>3, <1>7, Constants
  <2>2. Progress(m)'
    BY <1>3, <1>4, <1>5, <1>6, <2>1 DEF Progress
  <2> QED
    BY <1>1, <1>2, <1>3, <1>4, <1>6, <2>2, MoveOf DEF MigratorMoves
<1>9. MigratorOK(m)'
  BY <1>4, <1>6 DEF MigratorOK
<1>10. /\ cache' \in [Types -> CacheRow] /\ CacheNamesLaw'
       /\ installed' \in BOOLEAN /\ UNCHANGED <<revoked, admitted, requests, claim>>
  BY <1>1, CacheStays DEF Install
<1> QED
  BY <1>1, <1>4, <1>6, <1>8, <1>9, <1>10, MigrationKeeps
LEMMA UpsertKeeps ==
    ASSUME RegistryInv, NEW m \in Migrators, Upsert(m)
    PROVE  RegistryInv' /\ MigratorMoves(m) /\ pc'[m] # "append"
<1> DEFINE seed == SeedsOf(m)[run[m].seed]
           last == ~(run[m].seed < Len(SeedsOf(m)))
           new == [run[m] EXCEPT !.seed = IF last THEN 1 ELSE run[m].seed + 1]
           next == IF last THEN "look" ELSE "upsert"
           row == [body |-> seed.body,
                   hash |-> IF cache[seed.key].body = seed.body
                            THEN cache[seed.key].hash ELSE NoHash]
<1>1. TypeOK /\ Grows /\ LedgerOK' /\ CacheNamesLaw
  BY SameLedger DEF RegistryInv, Upsert
<1>2. /\ Progress(m) /\ pc[m] = "upsert" /\ run[m] \in Run
      /\ run[m].seed \in Nat /\ run[m].release \in Releases
  BY <1>1, ProgressOfAll DEF Upsert, Progress, Run
<1>3. /\ SeedsOf(m) \in Seq([key : Types, body : Bodies])
      /\ Len(SeedsOf(m)) \in Nat /\ SeedsOf(m) # <<>>
      /\ run[m].seed \in 1..Len(SeedsOf(m))
  <2>1. /\ SeedsOf(m) \in Seq([key : Types, body : Bodies])
        /\ Len(SeedsOf(m)) \in Nat
    BY <1>2, Constants DEF SeedsOf
  <2>2. SeedsOf(m) # <<>> /\ run[m].seed \in 1..Len(SeedsOf(m)) \cup {1}
    BY <1>2 DEF Progress
  <2>3. Len(SeedsOf(m)) > 0
    BY <2>1, <2>2
  <2> QED
    BY <1>2, <2>1, <2>2, <2>3
<1>4. seed \in [key : Types, body : Bodies]
  BY <1>3, ElementOfSeq
<1>5. run' = [run EXCEPT ![m] = new] /\ GoesTo(m, next)
  <2>1. CASE last
    BY <1>1, <2>1 DEF Upsert, TypeOK
  <2>2. CASE ~last
    <3>1. pc' = pc /\ run' = [run EXCEPT ![m].seed = @ + 1]
      BY <2>2 DEF Upsert
    <3>2. pc' = [pc EXCEPT ![m] = "upsert"]
      BY <1>1, <1>2, <3>1 DEF TypeOK
    <3> QED
      BY <1>1, <2>2, <3>1, <3>2 DEF TypeOK, GoesTo
  <2> QED
    BY <2>1, <2>2
<1>6. cache' = [cache EXCEPT ![seed.key] = row]
  BY <1>1, <1>4 DEF Upsert, TypeOK
<1>7. /\ new \in Run /\ new.release = run[m].release
      /\ new.seed \in 1..Len(SeedsOf(m))
      /\ new.step = run[m].step /\ new.overlap = run[m].overlap
  <2> DEFINE s == IF last THEN 1 ELSE run[m].seed + 1
  <2>1. s \in 1..Len(SeedsOf(m))
    BY <1>3
  <2>2. new = [run[m] EXCEPT !.seed = s]
    OBVIOUS
  <2> HIDE DEF s, new
  <2>3. s \in Nat
    BY <1>3, <2>1
  <2> QED
    BY <1>2, <2>1, <2>2, <2>3 DEF Run
<1>8. next \in MigratorPCs /\ next \in {"look", "upsert"}
  BY DEF MigratorPCs
<1>9. row \in CacheRow
  BY <1>1, <1>4 DEF TypeOK, CacheRow, NoHash
<1>10. cache' \in [Types -> CacheRow] /\ CacheNamesLaw'
  <2>1. cache' \in [Types -> CacheRow]
    <3>1. seed.key \in Types
      BY <1>4
    <3> HIDE DEF seed, row
    <3> QED
      BY <1>1, <1>6, <1>9, <3>1 DEF TypeOK
  <2>2. ASSUME NEW t \in Types, cache'[t].hash # NoHash
        PROVE  cache[t].hash = cache'[t].hash
    <3>1. CASE t = seed.key
      <4>1. cache'[t] = row
        BY <1>1, <1>6, <3>1 DEF TypeOK
      <4>2. row.hash = cache[t].hash \/ row.hash = NoHash
        BY <3>1
      <4> QED
        BY <2>2, <4>1, <4>2
    <3>2. CASE t # seed.key
      BY <1>1, <1>6, <3>2 DEF TypeOK
    <3> QED
      BY <3>1, <3>2
  <2> QED
    BY <1>1, <2>1, <2>2 DEF CacheNamesLaw, Grows
<1> HIDE DEF new, next, row, last, seed
<1>11. run'[m] = new /\ pc'[m] = next /\ SeedsOf(m)' = SeedsOf(m)
  BY <1>1, <1>5, <1>7, <1>8, MoveOf DEF SeedsOf
<1>12. Progress(m)'
  BY <1>2, <1>3, <1>7, <1>8, <1>11 DEF Progress
<1>13. MigratorMoves(m)
  BY <1>1, <1>5, <1>7, <1>8, <1>11, <1>12, MoveOf DEF MigratorMoves
<1>14. MigratorOK(m)'
  BY <1>8, <1>11 DEF MigratorOK
<1>15. installed' \in BOOLEAN /\ UNCHANGED <<revoked, admitted, requests, claim>>
  BY <1>1 DEF Upsert, TypeOK
<1> QED
  BY <1>1, <1>8, <1>10, <1>11, <1>13, <1>14, <1>15, MigrationKeeps

LEMMA LookKeeps ==
    ASSUME RegistryInv, NEW m \in Migrators, Look(m)
    PROVE  /\ RegistryInv' /\ MigratorMoves(m)
           /\ pc'[m] = "append" =>
                  /\ Recognized(Wanted(m)) = {}
                  /\ UNCHANGED entries /\ Wanted(m)' = Wanted(m)
<1> DEFINE there == Recognized(Wanted(m))
<1>1. TypeOK /\ Grows /\ LedgerOK' /\ Extremes
  BY SameLedger DEF RegistryInv, Look
<1>2. Progress(m) /\ run[m] \in Run /\ pc[m] = "look"
  BY <1>1, ProgressOfAll DEF Look, Progress
<1>3. /\ cache' \in [Types -> CacheRow] /\ CacheNamesLaw'
      /\ installed' \in BOOLEAN /\ UNCHANGED <<revoked, admitted, requests, claim>>
  BY <1>1, CacheStays DEF Look, TypeOK
<1>4. CASE there = {}
  <2>1. GoesTo(m, "append") /\ run' = [run EXCEPT ![m] = run[m]]
    BY <1>1, <1>4 DEF Look, TypeOK
  <2>2. "append" \in MigratorPCs
    BY DEF MigratorPCs
  <2>3. run'[m] = run[m] /\ pc'[m] = "append" /\ SeedsOf(m)' = SeedsOf(m)
    BY <1>1, <1>2, <2>1, <2>2, MoveOf DEF SeedsOf
  <2>4. Progress(m)'
    BY <1>2, <2>2, <2>3 DEF Progress
  <2>5. MigratorMoves(m) /\ MigratorOK(m)'
    BY <1>1, <1>2, <2>1, <2>2, <2>3, <2>4, MoveOf DEF MigratorMoves, MigratorOK
  <2>6. Wanted(m)' = Wanted(m)
    BY <2>3 DEF Wanted
  <2> QED
    BY <1>1, <1>3, <1>4, <2>5, <2>6, MigrationKeeps DEF Look
<1>5. CASE there # {}
  <2> DEFINE hash == CHOOSE k \in there : \A n \in there : k <= n
  <2>1. Holds(m, hash)
    BY <1>5 DEF Look
  <2>2. there \in SUBSET DOMAIN entries
    BY DEF Recognized, Defining
  <2>3. hash \in there
    <3> HIDE DEF there
    <3> QED
      BY <1>1, <1>5, <2>2, Oldest
  <2>4. Names(hash, Wanted(m).key) /\ hash \in Nat
    <3>1. hash \in DOMAIN entries /\ entries[hash].key = Wanted(m).key
      BY <2>3 DEF Recognized, Defining
    <3>2. DOMAIN entries = 1..Len(entries) /\ Len(entries) \in Nat
      BY <1>1 DEF TypeOK
    <3> QED
      BY <3>1, <3>2 DEF Names
  <2> HIDE DEF hash
  <2>5. /\ MigratorMoves(m)
        /\ pc'[m] \in {"look", "idle", "cite"}
        /\ pc'[m] = "cite" => run'[m].found = hash /\ Wanted(m)' = Wanted(m)
    BY <1>1, <1>2, <2>1, <2>4, HoldsMoves
  <2>6. MigratorOK(m)'
    BY <1>1, <2>4, <2>5 DEF MigratorOK, Names, Grows
  <2> QED
    BY <1>1, <1>3, <2>5, <2>6, MigrationKeeps
<1> QED
  BY <1>4, <1>5
LEMMA AppendItemKeeps ==
    ASSUME RegistryInv, NEW m \in Migrators, AppendItem(m)
    PROVE  RegistryInv' /\ MigratorMoves(m) /\ pc'[m] # "append"
<1> DEFINE e == [key |-> Wanted(m).key, body |-> Wanted(m).body,
                 supersedes |-> NoHash, seed |-> TRUE]
           hash == Len(entries) + 1
<1>1. TypeOK /\ pc[m] = "append" /\ Len(entries) \in Nat
  BY DEF RegistryInv, AppendItem, TypeOK
<1>2. e \in Entry /\ Acyclic(Append(entries, e)) /\ e.key = Wanted(m).key
  BY <1>1, ImportIsEntry
<1>3. entries' = Append(entries, e) /\ Holds(m, hash)
  BY DEF AppendItem
<1> HIDE DEF e
<1>4. /\ Grows /\ LedgerOK' /\ hash \in DOMAIN entries' /\ hash \in Nat
      /\ entries'[hash].key = Wanted(m).key
  BY <1>1, <1>2, <1>3, Appended
<1> HIDE DEF hash
<1>5. /\ MigratorMoves(m)
      /\ pc'[m] \in {"look", "idle", "cite"}
      /\ pc'[m] = "cite" => run'[m].found = hash /\ Wanted(m)' = Wanted(m)
  BY <1>1, <1>3, <1>4, HoldsMoves
<1>6. MigratorOK(m)'
  BY <1>4, <1>5 DEF MigratorOK, Names
<1>7. /\ cache' \in [Types -> CacheRow] /\ CacheNamesLaw'
      /\ installed' \in BOOLEAN /\ UNCHANGED <<revoked, admitted, requests, claim>>
  BY <1>1, <1>4, CacheStays DEF AppendItem, TypeOK
<1> QED
  BY <1>4, <1>5, <1>6, <1>7, MigrationKeeps

LEMMA CiteKeeps ==
    ASSUME RegistryInv, NEW m \in Migrators, Cite(m)
    PROVE  RegistryInv' /\ MigratorMoves(m) /\ pc'[m] # "append"
<1> DEFINE key == Wanted(m).key
<1>1. /\ TypeOK /\ Grows /\ LedgerOK' /\ CacheNamesLaw /\ pc[m] = "cite"
      /\ Names(run[m].found, key)
  BY SameLedger DEF RegistryInv, Cite, MigratorOK
<1>2. Progress(m) /\ run[m].found \in Nat /\ Len(Bootstrap) \in Nat
  BY <1>1, ProgressOfAll, Constants DEF Progress, Run
<1>3. key \in Types
  BY <1>1, <1>2, WantedIsItem DEF Progress, EnsuresType
<1>4. MigratorMoves(m) /\ pc'[m] \in {"look", "idle"}
  BY <1>1, AdvancesMoves DEF Cite
<1> HIDE DEF key
<1>5. cache' = [cache EXCEPT ![key].hash = run[m].found]
  BY DEF Cite, key
<1>6. ASSUME NEW t \in Types
      PROVE  /\ cache'[t] \in CacheRow
             /\ t = key => cache'[t].hash = run[m].found
             /\ t # key => cache'[t] = cache[t]
  <2>1. cache[t] \in CacheRow /\ cache \in [Types -> CacheRow]
    BY <1>1 DEF TypeOK
  <2>2. CASE t = key
    <3>1. cache'[t] = [cache[t] EXCEPT !.hash = run[m].found]
      BY <1>5, <2>1, <2>2
    <3> QED
      BY <1>2, <2>1, <2>2, <3>1 DEF CacheRow
  <2>3. CASE t # key
    BY <1>5, <2>1, <2>3
  <2> QED
    BY <2>2, <2>3
<1>7. cache' \in [Types -> CacheRow]
  <2>1. cache \in [Types -> CacheRow]
    BY <1>1 DEF TypeOK
  <2>2. cache' = [t \in Types |-> cache'[t]]
    BY <1>5, <2>1
  <2> QED
    BY <1>6, <2>2
<1>8. CacheNamesLaw'
  BY <1>1, <1>6 DEF CacheNamesLaw, Names, Grows
<1>9. MigratorOK(m)'
  BY <1>4 DEF MigratorOK
<1>10. installed' \in BOOLEAN /\ UNCHANGED <<revoked, admitted, requests, claim>>
  BY <1>1 DEF Cite, TypeOK
<1> QED
  BY <1>1, <1>4, <1>7, <1>8, <1>9, <1>10, MigrationKeeps

LEMMA FailureKeeps ==
    ASSUME RegistryInv, NEW m \in Migrators, MigrationFails(m)
    PROVE  RegistryInv' /\ MigratorMoves(m) /\ pc'[m] = "idle"
<1>1. TypeOK /\ Grows /\ LedgerOK'
  BY SameLedger DEF RegistryInv, MigrationFails
<1>2. MigratorMoves(m) /\ pc'[m] = "idle"
  BY <1>1, EndsMoves DEF MigrationFails
<1>3. MigratorOK(m)'
  BY <1>2 DEF MigratorOK
<1>4. /\ cache' \in [Types -> CacheRow] /\ CacheNamesLaw'
      /\ installed' \in BOOLEAN /\ UNCHANGED <<revoked, admitted, requests, claim>>
  BY <1>1, CacheStays DEF MigrationFails, TypeOK
<1> QED
  BY <1>1, <1>2, <1>3, <1>4, MigrationKeeps

------------------------------------------------------------------------------
\* Clients.

LEMMA DefineKeeps ==
    ASSUME RegistryInv, NEW c \in Clients, NEW item \in ClientItems,
           NEW supersedes \in Nameable(item), Define(c, item, supersedes)
    PROVE  RegistryInv'
<1> DEFINE e == Definition(item, supersedes)
<1>1. TypeOK
  BY DEF RegistryInv
<1>3. e \in Entry /\ Acyclic(Append(entries, e)) /\ entries' = Append(entries, e)
  BY DefinitionIsEntry DEF Define
<1> HIDE DEF e
<1>4. Grows /\ LedgerOK'
  BY <1>3, Appended
<1>5. /\ pc' = pc /\ run' = run /\ claim' = claim /\ requests' = requests + 1
      /\ installed' = installed /\ revoked' = revoked
  BY DEF Define
<1>6. ASSUME NEW m \in Migrators PROVE MigratorOK(m)' /\ Progress(m)'
  BY <1>1, <1>4, <1>5, MigratorStays DEF TypeOK
<1>7. ASSUME NEW d \in Clients PROVE ClientOK(d)' /\ pc'[d] \in ClientPCs
  BY <1>1, <1>4, <1>5, ClientStays DEF TypeOK
<1>8. /\ cache' \in [Types -> CacheRow] /\ CacheNamesLaw'
      /\ admitted' \in Seq(Claim) /\ ActCitesItsType'
  BY <1>4, ActsStay, CacheStays DEF Define
<1>9. /\ installed' \in BOOLEAN /\ revoked' \in BOOLEAN /\ requests' \in Nat
      /\ run' \in [Migrators -> Run] /\ claim' \in [Clients -> Claim]
      /\ pc' \in [Migrators \cup Clients -> MigratorPCs \cup ClientPCs]
  BY <1>1, <1>5 DEF TypeOK
<1>10. TypeOK'
  BY <1>4, <1>6, <1>7, <1>8, <1>9, TypesFromParts DEF LedgerOK
<1> QED
  BY <1>4, <1>6, <1>7, <1>8, <1>10 DEF RegistryInv, LedgerOK

\* Of the authority's standing nothing depends that the invariant speaks of.
LEMMA RevokeKeeps ==
    ASSUME RegistryInv, RevokeAuthority
    PROVE  RegistryInv'
<1>1. revoked' \in BOOLEAN
  BY DEF RevokeAuthority
<1> QED
  BY <1>1 DEF RevokeAuthority, RegistryInv, TypeOK, SeedsOf, Extremes,
     CacheNamesLaw, ActCitesItsType, MigratorOK, ClientOK, Names, Wanted,
     EnsuresType

LEMMA ProposeKeeps ==
    ASSUME RegistryInv, NEW c \in Clients, NEW t \in GovernedTypes,
           NEW hash \in DOMAIN entries, Propose(c, t, hash)
    PROVE  RegistryInv'
<1> DEFINE new == [key |-> t, hash |-> hash]
<1>1. TypeOK /\ Grows /\ LedgerOK' /\ requests' \in Nat
  BY SameLedger DEF RegistryInv, Propose, TypeOK
<1>2. t \in Types /\ hash \in Nat
  <2>1. entries \in Seq(Entry)
    BY <1>1 DEF TypeOK
  <2> QED
    BY <2>1, RegistryAssumption DEF RegistryAssumption
<1>3. new \in Claim
  BY <1>2 DEF Claim
<1>4. "view" \in ClientPCs /\ GoesTo(c, "view")
  BY DEF ClientPCs, Propose
<1>5. claim' = [claim EXCEPT ![c] = new]
  BY DEF Propose
<1>6. ClientOK(c)'
  BY <1>1, <1>4, <1>5 DEF ClientOK, Grows, GoesTo, TypeOK
<1>7. admitted' \in Seq(Claim) /\ ActCitesItsType'
  BY <1>1, ActsStay DEF Propose
<1> HIDE DEF new
<1> QED
  BY <1>1, <1>3, <1>4, <1>5, <1>6, <1>7, ClientKeeps DEF Propose

LEMMA NoClaimIsClaim ==
    ASSUME NEW t \in Types
    PROVE  NoClaim \in Claim
BY DEF NoClaim, Claim, NoHash

\* What a client has found of the hash it cites.
LEMMA Judged ==
    ASSUME RegistryInv, NEW c \in Clients, NEW registered, pc[c] # "idle",
           Judge(c, registered),
           registered # NoHash => Names(registered, claim[c].key),
           UNCHANGED <<installed, entries, cache, revoked, admitted, requests, run>>
    PROVE  RegistryInv'
<1>1. /\ TypeOK /\ Grows /\ LedgerOK' /\ requests' \in Nat
      /\ admitted' \in Seq(Claim) /\ ActCitesItsType'
  BY SameLedger, ActsStay DEF RegistryInv, TypeOK
<1>2. claim[c] \in Claim /\ claim[c].key \in Types /\ claim[c].hash \in DOMAIN entries
  BY <1>1 DEF TypeOK, Claim, RegistryInv, ClientOK
<1>3. claim[c].hash # NoHash
  <2>1. entries \in Seq(Entry)
    BY <1>1 DEF TypeOK
  <2> QED
    BY <1>2, <2>1 DEF NoHash
<1>4. CASE CitesRegistered(c, registered)
  <2>1. GoesTo(c, "append") /\ claim' = [claim EXCEPT ![c] = claim[c]]
    BY <1>1, <1>4 DEF Judge, TypeOK
  <2>2. "append" \in ClientPCs
    BY DEF ClientPCs
  <2>3. Names(claim[c].hash, claim[c].key)
    BY <1>3, <1>4 DEF CitesRegistered
  <2>4. ClientOK(c)'
    BY <1>1, <1>2, <2>1, <2>3 DEF ClientOK, Names, TypeOK
  <2> QED
    BY <1>1, <1>2, <2>1, <2>2, <2>4, ClientKeeps
<1>5. CASE ~CitesRegistered(c, registered)
  <2>1. GoesTo(c, "idle") /\ claim' = [claim EXCEPT ![c] = NoClaim]
    BY <1>5 DEF Judge, Rejected
  <2>2. "idle" \in ClientPCs /\ NoClaim \in Claim
    BY <1>2, NoClaimIsClaim DEF ClientPCs
  <2>3. ClientOK(c)'
    BY <1>1, <2>1 DEF ClientOK, GoesTo, TypeOK
  <2> QED
    BY <1>1, <2>1, <2>2, <2>3, ClientKeeps
<1> QED
  BY <1>4, <1>5
LEMMA VerifyKeeps ==
    ASSUME RegistryInv, NEW c \in Clients, VerifyByView(c) \/ VerifyByTable(c)
    PROVE  RegistryInv'
<1> DEFINE t == claim[c].key
<1>1. TypeOK /\ t \in Types /\ cache[t] \in CacheRow /\ CacheNamesLaw
  BY DEF RegistryInv, TypeOK, Claim
<1>2. /\ Grows /\ LedgerOK' /\ requests' \in Nat
      /\ admitted' \in Seq(Claim) /\ ActCitesItsType'
  BY <1>1, SameLedger, ActsStay DEF VerifyByView, VerifyByTable, TypeOK
<1>3. /\ claim[c].hash \in DOMAIN entries /\ pc[c] # "idle"
      /\ UNCHANGED <<installed, entries, cache, revoked, admitted, requests, run>>
  BY DEF RegistryInv, ClientOK, VerifyByView, VerifyByTable
<1>4. CASE Judge(c, CurrentType(t)) /\ CurrentType(t) # NoHash
  BY <1>1, <1>3, <1>4, CurrentNames, Judged
<1>5. CASE Judge(c, cache[t].hash)
  BY <1>1, <1>3, <1>5, Judged DEF CacheNamesLaw, Names
<1>6. CASE GoesTo(c, "table") /\ UNCHANGED claim
  <2>1. claim' = [claim EXCEPT ![c] = claim[c]] /\ claim[c] \in Claim
    BY <1>1, <1>6 DEF TypeOK
  <2>2. "table" \in ClientPCs
    BY DEF ClientPCs
  <2>3. ClientOK(c)'
    BY <1>1, <1>3, <1>6 DEF ClientOK, GoesTo, TypeOK
  <2> QED
    BY <1>2, <1>3, <1>6, <2>1, <2>2, <2>3, ClientKeeps
<1>7. CASE Rejected(c)
  <2>1. "idle" \in ClientPCs /\ NoClaim \in Claim
    BY <1>1, NoClaimIsClaim DEF ClientPCs
  <2>2. GoesTo(c, "idle") /\ claim' = [claim EXCEPT ![c] = NoClaim]
    BY <1>7 DEF Rejected
  <2>3. ClientOK(c)'
    BY <1>1, <2>2 DEF ClientOK, GoesTo, TypeOK
  <2> QED
    BY <1>2, <1>3, <2>1, <2>2, <2>3, ClientKeeps
<1> QED
  BY <1>4, <1>5, <1>6, <1>7 DEF VerifyByView, VerifyByTable

LEMMA AppendActKeeps ==
    ASSUME RegistryInv, NEW c \in Clients, AppendAct(c)
    PROVE  RegistryInv'
<1>1. /\ TypeOK /\ ActCitesItsType /\ Grows /\ LedgerOK' /\ requests' \in Nat
      /\ claim[c] \in Claim /\ admitted \in Seq(Claim)
  BY SameLedger DEF RegistryInv, AppendAct, TypeOK
<1>2. Names(claim[c].hash, claim[c].key) /\ claim[c].key \in Types
  BY <1>1 DEF AppendAct, RegistryInv, ClientOK, Claim
<1>3. admitted' = Append(admitted, claim[c]) /\ entries' = entries
  BY DEF AppendAct
<1>4. /\ admitted' \in Seq(Claim)
      /\ \A k \in DOMAIN admitted' :
             \/ k \in DOMAIN admitted /\ admitted'[k] = admitted[k]
             \/ admitted'[k] = claim[c]
  BY <1>1, <1>3
<1>5. ActCitesItsType'
  BY <1>1, <1>2, <1>3, <1>4 DEF ActCitesItsType, Names
<1>6. "idle" \in ClientPCs /\ NoClaim \in Claim /\ GoesTo(c, "idle")
      /\ claim' = [claim EXCEPT ![c] = NoClaim]
  BY <1>2, NoClaimIsClaim DEF ClientPCs, AppendAct
<1>7. ClientOK(c)'
  BY <1>1, <1>6 DEF ClientOK, GoesTo, TypeOK
<1> QED
  BY <1>1, <1>4, <1>5, <1>6, <1>7, ClientKeeps DEF AppendAct

------------------------------------------------------------------------------
\* The invariant holds.

LEMMA InitHolds ==
    ASSUME Init
    PROVE  RegistryInv
<1>1. /\ installed = FALSE /\ entries = <<>> /\ admitted = <<>> /\ requests = 0
      /\ revoked = FALSE
      /\ pc = [p \in Migrators \cup Clients |-> "idle"]
      /\ run = [m \in Migrators |-> NoRun]
      /\ claim = [c \in Clients |-> NoClaim]
  BY DEF Init
<1>2. cache \in [Types -> CacheRow] /\ \A t \in Types : cache[t].hash = NoHash
  <2> DEFINE seeds == Seeds[FirstRelease]
             own(t) == {k \in DOMAIN seeds : seeds[k].key = t}
             body(t) == IF own(t) = {} THEN None
                        ELSE seeds[CHOOSE k \in own(t) : TRUE].body
  <2>1. cache = [t \in Types |-> [body |-> body(t), hash |-> NoHash]]
    BY DEF Init
  <2>2. ASSUME NEW t \in Types PROVE body(t) \in Bodies \cup {None}
    <3>1. CASE own(t) = {}
      BY <3>1
    <3>2. CASE own(t) # {}
      <4>1. seeds \in Seq([key : Types, body : Bodies])
        BY Constants, RegistryAssumption DEF RegistryAssumption
      <4>2. PICK k : k \in own(t) /\ body(t) = seeds[k].body
        BY <3>2
      <4>3. k \in 1..Len(seeds)
        BY <4>1, <4>2
      <4>4. seeds[k] \in [key : Types, body : Bodies]
        BY <4>1, <4>3, ElementOfSeq
      <4> QED
        BY <4>2, <4>4
    <3> QED
      BY <3>1, <3>2
  <2> HIDE DEF body
  <2> QED
    BY <2>1, <2>2 DEF CacheRow, NoHash
<1>3. NoRun \in Run /\ NoClaim \in Claim
  BY Constants, NoClaimIsClaim, RegistryAssumption DEF RegistryAssumption
<1>4. TypeOK
  <2>1. \A p \in Migrators \cup Clients : pc[p] = "idle"
    BY <1>1
  <2>2. "idle" \in MigratorPCs /\ "idle" \in ClientPCs
    BY DEF MigratorPCs, ClientPCs
  <2>3. /\ run \in [Migrators -> Run] /\ claim \in [Clients -> Claim]
        /\ pc \in [Migrators \cup Clients -> MigratorPCs \cup ClientPCs]
    BY <1>1, <1>3, <2>2
  <2>4. /\ installed \in BOOLEAN /\ revoked \in BOOLEAN /\ requests \in Nat
        /\ entries \in Seq(Entry) /\ admitted \in Seq(Claim)
    BY <1>1, EmptySeq
  <2> QED
    BY <1>2, <2>1, <2>2, <2>3, <2>4 DEF TypeOK
<1>5. DOMAIN entries = {} /\ DOMAIN admitted = {}
  BY <1>1
<1>6. Acyclic(entries) /\ Extremes /\ CacheNamesLaw /\ ActCitesItsType
  BY <1>2, <1>5 DEF Acyclic, Extremes, CacheNamesLaw, ActCitesItsType
<1>7. (\A m \in Migrators : MigratorOK(m)) /\ (\A c \in Clients : ClientOK(c))
  BY <1>1 DEF MigratorOK, ClientOK
<1> QED
  BY <1>4, <1>6, <1>7 DEF RegistryInv

LEMMA NextKeeps ==
    ASSUME RegistryInv, [Next]_vars
    PROVE  RegistryInv'
<1>1. CASE UNCHANGED vars
  BY <1>1 DEF vars, RegistryInv, TypeOK, SeedsOf, Extremes,
     CacheNamesLaw, ActCitesItsType, MigratorOK, ClientOK, Names, Wanted,
     EnsuresType
<1>2. ASSUME NEW m \in Migrators, Migrate(m) PROVE RegistryInv'
  BY <1>2, StartKeeps, InstallKeeps, UpsertKeeps, LookKeeps, AppendItemKeeps,
     CiteKeeps, FailureKeeps DEF Migrate
<1>3. ASSUME NEW c \in Clients, Request(c) PROVE RegistryInv'
  BY <1>3, DefineKeeps, ProposeKeeps, VerifyKeeps, AppendActKeeps DEF Request
<1> QED
  BY <1>1, <1>2, <1>3, RevokeKeeps DEF Next

LEMMA AlwaysInv == Spec => []RegistryInv
<1>1. Init => RegistryInv
  BY InitHolds
<1>2. RegistryInv /\ [Next]_vars => RegistryInv'
  BY NextKeeps
<1> QED
  BY <1>1, <1>2, PTL DEF Spec

\* Type correctness: every query of a migration and of a client keeps the
\* table, the ledger and the handlers' locals well typed.
THEOREM TypeCorrect == Spec => []TypeOK
<1>1. RegistryInv => TypeOK
  BY DEF RegistryInv
<1> QED
  BY <1>1, AlwaysInv, PTL

\* The hash a cached contract carries always names a definition of its type,
\* however many migrations overlap (ensureRegisteredContract).
THEOREM CacheTellsTheLaw == Spec => []CacheNamesLaw
<1>1. RegistryInv => CacheNamesLaw
  BY DEF RegistryInv
<1> QED
  BY <1>1, AlwaysInv, PTL

\* No Act in the ledger cites a contract_hash that is not a definition of the
\* type it names (requireProcessType).
THEOREM CitationsHold == Spec => []ActCitesItsType
<1>1. RegistryInv => ActCitesItsType
  BY DEF RegistryInv
<1> QED
  BY <1>1, AlwaysInv, PTL
------------------------------------------------------------------------------
\* The law moves forward.

LEMMA NewestIs ==
    ASSUME NEW S \in SUBSET Nat, NEW x \in S, \A n \in S : n <= x
    PROVE  (CHOOSE k \in S : \A n \in S : n <= k) = x
<1> DEFINE y == CHOOSE k \in S : \A n \in S : n <= k
<1>1. y \in S /\ \A n \in S : n <= y
  OBVIOUS
<1> HIDE DEF y
<1>2. y <= x /\ x <= y /\ x \in Nat /\ y \in Nat
  BY <1>1
<1>3. y = x
  BY <1>2
<1> QED
  BY <1>3 DEF y

\* What a step does to the ledger.
LEMMA StepsAppend ==
    ASSUME RegistryInv, [Next]_vars
    PROVE  \/ UNCHANGED entries
           \/ \E e \in Entry : /\ Acyclic(Append(entries, e))
                               /\ entries' = Append(entries, e)
<1>1. TypeOK /\ Len(entries) \in Nat
  BY DEF RegistryInv, TypeOK
<1>2. ASSUME NEW m \in Migrators, AppendItem(m)
      PROVE  \E e \in Entry : /\ Acyclic(Append(entries, e))
                              /\ entries' = Append(entries, e)
  <2> DEFINE e == [key |-> Wanted(m).key, body |-> Wanted(m).body,
                   supersedes |-> NoHash, seed |-> TRUE]
  <2>1. pc[m] = "append" /\ entries' = Append(entries, e)
    BY <1>2 DEF AppendItem
  <2>2. e \in Entry /\ Acyclic(Append(entries, e))
    BY <2>1, ImportIsEntry
  <2> HIDE DEF e
  <2> QED
    BY <2>1, <2>2
<1>3. ASSUME NEW c \in Clients, NEW item \in ClientItems,
             NEW supersedes \in Nameable(item), Define(c, item, supersedes)
      PROVE  \E e \in Entry : /\ Acyclic(Append(entries, e))
                              /\ entries' = Append(entries, e)
  BY <1>3, DefinitionIsEntry DEF Define
<1>4. ASSUME NEW m \in Migrators, Migrate(m), ~AppendItem(m)
      PROVE  UNCHANGED entries
  BY <1>4 DEF Migrate, Start, Install, Upsert, Look, Cite, MigrationFails
<1>5. ASSUME NEW c \in Clients, Request(c),
             ~(\E item \in ClientItems : \E supersedes \in Nameable(item) :
                   Define(c, item, supersedes))
      PROVE  UNCHANGED entries
  BY <1>5 DEF Request, Propose, VerifyByView, VerifyByTable, AppendAct
<1>6. RevokeAuthority => UNCHANGED entries
  BY DEF RevokeAuthority
<1> QED
  BY <1>2, <1>3, <1>4, <1>5, <1>6 DEF Next, vars

LawMoves(t) ==
    (CurrentType(t) # NoHash /\ CurrentType(t)' # CurrentType(t)) =>
        \/ CurrentType(t)' = Len(entries) + 1
        \/ /\ entries'[Len(entries) + 1].supersedes = CurrentType(t)
           /\ \/ entries'[Len(entries) + 1].key # t
              \/ Superseded(Len(entries) + 1)

LEMMA StepMovesLaw ==
    ASSUME RegistryInv, [Next]_vars, NEW t \in Types
    PROVE  LawMoves(t)
<1> DEFINE n == Len(entries)
           own == {k \in DOMAIN entries : entries[k].key = t /\ ~Superseded(k)}
           then == {k \in DOMAIN entries' :
                       entries'[k].key = t /\ ~Superseded(k)'}
           newest(S) == CHOOSE k \in S : \A j \in S : j <= k
<1>1. CASE UNCHANGED entries
  BY <1>1 DEF LawMoves, CurrentType, Superseded
<1>2. ASSUME NEW e \in Entry, Acyclic(Append(entries, e)), entries' = Append(entries, e)
      PROVE  LawMoves(t)
  <2>1. /\ Grows /\ LedgerOK' /\ n \in Nat /\ DOMAIN entries = 1..n
        /\ DOMAIN entries' = 1..(n + 1) /\ entries'[n + 1] = e
    BY <1>2, Appended
  <2>2. CurrentType(t)' = IF then = {} THEN NoHash ELSE newest(then)
    BY DEF CurrentType
  <2>4. then \in SUBSET Nat /\ \A k \in then : k \in 1..(n + 1)
    BY <2>1
  <2>5. CASE n + 1 \in then
    <3>1. n + 1 \in then
      BY <2>5
    <3>2. \A k \in then : k <= n + 1
      BY <2>1, <2>4
    <3> HIDE DEF then
    <3>3. newest(then) = n + 1 /\ then # {}
      BY <2>4, <3>1, <3>2, NewestIs
    <3> QED
      BY <2>2, <3>3 DEF LawMoves
  <2>6. CASE n + 1 \notin then /\ e.supersedes # CurrentType(t)
    <3>1. SUFFICES ASSUME CurrentType(t) # NoHash
                   PROVE  CurrentType(t)' = CurrentType(t)
      BY DEF LawMoves
    <3>2. CurrentType(t) = newest(own) /\ own # {} /\ own \in SUBSET DOMAIN entries
      BY <3>1 DEF CurrentType
    <3>3. newest(own) \in own /\ \A k \in own : k <= newest(own)
      <4>1. Extremes
        BY DEF RegistryInv
      <4> HIDE DEF own
      <4> QED
        BY <3>2, <4>1, Newest
    <3> DEFINE x == CurrentType(t)
    <3>4. x \in own /\ \A k \in own : k <= x
      BY <3>2, <3>3
    <3>5. x \in then
      <4>1. x \in 1..n /\ entries[x].key = t /\ ~Superseded(x)
        BY <2>1, <3>4
      <4>2. entries'[x] = entries[x]
        BY <2>1, <4>1 DEF Grows
      <4>3. ASSUME NEW j \in 1..(n + 1) PROVE entries'[j].supersedes # x
        <5>1. CASE j = n + 1
          BY <2>1, <2>6, <5>1
        <5>2. CASE j \in 1..n
          BY <2>1, <4>1, <5>2 DEF Grows, Superseded
        <5> QED
          BY <2>1, <5>1, <5>2
      <4> QED
        BY <2>1, <4>1, <4>2, <4>3 DEF Superseded
    <3>6. ASSUME NEW k \in then PROVE k <= x
      <4>1. k \in 1..(n + 1) /\ entries'[k].key = t /\ ~Superseded(k)'
        BY <2>1
      <4>2. k \in 1..n
        BY <2>1, <2>6, <3>6, <4>1
      <4>3. k \in own
        BY <2>1, <4>1, <4>2 DEF Grows, Superseded
      <4> QED
        BY <3>4, <4>3
    <3> HIDE DEF then, x
    <3>7. newest(then) = x /\ then # {}
      BY <2>4, <3>5, <3>6, NewestIs
    <3> QED
      BY <2>2, <3>7 DEF x
  <2>7. CASE n + 1 \notin then /\ e.supersedes = CurrentType(t)
    <3>1. SUFFICES ASSUME e.key = t, CurrentType(t) # NoHash
                   PROVE  Superseded(n + 1)
      BY <2>1, <2>7 DEF LawMoves
    \* Nor does the new definition supersede itself.
    <3>2. CurrentType(t) # n + 1
      BY <2>1, <3>1, CurrentNames DEF Names
    <3>3. PICK k \in 1..(n + 1) : entries'[k].supersedes = n + 1
      BY <2>1, <2>7, <3>1 DEF Superseded
    <3>4. k \in 1..n
      BY <2>1, <2>7, <3>2, <3>3
    <3> QED
      BY <2>1, <3>3, <3>4 DEF Grows, Superseded
  <2> QED
    BY <2>5, <2>6, <2>7
<1> QED
  BY <1>1, <1>2, StepsAppend

\* The law in force of a type gives way to the newest definition of that type;
\* anything else takes one that names its hash and is not in force itself, being
\* of another process_id or superseded in advance (current_process_types).
THEOREM TheLawMovesForward == Spec => LawMovesForward
<1>1. RegistryInv /\ [Next]_vars => \A t \in Types : LawMoves(t)
  BY StepMovesLaw
<1>2. (\A t \in Types : LawMoves(t)) =>
          [\A t \in Types :
              LET new == Len(entries) + 1 IN
              (CurrentType(t) # NoHash /\ CurrentType(t)' # CurrentType(t)) =>
                  \/ CurrentType(t)' = new
                  \/ /\ entries'[new].supersedes = CurrentType(t)
                     /\ \/ entries'[new].key # t
                        \/ \E n \in DOMAIN entries :
                               entries[n].supersedes = new]_vars
  BY DEF LawMoves, Superseded
<1> QED
  BY <1>1, <1>2, AlwaysInv, PTL DEF Spec, LawMovesForward
------------------------------------------------------------------------------
\* Only overlapping migrations import twice.

\* Migrations under way together know it, and one that is alone and about to
\* append has seen that nothing imported defines its item, or that it is the
\* authority and revoked.
LoneOK(m) ==
    (pc[m] = "append" /\ ~run[m].overlap) =>
        \/ \A k \in Defining(Wanted(m)) : ~entries[k].seed
        \/ revoked /\ Wanted(m) = GenesisItem

Apart ==
    \A m, n \in Migrators :
        (m # n /\ pc[m] # "idle" /\ pc[n] # "idle") => run[m].overlap

LoneInv == Apart /\ \A m \in Migrators : LoneOK(m)

LEMMA StartKeepsLone ==
    ASSUME RegistryInv, LoneInv, NEW m \in Migrators, NEW r \in Releases,
           Start(m, r)
    PROVE  LoneInv'
<1> DEFINE others == {n \in Migrators : pc[n] # "idle"}
<1>1. TypeOK /\ pc[m] = "idle"
  BY DEF RegistryInv, Start
<1>2. pc'[m] = "install" /\ \A n \in Migrators \ {m} : pc'[n] = pc[n]
  BY <1>1 DEF Start, GoesTo, TypeOK
<1>3. others # {} => run'[m].overlap
  <2> DEFINE one == [NoRun EXCEPT !.release = r]
  <2>1. one \in Run
    BY Constants DEF Run
  <2>2. run'[m] = [one EXCEPT !.overlap = (others # {})]
    BY DEF Start
  <2> HIDE DEF one
  <2>3. CASE others # {}
    BY <2>1, <2>2, <2>3 DEF Run
  <2> QED
    BY <2>3
<1>4. ASSUME NEW n \in others PROVE n # m /\ run'[n].overlap
  <2>1. n # m /\ run[n] \in Run /\ run'[n] = [run[n] EXCEPT !.overlap = TRUE]
    BY <1>1 DEF Start, TypeOK
  <2> QED
    BY <2>1 DEF Run
<1>5. Apart'
  <2>1. ASSUME NEW p \in Migrators, NEW q \in Migrators, p # q,
               pc'[p] # "idle", pc'[q] # "idle"
        PROVE  run'[p].overlap
    <3>1. CASE p = m
      BY <1>2, <1>3, <2>1, <3>1
    <3>2. CASE p # m
      BY <1>2, <1>4, <2>1, <3>2
    <3> QED
      BY <3>1, <3>2
  <2> QED
    BY <2>1 DEF Apart
<1>6. ASSUME NEW n \in Migrators, pc'[n] = "append", ~run'[n].overlap
      PROVE  FALSE
  BY <1>2, <1>4, <1>6
<1> QED
  BY <1>5, <1>6 DEF LoneInv, LoneOK

LEMMA MigrationKeepsLone ==
    ASSUME RegistryInv, LoneInv, NEW m \in Migrators, pc[m] # "idle",
           MigratorMoves(m), UNCHANGED revoked,
           pc'[m] = "append" =>
               /\ Recognized(Wanted(m)) = {}
               /\ UNCHANGED entries /\ Wanted(m)' = Wanted(m)
    PROVE  LoneInv'
<1>1. Apart'
  BY DEF LoneInv, Apart, MigratorMoves
<1>2. LoneOK(m)'
  BY DEF LoneOK, Recognized, Defining
<1>3. ASSUME NEW n \in Migrators \ {m} PROVE LoneOK(n)'
  BY <1>3 DEF LoneInv, Apart, LoneOK, MigratorMoves
<1> QED
  BY <1>1, <1>2, <1>3 DEF LoneInv

\* What clients define is not imported.
LEMMA ClientKeepsLone ==
    ASSUME RegistryInv, LoneInv, NEW c \in Clients, Request(c)
    PROVE  LoneInv'
<1>1. TypeOK /\ Len(entries) \in Nat
  BY DEF RegistryInv, TypeOK
<1>2. run' = run /\ revoked' = revoked
  BY DEF Request, Define, Propose, VerifyByView, VerifyByTable, AppendAct
<1>3. ASSUME NEW m \in Migrators PROVE pc'[m] = pc[m]
  <2>1. c # m /\ pc[m] = [pc EXCEPT ![c] = "x"][m]
    BY <1>1, RegistryAssumption DEF RegistryAssumption, TypeOK
  <2> QED
    BY <1>1, <2>1 DEF Request, Define, Propose, VerifyByView, VerifyByTable,
       AppendAct, Judge, Rejected, GoesTo, TypeOK
<1>4. ASSUME NEW k \in DOMAIN entries', entries'[k].seed
      PROVE  k \in DOMAIN entries /\ entries'[k] = entries[k]
  <2>1. CASE UNCHANGED entries
    BY <1>4, <2>1
  <2>2. ASSUME NEW item \in ClientItems, NEW supersedes \in Nameable(item),
               Define(c, item, supersedes)
        PROVE  k \in DOMAIN entries /\ entries'[k] = entries[k]
    <3> DEFINE e == Definition(item, supersedes)
    <3>1. entries' = Append(entries, e)
      BY <2>2 DEF Define
    <3>2. e \in Entry /\ Acyclic(Append(entries, e)) /\ ~e.seed
      BY DefinitionIsEntry
    <3> HIDE DEF e
    <3>3. /\ Grows /\ DOMAIN entries = 1..Len(entries)
          /\ DOMAIN entries' = 1..(Len(entries) + 1)
          /\ entries'[Len(entries) + 1] = e
      BY <3>1, <3>2, Appended
    <3>4. k # Len(entries) + 1
      BY <1>4, <3>2, <3>3
    <3> QED
      BY <1>1, <3>3, <3>4 DEF Grows
  <2> QED
    BY <2>1, <2>2 DEF Request, Propose, VerifyByView, VerifyByTable, AppendAct
<1>5. ASSUME NEW m \in Migrators PROVE LoneOK(m)'
  <2>1. LoneOK(m) /\ pc'[m] = pc[m] /\ Wanted(m)' = Wanted(m)
    BY <1>2, <1>3 DEF LoneInv, Wanted, SeedsOf
  <2> QED
    BY <1>2, <1>4, <2>1 DEF LoneOK, Defining
<1> QED
  BY <1>2, <1>3, <1>5 DEF LoneInv, Apart

LEMMA NextKeepsLone ==
    ASSUME RegistryInv, LoneInv, [Next]_vars
    PROVE  LoneInv'
<1>1. CASE UNCHANGED vars
  BY <1>1 DEF vars, LoneInv, Apart, LoneOK, Defining, Wanted, SeedsOf
<1>2. ASSUME NEW m \in Migrators, Migrate(m) PROVE LoneInv'
  <2>1. CASE \E r \in Releases : Start(m, r)
    BY <2>1, StartKeepsLone
  <2>2. CASE Look(m)
    BY <2>2, LookKeeps, MigrationKeepsLone DEF Look
  <2>3. CASE Install(m) \/ Upsert(m) \/ AppendItem(m) \/ Cite(m)
    <3>1. pc[m] # "idle" /\ UNCHANGED revoked
      BY <2>3 DEF Install, Upsert, AppendItem, Cite
    <3> QED
      BY <2>3, <3>1, InstallKeeps, UpsertKeeps, AppendItemKeeps, CiteKeeps,
         MigrationKeepsLone
  <2>4. CASE MigrationFails(m)
    BY <2>4, FailureKeeps, MigrationKeepsLone DEF MigrationFails
  <2> QED
    BY <1>2, <2>1, <2>2, <2>3, <2>4 DEF Migrate
<1>3. CASE RevokeAuthority
  BY <1>3 DEF RevokeAuthority, LoneInv, Apart, LoneOK, Defining, Wanted, SeedsOf
<1> QED
  BY <1>1, <1>2, <1>3, ClientKeepsLone DEF Next

\* A migration that nothing overlaps imports no definition a second time, be
\* it repeated, rolled back or retried (the look before the append), nor the
\* genesis authority while nobody has revoked it.
THEOREM OnlyOverlapDuplicates == Spec => DuplicatesNeedOverlap
<1>1. Init => LoneInv
  BY DEF Init, LoneInv, Apart, LoneOK
<1>2. RegistryInv /\ LoneInv /\ [Next]_vars => LoneInv'
  BY NextKeepsLone
<1>3. LoneInv =>
          [\A m \in Migrators :
              (/\ pc[m] = "append"
               /\ entries' # entries
               /\ \E k \in Defining(Wanted(m)) : entries[k].seed)
              => \/ run[m].overlap
                 \/ pc'[m] = "append"
                 \/ revoked /\ Wanted(m) = GenesisItem]_vars
  BY DEF LoneInv, LoneOK
<1> QED
  BY <1>1, <1>2, <1>3, AlwaysInv, PTL DEF Spec, DuplicatesNeedOverlap
------------------------------------------------------------------------------
\* What a migration that is alone leaves behind.

\* A release names a type once: its contracts are the values of a dictionary
\* by process_id (load_catalog).
NamesOnce ==
    \A r \in Releases : \A s1, s2 \in DOMAIN Seeds[r] :
        Seeds[r][s1].key = Seeds[r][s2].key => s1 = s2

\* The row of seed s holds its contract, and the hash of an Act defining it.
Cached(seeds, s) == cache[seeds[s].key].body = seeds[s].body

Cited(seeds, s) ==
    /\ cache[seeds[s].key].hash \in DOMAIN entries
    /\ entries[cache[seeds[s].key].hash].body = seeds[s].body

\* The hash about to be cited defines the item, whoever else is at work; and a
\* migration that is alone finds its contracts where it put them, and the
\* hashes of the seeds it is done with.
FoundOK(m) == pc[m] = "cite" => run[m].found \in Defining(Wanted(m))

AgreeOK(m) ==
    LET seeds == SeedsOf(m) IN
    ~run[m].overlap =>
        /\ pc[m] = "upsert" =>
               \A s \in DOMAIN seeds : s < run[m].seed => Cached(seeds, s)
        /\ pc[m] \in {"look", "append", "cite"} =>
               \A s \in DOMAIN seeds :
                   Cached(seeds, s) /\ (s < run[m].seed => Cited(seeds, s))

AgreeInv == \A m \in Migrators : FoundOK(m) /\ AgreeOK(m)

------------------------------------------------------------------------------
\* Where a migration is after a query.

\* The seeds of a release are contracts.
LEMMA SeedIsItem ==
    ASSUME TypeOK, NEW m \in Migrators
    PROVE  /\ DOMAIN SeedsOf(m) = 1..Len(SeedsOf(m)) /\ Len(SeedsOf(m)) \in Nat
           /\ \A s \in DOMAIN SeedsOf(m) : SeedsOf(m)[s].key \in Types
<1>1. run[m].release \in Releases
  BY DEF TypeOK, Run
<1>2. /\ SeedsOf(m) \in Seq([key : Types, body : Bodies])
      /\ Len(SeedsOf(m)) \in Nat
  BY <1>1, Constants DEF SeedsOf
<1>3. DOMAIN SeedsOf(m) = 1..Len(SeedsOf(m))
  BY <1>2
<1>4. ASSUME NEW s \in DOMAIN SeedsOf(m) PROVE SeedsOf(m)[s].key \in Types
  <2>1. SeedsOf(m)[s] \in [key : Types, body : Bodies]
    BY <1>2, <1>3, ElementOfSeq
  <2> QED
    BY <2>1
<1> QED
  BY <1>2, <1>3, <1>4

\* From one item to the next: the seed changes with the definition only.
LEMMA AdvancesTo ==
    ASSUME TypeOK, NEW m \in Migrators, pc[m] \in {"look", "append", "cite"},
           Advances(m), pc'[m] # "idle"
    PROVE  /\ pc'[m] = "look"
           /\ run'[m].release = run[m].release
           /\ run'[m].overlap = run[m].overlap
           /\ IF EnsuresType(m) THEN run'[m].seed = run[m].seed + 1
                                ELSE run'[m].seed = run[m].seed
<1> DEFINE r == run[m]
<1>1. r \in Run /\ run \in [Migrators -> Run] /\ r.step \in Nat
  BY DEF TypeOK, Run
<1>2. Len(Bootstrap) \in Nat /\ "look" \in MigratorPCs
  BY Constants DEF MigratorPCs
<1>3. ~EndsRun(m)
  BY EndsMoves
<1>4. ASSUME GoesTo(m, "look") PROVE pc'[m] = "look"
  BY <1>4, RegistryAssumption DEF GoesTo, TypeOK
<1>5. CASE r.step > 0 /\ ~EnsuresType(m)
  <2>1. run' = [run EXCEPT ![m].step = @ + 1] /\ GoesTo(m, "look")
    BY <1>5 DEF Advances
  <2>2. run'[m] = [r EXCEPT !.step = r.step + 1]
    BY <1>1, <2>1
  <2> QED
    BY <1>1, <1>4, <1>5, <2>1, <2>2 DEF Run
<1>6. CASE r.step = 0 /\ SeedsOf(m) # <<>>
  <2>1. run' = [run EXCEPT ![m].step = 1] /\ GoesTo(m, "look")
    BY <1>6 DEF Advances
  <2>2. run'[m] = [r EXCEPT !.step = 1]
    BY <1>1, <2>1
  <2>3. ~EnsuresType(m)
    BY <1>2, <1>6 DEF EnsuresType
  <2> QED
    BY <1>1, <1>4, <2>1, <2>2, <2>3 DEF Run
<1>7. CASE EnsuresType(m) /\ r.step > 0 /\ r.seed < Len(SeedsOf(m))
  <2>1. /\ run' = [run EXCEPT ![m].seed = @ + 1, ![m].step = 1,
                              ![m].found = NoHash]
        /\ GoesTo(m, "look")
    BY <1>1, <1>7 DEF Advances
  <2>2. run'[m] = [r EXCEPT !.seed = r.seed + 1, !.step = 1, !.found = NoHash]
    BY <1>1, <2>1
  <2> QED
    BY <1>1, <1>4, <1>7, <2>1, <2>2 DEF Run
<1> QED
  BY <1>1, <1>2, <1>3, <1>5, <1>6, <1>7 DEF Advances, EnsuresType

\* With the hash of an item, to cite it or to the next one.
LEMMA HoldsAt ==
    ASSUME TypeOK, NEW m \in Migrators, pc[m] \in {"look", "append"},
           NEW hash \in Nat, Holds(m, hash), pc'[m] # "idle"
    PROVE  /\ pc'[m] \in {"look", "cite"}
           /\ run'[m].release = run[m].release
           /\ run'[m].overlap = run[m].overlap
           /\ run'[m].seed = run[m].seed
<1>1. run[m] \in Run /\ run \in [Migrators -> Run]
  BY DEF TypeOK
<1>2. CASE EnsuresType(m)
  <2>1. run'[m] = [run[m] EXCEPT !.found = hash] /\ GoesTo(m, "cite")
    BY <1>1, <1>2 DEF Holds
  <2>2. pc'[m] = "cite"
    BY <2>1, RegistryAssumption DEF GoesTo, TypeOK
  <2> QED
    BY <1>1, <2>1, <2>2 DEF Run
<1>3. CASE ~EnsuresType(m)
  BY <1>3, AdvancesTo DEF Holds
<1> QED
  BY <1>2, <1>3

------------------------------------------------------------------------------
\* Every step keeps it.

\* Neither the ledger's growth nor a look takes anything from what m knows.
LEMMA AgreeStays ==
    ASSUME RegistryInv, AgreeInv, Grows, UNCHANGED cache, NEW m \in Migrators,
           pc'[m] \in {pc[m], "look", "append"},
           pc'[m] # pc[m] => pc[m] \in {"look", "append", "cite"},
           pc[m] = "cite" => pc'[m] = "cite" /\ run'[m] = run[m],
           run'[m].release = run[m].release, run'[m].seed = run[m].seed,
           ~run'[m].overlap => ~run[m].overlap
    PROVE  AgreeOK(m)' /\ FoundOK(m)'
<1>1. FoundOK(m) /\ AgreeOK(m) /\ SeedsOf(m)' = SeedsOf(m)
  BY DEF AgreeInv, SeedsOf
<1>2. ASSUME NEW s \in DOMAIN SeedsOf(m), Cited(SeedsOf(m), s)
      PROVE  Cited(SeedsOf(m), s)'
  BY <1>1, <1>2 DEF Cited, Grows
<1>3. ASSUME NEW s, Cached(SeedsOf(m), s)
      PROVE  Cached(SeedsOf(m), s)'
  BY <1>1, <1>3 DEF Cached
<1>4. AgreeOK(m)'
  BY <1>1, <1>2, <1>3 DEF AgreeOK
<1>5. pc[m] = "cite" => Wanted(m)' = Wanted(m)
  BY <1>1 DEF Wanted
<1>6. FoundOK(m)'
  BY <1>1, <1>5 DEF FoundOK, Defining, Grows
<1> QED
  BY <1>4, <1>6

\* A step of m, itself good, that leaves the other migrations alone.
LEMMA OthersAgree ==
    ASSUME RegistryInv, LoneInv, AgreeInv, Grows,
           NEW m \in Migrators, pc[m] # "idle", MigratorMoves(m),
           AgreeOK(m)', FoundOK(m)'
    PROVE  AgreeInv'
<1>1. ASSUME NEW n \in Migrators \ {m} PROVE AgreeOK(n)' /\ FoundOK(n)'
  <2>1. run'[n] = run[n] /\ pc'[n] = pc[n]
    BY <1>1 DEF MigratorMoves
  <2>2. AgreeOK(n)'
    <3>1. pc[n] = "idle" \/ run[n].overlap
      BY <1>1 DEF LoneInv, Apart
    <3> QED
      BY <2>1, <3>1 DEF AgreeOK
  <2>3. FoundOK(n)'
    <3>1. FoundOK(n) /\ SeedsOf(n)' = SeedsOf(n)
      BY <1>1, <2>1 DEF AgreeInv, SeedsOf
    <3>2. Wanted(n)' = Wanted(n)
      BY <2>1, <3>1 DEF Wanted
    <3> QED
      BY <2>1, <3>1, <3>2 DEF FoundOK, Defining, Grows
  <2> QED
    BY <2>2, <2>3
<1> QED
  BY <1>1 DEF AgreeInv

\* Clients write no row of the table.
LEMMA ClientAgrees ==
    ASSUME RegistryInv, AgreeInv, Grows, NEW c \in Clients, Request(c)
    PROVE  AgreeInv'
<1>1. TypeOK
  BY DEF RegistryInv
<1>2. cache' = cache /\ run' = run
  BY DEF Request, Define, Propose, VerifyByView, VerifyByTable, AppendAct
<1>3. ASSUME NEW m \in Migrators PROVE pc'[m] = pc[m]
  <2>1. c # m /\ pc[m] = [pc EXCEPT ![c] = "x"][m]
    BY <1>1, RegistryAssumption DEF RegistryAssumption, TypeOK
  <2> QED
    BY <1>1, <2>1 DEF Request, Define, Propose, VerifyByView, VerifyByTable,
       AppendAct, Judge, Rejected, GoesTo, TypeOK
<1>4. ASSUME NEW m \in Migrators PROVE AgreeOK(m)' /\ FoundOK(m)'
  BY <1>2, <1>3, AgreeStays
<1> QED
  BY <1>4 DEF AgreeInv

\* A migration that starts beside others is not alone, nor are they.
LEMMA StartAgrees ==
    ASSUME RegistryInv, LoneInv, AgreeInv, Grows, NEW m \in Migrators,
           NEW r \in Releases, Start(m, r)
    PROVE  AgreeInv'
<1>1. TypeOK /\ cache' = cache
  BY DEF RegistryInv, Start
<1>2. pc'[m] = "install" /\ \A n \in Migrators \ {m} : pc'[n] = pc[n]
  BY <1>1 DEF Start, GoesTo, TypeOK
<1>3. ASSUME NEW n \in Migrators, n # m, pc[n] # "idle"
      PROVE  /\ run'[n].overlap
             /\ run'[n].found = run[n].found /\ run'[n].step = run[n].step
             /\ run'[n].seed = run[n].seed /\ run'[n].release = run[n].release
  <2>1. run[n] \in Run /\ run'[n] = [run[n] EXCEPT !.overlap = TRUE]
    BY <1>1, <1>3 DEF Start, TypeOK
  <2> QED
    BY <2>1 DEF Run
<1>4. ASSUME NEW n \in Migrators PROVE AgreeOK(n)' /\ FoundOK(n)'
  <2>1. CASE n = m
    BY <1>2, <2>1 DEF AgreeOK, FoundOK
  <2>2. CASE n # m /\ pc[n] = "idle"
    BY <1>2, <2>2 DEF AgreeOK, FoundOK
  <2>3. CASE n # m /\ pc[n] # "idle"
    <3>1. FoundOK(n) /\ SeedsOf(n)' = SeedsOf(n) /\ pc'[n] = pc[n]
      BY <1>2, <1>3, <2>3 DEF AgreeInv, SeedsOf
    <3>2. Wanted(n)' = Wanted(n)
      BY <1>3, <2>3, <3>1 DEF Wanted
    <3>3. FoundOK(n)'
      BY <1>3, <2>3, <3>1, <3>2 DEF FoundOK, Defining, Grows
    <3> QED
      BY <1>3, <2>3, <3>3 DEF AgreeOK
  <2> QED
    BY <2>1, <2>2, <2>3
<1> QED
  BY <1>4 DEF AgreeInv

\* The first pass begins with nothing written.
LEMMA InstallAgrees ==
    ASSUME RegistryInv, LoneInv, AgreeInv, Grows, NEW m \in Migrators,
           Install(m)
    PROVE  AgreeInv'
<1> DEFINE next == IF SeedsOf(m) = <<>> THEN "look" ELSE "upsert"
<1>1. /\ MigratorMoves(m) /\ pc[m] # "idle" /\ run[m] \in Run
      /\ run[m].release \in Releases
  BY InstallKeeps DEF Install, RegistryInv, TypeOK, Run
<1>2. run'[m] = [run[m] EXCEPT !.seed = 1] /\ pc'[m] = next
  BY RegistryAssumption DEF Install, RegistryInv, TypeOK, GoesTo
<1>3. run'[m].seed = 1 /\ SeedsOf(m)' = SeedsOf(m)
  BY <1>1, <1>2 DEF Run, SeedsOf
<1>4. \A s \in DOMAIN SeedsOf(m) : s \in Nat \ {0}
  BY <1>1, Constants DEF SeedsOf
<1>5. SeedsOf(m) = <<>> => DOMAIN SeedsOf(m) = {}
  OBVIOUS
<1>6. AgreeOK(m)'
  BY <1>2, <1>3, <1>4, <1>5 DEF AgreeOK
<1>7. FoundOK(m)'
  BY <1>2 DEF FoundOK
<1> QED
  BY <1>1, <1>6, <1>7, OthersAgree

\* A migration that ends early promises nothing.
LEMMA FailureAgrees ==
    ASSUME RegistryInv, LoneInv, AgreeInv, Grows, NEW m \in Migrators,
           MigrationFails(m)
    PROVE  AgreeInv'
<1>1. MigratorMoves(m) /\ pc[m] # "idle" /\ pc'[m] = "idle"
  BY FailureKeeps DEF MigrationFails
<1>2. AgreeOK(m)' /\ FoundOK(m)'
  BY <1>1 DEF AgreeOK, FoundOK
<1> QED
  BY <1>1, <1>2, OthersAgree

\* What the first pass over the seeds writes.
LEMMA UpsertAgrees ==
    ASSUME NamesOnce, RegistryInv, LoneInv, AgreeInv, Grows,
           NEW m \in Migrators, Upsert(m)
    PROVE  AgreeInv'
<1> DEFINE seeds == SeedsOf(m)
           here == run[m].seed
<1>1. /\ MigratorMoves(m) /\ pc[m] = "upsert" /\ run[m] \in Run
      /\ run[m].release \in Releases /\ here \in Nat
      /\ run \in [Migrators -> Run] /\ cache \in [Types -> CacheRow]
  BY UpsertKeeps DEF Upsert, RegistryInv, TypeOK, Run
<1>2. /\ DOMAIN seeds = 1..Len(seeds) /\ Len(seeds) \in Nat
      /\ \A s \in DOMAIN seeds : seeds[s].key \in Types
  BY SeedIsItem DEF RegistryInv
<1>3. here \in DOMAIN seeds
  <2>1. seeds # <<>> /\ here \in 1..Len(seeds) \cup {1}
    BY <1>1, ProgressOfAll DEF Progress, RegistryInv
  <2>2. Len(seeds) > 0
    BY <1>2, <2>1
  <2> QED
    BY <1>2, <2>1, <2>2
<1>4. /\ seeds[here].key \in Types
      /\ cache'[seeds[here].key].body = seeds[here].body
      /\ \A t \in Types : t # seeds[here].key => cache'[t] = cache[t]
  <2> DEFINE row == [body |-> seeds[here].body,
                     hash |-> IF cache[seeds[here].key].body = seeds[here].body
                              THEN cache[seeds[here].key].hash ELSE NoHash]
  <2>1. seeds[here].key \in Types
    BY <1>2, <1>3
  <2>2. /\ cache' = [cache EXCEPT ![seeds[here].key] = row]
        /\ row.body = seeds[here].body
    BY <1>1, <2>1 DEF Upsert
  <2> HIDE DEF row, seeds, here
  <2> QED
    BY <1>1, <2>1, <2>2
<1>5. SeedsOf(m)' = SeedsOf(m) /\ run'[m].overlap = run[m].overlap
  <2>1. run'[m].release = run[m].release /\ run'[m].overlap = run[m].overlap
    BY <1>1 DEF Upsert, Run
  <2> QED
    BY <2>1 DEF SeedsOf
<1>6. \/ pc'[m] = "upsert" /\ run'[m].seed = here + 1
      \/ pc'[m] = "look" /\ run'[m].seed = 1 /\ here = Len(seeds)
  <2>1. CASE here < Len(seeds)
    <3>1. run' = [run EXCEPT ![m].seed = @ + 1] /\ pc' = pc
      BY <2>1 DEF Upsert
    <3> QED
      BY <1>1, <3>1 DEF Run
  <2>2. CASE ~(here < Len(seeds))
    <3>1. run' = [run EXCEPT ![m].seed = 1] /\ GoesTo(m, "look")
      BY <2>2 DEF Upsert
    <3>2. pc'[m] = "look" /\ run'[m].seed = 1
      BY <1>1, <3>1, RegistryAssumption DEF GoesTo, RegistryInv, TypeOK, Run
    <3> QED
      BY <1>1, <1>2, <1>3, <2>2, <3>2
  <2> QED
    BY <2>1, <2>2
<1>7. ASSUME ~run[m].overlap, NEW s \in DOMAIN seeds, s <= here
      PROVE  cache'[seeds[s].key].body = seeds[s].body
  <2>1. CASE s = here
    BY <1>4, <2>1
  <2>2. CASE s < here
    <3>1. cache[seeds[s].key].body = seeds[s].body
      BY <1>1, <1>7, <2>2 DEF AgreeInv, AgreeOK, Cached
    <3>2. seeds[s].key # seeds[here].key /\ seeds[s].key \in Types
      <4>1. seeds[s].key = seeds[here].key => s = here
        BY <1>1, <1>3, <1>7 DEF NamesOnce, SeedsOf
      <4>2. seeds[s].key \in Types
        BY <1>2, <1>7
      <4> QED
        BY <1>2, <1>3, <2>2, <4>1, <4>2
    <3> QED
      BY <1>4, <3>1, <3>2
  <2> QED
    BY <1>1, <1>2, <1>7, <2>1, <2>2
<1>8. AgreeOK(m)'
  <2>1. SUFFICES ASSUME ~run'[m].overlap
                 PROVE  /\ pc'[m] = "upsert" =>
                               \A s \in DOMAIN seeds : s < run'[m].seed =>
                                   Cached(seeds, s)'
                        /\ pc'[m] = "look" =>
                               \A s \in DOMAIN seeds :
                                   /\ Cached(seeds, s)'
                                   /\ s < run'[m].seed => Cited(seeds, s)'
    BY <1>5, <1>6 DEF AgreeOK
  <2>2. \A s \in DOMAIN seeds : s <= here => Cached(seeds, s)'
    BY <1>5, <1>7, <2>1 DEF Cached
  <2> QED
    BY <1>1, <1>2, <1>6, <2>2
<1>9. FoundOK(m)'
  BY <1>6 DEF FoundOK
<1> QED
  BY <1>1, <1>8, <1>9, OthersAgree

\* m has found, or appended, an Act that defines its item.
LEMMA HoldingAgrees ==
    ASSUME RegistryInv, LoneInv, AgreeInv, Grows, UNCHANGED cache,
           NEW m \in Migrators, MigratorMoves(m), pc[m] \in {"look", "append"},
           NEW hash \in Nat, Holds(m, hash),
           pc'[m] = "cite" => run'[m].found \in Defining(Wanted(m))'
    PROVE  AgreeInv'
<1>1. TypeOK
  BY DEF RegistryInv
<1>2. CASE pc'[m] = "idle"
  BY <1>2, OthersAgree DEF AgreeOK, FoundOK
<1>3. CASE pc'[m] # "idle"
  <2>1. /\ pc'[m] \in {"look", "cite"}
        /\ run'[m].release = run[m].release
        /\ run'[m].overlap = run[m].overlap
        /\ run'[m].seed = run[m].seed
    BY <1>1, <1>3, HoldsAt
  <2>2. AgreeOK(m) /\ SeedsOf(m)' = SeedsOf(m)
    BY <2>1 DEF AgreeInv, SeedsOf
  <2>3. \A s \in DOMAIN SeedsOf(m) :
            /\ Cached(SeedsOf(m), s) => Cached(SeedsOf(m), s)'
            /\ Cited(SeedsOf(m), s) => Cited(SeedsOf(m), s)'
    BY <2>2 DEF Cached, Cited, Grows
  <2>4. AgreeOK(m)'
    BY <2>1, <2>2, <2>3 DEF AgreeOK
  <2>5. FoundOK(m)'
    BY DEF FoundOK
  <2> QED
    BY <2>4, <2>5, OthersAgree
<1> QED
  BY <1>2, <1>3

\* A look finds an Act that defines the item, or none.
LEMMA LookAgrees ==
    ASSUME RegistryInv, LoneInv, AgreeInv, Grows, NEW m \in Migrators, Look(m)
    PROVE  AgreeInv'
<1> DEFINE there == Recognized(Wanted(m))
           hash == CHOOSE k \in there : \A n \in there : k <= n
<1>1. /\ TypeOK /\ Extremes /\ MigratorMoves(m) /\ pc[m] = "look"
      /\ cache' = cache /\ entries' = entries
  BY LookKeeps DEF RegistryInv, Look
<1>2. CASE there = {}
  <2>1. run' = run /\ pc'[m] = "append"
    BY <1>1, <1>2, RegistryAssumption DEF Look, GoesTo, TypeOK
  <2>2. AgreeOK(m)' /\ FoundOK(m)'
    BY <1>1, <2>1, AgreeStays
  <2> QED
    BY <1>1, <2>2, OthersAgree
<1>3. CASE there # {}
  <2>1. Holds(m, hash)
    BY <1>3 DEF Look
  <2>2. hash \in there /\ there \in SUBSET DOMAIN entries
    <3>1. there \in SUBSET DOMAIN entries
      BY DEF Recognized, Defining
    <3> HIDE DEF there
    <3> QED
      BY <1>1, <1>3, <3>1, Oldest
  <2>3. hash \in Nat
    BY <1>1, <2>2 DEF TypeOK
  <2> HIDE DEF hash
  <2>4. pc'[m] = "cite" => run'[m].found = hash /\ Wanted(m)' = Wanted(m)
    BY <1>1, <2>1, <2>3, HoldsMoves
  <2>5. pc'[m] = "cite" => run'[m].found \in Defining(Wanted(m))'
    BY <1>1, <2>2, <2>4 DEF Recognized, Defining
  <2> QED
    BY <1>1, <2>1, <2>3, <2>5, HoldingAgrees
<1> QED
  BY <1>2, <1>3

\* The Act appended defines the item.
LEMMA AppendAgrees ==
    ASSUME RegistryInv, LoneInv, AgreeInv, Grows, NEW m \in Migrators,
           AppendItem(m)
    PROVE  AgreeInv'
<1> DEFINE e == [key |-> Wanted(m).key, body |-> Wanted(m).body,
                 supersedes |-> NoHash, seed |-> TRUE]
           hash == Len(entries) + 1
<1>1. /\ TypeOK /\ MigratorMoves(m) /\ pc[m] = "append" /\ cache' = cache
      /\ Len(entries) \in Nat
  <2>1. TypeOK /\ MigratorMoves(m) /\ pc[m] = "append" /\ cache' = cache
    BY AppendItemKeeps DEF RegistryInv, AppendItem
  <2>2. entries \in Seq(Entry)
    BY <2>1 DEF TypeOK
  <2> QED
    BY <2>1, <2>2
<1>2. /\ e \in Entry /\ Acyclic(Append(entries, e))
      /\ e.key = Wanted(m).key /\ e.body = Wanted(m).body
  BY <1>1, ImportIsEntry
<1>3. entries' = Append(entries, e) /\ Holds(m, hash)
  BY DEF AppendItem
<1> HIDE DEF e
<1>4. hash \in Nat /\ hash \in DOMAIN entries' /\ entries'[hash] = e
  BY <1>1, <1>2, <1>3, Appended
<1> HIDE DEF hash
<1>5. pc'[m] = "cite" => run'[m].found = hash /\ Wanted(m)' = Wanted(m)
  BY <1>1, <1>3, <1>4, HoldsMoves
<1>6. pc'[m] = "cite" => run'[m].found \in Defining(Wanted(m))'
  BY <1>2, <1>4, <1>5 DEF Defining
<1> QED
  BY <1>1, <1>3, <1>4, <1>6, HoldingAgrees

\* The row of the seed a migration is at, once its hash has been cited.
LEMMA CitesHere ==
    ASSUME RegistryInv, AgreeInv, NEW m \in Migrators, pc[m] = "cite"
    PROVE  /\ run[m].seed \in DOMAIN SeedsOf(m)
           /\ Wanted(m) = SeedsOf(m)[run[m].seed]
           /\ Wanted(m).key \in Types
           /\ run[m].found \in DOMAIN entries
           /\ entries[run[m].found].key = Wanted(m).key
           /\ entries[run[m].found].body = Wanted(m).body
           /\ EnsuresType(m)
<1>1. Progress(m) /\ run[m].seed \in Nat /\ run[m].release \in Releases
  BY ProgressOfAll DEF Progress, RegistryInv, Run
<1>2. /\ SeedsOf(m) \in Seq([key : Types, body : Bodies])
      /\ Len(SeedsOf(m)) \in Nat /\ Len(Bootstrap) \in Nat
  BY <1>1, Constants DEF SeedsOf
<1>3. EnsuresType(m) /\ Wanted(m) = SeedsOf(m)[run[m].seed]
      /\ SeedsOf(m) # <<>> /\ run[m].seed \in 1..Len(SeedsOf(m)) \cup {1}
  BY <1>1, <1>2 DEF Progress, EnsuresType, Wanted
<1>4. run[m].seed \in DOMAIN SeedsOf(m)
  <2>1. Len(SeedsOf(m)) > 0 /\ DOMAIN SeedsOf(m) = 1..Len(SeedsOf(m))
    BY <1>2, <1>3
  <2> QED
    BY <1>2, <1>3, <2>1
<1>5. Wanted(m).key \in Types
  BY <1>3, WantedIsItem DEF RegistryInv
<1>6. run[m].found \in Defining(Wanted(m))
  BY DEF AgreeInv, FoundOK
<1> QED
  BY <1>3, <1>4, <1>5, <1>6 DEF Defining

\* The hash written, the row agrees with the ledger.
LEMMA CitedHere ==
    ASSUME RegistryInv, AgreeInv, NEW m \in Migrators, pc[m] = "cite",
           entries' = entries,
           \A t \in Types : cache'[t].body = cache[t].body,
           \A t \in Types : t # Wanted(m).key => cache'[t].hash = cache[t].hash,
           cache'[Wanted(m).key].hash = run[m].found,
           ~run[m].overlap, NEW s \in DOMAIN SeedsOf(m)
    PROVE  /\ SeedsOf(m)[s].key \in Types
           /\ cache[SeedsOf(m)[s].key].body = SeedsOf(m)[s].body
           /\ cache'[SeedsOf(m)[s].key].body = SeedsOf(m)[s].body
           /\ s <= run[m].seed =>
                  LET row == cache'[SeedsOf(m)[s].key] IN
                  /\ row.hash \in DOMAIN entries
                  /\ entries[row.hash].body = SeedsOf(m)[s].body
           /\ s = run[m].seed => entries[run[m].found].key = SeedsOf(m)[s].key
<1> DEFINE key == SeedsOf(m)[s].key
<1>1. /\ run[m].release \in Releases /\ run[m].seed \in Nat
  BY DEF RegistryInv, TypeOK, Run
<1>2. key \in Types /\ s \in Nat
  BY SeedIsItem DEF RegistryInv
<1>3. cache[key].body = SeedsOf(m)[s].body
  BY DEF AgreeInv, AgreeOK, Cached
<1>4. s < run[m].seed => /\ cache[key].hash \in DOMAIN entries
                         /\ entries[cache[key].hash].body = SeedsOf(m)[s].body
  BY DEF AgreeInv, AgreeOK, Cited
<1> HIDE DEF key
<1>5. ASSUME s <= run[m].seed
      PROVE  /\ cache'[key].hash \in DOMAIN entries
             /\ entries[cache'[key].hash].body = SeedsOf(m)[s].body
  <2>1. CASE key = Wanted(m).key
    \* Whichever seed it is, the row holds the contract that was ensured.
    <3>1. cache[key].body = Wanted(m).body
      BY <2>1, CitesHere DEF AgreeInv, AgreeOK, Cached
    <3> QED
      BY <1>3, <2>1, <3>1, CitesHere
  <2>2. CASE key # Wanted(m).key
    <3>1. s # run[m].seed
      BY <2>2, CitesHere DEF key
    <3> QED
      BY <1>1, <1>2, <1>4, <1>5, <2>2, <3>1
  <2> QED
    BY <2>1, <2>2
<1> QED
  BY <1>2, <1>3, <1>5, CitesHere DEF key

\* What the step that cites does to the table.
LEMMA CiteWrites ==
    ASSUME RegistryInv, AgreeInv, NEW m \in Migrators, Cite(m)
    PROVE  /\ entries' = entries
           /\ \A t \in Types : cache'[t].body = cache[t].body
           /\ \A t \in Types :
                  t # Wanted(m).key => cache'[t].hash = cache[t].hash
           /\ cache'[Wanted(m).key].hash = run[m].found
<1> DEFINE key == Wanted(m).key
<1>1. key \in Types /\ entries' = entries
  BY CitesHere DEF Cite
<1>2. cache \in [Types -> CacheRow]
  BY DEF RegistryInv, TypeOK
<1>3. cache' = [cache EXCEPT ![key].hash = run[m].found]
  BY DEF Cite
<1> HIDE DEF key
<1>4. cache'[key] = [cache[key] EXCEPT !.hash = run[m].found]
      /\ \A t \in Types : t # key => cache'[t] = cache[t]
  BY <1>1, <1>2, <1>3
<1>5. cache[key] \in CacheRow
  BY <1>1, <1>2
<1>6. cache'[key].hash = run[m].found /\ cache'[key].body = cache[key].body
  BY <1>4, <1>5 DEF CacheRow
<1> QED
  BY <1>1, <1>4, <1>6 DEF key

\* The row of the seed, and those before it, agree with the ledger.
LEMMA CiteAgrees ==
    ASSUME RegistryInv, LoneInv, AgreeInv, Grows, NEW m \in Migrators, Cite(m)
    PROVE  AgreeInv'
<1>1. TypeOK /\ MigratorMoves(m) /\ pc[m] = "cite" /\ Advances(m)
  BY CiteKeeps DEF RegistryInv, Cite
<1>2. CASE pc'[m] = "idle"
  BY <1>1, <1>2, OthersAgree DEF AgreeOK, FoundOK
<1>3. CASE pc'[m] # "idle"
  <2>1. /\ pc'[m] = "look" /\ run'[m].release = run[m].release
        /\ run'[m].overlap = run[m].overlap
        /\ run'[m].seed = run[m].seed + 1
    BY <1>1, <1>3, AdvancesTo, CitesHere
  <2>2. SeedsOf(m)' = SeedsOf(m)
    BY <2>1 DEF SeedsOf
  <2>3. run[m].seed \in Nat /\ \A s \in DOMAIN SeedsOf(m) : s \in Nat
    BY <1>1, SeedIsItem DEF TypeOK, Run
  <2>4. AgreeOK(m)'
    <3>1. SUFFICES ASSUME ~run[m].overlap, NEW s \in DOMAIN SeedsOf(m)
                   PROVE  /\ Cached(SeedsOf(m), s)'
                          /\ s < run[m].seed + 1 => Cited(SeedsOf(m), s)'
      BY <2>1, <2>2 DEF AgreeOK
    <3>2. s < run[m].seed + 1 => s <= run[m].seed
      BY <2>3
    <3> QED
      BY <1>1, <2>2, <3>1, <3>2, CiteWrites, CitedHere DEF Cached, Cited
  <2>5. FoundOK(m)'
    BY <2>1 DEF FoundOK
  <2> QED
    BY <1>1, <2>4, <2>5, OthersAgree
<1> QED
  BY <1>2, <1>3

\* Nothing is ever taken from the ledger.
LEMMA NextGrows ==
    ASSUME RegistryInv, [Next]_vars
    PROVE  Grows
<1>1. CASE UNCHANGED entries
  BY <1>1, SameLedger
<1>2. ASSUME NEW e \in Entry, Acyclic(Append(entries, e)),
             entries' = Append(entries, e)
      PROVE  Grows
  BY <1>2, Appended
<1> QED
  BY <1>1, <1>2, StepsAppend

\* All of it, for every step.
LEMMA NextAgrees ==
    ASSUME NamesOnce, RegistryInv, LoneInv, AgreeInv, [Next]_vars
    PROVE  AgreeInv'
<1>1. Grows
  BY NextGrows
<1>2. CASE UNCHANGED vars
  BY <1>2 DEF vars, AgreeInv, AgreeOK, FoundOK, SeedsOf, Wanted, Defining,
     Cached, Cited
<1>3. ASSUME NEW m \in Migrators, Migrate(m) PROVE AgreeInv'
  BY <1>1, <1>3, StartAgrees, InstallAgrees, UpsertAgrees, LookAgrees,
     AppendAgrees, CiteAgrees, FailureAgrees DEF Migrate
<1>4. CASE RevokeAuthority
  BY <1>4 DEF RevokeAuthority, AgreeInv, AgreeOK, FoundOK, SeedsOf, Wanted,
     Defining, Cached, Cited
<1> QED
  BY <1>1, <1>2, <1>3, <1>4, ClientAgrees DEF Next

------------------------------------------------------------------------------
\* Where a type whose definition is in the ledger is to be found.

\* The newest definition of t is in force, or one of another type hides it.
LEMMA DefinedIsFound ==
    ASSUME RegistryInv, NEW t \in Types, cache[t].body # None,
           NEW k \in DOMAIN entries, entries[k].key = t
    PROVE  \/ t \in LoadContracts
           \/ \E n \in DOMAIN entries :
                  /\ entries[n].supersedes \in DOMAIN entries
                  /\ entries[entries[n].supersedes].key = t
                  /\ entries[n].key # t
<1> DEFINE all == {j \in DOMAIN entries : entries[j].key = t}
           own == {j \in DOMAIN entries : entries[j].key = t /\ ~Superseded(j)}
<1>1. CASE CurrentType(t) # NoHash
  BY <1>1 DEF LoadContracts, Discoverable
<1>2. CASE CurrentType(t) = NoHash
  <2>1. DOMAIN entries = 1..Len(entries) /\ Len(entries) \in Nat
    BY DEF RegistryInv, TypeOK
  <2>2. own = {}
    <3>1. SUFFICES ASSUME own # {} PROVE FALSE
      OBVIOUS
    <3>2. CurrentType(t) = CHOOSE j \in own : \A n \in own : n <= j
      BY <3>1 DEF CurrentType
    <3>3. own \in SUBSET DOMAIN entries /\ Extremes
      BY DEF RegistryInv
    <3> HIDE DEF own
    <3>4. CurrentType(t) \in DOMAIN entries
      BY <3>1, <3>2, <3>3, Newest
    <3> QED
      BY <1>2, <2>1, <3>4 DEF NoHash
  <2>3. SUFFICES ASSUME \A n \in DOMAIN entries :
                            entries[n].supersedes \in all => n \in all
                 PROVE  FALSE
    OBVIOUS
  \* Each definition of t is superseded by one of t, and that by another: there
  \* are finitely many, so each of them supersedes one of t.
  <2> DEFINE heir == [j \in all |-> CHOOSE n \in all : entries[n].supersedes = j]
  <2>4. ASSUME NEW j \in all
        PROVE  heir[j] \in all /\ entries[heir[j]].supersedes = j
    <3>1. PICK n \in DOMAIN entries : entries[n].supersedes = j
      BY <2>2 DEF Superseded
    <3>2. n \in all
      BY <2>3, <3>1
    <3> QED
      BY <3>1, <3>2
  <2>5. IsFiniteSet(all)
    <3>1. IsFiniteSet(1..Len(entries))
      BY <2>1, FS_Interval
    <3> QED
      BY <2>1, <3>1, FS_Subset
  <2> HIDE DEF all
  <2>6. heir \in [all -> all]
    BY <2>4
  <2> HIDE DEF heir
  <2>7. heir \in Injection(all, all)
    BY <2>4, <2>6 DEF Injection, IsInjective
  <2>8. heir \in Surjection(all, all)
    BY <2>5, <2>7, FS_Injection
  <2>9. \A n \in all : entries[n].supersedes \in all
    BY <2>4, <2>8 DEF Surjection
  <2>10. all \in SUBSET DOMAIN entries /\ all # {} /\ Acyclic(entries)
    BY DEF RegistryInv, all
  <2> QED
    BY <2>9, <2>10 DEF Acyclic
<1> QED
  BY <1>1, <1>2

\* The last cite of a migration that was alone leaves the release imported.
LEMMA EndsInAgreement ==
    ASSUME RegistryInv, AgreeInv, [Next]_vars, NEW m \in Migrators,
           pc[m] = "cite", pc'[m] = "idle",
           cache'[Wanted(m).key].hash = run[m].found,
           run[m].seed = Len(SeedsOf(m)), ~run[m].overlap
    PROVE  \A r \in {run[m].release} : Imported(r)'
<1>1. TypeOK
  BY DEF RegistryInv
\* Only m moves itself.
<1>2. Cite(m) \/ MigrationFails(m)
  <2>1. pc' # pc
    BY DEF TypeOK
  <2>2. ASSUME NEW c \in Clients, Request(c) PROVE FALSE
    <3>1. c # m /\ pc[m] = [pc EXCEPT ![c] = "x"][m]
      BY <1>1, RegistryAssumption DEF RegistryAssumption, TypeOK
    <3> QED
      BY <1>1, <2>2, <3>1 DEF Request, Define, Propose, VerifyByView,
         VerifyByTable, AppendAct, Judge, Rejected, GoesTo, TypeOK
  <2>3. ASSUME NEW n \in Migrators, Migrate(n) PROVE n = m
    <3>1. CASE \E r \in Releases : Start(n, r)
      BY <1>1, <3>1 DEF Start, GoesTo, TypeOK
    <3>2. CASE ~\E r \in Releases : Start(n, r)
      <4>1. MigratorMoves(n)
        BY <2>3, <3>2, InstallKeeps, UpsertKeeps, LookKeeps, AppendItemKeeps,
           CiteKeeps, FailureKeeps DEF Migrate
      <4> QED
        BY <4>1 DEF MigratorMoves
    <3> QED
      BY <3>1, <3>2
  <2>4. Migrate(m)
    BY <2>1, <2>2, <2>3 DEF Next, vars, RevokeAuthority
  <2> QED
    BY <2>4 DEF Migrate, Start, Install, Upsert, Look, AppendItem
<1>3. /\ entries' = entries /\ installed' = installed
      /\ \A t \in Types : cache'[t].body = cache[t].body
      /\ \A t \in Types : t # Wanted(m).key => cache'[t].hash = cache[t].hash
  BY <1>2, CiteWrites DEF Cite, MigrationFails
<1> DEFINE seeds == SeedsOf(m)
<1>4. DOMAIN seeds = 1..Len(seeds) /\ Len(seeds) \in Nat
  BY <1>1, SeedIsItem
<1>5. ASSUME NEW s \in DOMAIN seeds
      PROVE  LET key == seeds[s].key
                 row == cache'[key]
             IN  /\ row.body = seeds[s].body
                 /\ row.hash \in DOMAIN entries'
                 /\ entries'[row.hash].body = seeds[s].body
                 /\ \/ key \in LoadContracts'
                    \/ \E n \in DOMAIN entries' :
                          /\ entries'[n].supersedes \in DOMAIN entries'
                          /\ entries'[entries'[n].supersedes].key = key
                          /\ entries'[n].key # key
  <2> DEFINE key == seeds[s].key
             hash == cache'[key].hash
  <2>1. /\ key \in Types /\ cache[key].body = seeds[s].body
        /\ cache'[key].body = seeds[s].body
        /\ hash \in DOMAIN entries /\ entries[hash].body = seeds[s].body
    BY <1>3, <1>4, CitedHere
  <2>2. cache[key].body # None
    <3>1. seeds[s].body \in Bodies
      <4>1. seeds \in Seq([key : Types, body : Bodies])
        BY <1>1, Constants DEF SeedsOf, TypeOK, Run
      <4>2. seeds[s] \in [key : Types, body : Bodies]
        BY <1>4, <4>1, ElementOfSeq
      <4> QED
        BY <4>2
    <3> QED
      BY <2>1, <3>1, RegistryAssumption DEF RegistryAssumption
  <2>3. entries[hash].key = key
    <3>1. CASE key = Wanted(m).key
      BY <3>1, CitesHere
    <3>2. CASE key # Wanted(m).key
      <4>1. cache[key].hash = hash /\ hash # NoHash
        BY <1>1, <1>3, <2>1, <3>2 DEF NoHash, TypeOK
      <4> QED
        BY <2>1, <4>1 DEF RegistryInv, CacheNamesLaw
    <3> QED
      BY <3>1, <3>2
  <2>4. LoadContracts' = LoadContracts
    <3>1. \A k \in Types : CurrentType(k)' = CurrentType(k)
      BY <1>3 DEF CurrentType, Superseded
    <3>2. Discoverable' = Discoverable
      BY <3>1 DEF Discoverable
    <3>3. {k \in Types : cache'[k].body # None} = {k \in Types : cache[k].body # None}
      BY <1>3
    <3> QED
      BY <1>3, <3>2, <3>3 DEF LoadContracts
  <2>5. \/ key \in LoadContracts
        \/ \E n \in DOMAIN entries :
               /\ entries[n].supersedes \in DOMAIN entries
               /\ entries[entries[n].supersedes].key = key
               /\ entries[n].key # key
    BY <2>1, <2>2, <2>3, DefinedIsFound
  <2> QED
    BY <1>3, <2>1, <2>4, <2>5
<1> QED
  BY <1>5 DEF Imported, SeedsOf

\* A migration that is alone from its start to its end leaves the table and the
\* ledger in agreement, whatever earlier ones that overlapped or died had left
\* there, for a release that names a type once (POST /api/migrate: the insert of
\* the seeds, then ensureRegisteredContract for each).
THEOREM LoneMigrationsAgree ==
    NamesOnce => (Spec => LoneMigrationAgrees)
<1> SUFFICES ASSUME NamesOnce PROVE Spec => LoneMigrationAgrees
  OBVIOUS
<1>1. Init => LoneInv /\ AgreeInv
  BY DEF Init, LoneInv, Apart, LoneOK, AgreeInv, AgreeOK, FoundOK
<1>2. RegistryInv /\ LoneInv /\ AgreeInv /\ [Next]_vars => LoneInv' /\ AgreeInv'
  BY NextKeepsLone, NextAgrees
<1>3. RegistryInv /\ AgreeInv /\ [Next]_vars =>
          [\A m \in Migrators :
              (/\ pc[m] = "cite"
               /\ pc'[m] = "idle"
               /\ cache'[Wanted(m).key].hash = run[m].found
               /\ run[m].seed = Len(SeedsOf(m))
               /\ ~run[m].overlap)
              => \A r \in {run[m].release} : Imported(r)']_vars
  BY EndsInAgreement
<1> QED
  BY <1>1, <1>2, <1>3, AlwaysInv, PTL DEF Spec, LoneMigrationAgrees
=============================================================================
