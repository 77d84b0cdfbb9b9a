\* Three requests: migrations of two releases, two at once, and a client that
\* defines types and cites their definitions; the authority may be revoked.  A
\* hash may be named four Acts ahead, which reaches the first contract that a
\* migration defines after it.
CONSTANTS
    ta = ta
    tb = tb
    verb = verb
    authority = authority
    a1 = a1
    a2 = a2
    b1 = b1
    word = word
    genesis = genesis
    mine = mine
    r1 = r1
    r2 = r2
    m1 = m1
    m2 = m2
    c1 = c1
    None = None
    Types = {ta, tb}
    Terms = {verb}
    Authority = authority
    Bodies = {a1, a2, b1, word, genesis, mine}
    Bootstrap <- TheBootstrap
    GenesisItem <- TheGenesis
    Releases = {r1, r2}
    Seeds <- TheSeeds
    FirstRelease = r1
    Migrators = {m1, m2}
    Clients = {c1}
    ClientItems <- OwnItems
    GovernedTypes = {ta, tb}
    MaxRequests = 3
    Foresight = 4
CHECK_DEADLOCK FALSE
SYMMETRY Symmetry
SPECIFICATION Spec
INVARIANTS
    TypeOK
    CacheNamesLaw
    ActCitesItsType
PROPERTIES
    DuplicatesNeedOverlap
    LoneMigrationAgrees
    LawMovesForward
