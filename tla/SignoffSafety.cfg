\* One grant, two passkeys of which one counts, two verifications at a time.
CONSTANTS
    g1 = g1
    g2 = g2
    k1 = k1
    k2 = k2
    o1 = o1
    o2 = o2
    v1 = v1
    v2 = v2
    NoGrant = NoGrant
    NoKey = NoKey
    None = None
    Grants = {g1}
    Keys = {k1, k2}
    Counting = {k1}
    Askers = {o1}
    Verifiers = {v1, v2}
    MaxSigns = 2
    Crashes = TRUE
SYMMETRY Symmetry
SPECIFICATION Spec
CHECK_DEADLOCK FALSE
INVARIANTS
    TypeOK
    SignedOffOnce
    EnrolledOnce
    SignoffAnswersGrant
