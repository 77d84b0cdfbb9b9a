\* One dangerous process, a tap posted three times by two requests, a signoff;
\* everything may fail.
CONSTANTS
    t1 = t1
    t2 = t2
    r1 = r1
    r2 = r2
    w1 = w1
    w2 = w2
    Signer = Signer
    Taps = {t1}
    Complete = {t1}
    Citing = {t1}
    Contracts <- Risks
    FirstContract <- Risky
    Receivers = {r1, r2}
    Workers = {w1, w2}
    Limit = 2
    MaxRequests = 3
    MaxRedefined = 1
    Faults = {"crash", "query"}
SYMMETRY Symmetry
SPECIFICATION Spec
CHECK_DEADLOCK FALSE
INVARIANTS
    TypeOK
    DispatchedOnce
    ClosedNamesLastResult
    DangerousDispatchSigned
    DoubtsBounded
PROPERTIES
    ResumedOnlyUnsigned
    WindowTapKept
