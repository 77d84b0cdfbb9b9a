\* A window of two Acts, a tap and the Act that says it is queued.
CONSTANTS
    t1 = t1
    t2 = t2
    r1 = r1
    r2 = r2
    w1 = w1
    w2 = w2
    Signer = Signer
    Taps = {t1, t2}
    Complete = {t1, t2}
    Citing = {}
    Contracts <- OnlySafe
    FirstContract <- Safe
    Receivers = {r1}
    Workers = {w1}
    Limit = 2
    MaxRequests = 2
    MaxRedefined = 0
    Faults = {}
SPECIFICATION FairSpec
CHECK_DEADLOCK FALSE
PROPERTY
    EveryTapAnswered
