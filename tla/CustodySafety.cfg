\* One instance, two executors, one request at a time, everything may fail.
CONSTANTS
    review = review
    record = record
    publish = publish
    person = person
    executor = executor
    w1 = w1
    w2 = w2
    c1 = c1
    c2 = c2
    Stop = Stop
    Missing = Missing
    None = None
    NoAct = NoAct
    i1 = i1
    i2 = i2
    t1 = t1
    t2 = t2
    Actors = {person, executor}
    Nodes <- LoopNodes
    Start = review
    Responsible <- LoopResponsible
    Branch <- LoopBranch
    Stamps = {t1}
    MaxActs = 3
    Instances = {i1}
    Callers = {c1}
    CallerActors = {person, executor}
    CallerCites = {FALSE}
    CitingOpenings = {}
    Workers = {w1, w2}
    Executor = executor
    Executable = {record}
    Dangerous = {}
    Faults = {"crash", "query"}
SYMMETRY Symmetry
SPECIFICATION Spec
INVARIANTS
    TypeOK
    SingleChain
    LawfulHistory
    ClosedIsSpent
    CustodyIsTheHeads
    ResultAnswersSource
PROPERTIES
    LiveClaimKept
    HeadKeepsCustody
    MovesOneToken
