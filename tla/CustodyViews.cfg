\* One reader of two instances, beside one request at a time and one executor;
\* everything may fail. The query returns 3 of up to 4 rows, the response 2 items.
CONSTANTS
    review = review
    record = record
    publish = publish
    person = person
    executor = executor
    w1 = w1
    w2 = w2
    c1 = c1
    c2 = c2
    Stop = Stop
    Missing = Missing
    None = None
    NoAct = NoAct
    i1 = i1
    i2 = i2
    t1 = t1
    t2 = t2
    Actors = {person, executor}
    Nodes <- LoopNodes
    Start = review
    Responsible <- LoopResponsible
    Branch <- LoopBranch
    Stamps = {t1}
    MaxActs = 1
    Instances = {i1, i2}
    Callers = {c1}
    CallerActors = {person}
    CallerCites = {FALSE}
    CitingOpenings = {}
    Workers = {w1}
    Executor = executor
    Executable = {record}
    Dangerous = {}
    Faults = {"crash", "query"}
    r1 = r1
    r2 = r2
    Readers = {r1}
    RowLimit = 3
    ItemLimit = 2
SYMMETRY ViewSymmetry
SPECIFICATION SpecView
INVARIANTS
    ViewTypeOK
    PendencyWasCurrent
    OnePendencyEach
    TurnIsListed
