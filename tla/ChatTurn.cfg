\* One turn beside one request at a time, both of which author Acts as the person
\* and as the executor; everything may fail.
CONSTANTS
    review = review
    record = record
    publish = publish
    person = person
    executor = executor
    w1 = w1
    w2 = w2
    c1 = c1
    c2 = c2
    Stop = Stop
    Missing = Missing
    None = None
    NoAct = NoAct
    i1 = i1
    i2 = i2
    t1 = t1
    t2 = t2
    Actors = {person, executor}
    Nodes <- LoopNodes
    Start = review
    Responsible <- LoopResponsible
    Branch <- TalkBranch
    Stamps = {t1}
    MaxActs = 2
    Instances = {i1}
    Callers = {c1, c2}
    CallerActors = {person, executor}
    CallerCites = {FALSE}
    CitingOpenings = {}
    Workers = {}
    Executor = executor
    Executable = {record}
    Dangerous = {}
    Faults = {"crash", "query"}
    Turns = {c1}
    MaxResponses = 2
    MaxBatch = 2
SPECIFICATION FairChat
INVARIANTS
    ChatTypeOK
    ReceiptsAreDurable
PROPERTIES
    ActsOnWhatItSaw
    ActsAsRequests
    TurnEnds
