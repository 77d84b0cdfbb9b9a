\* Two instances of which only one cites the grant: the work of the other fails
\* for ever. One executor; handlers die anywhere, the request that signs too.
CONSTANTS
    review = review
    record = record
    publish = publish
    person = person
    executor = executor
    w1 = w1
    w2 = w2
    c1 = c1
    c2 = c2
    Stop = Stop
    Missing = Missing
    None = None
    NoAct = NoAct
    i1 = i1
    i2 = i2
    t1 = t1
    t2 = t2
    Actors = {person, executor}
    Nodes <- PressNodes
    Start = publish
    Responsible <- PressResponsible
    Branch <- PressBranch
    Stamps = {t1}
    MaxActs = 2
    Instances = {i1, i2}
    Callers = {c1}
    CallerActors = {person}
    CallerCites = {FALSE}
    CitingOpenings = {i2}
    Workers = {w1}
    Executor = executor
    Executable = {record, publish}
    Dangerous = {publish}
    Faults = {"resume", "crash"}
SPECIFICATION LiveSpec
PROPERTIES
    ExecutorActsSigned
    ExecutorAdvances
    SignedWorkAdvances
    StaleCustodySwept
