\* A request that authors Acts in the name of the executor.
CONSTANTS
    review = review
    record = record
    publish = publish
    person = person
    executor = executor
    w1 = w1
    w2 = w2
    c1 = c1
    c2 = c2
    Stop = Stop
    Missing = Missing
    None = None
    NoAct = NoAct
    i1 = i1
    i2 = i2
    t1 = t1
    t2 = t2
    Actors = {person, executor}
    Nodes <- PressNodes
    Start = publish
    Responsible <- PressResponsible
    Branch <- PressBranch
    Stamps = {t1}
    MaxActs = 2
    Instances = {i1}
    Callers = {c1}
    CallerActors = {person, executor}
    CallerCites = {FALSE}
    CitingOpenings = {i1}
    Workers = {w1}
    Executor = executor
    Executable = {record, publish}
    Dangerous = {publish}
    Faults = {}
SPECIFICATION Spec
INVARIANT
    DangerousActsSigned
