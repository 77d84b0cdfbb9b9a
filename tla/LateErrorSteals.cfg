\* A signoff while a late worker has written its error on a row another worker holds.
CONSTANTS
    review = review
    record = record
    publish = publish
    person = person
    executor = executor
    w1 = w1
    w2 = w2
    c1 = c1
    c2 = c2
    Stop = Stop
    Missing = Missing
    None = None
    NoAct = NoAct
    i1 = i1
    i2 = i2
    t1 = t1
    t2 = t2
    Actors = {person, executor}
    Nodes <- LineNodes
    Start = record
    Responsible <- LineResponsible
    Branch <- LineBranch
    Stamps = {t1}
    MaxActs = 3
    Instances = {i1}
    Callers = {c1}
    CallerActors = {person}
    CallerCites = {TRUE}
    CitingOpenings = {}
    Workers = {w1, w2}
    Executor = executor
    Executable = {record, publish}
    Dangerous = {publish}
    Faults = {}
SPECIFICATION Spec
PROPERTY
    LiveClaimKept
