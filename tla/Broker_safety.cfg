\* Two runners, three jobs (j3 without a target), a connection may be lost.
SPECIFICATION Spec
CONSTANTS
    a = a
    b = b
    sA = sA
    sB = sB
    p1 = p1
    p2 = p2
    p3 = p3
    j1 = j1
    j2 = j2
    j3 = j3
    Jobs = {j1, j2, j3}
    Sessions = {sA, sB}
    Polls = {p1, p2}
    Owner <- MCOwner1
    Agents = {a, b}
    AgentOf <- MCAgentOf
    Target <- MCMixed
    NoAgent = NoAgent
    Results = {"succeeded", "failed"}
    NoResult = NoResult
    NoJob = NoJob
    NotifyCap = 1
    MaxDrops = 1
    Reports = {"planevents"}
INVARIANTS
    TypeOK
    ResultIsOwn
    StatusIsTruthful
PROPERTY ImplementsDispatch
\* Nothing happens any more once every runner has gone and all reports are in.
CHECK_DEADLOCK FALSE
