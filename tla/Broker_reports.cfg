\* Every endpoint, repeated reports, lost connections, late requests; any runner may take any job.
SPECIFICATION Spec
CONSTANTS
    a = a
    b = b
    sA = sA
    sB = sB
    p1 = p1
    p2 = p2
    p3 = p3
    j1 = j1
    j2 = j2
    j3 = j3
    Jobs = {j1, j2}
    Sessions = {sA, sB}
    Polls = {p1, p2, p3}
    Owner <- MCOwner2
    Agents = {a, b}
    AgentOf <- MCAgentOf
    Target <- MCFree
    NoAgent = NoAgent
    Results = {"succeeded", "failed"}
    NoResult = NoResult
    NoJob = NoJob
    NotifyCap = 1
    MaxDrops = 1
    Reports = {"planevents", "jobrequests", "completejob"}
INVARIANTS
    JobInOnePlace
    OneJobPerSession
\* Nothing happens any more once every runner has gone and all reports are in.
CHECK_DEADLOCK FALSE
