\* A job with two services, left over from an earlier run, beside one without.
SPECIFICATION FairSpec
CONSTANTS
    a = a
    b = b
    Jobs = {a, b}
    Name <- MCName
    Services <- MCServices
    Leftover = {"a"}
    MaxFaults = 1
    NoJob = NoJob
    NoName = NoName
INVARIANTS
    JobInv
    RunsOwnJob
PROPERTIES
    ExecutesAsAssumed
    EveryJobReturns
\* Every job has returned.
CHECK_DEADLOCK FALSE
