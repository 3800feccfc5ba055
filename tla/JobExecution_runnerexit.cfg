\* The comment on the wait for the result: a runner that exits ends it.
SPECIFICATION SchedulerSpec
CONSTANTS
    a = a
    b = b
    Jobs = {a, b}
    Name <- MCName
    Services <- MCServices
    Leftover = {"a"}
    MaxFaults = 1
    NoJob = NoJob
    NoName = NoName
PROPERTIES
    RunnerExitNoticed
\* Every job has returned.
CHECK_DEADLOCK FALSE
