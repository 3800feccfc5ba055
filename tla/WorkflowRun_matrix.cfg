\* Fail-fast, max-parallel 1, a concurrency group with cancel-in-progress; no fairness of runners or timers.
SPECIFICATION FairSpec
CONSTANTS
    Nodes = {"a1", "a2", "b", "c"}
    Jobs = {"a", "b", "c"}
    JobOf <- MatrixJobOf
    DependsOn <- MatrixNeeds
    If <- MatrixIf
    ContinueOnError = {"a"}
    FailFast = {"a", "b", "c"}
    MaxParallel <- MatrixOne
    NoLimit = NoLimit
    Concurrency <- MatrixClaim
    NoGroup = NoGroup
    CancelInProgress = {"a", "b"}
    NoNode = NoNode
    Groups <- MatrixPlanned
    Skipped <- MatrixSkipped
INVARIANTS
    TypeOK
    SequentialMatrixStops
    WithinMaxParallel
    CancelledForCause
    OneLiveHolder
PROPERTIES
    InterruptEndsRun
