\* A job is skipped while another one records its result.
SPECIFICATION Spec
CONSTANTS
    Nodes = {"a", "c", "d", "e", "f", "g", "h", "k"}
    Jobs = {"a", "c", "d", "e", "f", "g", "h", "k"}
    JobOf <- NeedsJobOf
    DependsOn <- NeedsNeeds
    If <- NeedsIf
    ContinueOnError = {"c"}
    FailFast = {}
    MaxParallel <- NeedsMax
    NoLimit = NoLimit
    Concurrency <- NeedsFree
    NoGroup = NoGroup
    CancelInProgress = {}
    NoNode = NoNode
    Groups <- NeedsPlanned
    Skipped <- NeedsSkipped
INVARIANTS
    NoMapCrash
