\* One job reports its steps and its log lines, a second one is not registered for progress.
SPECIFICATION Spec
CONSTANTS
    s1 = s1
    s2 = s2
    ReportJobs = {"j1", "j2"}
    Registered = {"j1"}
    StepIds = {s1, s2}
    Unnamed = {s2}
    Script <- MCScript
    Outcomes <- MCOutcomes
    ReportRoutes = {"v1", "task"}
    MaxLogLines = 2
    MaxLate = 1
    MaxLogs = 2
    NoStep = NoStep
INVARIANTS
    ReportsInv
    ShownInv
    FailedStepsReported
PROPERTIES
    EveryRequestAnswered
\* The jobs end.
CHECK_DEADLOCK FALSE
