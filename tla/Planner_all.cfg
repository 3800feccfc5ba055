\* Three jobs, four nodes, every needs: and every kind of condition.
SPECIFICATION Spec
CONSTANTS
    Jobs = {"a", "b", "c"}
    NodeOrder <- MatrixOrder
    JobOf <- MatrixJobOf
    Conditions = {"none", "false", "always", "success"}
    Unknown = "ghost"
    MatrixValues <- MCMatrixValues
    JobFilters = {"", "a", "b", "a2", "none such"}
    MatrixFilters <- MCMatrixFilters
INVARIANTS
    PlannerInv
    PlanIsJobPlan
    PlanSuitsRun
PROPERTIES
    PlanningEnds
