------------------------------ MODULE Planner ------------------------------
(***************************************************************************)
(* Planning a workflow, src/internal/graph: Build wires the job nodes,     *)
(* Validate looks for cycles depth first, TopologicalSort is Kahn's        *)
(* algorithm, ParallelGroups assigns levels and Plan drops jobs by their   *)
(* static conditions.  One step is one iteration of a loop of the code.    *)
(*                                                                         *)
(* Abstractions.  Which nodes a job has after matrix expansion is a        *)
(* constant (module Matrix makes them).  Dependencies are sets: a need     *)
(* listed twice counts twice in inDegree and is decremented twice.  Run    *)
(* calls Validate, and Plan calls it again with the same outcome; it is    *)
(* modelled once.                                                          *)
(***************************************************************************)
EXTENDS Naturals, FiniteSets, SequencesExt, Subsequences

CONSTANTS Jobs,        \* job ids of the workflow
          NodeOrder,   \* job nodes, sorted by NodeID
          JobOf,       \* [Nodes -> Jobs]
          Conditions,  \* kinds of if:, see WorkflowRun
          Unknown,     \* a name in needs: that is no job
          MatrixValues, \* [Nodes -> sets of key and value], {} without a matrix
          JobFilters,  \* Options.JobFilter: a job, a node, or "" for all
          MatrixFilters \* Options.MatrixFilter: sets of key and value

Nodes == ToSet(NodeOrder)

ASSUME PlannerAssumption ==
    /\ NodeOrder \in Seq(Nodes) /\ IsInjective(NodeOrder)
    /\ JobOf \in [Nodes -> Jobs]
    /\ \A j \in Jobs : \E n \in Nodes : JobOf[n] = j
    /\ Unknown \notin Jobs

VARIABLES
    needs,        \* [Jobs -> SUBSET (Jobs \cup {Unknown})], of the workflow
    cond,         \* [Jobs -> Conditions], of the workflow
    phase,        \* the function that runs
    deps,         \* DependsOn of the nodes
    color,        \* Validate's state of a node
    stack,        \* calls of dfs: records of the node and the next dependency
    cycle,        \* the cycle Validate reported
    inDegree,     \* TopologicalSort
    queue,
    sorted,
    levels,       \* ParallelGroups
    groups,
    skippedNodes, \* Plan
    plan,         \* plan.Groups
    cursor        \* [group, index]: the node ParallelGroups or Plan looks at

workflowVars == <<needs, cond>>
dfsVars      == <<color, stack, cycle>>
kahnVars     == <<inDegree, queue, sorted>>
planVars     == <<skippedNodes, plan, cursor>>
vars == <<workflowVars, phase, deps, dfsVars, kahnVars, levels, groups, planVars>>

Sorted(S) == Only(NodeOrder, S)

Init ==
    /\ needs \in [Jobs -> SUBSET (Jobs \cup {Unknown})]
    /\ cond \in [Jobs -> Conditions]
    /\ phase = "build"
    /\ deps     = [n \in Nodes |-> {}]
    /\ color    = [n \in Nodes |-> "unvisited"]
    /\ stack    = <<>>
    /\ cycle    = <<>>
    /\ inDegree = [n \in Nodes |-> 0]
    /\ queue    = <<>>
    /\ sorted   = <<>>
    /\ levels   = [n \in Nodes |-> 0]
    /\ groups   = <<>>
    /\ skippedNodes = {}
    /\ plan     = <<>>
    /\ cursor   = [group |-> 1, index |-> 1]

\* Every node of a job depends on all nodes of the jobs it needs.
Build ==
    /\ phase = "build"
    /\ IF \E j \in Jobs : Unknown \in needs[j]
       THEN phase' = "rejected" /\ UNCHANGED deps
       ELSE /\ phase' = "validate"
            /\ deps' = [n \in Nodes |-> {m \in Nodes : JobOf[m] \in needs[JobOf[n]]}]
    /\ UNCHANGED <<workflowVars, dfsVars, kahnVars, levels, groups, planVars>>
-----------------------------------------------------------------------------
(* Validate: depth-first search with an explicit stack of calls.           *)

Call(n) == [node |-> n, next |-> 1]
Path    == [i \in DOMAIN stack |-> stack[i].node]
Dep     == Sorted(deps[Last(stack).node])[Last(stack).next]
HasDep  == Last(stack).next <= Cardinality(deps[Last(stack).node])
Unvisited == {n \in Nodes : color[n] = "unvisited"}

Advanced == [stack EXCEPT ![Len(stack)].next = @ + 1]

Entered(n) == [color EXCEPT ![n] = "visiting"]

\* The loop over all nodes, in their order.
StartSearch ==
    /\ phase = "validate"
    /\ stack = <<>>
    /\ Unvisited # {}
    /\ LET n == Head(Sorted(Unvisited)) IN
          /\ stack' = <<Call(n)>>
          /\ color' = Entered(n)
    /\ UNCHANGED <<workflowVars, phase, deps, cycle, kahnVars, levels, groups, planVars>>

VisitDependency ==
    /\ phase = "validate"
    /\ stack # <<>>
    /\ HasDep
    /\ color[Dep] = "unvisited"
    /\ stack' = Append(Advanced, Call(Dep))
    /\ color' = Entered(Dep)
    /\ UNCHANGED <<workflowVars, phase, deps, cycle, kahnVars, levels, groups, planVars>>

\* Mutant: the loop over dependencies does not get past a visited one.
PassVisitedStuck ==
    /\ phase = "validate"
    /\ stack # <<>>
    /\ HasDep
    /\ color[Dep] = "visited"
    /\ UNCHANGED vars

PassVisited ==
    /\ phase = "validate"
    /\ stack # <<>>
    /\ HasDep
    /\ color[Dep] = "visited"
    /\ stack' = Advanced
    /\ UNCHANGED <<workflowVars, phase, deps, color, cycle, kahnVars, levels, groups, planVars>>

\* Mutant: the whole path is taken for the cycle.
CyclePathFromRoot == Append(Path, Dep)

CyclePath == LET start == CHOOSE i \in DOMAIN Path : Path[i] = Dep
             IN  Append(SubSeq(Path, start, Len(Path)), Dep)

FindCycle ==
    /\ phase = "validate"
    /\ stack # <<>>
    /\ HasDep
    /\ color[Dep] = "visiting"
    /\ cycle' = CyclePath
    /\ phase' = "rejected"
    /\ UNCHANGED <<workflowVars, deps, color, stack, kahnVars, levels, groups, planVars>>

LeaveNode ==
    /\ phase = "validate"
    /\ stack # <<>>
    /\ ~HasDep
    /\ color' = [color EXCEPT ![Last(stack).node] = "visited"]
    /\ stack' = Front(stack)
    /\ UNCHANGED <<workflowVars, phase, deps, cycle, kahnVars, levels, groups, planVars>>
-----------------------------------------------------------------------------
(* TopologicalSort.                                                        *)

StartSort ==
    /\ phase = "validate"
    /\ stack = <<>>
    /\ Unvisited = {}
    /\ phase' = "sort"
    /\ inDegree' = [n \in Nodes |-> Cardinality(deps[n])]
    /\ queue' = Sorted({n \in Nodes : deps[n] = {}})
    /\ UNCHANGED <<workflowVars, deps, dfsVars, sorted, levels, groups, planVars>>

\* The dependents of n that lose their last dependency.
FreedBy(n) == {m \in Nodes : n \in deps[m] /\ inDegree[m] = 1}

PopQueue ==
    /\ phase = "sort"
    /\ queue # <<>>
    /\ LET n == Head(queue) IN
          /\ sorted' = Append(sorted, n)
          /\ inDegree' = [m \in Nodes |-> IF n \in deps[m] THEN inDegree[m] - 1 ELSE inDegree[m]]
          /\ queue' = Sorted(ToSet(Tail(queue)) \cup FreedBy(n))
    /\ UNCHANGED <<workflowVars, phase, deps, dfsVars, levels, groups, planVars>>

EndSort ==
    /\ phase = "sort"
    /\ queue = <<>>
    /\ phase' = IF Len(sorted) = Cardinality(Nodes) THEN "levels" ELSE "rejected"
    /\ UNCHANGED <<workflowVars, deps, dfsVars, kahnVars, levels, groups, planVars>>
-----------------------------------------------------------------------------
(* ParallelGroups and Plan.                                                *)

\* Mutant: the level follows the first dependency.
LevelAfterFirst(n, ls) == IF deps[n] = {} THEN 0 ELSE 1 + ls[Head(Sorted(deps[n]))]

LevelAfter(n, ls) == IF deps[n] = {} THEN 0 ELSE 1 + Max({ls[d] : d \in deps[n]})

\* Levels are computed in sorted order.
AssignLevel ==
    /\ phase = "levels"
    /\ cursor.index <= Len(sorted)
    /\ LET n == sorted[cursor.index] IN levels' = [levels EXCEPT ![n] = LevelAfter(n, levels)]
    /\ cursor' = [cursor EXCEPT !.index = @ + 1]
    /\ UNCHANGED <<workflowVars, phase, deps, dfsVars, kahnVars, groups, skippedNodes, plan>>

\* A graph without nodes has no groups.
LevelCount == IF sorted = <<>> THEN 0 ELSE 1 + Max(Range(levels))

\* The nodes of a level form a group.
GroupByLevel ==
    /\ phase = "levels"
    /\ cursor.index > Len(sorted)
    /\ groups' = [i \in 1..LevelCount |-> Sorted({n \in Nodes : levels[n] = i - 1})]
    /\ phase' = "plan"
    /\ plan' = <<<<>>>>
    /\ cursor' = [group |-> 1, index |-> 1]
    /\ UNCHANGED <<workflowVars, deps, dfsVars, kahnVars, levels, skippedNodes>>

ContainsAlways(n)   == cond[JobOf[n]] \in {"always", "always_needs"}
NeedsRuntimeEval(n) == cond[JobOf[n]] \in {"success", "failure", "cancelled", "needs", "always_needs"}
DepSkipped(n)       == deps[n] \cap skippedNodes # {}

\* Mutant: a job is not dropped because of what it needs.
DropsAlone(n) == ~NeedsRuntimeEval(n) /\ cond[JobOf[n]] = "false"

Drops(n) ==
    \/ DepSkipped(n) /\ ~ContainsAlways(n)
    \/ ~NeedsRuntimeEval(n) /\ cond[JobOf[n]] = "false"

\* The last group of plan is the one under construction (included).
PlanNode ==
    /\ phase = "plan"
    /\ cursor.group <= Len(groups)
    /\ cursor.index <= Len(groups[cursor.group])
    /\ LET n == groups[cursor.group][cursor.index] IN
          IF Drops(n)
          THEN skippedNodes' = skippedNodes \cup {n} /\ UNCHANGED plan
          ELSE plan' = [plan EXCEPT ![Len(plan)] = Append(@, n)] /\ UNCHANGED skippedNodes
    /\ cursor' = [cursor EXCEPT !.index = @ + 1]
    /\ UNCHANGED <<workflowVars, phase, deps, dfsVars, kahnVars, levels, groups>>

\* A group nobody is included in is left out.
EndGroup ==
    /\ phase = "plan"
    /\ cursor.group <= Len(groups)
    /\ cursor.index > Len(groups[cursor.group])
    /\ plan' = IF Last(plan) = <<>> THEN plan ELSE Append(plan, <<>>)
    /\ cursor' = [group |-> cursor.group + 1, index |-> 1]
    /\ UNCHANGED <<workflowVars, phase, deps, dfsVars, kahnVars, levels, groups, skippedNodes>>

EndPlan ==
    /\ phase = "plan"
    /\ cursor.group > Len(groups)
    /\ plan' = Front(plan)
    /\ phase' = "done"
    /\ UNCHANGED <<workflowVars, deps, dfsVars, kahnVars, levels, groups, skippedNodes, cursor>>

-----------------------------------------------------------------------------
(* What Run, in src/internal/orchestrator/orchestrator.go, does next.      *)

Passes(n, job, values) ==
    /\ job \in {"", JobOf[n], n}
    /\ MatrixValues[n] = {} \/ values \subseteq MatrixValues[n]

\* filterPlan and filterPlanByMatrix: the nodes that pass, in their groups.
Kept(job, values) ==
    NonEmpty([i \in DOMAIN plan |-> Only(plan[i], {n \in Nodes : Passes(n, job, values)})])

\* The jobs Plan dropped are forgotten.
Filter ==
    /\ phase = "done"
    /\ \E job \in JobFilters, values \in MatrixFilters :
          /\ job # "" \/ values # {}
          /\ plan' = Kept(job, values)
          /\ phase' = IF plan' = <<>> THEN "no match" ELSE "filtered"
    /\ skippedNodes' = {}
    /\ UNCHANGED <<workflowVars, deps, dfsVars, kahnVars, levels, groups, cursor>>

Returned == phase \in {"done", "rejected", "filtered", "no match"} /\ UNCHANGED vars

Next ==
    \/ Build
    \/ StartSearch \/ VisitDependency \/ PassVisited \/ FindCycle \/ LeaveNode
    \/ StartSort \/ PopQueue \/ EndSort
    \/ AssignLevel \/ GroupByLevel \/ PlanNode \/ EndGroup \/ EndPlan \/ Filter
    \/ Returned

Spec == Init /\ [][Next]_vars /\ WF_vars(Next)
-----------------------------------------------------------------------------
\* Types; the stack of calls holds the nodes that are being visited.
TypeOK ==
    /\ phase \in {"build", "validate", "sort", "levels", "plan", "done", "rejected", "filtered", "no match"}
    /\ deps \in [Nodes -> SUBSET Nodes]
    /\ color \in [Nodes -> {"unvisited", "visiting", "visited"}]
    /\ ToSet(Path) = {n \in Nodes : color[n] = "visiting"}
    /\ inDegree \in [Nodes -> Nat]
    /\ IsInjective(sorted) /\ ToSet(sorted) \subseteq Nodes
    /\ levels \in [Nodes -> Nat]
    /\ skippedNodes \subseteq Nodes

\* A reference for "no cycles": every nonempty set of nodes has one that
\* depends on nothing in the set.
Acyclic == \A S \in (SUBSET Nodes) \ {{}} : \E n \in S : deps[n] \cap S = {}

\* The cycle in the error message is one: each node depends on the next and
\* the last is the first.
CycleIsReal ==
    cycle # <<>> =>
        /\ Head(cycle) = Last(cycle)
        /\ \A i \in 1..(Len(cycle) - 1) : cycle[i + 1] \in deps[cycle[i]]

\* Validate lets exactly the workflows without cycles pass, so the error of
\* TopologicalSort is never seen.
AcceptsAcyclic ==
    /\ phase \in {"sort", "levels", "plan", "done", "filtered"} => Acyclic
    /\ phase = "rejected" => cycle # <<>> \/ \E j \in Jobs : Unknown \in needs[j]

\* Kahn's algorithm puts nothing before what it depends on.
SortedAfterDependencies ==
    \A i \in DOMAIN sorted : deps[sorted[i]] \subseteq ToSet(SubSeq(sorted, 1, i - 1))

\* Validate and TopologicalSort do their work whatever the order in which they visit the nodes:
\* exactly the cycles are found, the one reported is real, and the order respects dependencies.
PlannerInv == TypeOK /\ CycleIsReal /\ AcceptsAcyclic /\ SortedAfterDependencies

\* The loops arrive at the plan JobPlan defines.
Expected == INSTANCE JobPlan WITH
    DependsOn <- deps, If <- [n \in Nodes |-> cond[JobOf[n]]]

PlanIsJobPlan ==
    phase = "done" => plan = Expected!PlanGroups /\ skippedNodes = Expected!PlanSkipped

\* The run may rely on the plan, filtered or not: what module WorkflowRun
\* assumes of it.
Ordered == INSTANCE PlanOrder WITH
    DependsOn <- deps, If <- cond, Groups <- plan, Skipped <- skippedNodes

PlanSuitsRun == phase \in {"done", "filtered"} => Ordered!PlanIsOrdered

\* Planning ends.
PlanningEnds == <>(phase \in {"done", "rejected"})
=============================================================================
