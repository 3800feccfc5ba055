------------------------------ MODULE JobPlan ------------------------------
(***************************************************************************)
(* What planning a workflow results in: the parallel groups of             *)
(* Graph.ParallelGroups and the jobs Graph.Plan keeps and drops, in        *)
(* src/internal/graph/plan.go, as definitions.  Module Planner models the  *)
(* algorithms and shows that they arrive at this plan.                     *)
(***************************************************************************)
EXTENDS Naturals, SequencesExt, Subsequences

CONSTANTS NodeOrder,  \* the nodes, sorted by NodeID
          DependsOn,  \* [Nodes -> SUBSET PlanNodes], without cycles
          If          \* [PlanNodes -> kind of condition], as in WorkflowRun

PlanNodes == ToSet(NodeOrder)

\* Nodes without dependencies have level 0, others come right after the last
\* of what they depend on.
Level[n \in PlanNodes] ==
    IF DependsOn[n] = {} THEN 0 ELSE 1 + Max({Level[d] : d \in DependsOn[n]})

ContainsAlways(n) == If[n] \in {"always", "always_needs"}

\* A static condition that is false drops a job, and so does a dependency
\* that was dropped, unless the condition contains always().
IsDropped[n \in PlanNodes] ==
    \/ If[n] = "false"
    \/ ~ContainsAlways(n) /\ \E d \in DependsOn[n] : IsDropped[d]

PlanSkipped == {n \in PlanNodes : IsDropped[n]}

KeptOnLevel(l) == Only(NodeOrder, {n \in PlanNodes : Level[n] = l /\ ~IsDropped[n]})

LevelCount == IF PlanNodes = {} THEN 0 ELSE 1 + Max({Level[n] : n \in PlanNodes})

ByLevel == [i \in 1..LevelCount |-> KeptOnLevel(i - 1)]

\* Levels nobody is kept of are no groups.
PlanGroups == NonEmpty(ByLevel)
=============================================================================
