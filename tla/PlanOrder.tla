----------------------------- MODULE PlanOrder -----------------------------
(***************************************************************************)
(* A workflow and a plan for it, and what a run may rely on: module        *)
(* WorkflowRun assumes it of its plan, module Planner shows it of what     *)
(* Graph.Plan returns.                                                     *)
(***************************************************************************)
EXTENDS Naturals, SequencesExt

CONSTANTS Nodes,      \* job nodes of the graph
          Jobs,       \* job ids of the workflow
          JobOf,      \* [Nodes -> Jobs]
          DependsOn,  \* [Nodes -> SUBSET Nodes]
          If,         \* [Jobs -> kind of condition]
          Groups,     \* plan.Groups
          Skipped     \* plan.Skipped

NodesIn(g) == ToSet(Groups[g])
Planned    == UNION {NodesIn(g) : g \in DOMAIN Groups}
Siblings(n) == {m \in Nodes : JobOf[m] = JobOf[n]}

ContainsAlways(n) == If[JobOf[n]] \in {"always", "always_needs"}

\* A node is in one group, with its siblings and after everything it depends
\* on; a node that depends on a dropped one was kept for its always(), and one
\* whose condition is false was dropped.
PlanIsOrdered ==
    /\ \A g \in DOMAIN Groups : IsInjective(Groups[g])
    /\ \A g, h \in DOMAIN Groups : g # h => NodesIn(g) \cap NodesIn(h) = {}
    /\ Planned \cap Skipped = {}
    /\ \A g \in DOMAIN Groups : \A n \in NodesIn(g) :
          /\ Siblings(n) \cap Planned \subseteq NodesIn(g)
          /\ \A d \in DependsOn[n] \cap Planned : \E h \in 1..(g - 1) : d \in NodesIn(h)
          /\ DependsOn[n] \cap Skipped # {} => ContainsAlways(n)
          /\ If[JobOf[n]] # "false"
=============================================================================
