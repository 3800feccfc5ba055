--------------------------- MODULE PlannerProofs ---------------------------
(***************************************************************************)
(* That planning does what it is for, for every workflow: Validate finds   *)
(* exactly the cycles, Kahn's sort respects dependencies and comes to an   *)
(* end with all nodes, and the plan is the one JobPlan defines and one     *)
(* WorkflowRun may rely on.                                                *)
(***************************************************************************)
EXTENDS Planner, Foundations, SequenceTheorems, FiniteSetTheorems, TLAPS

Phases == {"build", "validate", "sort", "levels", "plan", "done", "rejected", "filtered", "no match"}
Sorting == {"sort", "levels", "plan", "done", "filtered", "no match"}
Leveled == {"plan", "done", "filtered", "no match"}

\* The nodes of a job have the same dependencies.
Wired == \A m, n \in Nodes : JobOf[m] = JobOf[n] => deps[m] = deps[n]

Visited == {n \in Nodes : color[n] = "visited"}

NodeAt(i) == stack[i].node

\* The dependencies a call of dfs is done with; the last one of a call that
\* waits is the node of the next call.
DoneDeps(i) == {Sorted(deps[NodeAt(i)])[k] : k \in 1..(stack[i].next - 1)}

StackInv ==
    /\ stack \in Seq([node : Nodes, next : Nat \ {0}])
    /\ \A i, j \in DOMAIN stack : NodeAt(i) = NodeAt(j) => i = j
    /\ \A i \in DOMAIN stack :
          /\ stack[i].next <= Cardinality(deps[NodeAt(i)]) + 1
          /\ IF i = Len(stack)
             THEN DoneDeps(i) \subseteq Visited
             ELSE /\ NodeAt(i + 1) \in deps[NodeAt(i)]
                  /\ DoneDeps(i) \subseteq Visited \cup {NodeAt(i + 1)}
    /\ phase = "build" => stack = <<>> /\ Visited = {} /\ cycle = <<>>
    /\ phase \in Sorting => stack = <<>> /\ Visited = Nodes

\* What has been visited needs nothing else, and has no cycles.
VisitedInv ==
    /\ \A n \in Visited : deps[n] \subseteq Visited
    /\ \A S \in (SUBSET Visited) \ {{}} : \E n \in S : deps[n] \cap S = {}

Ready == {n \in Nodes \ ToSet(sorted) : deps[n] \subseteq ToSet(sorted)}

KahnInv ==
    /\ sorted \in Seq(Nodes)
    /\ queue \in Seq(Nodes) /\ IsInjective(queue)
    /\ phase \in {"build", "validate"} => sorted = <<>> /\ queue = <<>>
    /\ phase = "sort" => /\ \A n \in Nodes : inDegree[n] = Cardinality(deps[n] \ ToSet(sorted))
                         /\ ToSet(queue) = Ready
    /\ phase \in {"levels"} \cup Leveled => ToSet(sorted) = Nodes

CursorInv ==
    /\ cursor \in [group : Nat \ {0}, index : Nat \ {0}]
    /\ phase \in {"build", "validate", "sort", "levels"} =>
          plan = <<>> /\ skippedNodes = {} /\ cursor.group = 1
    /\ phase \in {"build", "validate", "sort"} => cursor.index = 1

LevelInv ==
    /\ phase = "levels" =>
          /\ cursor.index <= Len(sorted) + 1
          /\ \A k \in 1..(cursor.index - 1) : levels[sorted[k]] = LevelAfter(sorted[k], levels)
    /\ phase \in Leveled => \A n \in Nodes : levels[n] = LevelAfter(n, levels)

GroupsInv ==
    phase = "plan" =>
        /\ groups \in Seq(Seq(Nodes))
        /\ \A n \in Nodes : levels[n] < Len(groups)
        /\ \A g \in DOMAIN groups : groups[g] = Sorted({n \in Nodes : levels[n] = g - 1})
        /\ cursor.group <= Len(groups) + 1
        /\ cursor.group <= Len(groups) => cursor.index <= Len(groups[cursor.group]) + 1
        /\ cursor.group = Len(groups) + 1 => cursor.index = 1

PlanNodes == UNION {ToSet(plan[i]) : i \in DOMAIN plan}

\* A group of the plan is of one level, later ones are of higher levels.
LevelsApart ==
    \A i, j \in DOMAIN plan : \A m \in ToSet(plan[i]), n \in ToSet(plan[j]) :
        /\ i = j => levels[m] = levels[n]
        /\ i < j => levels[m] < levels[n]

PlanInv ==
    phase \in Leveled =>
        /\ plan \in Seq(Seq(Nodes))
        /\ \A i \in DOMAIN plan : IsInjective(plan[i])
        /\ LevelsApart
        /\ \A n \in PlanNodes : /\ n \notin skippedNodes
                                /\ deps[n] \cap skippedNodes # {} => ContainsAlways(n)
                                /\ cond[JobOf[n]] # "false"

\* The nodes Plan has looked at.
Passed ==
    {n \in Nodes : levels[n] < cursor.group - 1} \cup
    (IF cursor.group <= Len(groups)
     THEN {groups[cursor.group][k] : k \in 1..(cursor.index - 1)} ELSE {})

\* Plan has decided about those nodes and no others, one level after another.
DecidedInv ==
    /\ phase = "plan" => /\ plan # <<>>
                         /\ PlanNodes = Passed \ skippedNodes
                         /\ skippedNodes = {n \in Passed : Drops(n)}
                         /\ \A n \in ToSet(plan[Len(plan)]) : levels[n] = cursor.group - 1
                         /\ \A i \in 1..(Len(plan) - 1) :
                               plan[i] # <<>> /\ \A n \in ToSet(plan[i]) : levels[n] < cursor.group - 1
    /\ phase = "done" => /\ PlanNodes = Nodes \ skippedNodes
                         /\ skippedNodes = {n \in Nodes : Drops(n)}
                         /\ \A i \in DOMAIN plan : plan[i] # <<>>

\* The nodes of a group are sorted.
GroupsSorted ==
    phase \in {"plan", "done"} =>
        \A i \in DOMAIN plan : \A k, l \in DOMAIN plan[i] :
            k < l => \E p, q \in DOMAIN NodeOrder :
                        p < q /\ NodeOrder[p] = plan[i][k] /\ NodeOrder[q] = plan[i][l]

IInv ==
    /\ PlannerInv /\ Wired /\ StackInv /\ VisitedInv /\ KahnInv
    /\ CursorInv /\ LevelInv /\ GroupsInv /\ PlanInv /\ DecidedInv /\ GroupsSorted
-----------------------------------------------------------------------------
(* Subsequences.                                                           *)

\* Only keeps what is in a set, and where s goes up the result does.
LEMMA OnlyKeeps ==
    ASSUME NEW S, NEW s \in Seq(S), NEW R
    PROVE  /\ Only(s, R) \in Seq(S)
           /\ ToSet(Only(s, R)) = ToSet(s) \cap R
           /\ IsInjective(s) => IsInjective(Only(s, R))
           /\ \A k, l \in DOMAIN Only(s, R) : k < l =>
                 \E p, q \in DOMAIN s : p < q /\ s[p] = Only(s, R)[k] /\ s[q] = Only(s, R)[l]
<1> DEFINE T == {i \in DOMAIN s : s[i] \in R}
<1>1. T \in SUBSET (DOMAIN s) /\ Only(s, R) = At(s, T)
  BY DEF Only
<1> HIDE DEF T
<1>2. /\ At(s, T) \in Seq(S)
      /\ ToSet(At(s, T)) = {s[i] : i \in T}
      /\ \A k \in DOMAIN At(s, T) : Nth(T, k) \in T /\ At(s, T)[k] = s[Nth(T, k)]
      /\ \A k, l \in DOMAIN At(s, T) : k < l => Nth(T, k) < Nth(T, l)
      /\ IsInjective(s) => IsInjective(At(s, T))
  BY <1>1, AtKeeps
<1>3. {s[i] : i \in T} = ToSet(s) \cap R
  BY DEF T, ToSet
<1>4. ASSUME NEW k \in DOMAIN At(s, T), NEW l \in DOMAIN At(s, T), k < l
      PROVE  \E p, q \in DOMAIN s : p < q /\ s[p] = At(s, T)[k] /\ s[q] = At(s, T)[l]
  <2>1. Nth(T, k) \in DOMAIN s /\ Nth(T, l) \in DOMAIN s
    BY <1>1, <1>2
  <2>2. Nth(T, k) < Nth(T, l)
    BY <1>2, <1>4
  <2> QED
    BY <2>1, <2>2, <1>2
<1> QED
  BY <1>1, <1>2, <1>3, <1>4

\* A sequence without repetitions is as long as the set of its elements.
LEMMA InjectiveLength ==
    ASSUME NEW S, NEW s \in Seq(S), IsInjective(s)
    PROVE  IsFiniteSet(ToSet(s)) /\ Len(s) = Cardinality(ToSet(s))
<1>1. s \in [1..Len(s) -> S] /\ Len(s) \in Nat /\ DOMAIN s = 1..Len(s)
  BY LenProperties
<1>2. ToSet(s) = {s[i] : i \in 1..Len(s)}
  BY <1>1 DEF ToSet
<1>3. s \in [1..Len(s) -> ToSet(s)] /\ \A x \in ToSet(s) : \E i \in 1..Len(s) : s[i] = x
  BY <1>1, <1>2
<1>4. s \in Surjection(1..Len(s), ToSet(s)) /\ s \in Injection(1..Len(s), ToSet(s))
  BY <1>3 DEF Surjection, Injection
<1>5. IsFiniteSet(1..Len(s)) /\ Cardinality(1..Len(s)) = Len(s)
  <2>1. \A n \in Nat : /\ IsFiniteSet(1..n)
                       /\ Cardinality(1..n) = IF 1 > n THEN 0 ELSE n - 1 + 1
    BY FS_Interval
  <2> QED
    BY <1>1, <2>1
<1> QED
  BY <1>4, <1>5, FS_Surjection

\* There are finitely many nodes.
LEMMA FiniteNodes == IsFiniteSet(Nodes) /\ \A S \in SUBSET Nodes : IsFiniteSet(S) /\ Cardinality(S) \in Nat
<1>1. IsFiniteSet(Nodes)
  BY InjectiveLength, PlannerAssumption DEF Nodes
<1> QED
  BY <1>1, FS_Subset, FS_CardinalityType

\* Sorted gives each node of a set once, in the order of the nodes.
LEMMA SortedNodes ==
    ASSUME NEW S \in SUBSET Nodes
    PROVE  /\ Sorted(S) \in Seq(Nodes) /\ IsInjective(Sorted(S))
           /\ ToSet(Sorted(S)) = S
           /\ Len(Sorted(S)) = Cardinality(S) /\ DOMAIN Sorted(S) = 1..Cardinality(S)
           /\ S = {Sorted(S)[k] : k \in 1..Cardinality(S)}
           /\ \A k, l \in DOMAIN Sorted(S) : k < l =>
                 \E p, q \in DOMAIN NodeOrder :
                    p < q /\ NodeOrder[p] = Sorted(S)[k] /\ NodeOrder[q] = Sorted(S)[l]
<1>1. /\ Sorted(S) \in Seq(Nodes) /\ IsInjective(Sorted(S))
      /\ ToSet(Sorted(S)) = ToSet(NodeOrder) \cap S
      /\ \A k, l \in DOMAIN Sorted(S) : k < l =>
            \E p, q \in DOMAIN NodeOrder :
               p < q /\ NodeOrder[p] = Sorted(S)[k] /\ NodeOrder[q] = Sorted(S)[l]
  BY PlannerAssumption, OnlyKeeps DEF Sorted
<1>2. ToSet(Sorted(S)) = S
  BY <1>1 DEF Nodes
<1>3. Len(Sorted(S)) = Cardinality(S)
  BY <1>1, <1>2, InjectiveLength
<1>4. DOMAIN Sorted(S) = 1..Cardinality(S)
  BY <1>1, <1>3, LenProperties
<1>5. S = {Sorted(S)[k] : k \in 1..Cardinality(S)}
  BY <1>2, <1>4 DEF ToSet
<1> QED
  BY <1>1, <1>2, <1>3, <1>4, <1>5

-----------------------------------------------------------------------------
(* Initially.                                                              *)

LEMMA InitIInv == Init => IInv
<1> SUFFICES ASSUME Init
             PROVE  IInv
  OBVIOUS
<1>1. /\ stack = <<>> /\ cycle = <<>> /\ queue = <<>> /\ sorted = <<>> /\ groups = <<>> /\ plan = <<>>
      /\ phase = "build" /\ deps = [n \in Nodes |-> {}] /\ color = [n \in Nodes |-> "unvisited"]
      /\ inDegree = [n \in Nodes |-> 0] /\ levels = [n \in Nodes |-> 0]
      /\ skippedNodes = {} /\ cursor = [group |-> 1, index |-> 1]
  BY DEF Init
<1>2. DOMAIN <<>> = {} /\ \A S : <<>> \in Seq(S)
  OBVIOUS
<1>3. ToSet(<<>>) = {} /\ IsInjective(<<>>)
  BY <1>2 DEF ToSet, IsInjective
<1>4. Visited = {}
  BY <1>1 DEF Visited
<1>5. ToSet(Path) = {}
  BY <1>1, <1>2 DEF ToSet, Path
<1>6. TypeOK
  BY <1>1, <1>3, <1>5 DEF TypeOK
<1>7. PlannerInv
  BY <1>1, <1>2, <1>6 DEF PlannerInv, CycleIsReal, AcceptsAcyclic, SortedAfterDependencies
<1>8. StackInv /\ VisitedInv
  BY <1>1, <1>2, <1>4 DEF StackInv, VisitedInv, Sorting
<1>9. KahnInv /\ CursorInv
  BY <1>1, <1>2, <1>3 DEF KahnInv, CursorInv, Leveled
<1> QED
  BY <1>1, <1>7, <1>8, <1>9 DEF IInv, Wired, LevelInv, GroupsInv, PlanInv, DecidedInv, GroupsSorted, Leveled

-----------------------------------------------------------------------------
(* Build and Validate.                                                     *)

\* The conjuncts about later phases are not concerned by the first two.
LEMMA SearchLeavesRest ==
    ASSUME IInv, phase \in {"build", "validate"}, phase' \in {"validate", "rejected"},
           UNCHANGED <<workflowVars, kahnVars, levels, groups, planVars>>
    PROVE  KahnInv' /\ CursorInv' /\ LevelInv' /\ GroupsInv' /\ PlanInv' /\ DecidedInv' /\ GroupsSorted'
           /\ SortedAfterDependencies'
<1>1. sorted = <<>> /\ queue = <<>> /\ sorted' = <<>> /\ queue' = <<>> /\ UNCHANGED <<cursor, skippedNodes, plan>>
  BY DEF IInv, KahnInv, kahnVars, planVars
<1>2. KahnInv'
  BY <1>1 DEF IInv, KahnInv, Leveled
<1>3. CursorInv'
  BY <1>1 DEF IInv, CursorInv
<1>4. SortedAfterDependencies'
  BY <1>1 DEF SortedAfterDependencies
<1> QED
  BY <1>2, <1>3, <1>4 DEF LevelInv, GroupsInv, PlanInv, DecidedInv, GroupsSorted, Leveled

\* What TypeOK says of the variables of Validate, and of the others.
LEMMA SearchTypes ==
    ASSUME IInv
    PROVE  /\ deps \in [Nodes -> SUBSET Nodes]
           /\ color \in [Nodes -> {"unvisited", "visiting", "visited"}]
           /\ \A i \in DOMAIN stack : /\ stack[i] \in [node : Nodes, next : Nat \ {0}]
                                      /\ NodeAt(i) \in Nodes /\ color[NodeAt(i)] = "visiting"
           /\ \A n \in Nodes : color[n] = "visiting" => \E i \in DOMAIN stack : NodeAt(i) = n
           /\ DOMAIN stack = 1..Len(stack) /\ Len(stack) \in Nat
<1>1. TypeOK /\ stack \in Seq([node : Nodes, next : Nat \ {0}])
  BY DEF IInv, PlannerInv, StackInv
<1>2. DOMAIN stack = 1..Len(stack) /\ Len(stack) \in Nat
      /\ \A i \in DOMAIN stack : stack[i] \in [node : Nodes, next : Nat \ {0}]
  <2> DEFINE Calls == [node : Nodes, next : Nat \ {0}]
  <2> HIDE DEF Calls
  <2>1. stack \in Seq(Calls)
    BY <1>1 DEF Calls
  <2>2. DOMAIN stack = 1..Len(stack) /\ Len(stack) \in Nat /\ \A i \in DOMAIN stack : stack[i] \in Calls
    BY <2>1, LenProperties, ElementOfSeq
  <2> QED
    BY <2>2 DEF Calls
<1>3. ToSet(Path) = {NodeAt(i) : i \in DOMAIN stack}
  BY DEF ToSet, Path, NodeAt
<1>4. \A n \in Nodes : color[n] = "visiting" <=> \E i \in DOMAIN stack : NodeAt(i) = n
  BY <1>1, <1>3 DEF TypeOK
<1>5. \A i \in DOMAIN stack : NodeAt(i) \in Nodes
  BY <1>2 DEF NodeAt
<1> QED
  BY <1>1, <1>2, <1>4, <1>5 DEF TypeOK

LEMMA SearchTyped ==
    ASSUME IInv, phase' \in {"validate", "rejected"}, deps' \in [Nodes -> SUBSET Nodes],
           color' \in [Nodes -> {"unvisited", "visiting", "visited"}],
           {NodeAt(i)' : i \in DOMAIN stack'} = {n \in Nodes : color'[n] = "visiting"},
           UNCHANGED <<kahnVars, levels, skippedNodes>>
    PROVE  TypeOK'
<1>1. ToSet(Path)' = {NodeAt(i)' : i \in DOMAIN stack'}
  BY DEF ToSet, Path, NodeAt
<1> QED
  BY <1>1 DEF TypeOK, IInv, PlannerInv, kahnVars

\* The nodes of a job get the same dependencies, and no search has begun.
LEMMA BuildStep ==
    ASSUME IInv, Build
    PROVE  IInv'
<1>1. /\ phase = "build" /\ phase' \in {"validate", "rejected"}
      /\ UNCHANGED <<workflowVars, dfsVars, kahnVars, levels, groups, planVars>>
      /\ phase' = "rejected" => \E j \in Jobs : Unknown \in needs[j]
      /\ \/ UNCHANGED deps
         \/ deps' = [n \in Nodes |-> {m \in Nodes : JobOf[m] \in needs[JobOf[n]]}]
  BY DEF Build
<1>2. stack = <<>> /\ stack' = <<>> /\ Visited = {} /\ Visited' = {} /\ cycle = <<>> /\ cycle' = <<>> /\ color' = color
  BY <1>1 DEF IInv, StackInv, dfsVars, Visited
<1>3. KahnInv' /\ CursorInv' /\ LevelInv' /\ GroupsInv' /\ PlanInv' /\ DecidedInv' /\ GroupsSorted'
      /\ SortedAfterDependencies'
  BY <1>1, SearchLeavesRest
<1>4. deps' \in [Nodes -> SUBSET Nodes] /\ Wired'
  <2>1. CASE UNCHANGED deps
    BY <2>1 DEF IInv, Wired, PlannerInv, TypeOK
  <2>2. CASE deps' = [n \in Nodes |-> {m \in Nodes : JobOf[m] \in needs[JobOf[n]]}]
    BY <2>2 DEF Wired
  <2> QED
    BY <1>1, <2>1, <2>2
<1>5. DOMAIN <<>> = {} /\ \A S : <<>> \in Seq(S)
  OBVIOUS
<1>6. TypeOK'
  <2>1. \A n \in Nodes : color'[n] # "visiting"
    BY <1>2, <1>5, SearchTypes
  <2>2. color' \in [Nodes -> {"unvisited", "visiting", "visited"}]
    BY <1>2, SearchTypes
  <2>3. {NodeAt(i)' : i \in DOMAIN stack'} = {n \in Nodes : color'[n] = "visiting"}
    BY <2>1, <1>2, <1>5
  <2> QED
    BY <1>1, <1>4, <2>2, <2>3, SearchTyped DEF planVars
<1>7. CycleIsReal' /\ AcceptsAcyclic'
  BY <1>1, <1>2 DEF CycleIsReal, AcceptsAcyclic, workflowVars
<1>8. StackInv' /\ VisitedInv'
  BY <1>1, <1>2, <1>5 DEF StackInv, VisitedInv, Sorting
<1> QED
  BY <1>3, <1>4, <1>6, <1>7, <1>8 DEF IInv, PlannerInv

\* The call of dfs that is under way, and the dependency it looks at.
LEMMA TopCall ==
    ASSUME IInv, stack # <<>>, NEW L, L = Len(stack), NEW n, n = NodeAt(L)
    PROVE  /\ L \in DOMAIN stack /\ L \in Nat \ {0} /\ Last(stack) = stack[L]
           /\ n \in Nodes /\ n = stack[L].node /\ stack[L].next \in Nat \ {0}
           /\ Cardinality(deps[n]) \in Nat /\ stack[L].next <= Cardinality(deps[n]) + 1
           /\ HasDep <=> stack[L].next <= Cardinality(deps[n])
           /\ Dep = Sorted(deps[n])[stack[L].next]
           /\ HasDep => Dep \in deps[n] /\ Dep \in Nodes
           /\ DoneDeps(L) \subseteq Visited
           /\ deps[n] \subseteq Nodes
           /\ deps[n] = {Sorted(deps[n])[k] : k \in 1..Cardinality(deps[n])}
<1>1. L \in DOMAIN stack /\ L \in Nat \ {0} /\ Last(stack) = stack[L]
  BY SearchTypes, EmptySeq DEF Last, IInv, StackInv
<1>2. n \in Nodes /\ n = stack[L].node /\ stack[L].next \in Nat \ {0} /\ deps[n] \subseteq Nodes
  BY <1>1, SearchTypes DEF NodeAt
<1>3. Cardinality(deps[n]) \in Nat /\ deps[n] = {Sorted(deps[n])[k] : k \in 1..Cardinality(deps[n])}
  <2>1. deps[n] \in SUBSET Nodes
    BY <1>2
  <2> QED
    BY <2>1, FiniteNodes, SortedNodes
<1>4. stack[L].next <= Cardinality(deps[n]) + 1 /\ DoneDeps(L) \subseteq Visited
  BY <1>1 DEF IInv, StackInv
<1>5. HasDep <=> stack[L].next <= Cardinality(deps[n])
  BY <1>1, <1>2 DEF HasDep
<1>6. Dep = Sorted(deps[n])[stack[L].next]
  BY <1>1, <1>2 DEF Dep
<1>7. HasDep => Dep \in deps[n]
  <2>1. HasDep => stack[L].next \in 1..Cardinality(deps[n])
    BY <1>2, <1>3, <1>5
  <2> QED
    BY <2>1, <1>3, <1>6
<1> QED
  BY <1>1, <1>2, <1>3, <1>4, <1>5, <1>6, <1>7

\* A step of Validate leaves the graph and the later phases alone.
LEMMA SearchFrame ==
    ASSUME StartSearch \/ VisitDependency \/ PassVisited \/ FindCycle \/ LeaveNode
    PROVE  /\ phase = "validate" /\ phase' \in {"validate", "rejected"}
           /\ UNCHANGED <<workflowVars, deps, kahnVars, levels, groups, planVars>>
BY DEF StartSearch, VisitDependency, PassVisited, FindCycle, LeaveNode

\* What is left to show of such a step.
LEMMA SearchStep ==
    ASSUME IInv, StartSearch \/ VisitDependency \/ PassVisited \/ FindCycle \/ LeaveNode,
           color' \in [Nodes -> {"unvisited", "visiting", "visited"}],
           {NodeAt(i)' : i \in DOMAIN stack'} = {n \in Nodes : color'[n] = "visiting"},
           CycleIsReal', phase' = "rejected" => cycle' # <<>>,
           StackInv', VisitedInv'
    PROVE  IInv'
<1>1. /\ phase = "validate" /\ phase' \in {"validate", "rejected"}
      /\ UNCHANGED <<workflowVars, deps, kahnVars, levels, groups, planVars>>
  BY SearchFrame
<1>2. KahnInv' /\ CursorInv' /\ LevelInv' /\ GroupsInv' /\ PlanInv' /\ DecidedInv' /\ GroupsSorted'
      /\ SortedAfterDependencies'
  BY <1>1, SearchLeavesRest
<1>3. deps' = deps /\ deps \in [Nodes -> SUBSET Nodes]
  BY <1>1, SearchTypes
<1>4. TypeOK'
  BY <1>1, <1>3, SearchTyped DEF planVars
<1>5. Wired'
  BY <1>3 DEF IInv, Wired
<1>6. AcceptsAcyclic'
  BY <1>1 DEF AcceptsAcyclic
<1> QED
  BY <1>2, <1>4, <1>5, <1>6 DEF IInv, PlannerInv

\* A search begins at a node that has not been visited.
LEMMA StartSearchStep ==
    ASSUME IInv, StartSearch
    PROVE  IInv'
<1>1. PICK n : n = Head(Sorted(Unvisited)) /\ stack' = <<Call(n)>> /\ color' = Entered(n)
               /\ stack = <<>> /\ Unvisited # {} /\ UNCHANGED <<deps, cycle>> /\ phase' = "validate"
  BY DEF StartSearch
<1>2. n \in Nodes /\ color[n] = "unvisited"
  <2>1. Unvisited \in SUBSET Nodes /\ \A m \in Unvisited : color[m] = "unvisited"
    BY DEF Unvisited
  <2>2. Sorted(Unvisited) \in Seq(Nodes) /\ ToSet(Sorted(Unvisited)) = Unvisited
    BY <2>1, SortedNodes
  <2>3. Sorted(Unvisited) # <<>>
    BY <1>1, <2>2 DEF ToSet
  <2>4. n = Sorted(Unvisited)[1] /\ 1 \in DOMAIN Sorted(Unvisited)
    BY <1>1, <2>2, <2>3, LenProperties, EmptySeq
  <2> QED
    BY <2>1, <2>2, <2>4 DEF ToSet
<1>3. /\ color \in [Nodes -> {"unvisited", "visiting", "visited"}]
      /\ color' = [color EXCEPT ![n] = "visiting"]
  BY <1>1, SearchTypes DEF Entered
<1>4. \A m \in Nodes : color[m] # "visiting"
  BY <1>1, SearchTypes
<1>5. stack' = <<[node |-> n, next |-> 1]>> /\ DOMAIN stack' = {1} /\ Len(stack') = 1
      /\ stack'[1] = [node |-> n, next |-> 1]
  BY <1>1 DEF Call
<1>6. color' \in [Nodes -> {"unvisited", "visiting", "visited"}]
      /\ \A m \in Nodes : color'[m] = "visiting" <=> m = n
  BY <1>2, <1>3, <1>4
<1>7. {NodeAt(i)' : i \in DOMAIN stack'} = {m \in Nodes : color'[m] = "visiting"}
  BY <1>2, <1>5, <1>6 DEF NodeAt
<1>8. Visited' = Visited
  BY <1>2, <1>3 DEF Visited
<1>9. VisitedInv'
  BY <1>1, <1>8 DEF IInv, VisitedInv
<1>10. CycleIsReal'
  BY <1>1 DEF IInv, PlannerInv, CycleIsReal
<1>11. StackInv'
  <2>1. Cardinality(deps[n]) \in Nat
    BY <1>2, SearchTypes, FiniteNodes
  <2>2. stack' \in Seq([node : Nodes, next : Nat \ {0}])
    BY <1>2, <1>5
  <2>3. NodeAt(1)' = n /\ DoneDeps(1)' = {}
    BY <1>5 DEF NodeAt, DoneDeps
  <2> QED
    BY <1>1, <1>5, <2>1, <2>2, <2>3 DEF StackInv, Sorting
<1> QED
  BY <1>1, <1>6, <1>7, <1>9, <1>10, <1>11, SearchStep

\* Advanced moves the last call to its next dependency.
LEMMA AdvancedStack ==
    ASSUME IInv, stack # <<>>, NEW L, L = Len(stack)
    PROVE  /\ Advanced \in Seq([node : Nodes, next : Nat \ {0}])
           /\ Len(Advanced) = L
           /\ \A i \in DOMAIN stack : Advanced[i].node = NodeAt(i)
           /\ \A i \in DOMAIN stack : i # L => Advanced[i] = stack[i]
           /\ Advanced[L].next = stack[L].next + 1
<1> DEFINE Calls == [node : Nodes, next : Nat \ {0}]
           e == [stack[L] EXCEPT !.next = @ + 1]
<1>1. stack \in Seq(Calls) /\ L \in 1..Len(stack) /\ DOMAIN stack = 1..Len(stack) /\ stack[L] \in Calls
  BY TopCall, SearchTypes DEF IInv, StackInv
<1>2. e \in Calls /\ e.node = stack[L].node /\ e.next = stack[L].next + 1
  BY <1>1
<1>3. Advanced = [stack EXCEPT ![L] = e]
  BY DEF Advanced
<1> HIDE DEF Calls, e
<1>4. /\ Advanced \in Seq(Calls) /\ Len(Advanced) = Len(stack)
      /\ \A j \in 1..Len(stack) : Advanced[j] = IF j = L THEN e ELSE stack[j]
  BY <1>1, <1>2, <1>3, ExceptSeq
<1> QED
  BY <1>1, <1>2, <1>4 DEF NodeAt, Calls

\* The dependencies of an advanced call are those before and the one it looked at.
LEMMA AdvancedDone ==
    ASSUME IInv, stack # <<>>, HasDep, NEW L, L = Len(stack),
           deps' = deps, stack'[L].node = NodeAt(L), stack'[L].next = stack[L].next + 1
    PROVE  DoneDeps(L)' = DoneDeps(L) \cup {Dep}
<1>1. stack[L].next \in Nat \ {0} /\ Dep = Sorted(deps[NodeAt(L)])[stack[L].next]
  BY TopCall
<1>2. 1..(stack'[L].next - 1) = (1..(stack[L].next - 1)) \cup {stack[L].next}
  BY <1>1
<1>3. DoneDeps(L)' = {Sorted(deps[NodeAt(L)])[k] : k \in 1..(stack'[L].next - 1)}
  BY DEF DoneDeps, NodeAt
<1>4. PICK a, b : a = stack[L].next /\ b = stack'[L].next
  OBVIOUS
<1>5. DoneDeps(L)' = {Sorted(deps[NodeAt(L)])[k] : k \in (1..(a - 1)) \cup {a}}
  BY <1>2, <1>3, <1>4
<1>6. DoneDeps(L) = {Sorted(deps[NodeAt(L)])[k] : k \in 1..(a - 1)}
  BY <1>4 DEF DoneDeps
<1>7. Dep = Sorted(deps[NodeAt(L)])[a]
  BY <1>1, <1>4
<1> QED
  BY <1>5, <1>6, <1>7

\* The call for a dependency goes on top of the stack.
LEMMA VisitDependencyStep ==
    ASSUME IInv, VisitDependency
    PROVE  IInv'
<1>0. PICK L, n, d : L = Len(stack) /\ n = NodeAt(L) /\ d = Dep
  OBVIOUS
<1>1. /\ stack # <<>> /\ HasDep /\ color[d] = "unvisited" /\ stack' = Append(Advanced, Call(d))
      /\ color' = [color EXCEPT ![d] = "visiting"] /\ UNCHANGED <<phase, deps, cycle>> /\ phase = "validate"
  BY <1>0 DEF VisitDependency, Entered
<1>2. /\ L \in DOMAIN stack /\ L \in Nat \ {0} /\ d \in deps[n] /\ d \in Nodes /\ n \in Nodes
      /\ stack[L].next <= Cardinality(deps[n]) /\ stack[L].next \in Nat /\ DoneDeps(L) \subseteq Visited
  BY <1>0, <1>1, TopCall
<1>3. /\ color \in [Nodes -> {"unvisited", "visiting", "visited"}]
      /\ DOMAIN stack = 1..L
      /\ \A i \in 1..L : NodeAt(i) \in Nodes /\ color[NodeAt(i)] = "visiting"
      /\ \A m \in Nodes : color[m] = "visiting" => \E i \in 1..L : NodeAt(i) = m
  BY <1>0, SearchTypes
<1>4. /\ stack' \in Seq([node : Nodes, next : Nat \ {0}])
      /\ Len(stack') = L + 1 /\ DOMAIN stack' = 1..(L + 1)
      /\ \A i \in 1..L : stack'[i] = Advanced[i]
      /\ stack'[L + 1] = [node |-> d, next |-> 1]
  <2> DEFINE Calls == [node : Nodes, next : Nat \ {0}]
  <2>1. Call(d) = [node |-> d, next |-> 1] /\ Call(d) \in Calls
    BY <1>2 DEF Call
  <2> HIDE DEF Calls
  <2>2. Advanced \in Seq(Calls) /\ Len(Advanced) = L
    BY <1>0, <1>1, AdvancedStack DEF Calls
  <2>3. /\ Append(Advanced, Call(d)) \in Seq(Calls)
        /\ Len(Append(Advanced, Call(d))) = L + 1
        /\ \A i \in 1..L : Append(Advanced, Call(d))[i] = Advanced[i]
        /\ Append(Advanced, Call(d))[L + 1] = Call(d)
    BY <2>1, <2>2, AppendProperties
  <2>4. DOMAIN Append(Advanced, Call(d)) = 1..(L + 1)
    BY <2>3, LenProperties
  <2> QED
    BY <1>1, <2>1, <2>3, <2>4 DEF Calls
<1>5. /\ \A i \in 1..L : NodeAt(i)' = NodeAt(i)
      /\ \A i \in 1..L : i # L => stack'[i] = stack[i]
      /\ stack'[L].next = stack[L].next + 1
      /\ NodeAt(L + 1)' = d
  <2>1. /\ \A i \in 1..L : Advanced[i].node = NodeAt(i)
        /\ \A i \in 1..L : i # L => Advanced[i] = stack[i]
        /\ Advanced[L].next = stack[L].next + 1
    BY <1>0, <1>1, <1>3, AdvancedStack
  <2>2. L \in 1..L
    BY <1>2
  <2>3. \A i \in 1..L : NodeAt(i)' = NodeAt(i)
    BY <2>1, <1>4 DEF NodeAt
  <2>4. NodeAt(L + 1)' = d
    BY <1>4 DEF NodeAt
  <2> QED
    BY <2>1, <2>2, <2>3, <2>4, <1>4
<1>6. Visited' = Visited
  BY <1>1, <1>2, <1>3 DEF Visited
<1>7. color' \in [Nodes -> {"unvisited", "visiting", "visited"}]
  BY <1>1, <1>3
<1>8. {NodeAt(i)' : i \in DOMAIN stack'} = {m \in Nodes : color'[m] = "visiting"}
  <2>1. \A m \in Nodes : color'[m] = "visiting" <=> m = d \/ color[m] = "visiting"
    BY <1>1, <1>2, <1>3
  <2>2. 1..(L + 1) = (1..L) \cup {L + 1}
    BY <1>2
  <2>3. {NodeAt(i)' : i \in DOMAIN stack'} = {NodeAt(i) : i \in 1..L} \cup {d}
    BY SMTT(30), <1>4, <1>5, <2>2
  <2> QED
    <3>1. {NodeAt(i) : i \in 1..L} = {m \in Nodes : color[m] = "visiting"}
      BY <1>3
    <3>2. {m \in Nodes : color'[m] = "visiting"} = {m \in Nodes : color[m] = "visiting"} \cup {d}
      BY <2>1, <1>2
    <3> QED
      BY <2>3, <3>1, <3>2
<1>9. VisitedInv' /\ CycleIsReal'
  BY <1>1, <1>6 DEF IInv, PlannerInv, CycleIsReal, VisitedInv
<1>10. StackInv'
  <2>1. ASSUME NEW i \in DOMAIN stack', NEW j \in DOMAIN stack', NodeAt(i)' = NodeAt(j)'
        PROVE  i = j
    <3>1. \A k \in 1..L : NodeAt(k) # d
      BY <1>1, <1>3
    <3>2. \A k, l \in 1..L : NodeAt(k) = NodeAt(l) => k = l
      BY <1>3 DEF IInv, StackInv
    <3> QED
      BY SMTT(30), <2>1, <3>1, <3>2, <1>2, <1>4, <1>5
  <2>2. ASSUME NEW i \in 1..L, i # L
        PROVE  /\ stack'[i].next <= Cardinality(deps'[NodeAt(i)']) + 1
               /\ NodeAt(i + 1)' \in deps'[NodeAt(i)']
               /\ DoneDeps(i)' \subseteq Visited' \cup {NodeAt(i + 1)'}
    <3>1. i + 1 \in 1..L /\ i \in DOMAIN stack /\ i # Len(stack)
      BY <2>2, <1>0, <1>2, <1>3
    <3>2. stack'[i] = stack[i] /\ NodeAt(i)' = NodeAt(i) /\ NodeAt(i + 1)' = NodeAt(i + 1)
      BY <3>1, <2>2, <1>5
    <3>3. /\ stack[i].next <= Cardinality(deps[NodeAt(i)]) + 1
          /\ NodeAt(i + 1) \in deps[NodeAt(i)]
          /\ DoneDeps(i) \subseteq Visited \cup {NodeAt(i + 1)}
      BY <3>1 DEF IInv, StackInv
    <3>4. DoneDeps(i)' = DoneDeps(i)
      BY <1>1, <3>2 DEF DoneDeps, NodeAt
    <3> QED
      BY <3>2, <3>3, <3>4, <1>1, <1>6
  <2>3. /\ stack'[L].next <= Cardinality(deps'[NodeAt(L)']) + 1
        /\ NodeAt(L + 1)' \in deps'[NodeAt(L)']
        /\ DoneDeps(L)' \subseteq Visited' \cup {NodeAt(L + 1)'}
    <3>1. NodeAt(L)' = n /\ deps' = deps /\ stack'[L].next = stack[L].next + 1 /\ NodeAt(L + 1)' = d
      <4>1. L \in 1..L
        BY <1>2
      <4> QED
        BY <4>1, <1>0, <1>1, <1>5
    <3>2. Cardinality(deps[n]) \in Nat
      BY <1>0, <1>1, TopCall
    <3>3. stack'[L].node = NodeAt(L)
      BY <3>1, <1>0 DEF NodeAt
    <3>4. DoneDeps(L)' = DoneDeps(L) \cup {d}
      BY <1>0, <1>1, <3>1, <3>3, AdvancedDone
    <3> QED
      BY <3>1, <3>2, <3>4, <1>2, <1>6
  <2>4. /\ stack'[L + 1].next <= Cardinality(deps'[NodeAt(L + 1)']) + 1
        /\ DoneDeps(L + 1)' = {}
    <3>1. Cardinality(deps[d]) \in Nat
      BY <1>2, SearchTypes, FiniteNodes
    <3>2. stack'[L + 1].next = 1 /\ NodeAt(L + 1)' = d
      BY <1>4, <1>5
    <3>3. 1..(stack'[L + 1].next - 1) = {}
      BY <3>2
    <3>4. DoneDeps(L + 1)' = {}
      BY <3>3 DEF DoneDeps
    <3> QED
      BY <3>1, <3>2, <3>4, <1>1
  <2>5. \A i \in DOMAIN stack' : i \in 1..L \/ i = L + 1
    BY <1>2, <1>4
  <2>6. \A i \in 1..L : i # L + 1
    BY <1>2
  <2>7. ASSUME NEW i \in DOMAIN stack'
        PROVE  /\ stack'[i].next <= Cardinality(deps'[NodeAt(i)']) + 1
               /\ IF i = Len(stack')
                  THEN DoneDeps(i)' \subseteq Visited'
                  ELSE /\ NodeAt(i + 1)' \in deps'[NodeAt(i)']
                       /\ DoneDeps(i)' \subseteq Visited' \cup {NodeAt(i + 1)'}
    <3>1. CASE i = L + 1
      BY <3>1, <2>4, <1>4
    <3>2. CASE i \in 1..L /\ i # L
      BY <3>2, <2>2, <2>6, <1>4
    <3>3. CASE i = L
      BY <3>3, <2>3, <2>6, <1>2, <1>4
    <3> QED
      BY <3>1, <3>2, <3>3, <2>5
  <2> QED
    BY <2>1, <2>7, <1>1, <1>4 DEF StackInv, Sorting
<1> QED
  BY <1>1, <1>7, <1>8, <1>9, <1>10, SearchStep

\* A dependency that has been visited is passed over.
LEMMA PassVisitedStep ==
    ASSUME IInv, PassVisited
    PROVE  IInv'
<1> DEFINE L == Len(stack)
           n == NodeAt(L)
           d == Dep
<1>1. /\ stack # <<>> /\ HasDep /\ color[d] = "visited" /\ stack' = Advanced
      /\ UNCHANGED <<phase, deps, color, cycle>> /\ phase = "validate"
  BY DEF PassVisited
<1>2. /\ L \in DOMAIN stack /\ L \in Nat \ {0} /\ d \in deps[n] /\ d \in Nodes /\ n \in Nodes
      /\ stack[L].next <= Cardinality(deps[n]) /\ stack[L].next \in Nat /\ DoneDeps(L) \subseteq Visited
      /\ Cardinality(deps[n]) \in Nat
  BY <1>1, TopCall
<1>3. DOMAIN stack = 1..L
  BY SearchTypes
<1>4. /\ stack' \in Seq([node : Nodes, next : Nat \ {0}])
      /\ Len(stack') = L /\ DOMAIN stack' = DOMAIN stack
      /\ \A i \in DOMAIN stack : NodeAt(i)' = NodeAt(i)
      /\ \A i \in DOMAIN stack : i # L => stack'[i] = stack[i]
      /\ stack'[L].next = stack[L].next + 1
  <2> DEFINE Calls == [node : Nodes, next : Nat \ {0}]
  <2>1. /\ Advanced \in Seq(Calls) /\ Len(Advanced) = L
        /\ \A i \in DOMAIN stack : Advanced[i].node = NodeAt(i)
        /\ \A i \in DOMAIN stack : i # L => Advanced[i] = stack[i]
        /\ Advanced[L].next = stack[L].next + 1
    BY <1>1, AdvancedStack
  <2> HIDE DEF Calls
  <2>2. DOMAIN Advanced = 1..L
    BY <2>1, LenProperties
  <2> QED
    BY <1>1, <1>3, <2>1, <2>2 DEF NodeAt, Calls
<1>5. Visited' = Visited
  BY <1>1 DEF Visited
<1>6. /\ color' \in [Nodes -> {"unvisited", "visiting", "visited"}]
      /\ {NodeAt(i)' : i \in DOMAIN stack'} = {m \in Nodes : color'[m] = "visiting"}
  <2>1. {NodeAt(i) : i \in DOMAIN stack} = {m \in Nodes : color[m] = "visiting"}
    BY SearchTypes
  <2> QED
    BY <2>1, <1>1, <1>4, SearchTypes
<1>7. VisitedInv' /\ CycleIsReal'
  BY <1>1, <1>5 DEF IInv, PlannerInv, CycleIsReal, VisitedInv
<1>8. ASSUME NEW i \in DOMAIN stack
      PROVE  /\ stack'[i].next <= Cardinality(deps'[NodeAt(i)']) + 1
             /\ IF i = L
                THEN DoneDeps(i)' \subseteq Visited'
                ELSE /\ NodeAt(i + 1)' \in deps'[NodeAt(i)']
                     /\ DoneDeps(i)' \subseteq Visited' \cup {NodeAt(i + 1)'}
  <2>1. CASE i = L
    <3>1. stack'[L].node = NodeAt(L)
      BY <1>2, <1>4 DEF NodeAt
    <3>2. DoneDeps(L)' = DoneDeps(L) \cup {d} /\ d \in Visited
      BY <1>1, <1>2, <1>4, <3>1, AdvancedDone DEF Visited
    <3> QED
      BY <2>1, <3>2, <1>1, <1>2, <1>4, <1>5
  <2>2. CASE i # L
    <3>1. i + 1 \in DOMAIN stack
      BY <2>2, <1>2, <1>3
    <3>2. stack'[i] = stack[i] /\ NodeAt(i)' = NodeAt(i) /\ NodeAt(i + 1)' = NodeAt(i + 1)
      BY <2>2, <3>1, <1>4
    <3>3. /\ stack[i].next <= Cardinality(deps[NodeAt(i)]) + 1
          /\ NodeAt(i + 1) \in deps[NodeAt(i)]
          /\ DoneDeps(i) \subseteq Visited \cup {NodeAt(i + 1)}
      BY <2>2 DEF IInv, StackInv
    <3>4. DoneDeps(i)' = DoneDeps(i)
      BY <1>1, <3>2 DEF DoneDeps, NodeAt
    <3> QED
      BY <2>2, <3>2, <3>3, <3>4, <1>1, <1>5
  <2> QED
    BY <2>1, <2>2
<1>9. StackInv'
  BY <1>1, <1>4, <1>8 DEF IInv, StackInv, Sorting
<1> QED
  BY <1>1, <1>6, <1>7, <1>9, SearchStep

\* A dependency that is being visited closes a cycle: the calls from its own on.
LEMMA FindCycleStep ==
    ASSUME IInv, FindCycle
    PROVE  IInv'
<1>0. PICK L, d : L = Len(stack) /\ d = Dep
  OBVIOUS
<1>1. /\ stack # <<>> /\ HasDep /\ color[d] = "visiting" /\ cycle' = CyclePath
      /\ UNCHANGED <<deps, color, stack>> /\ phase = "validate" /\ phase' = "rejected"
  BY <1>0 DEF FindCycle
<1>2. /\ L \in DOMAIN stack /\ L \in Nat \ {0} /\ d \in deps[NodeAt(L)] /\ d \in Nodes
  BY <1>0, <1>1, TopCall
<1>3. /\ DOMAIN stack = 1..L
      /\ \A i \in 1..L : NodeAt(i) \in Nodes
      /\ \E i \in 1..L : NodeAt(i) = d
  BY <1>0, <1>1, <1>2, SearchTypes
<1>4. DOMAIN Path = 1..L /\ \A i \in 1..L : Path[i] = NodeAt(i)
  BY <1>3 DEF Path, NodeAt
<1>5. Len(Path) = L
  <2>1. Path \in [1..L -> Nodes]
    BY <1>3, <1>4 DEF Path, NodeAt
  <2>2. Path \in Seq(Nodes)
    BY <2>1, <1>2, SeqDef
  <2> QED
    BY <2>2, <1>2, <1>4, LenProperties
<1>6. PICK start \in 1..L : NodeAt(start) = d /\ CyclePath = Append(SubSeq(Path, start, L), d)
  <2>1. \E i \in DOMAIN Path : Path[i] = d
    BY <1>3, <1>4
  <2>2. (CHOOSE i \in DOMAIN Path : Path[i] = d) \in DOMAIN Path
        /\ Path[CHOOSE i \in DOMAIN Path : Path[i] = d] = d
    BY <2>1
  <2> QED
    BY <2>2, <1>0, <1>4, <1>5 DEF CyclePath
<1>7. /\ Len(cycle') = L - start + 2
      /\ \A i \in 1..(L - start + 1) : cycle'[i] = NodeAt(start + i - 1)
      /\ cycle'[L - start + 2] = d
      /\ cycle' \in Seq(Nodes)
  <2>1. /\ SubSeq(Path, start, L) \in Seq(Nodes) /\ Len(SubSeq(Path, start, L)) = L - start + 1
        /\ \A i \in 1..(L - start + 1) : SubSeq(Path, start, L)[i] = Path[start + i - 1]
    <3>1. \A i \in start..L : Path[i] \in Nodes
      BY <1>2, <1>3, <1>4
    <3> QED
      BY <3>1, <1>2, SubSeqProperties
  <2>2. \A i \in 1..(L - start + 1) : Path[start + i - 1] = NodeAt(start + i - 1)
    BY <1>2, <1>4
  <2> HIDE <1>6
  <2>3. /\ Append(SubSeq(Path, start, L), d) \in Seq(Nodes)
        /\ Len(Append(SubSeq(Path, start, L), d)) = L - start + 2
        /\ \A i \in 1..(L - start + 1) : Append(SubSeq(Path, start, L), d)[i] = SubSeq(Path, start, L)[i]
        /\ Append(SubSeq(Path, start, L), d)[L - start + 2] = d
    BY <2>1, <1>2, AppendProperties
  <2> QED
    BY <1>1, <1>6, <2>1, <2>2, <2>3
<1>8. CycleIsReal'
  <2>1. Head(cycle') = cycle'[1] /\ Last(cycle') = d
    BY <1>2, <1>7, HeadTailProperties DEF Last
  <2>2. cycle'[1] = d
    BY <1>2, <1>6, <1>7
  <2>3. ASSUME NEW i \in 1..(Len(cycle') - 1)
        PROVE  cycle'[i + 1] \in deps[cycle'[i]]
    <3>1. i \in 1..(L - start + 1) /\ cycle'[i] = NodeAt(start + i - 1)
      BY <1>2, <1>7
    <3>2. CASE i = L - start + 1
      BY SMTT(30), <3>1, <3>2, <1>2, <1>7
    <3>3. CASE i # L - start + 1
      <4>1. i + 1 \in 1..(L - start + 1) /\ start + i - 1 \in 1..L /\ start + i - 1 # L
        BY <3>1, <3>3, <1>2
      <4>2. cycle'[i + 1] = NodeAt((start + i - 1) + 1)
        BY <4>1, <1>2, <1>7
      <4>3. NodeAt((start + i - 1) + 1) \in deps[NodeAt(start + i - 1)]
        BY <4>1, <1>0, <1>3 DEF IInv, StackInv
      <4> QED
        BY <3>1, <4>2, <4>3
    <3> QED
      BY <3>2, <3>3
  <2> QED
    BY <2>1, <2>2, <2>3, <1>1 DEF CycleIsReal
<1>9. cycle' # <<>>
  BY <1>2, <1>7, EmptySeq
<1>10. Visited' = Visited /\ VisitedInv'
  BY <1>1 DEF IInv, Visited, VisitedInv
<1>11. /\ color' \in [Nodes -> {"unvisited", "visiting", "visited"}]
       /\ {NodeAt(i)' : i \in DOMAIN stack'} = {m \in Nodes : color'[m] = "visiting"}
  <2>1. {NodeAt(i) : i \in DOMAIN stack} = {m \in Nodes : color[m] = "visiting"}
    BY SearchTypes
  <2>2. \A i \in DOMAIN stack : NodeAt(i)' = NodeAt(i)
    BY <1>1 DEF NodeAt
  <2> QED
    BY <2>1, <2>2, <1>1, SearchTypes
<1>12. StackInv'
  <2>1. \A i \in DOMAIN stack : NodeAt(i)' = NodeAt(i) /\ NodeAt(i + 1)' = NodeAt(i + 1) /\ DoneDeps(i)' = DoneDeps(i)
    BY <1>1 DEF NodeAt, DoneDeps
  <2> QED
    BY <2>1, <1>1, <1>10 DEF IInv, StackInv, Sorting
<1> QED
  BY <1>1, <1>8, <1>9, <1>10, <1>11, <1>12, SearchStep

\* A call returns once all its dependencies have been visited; nothing it needs
\* needs its node, which was not visited before.
LEMMA LeaveNodeStep ==
    ASSUME IInv, LeaveNode
    PROVE  IInv'
<1>0. PICK L, n : L = Len(stack) /\ n = NodeAt(L)
  OBVIOUS
<1>1. /\ stack # <<>> /\ ~HasDep /\ stack' = Front(stack) /\ UNCHANGED <<phase, deps, cycle>> /\ phase = "validate"
      /\ color' = [color EXCEPT ![Last(stack).node] = "visited"]
  BY DEF LeaveNode
<1>2. /\ L \in DOMAIN stack /\ L \in Nat \ {0} /\ Last(stack) = stack[L] /\ n = stack[L].node /\ n \in Nodes
      /\ stack[L].next = Cardinality(deps[n]) + 1 /\ Cardinality(deps[n]) \in Nat
      /\ DoneDeps(L) \subseteq Visited
      /\ deps[n] = {Sorted(deps[n])[k] : k \in 1..Cardinality(deps[n])}
  BY <1>0, <1>1, TopCall
<1>3. deps[n] \subseteq Visited
  <2>1. stack[L].next - 1 = Cardinality(deps[n])
    BY <1>2
  <2>2. DoneDeps(L) = {Sorted(deps[n])[k] : k \in 1..Cardinality(deps[n])}
    BY <2>1, <1>0 DEF DoneDeps
  <2> QED
    BY <2>2, <1>2
<1>4. /\ color \in [Nodes -> {"unvisited", "visiting", "visited"}]
      /\ deps \in [Nodes -> SUBSET Nodes]
      /\ DOMAIN stack = 1..L
      /\ \A i \in 1..L : NodeAt(i) \in Nodes /\ color[NodeAt(i)] = "visiting"
      /\ \A m \in Nodes : color[m] = "visiting" => \E i \in 1..L : NodeAt(i) = m
  BY <1>0, SearchTypes
<1>5. color' = [color EXCEPT ![n] = "visited"] /\ n \notin Visited /\ Visited' = Visited \cup {n}
  BY ZenonT(30), <1>0, <1>1, <1>2, <1>4 DEF Visited
<1>6. VisitedInv'
  <2>1. \A m \in Visited : deps[m] \subseteq Visited
    BY DEF IInv, VisitedInv
  <2>2. ASSUME NEW S \in (SUBSET (Visited \cup {n})) \ {{}}
        PROVE  \E m \in S : deps[m] \cap S = {}
    <3>1. CASE S \ {n} = {}
      BY <3>1, <1>3, <1>5
    <3>2. CASE S \ {n} # {}
      <4>1. S \ {n} \in (SUBSET Visited) \ {{}}
        BY <3>2
      <4>2. PICK m \in S \ {n} : deps[m] \cap (S \ {n}) = {}
        BY <4>1 DEF IInv, VisitedInv
      <4>3. n \notin deps[m]
        BY <2>1, <1>5
      <4> QED
        BY <4>2, <4>3
    <3> QED
      BY <3>1, <3>2
  <2> QED
    BY <2>1, <2>2, <1>1, <1>3, <1>5 DEF VisitedInv
<1>7. /\ stack' \in Seq([node : Nodes, next : Nat \ {0}])
      /\ Len(stack') = L - 1 /\ DOMAIN stack' = 1..(L - 1)
      /\ \A i \in 1..(L - 1) : stack'[i] = stack[i]
  <2> DEFINE Calls == [node : Nodes, next : Nat \ {0}]
  <2>1. \A i \in 1..(L - 1) : stack[i] \in Calls
    <3>1. \A i \in 1..(L - 1) : i \in DOMAIN stack
      BY <1>2, <1>4
    <3> QED
      BY <3>1, SearchTypes
  <2> HIDE DEF Calls
  <2>2. L - 1 \in Int /\ 1 \in Int
    BY <1>2
  <2>3. /\ SubSeq(stack, 1, L - 1) \in Seq(Calls)
        /\ Len(SubSeq(stack, 1, L - 1)) = IF 1 <= L - 1 THEN L - 1 - 1 + 1 ELSE 0
        /\ \A i \in 1..(L - 1 - 1 + 1) : SubSeq(stack, 1, L - 1)[i] = stack[1 + i - 1]
    BY <2>1, <2>2, SubSeqProperties
  <2>4. stack' = SubSeq(stack, 1, L - 1)
    BY <1>0, <1>1 DEF Front
  <2>5. stack' \in Seq(Calls) /\ Len(stack') = L - 1 /\ \A i \in 1..(L - 1) : stack'[i] = stack[i]
    BY <2>3, <2>4, <1>2
  <2>6. DOMAIN stack' = 1..(L - 1)
    BY <2>5, LenProperties
  <2> QED
    BY <2>5, <2>6 DEF Calls
<1>8. \A i \in 1..(L - 1) : NodeAt(i)' = NodeAt(i) /\ i \in 1..L /\ i + 1 \in 1..L /\ i # L
  BY <1>2, <1>7 DEF NodeAt
<1>9. \A i, j \in 1..L : NodeAt(i) = NodeAt(j) => i = j
  BY <1>4 DEF IInv, StackInv
<1>10. {NodeAt(i)' : i \in DOMAIN stack'} = {m \in Nodes : color'[m] = "visiting"}
  <2>1. \A m \in Nodes : color'[m] = "visiting" <=> color[m] = "visiting" /\ m # n
    BY <1>4, <1>5
  <2>2. \A i \in 1..L : i = L \/ i \in 1..(L - 1)
    BY <1>2
  <2>3. \A i \in 1..(L - 1) : NodeAt(i) # n
    BY ZenonT(30), <1>0, <1>2, <1>4, <1>8, <1>9
  <2>4. ASSUME NEW m \in Nodes, color'[m] = "visiting"
        PROVE  \E i \in 1..(L - 1) : NodeAt(i)' = m
    BY <2>1, <2>2, <2>4, <1>0, <1>4, <1>8
  <2>5. ASSUME NEW i \in 1..(L - 1)
        PROVE  NodeAt(i)' \in Nodes /\ color'[NodeAt(i)'] = "visiting"
    BY <2>1, <2>3, <1>4, <1>8
  <2> QED
    BY <2>4, <2>5, <1>7
<1>11. color' \in [Nodes -> {"unvisited", "visiting", "visited"}]
  BY <1>4, <1>5
<1>12. StackInv'
  <2>1. ASSUME NEW i \in 1..(L - 1)
        PROVE  /\ stack'[i].next <= Cardinality(deps'[NodeAt(i)']) + 1
               /\ DoneDeps(i)' \subseteq Visited \cup {NodeAt(i + 1)}
               /\ NodeAt(i + 1) \in deps'[NodeAt(i)']
    <3>1. /\ stack[i].next <= Cardinality(deps[NodeAt(i)]) + 1
          /\ NodeAt(i + 1) \in deps[NodeAt(i)]
          /\ DoneDeps(i) \subseteq Visited \cup {NodeAt(i + 1)}
      BY <1>0, <1>4, <1>8 DEF IInv, StackInv
    <3>2. DoneDeps(i)' = DoneDeps(i)
      BY <1>1, <1>7 DEF DoneDeps, NodeAt
    <3> QED
      BY <3>1, <3>2, <1>1, <1>7, <1>8
  <2>2. ASSUME NEW i \in 1..(L - 1)
        PROVE  IF i = L - 1 THEN DoneDeps(i)' \subseteq Visited'
               ELSE /\ NodeAt(i + 1)' \in deps'[NodeAt(i)']
                    /\ DoneDeps(i)' \subseteq Visited' \cup {NodeAt(i + 1)'}
    <3>1. CASE i = L - 1
      <4>1. NodeAt(i + 1) = n
        <5>1. i + 1 = L
          BY <3>1, <1>2
        <5> QED
          BY <5>1, <1>0
      <4> QED
        BY <3>1, <4>1, <2>1, <1>5
    <3>2. CASE i # L - 1
      <4>1. i + 1 \in 1..(L - 1)
        BY <3>2, <1>2
      <4>2. NodeAt(i + 1)' = NodeAt(i + 1)
        BY <4>1, <1>8
      <4> QED
        BY <3>2, <4>2, <2>1, <1>5
    <3> QED
      BY <3>1, <3>2
  <2>3. \A i, j \in 1..(L - 1) : NodeAt(i)' = NodeAt(j)' => i = j
    BY <1>8, <1>9
  <2> QED
    BY <2>1, <2>2, <2>3, <1>1, <1>7 DEF StackInv, Sorting
<1>13. CycleIsReal'
  BY <1>1 DEF IInv, PlannerInv, CycleIsReal
<1> QED
  BY <1>1, <1>6, <1>10, <1>11, <1>12, <1>13, SearchStep

-----------------------------------------------------------------------------
(* TopologicalSort.                                                        *)

\* Once every node has been visited, the graph is known to have no cycles and
\* Validate's variables stay as they are.
LEMMA LaterFrame ==
    ASSUME IInv, phase # "build", stack = <<>>, Visited = Nodes, phase' \in Sorting,
           UNCHANGED <<workflowVars, deps, dfsVars>>
    PROVE  Acyclic /\ Wired' /\ StackInv' /\ VisitedInv' /\ CycleIsReal' /\ AcceptsAcyclic'
<1>1. stack' = <<>> /\ Visited' = Nodes /\ cycle' = cycle /\ deps' = deps
  BY DEF dfsVars, Visited
<1>2. Acyclic
  BY DEF IInv, VisitedInv, Acyclic
<1>3. Acyclic'
  BY <1>1, <1>2 DEF Acyclic
<1>4. DOMAIN <<>> = {} /\ \A S : <<>> \in Seq(S)
  OBVIOUS
<1>5. StackInv'
  BY <1>1, <1>4 DEF StackInv, Sorting
<1>6. Wired' /\ VisitedInv' /\ CycleIsReal'
  BY <1>1 DEF IInv, Wired, VisitedInv, PlannerInv, CycleIsReal
<1>7. AcceptsAcyclic'
  BY <1>3 DEF AcceptsAcyclic, Sorting
<1> QED
  BY <1>2, <1>5, <1>6, <1>7

\* What is left to show of a step of TopologicalSort or of a later function.
LEMMA LaterStep ==
    ASSUME IInv, phase # "build", stack = <<>>, Visited = Nodes, phase' \in Sorting,
           UNCHANGED <<workflowVars, deps, dfsVars>>,
           inDegree' \in [Nodes -> Nat], IsInjective(sorted'), sorted' \in Seq(Nodes),
           levels' \in [Nodes -> Nat], skippedNodes' \subseteq Nodes,
           SortedAfterDependencies',
           KahnInv', CursorInv', LevelInv', GroupsInv', PlanInv', DecidedInv', GroupsSorted'
    PROVE  IInv'
<1>1. Wired' /\ StackInv' /\ VisitedInv' /\ CycleIsReal' /\ AcceptsAcyclic'
  BY LaterFrame
<1>2. color' = color /\ stack' = stack /\ deps' = deps /\ ToSet(Path)' = ToSet(Path)
  BY DEF dfsVars, Path
<1>3. \A i \in DOMAIN sorted' : sorted'[i] \in Nodes
  BY LenProperties, ElementOfSeq
<1>4. ToSet(sorted') \subseteq Nodes
  BY <1>3 DEF ToSet
<1>5. phase' \in Phases
  BY DEF Sorting, Phases
<1>6. TypeOK'
  BY <1>2, <1>4, <1>5 DEF IInv, PlannerInv, TypeOK, Phases
<1> QED
  BY <1>1, <1>6 DEF IInv, PlannerInv

\* When no node is left to visit, all have been visited, and the nodes without
\* dependencies are the ones that are ready.
LEMMA StartSortStep ==
    ASSUME IInv, StartSort
    PROVE  IInv'
<1>1. /\ phase = "validate" /\ phase' = "sort" /\ stack = <<>> /\ Unvisited = {}
      /\ inDegree' = [n \in Nodes |-> Cardinality(deps[n])]
      /\ queue' = Sorted({n \in Nodes : deps[n] = {}})
      /\ UNCHANGED <<workflowVars, deps, dfsVars, sorted, levels, groups, planVars>>
  BY DEF StartSort
<1>2. Visited = Nodes
  <2>1. color \in [Nodes -> {"unvisited", "visiting", "visited"}] /\ \A n \in Nodes : color[n] # "visiting"
    BY <1>1, SearchTypes
  <2> QED
    BY <2>1, <1>1 DEF Unvisited, Visited
<1>3. sorted' = <<>> /\ sorted = <<>> /\ plan' = plan /\ cursor' = cursor /\ skippedNodes' = skippedNodes
  BY <1>1 DEF IInv, KahnInv, planVars
<1>4. deps \in [Nodes -> SUBSET Nodes] /\ \A n \in Nodes : Cardinality(deps[n]) \in Nat
  BY SearchTypes, FiniteNodes
<1>5. inDegree' \in [Nodes -> Nat]
  BY <1>1, <1>4
<1>6. DOMAIN <<>> = {} /\ <<>> \in Seq(Nodes) /\ ToSet(<<>>) = {} /\ IsInjective(<<>>)
  BY DEF ToSet, IsInjective
<1>7. SortedAfterDependencies'
  BY <1>3, <1>6 DEF SortedAfterDependencies
<1>8. KahnInv'
  <2>1. {n \in Nodes : deps[n] = {}} \in SUBSET Nodes
    OBVIOUS
  <2>2. queue' \in Seq(Nodes) /\ IsInjective(queue') /\ ToSet(queue') = {n \in Nodes : deps[n] = {}}
    BY <2>1, <1>1, SortedNodes
  <2>3. Ready' = {n \in Nodes : deps[n] = {}}
    BY <1>1, <1>3, <1>6 DEF Ready
  <2>4. \A n \in Nodes : inDegree'[n] = Cardinality(deps'[n] \ ToSet(sorted'))
    BY <1>1, <1>3, <1>6
  <2> QED
    BY <2>2, <2>3, <2>4, <1>1, <1>3, <1>6 DEF KahnInv, Leveled
<1>9. CursorInv'
  BY <1>1, <1>3 DEF IInv, CursorInv
<1>10. LevelInv' /\ GroupsInv' /\ PlanInv' /\ DecidedInv' /\ GroupsSorted'
  BY <1>1 DEF LevelInv, GroupsInv, PlanInv, DecidedInv, GroupsSorted, Leveled
<1>11. levels' \in [Nodes -> Nat] /\ skippedNodes' \subseteq Nodes
  BY <1>1, <1>3 DEF IInv, PlannerInv, TypeOK
<1> QED
  BY <1>1, <1>2, <1>3, <1>5, <1>6, <1>7, <1>8, <1>9, <1>10, <1>11, LaterStep DEF Sorting

\* The phases in which the nodes have all been visited.
LEMMA LaterTypes ==
    ASSUME IInv, phase \in Sorting
    PROVE  /\ phase # "build" /\ stack = <<>> /\ Visited = Nodes
           /\ deps \in [Nodes -> SUBSET Nodes] /\ levels \in [Nodes -> Nat]
           /\ inDegree \in [Nodes -> Nat]
           /\ sorted \in Seq(Nodes) /\ IsInjective(sorted)
           /\ DOMAIN sorted = 1..Len(sorted) /\ Len(sorted) \in Nat
           /\ ToSet(sorted) = {sorted[i] : i \in 1..Len(sorted)} /\ ToSet(sorted) \subseteq Nodes
           /\ \A i \in 1..Len(sorted) : /\ sorted[i] \in Nodes
                                        /\ deps[sorted[i]] \subseteq {sorted[k] : k \in 1..(i - 1)}
           /\ skippedNodes \subseteq Nodes
<1>1. phase # "build" /\ stack = <<>> /\ Visited = Nodes
  BY DEF IInv, StackInv, Sorting
<1>2. TypeOK /\ sorted \in Seq(Nodes)
  BY DEF IInv, PlannerInv, KahnInv
<1>3. DOMAIN sorted = 1..Len(sorted) /\ Len(sorted) \in Nat /\ \A i \in 1..Len(sorted) : sorted[i] \in Nodes
  BY <1>2, LenProperties, ElementOfSeq
<1>4. ToSet(sorted) = {sorted[i] : i \in 1..Len(sorted)}
  BY <1>3 DEF ToSet
<1>5. ASSUME NEW i \in 1..Len(sorted)
      PROVE  deps[sorted[i]] \subseteq {sorted[k] : k \in 1..(i - 1)}
  <2>1. deps[sorted[i]] \subseteq ToSet(SubSeq(sorted, 1, i - 1))
    BY <1>3, <1>5 DEF IInv, PlannerInv, SortedAfterDependencies
  <2>2. ToSet(SubSeq(sorted, 1, i - 1)) = {sorted[k] : k \in 1..(i - 1)}
    <3>1. i - 1 \in Nat /\ i - 1 <= Len(sorted) /\ \A k \in 1..(i - 1) : sorted[k] \in Nodes
      BY <1>3
    <3>2. /\ SubSeq(sorted, 1, i - 1) \in Seq(Nodes)
          /\ Len(SubSeq(sorted, 1, i - 1)) = IF 1 <= i - 1 THEN i - 1 - 1 + 1 ELSE 0
          /\ \A k \in 1..(i - 1 - 1 + 1) : SubSeq(sorted, 1, i - 1)[k] = sorted[1 + k - 1]
      BY <3>1, SubSeqProperties
    <3>3. DOMAIN SubSeq(sorted, 1, i - 1) = 1..(i - 1) /\ \A k \in 1..(i - 1) : SubSeq(sorted, 1, i - 1)[k] = sorted[k]
      BY <3>1, <3>2, LenProperties
    <3> QED
      BY <3>3 DEF ToSet
  <2> QED
    BY <2>1, <2>2
<1> QED
  BY <1>1, <1>2, <1>3, <1>4, <1>5 DEF TypeOK

\* The head of a queue, and what is behind it.
LEMMA Popped ==
    ASSUME NEW S, NEW q \in Seq(S), q # <<>>, IsInjective(q)
    PROVE  Head(q) \in ToSet(q) /\ ToSet(Tail(q)) = ToSet(q) \ {Head(q)}
<1>1. Len(q) \in Nat \ {0} /\ DOMAIN q = 1..Len(q)
  BY LenProperties, EmptySeq
<1>2. /\ Tail(q) \in Seq(S) /\ Len(Tail(q)) = Len(q) - 1 /\ Head(q) = q[1]
      /\ \A i \in 1..Len(Tail(q)) : Tail(q)[i] = q[i + 1]
  BY HeadTailProperties
<1>3. DOMAIN Tail(q) = 1..(Len(q) - 1)
  BY <1>2, LenProperties
<1>4. \A i, j \in 1..Len(q) : q[i] = q[j] => i = j
  BY <1>1 DEF IsInjective
<1>5. \A i \in 1..(Len(q) - 1) : i + 1 \in 1..Len(q) /\ i + 1 # 1
  BY <1>1
<1>6. \A i \in 1..Len(q) : i # 1 => i - 1 \in 1..(Len(q) - 1) /\ i = (i - 1) + 1
  BY <1>1
<1>7. 1 \in 1..Len(q)
  BY <1>1
<1>8. ToSet(q) = {q[i] : i \in 1..Len(q)} /\ ToSet(Tail(q)) = {q[i + 1] : i \in 1..(Len(q) - 1)}
  BY <1>1, <1>2, <1>3 DEF ToSet
<1> QED
  <2>1. Head(q) \in ToSet(q)
    BY <1>2, <1>7, <1>8
  <2>2. ASSUME NEW x \in ToSet(Tail(q))
        PROVE  x \in ToSet(q) \ {Head(q)}
    <3>1. PICK i \in 1..(Len(q) - 1) : x = q[i + 1]
      BY <1>8
    <3>2. i + 1 \in 1..Len(q) /\ i + 1 # 1
      BY <1>5
    <3>3. x # q[1]
      BY <3>1, <3>2, <1>4, <1>7
    <3> QED
      BY <3>1, <3>2, <3>3, <1>2, <1>8
  <2>3. ASSUME NEW x \in ToSet(q), x # Head(q)
        PROVE  x \in ToSet(Tail(q))
    <3>1. PICK i \in 1..Len(q) : x = q[i]
      BY <1>8
    <3>2. i - 1 \in 1..(Len(q) - 1) /\ x = q[(i - 1) + 1]
      BY <3>1, <2>3, <1>2, <1>6
    <3> QED
      BY <3>2, <1>8
  <2> QED
    BY <2>1, <2>2, <2>3

\* Sorting a node frees those that depend on it and on nothing else unsorted.
LEMMA PopQueueStep ==
    ASSUME IInv, PopQueue
    PROVE  IInv'
<1>0. PICK n, L, A : n = Head(queue) /\ L = Len(sorted) /\ A = ToSet(sorted)
  OBVIOUS
<1>1. /\ phase = "sort" /\ phase' = "sort" /\ queue # <<>> /\ sorted' = Append(sorted, n)
      /\ inDegree' = [m \in Nodes |-> IF n \in deps[m] THEN inDegree[m] - 1 ELSE inDegree[m]]
      /\ queue' = Sorted(ToSet(Tail(queue)) \cup FreedBy(n))
      /\ UNCHANGED <<workflowVars, deps, dfsVars, levels, groups, planVars>>
  BY <1>0 DEF PopQueue
<1>2. /\ phase # "build" /\ stack = <<>> /\ Visited = Nodes
      /\ deps \in [Nodes -> SUBSET Nodes] /\ levels \in [Nodes -> Nat]
      /\ inDegree \in [Nodes -> Nat]
      /\ sorted \in Seq(Nodes) /\ IsInjective(sorted) /\ DOMAIN sorted = 1..L /\ L \in Nat
      /\ A = {sorted[i] : i \in 1..L} /\ A \subseteq Nodes
      /\ \A i \in 1..L : sorted[i] \in Nodes /\ deps[sorted[i]] \subseteq {sorted[k] : k \in 1..(i - 1)}
      /\ skippedNodes \subseteq Nodes
  BY <1>0, <1>1, LaterTypes DEF Sorting
<1>3. /\ queue \in Seq(Nodes) /\ IsInjective(queue) /\ ToSet(queue) = Ready
      /\ \A m \in Nodes : inDegree[m] = Cardinality(deps[m] \ A)
  BY <1>0, <1>1 DEF IInv, KahnInv
<1>4. Ready = {m \in Nodes \ A : deps[m] \subseteq A}
  BY <1>0 DEF Ready
<1>5. n \in Ready /\ ToSet(Tail(queue)) = Ready \ {n}
  BY <1>0, <1>1, <1>3, Popped
<1>6. n \in Nodes /\ n \notin A /\ deps[n] \subseteq A
  BY <1>4, <1>5
<1>7. /\ sorted' \in Seq(Nodes) /\ Len(sorted') = L + 1 /\ DOMAIN sorted' = 1..(L + 1)
      /\ \A i \in 1..L : sorted'[i] = sorted[i]
      /\ sorted'[L + 1] = n
  BY <1>0, <1>1, <1>2, <1>6, AppendProperties, LenProperties
<1>8. ToSet(sorted') = A \cup {n}
  <2>1. 1..(L + 1) = (1..L) \cup {L + 1}
    BY <1>2
  <2>2. ToSet(sorted') = {sorted'[i] : i \in 1..(L + 1)}
    BY <1>7 DEF ToSet
  <2> QED
    BY <2>1, <2>2, <1>2, <1>7
<1>9. IsInjective(sorted')
  <2>1. \A i, j \in 1..L : sorted[i] = sorted[j] => i = j
    BY <1>2 DEF IsInjective
  <2>2. \A i \in 1..L : sorted[i] # n
    BY <1>2, <1>6
  <2>3. \A i \in 1..(L + 1) : i \in 1..L \/ i = L + 1
    BY <1>2
  <2> QED
    BY <2>1, <2>2, <2>3, <1>7 DEF IsInjective
<1>10. SortedAfterDependencies'
  <2>1. ASSUME NEW i \in 1..(L + 1)
        PROVE  /\ ToSet(SubSeq(sorted', 1, i - 1)) = {sorted[k] : k \in 1..(i - 1)}
               /\ deps'[sorted'[i]] \subseteq {sorted[k] : k \in 1..(i - 1)}
    <3>1. i - 1 \in Nat /\ i - 1 <= L /\ \A k \in 1..(i - 1) : k \in 1..L
      BY <1>2
    <3>2. \A k \in 1..(i - 1) : sorted'[k] \in Nodes /\ sorted'[k] = sorted[k]
      BY <3>1, <1>2, <1>7
    <3>3. /\ SubSeq(sorted', 1, i - 1) \in Seq(Nodes)
          /\ Len(SubSeq(sorted', 1, i - 1)) = IF 1 <= i - 1 THEN i - 1 - 1 + 1 ELSE 0
          /\ \A k \in 1..(i - 1 - 1 + 1) : SubSeq(sorted', 1, i - 1)[k] = sorted'[1 + k - 1]
      BY <3>1, <3>2, SubSeqProperties
    <3>4. DOMAIN SubSeq(sorted', 1, i - 1) = 1..(i - 1)
          /\ \A k \in 1..(i - 1) : SubSeq(sorted', 1, i - 1)[k] = sorted[k]
      BY <3>1, <3>2, <3>3, LenProperties
    <3>5. ToSet(SubSeq(sorted', 1, i - 1)) = {sorted[k] : k \in 1..(i - 1)}
      BY <3>4 DEF ToSet
    <3>6. deps'[sorted'[i]] \subseteq {sorted[k] : k \in 1..(i - 1)}
      <4>1. CASE i = L + 1
        BY <4>1, <1>1, <1>2, <1>6, <1>7
      <4>2. CASE i \in 1..L
        BY <4>2, <1>1, <1>2, <1>7
      <4> QED
        BY <4>1, <4>2, <1>2
    <3> QED
      BY <3>5, <3>6
  <2> QED
    BY <2>1, <1>7 DEF SortedAfterDependencies
<1>11. ASSUME NEW m \in Nodes
       PROVE  /\ IsFiniteSet(deps[m] \ A) /\ Cardinality(deps[m] \ A) \in Nat
              /\ n \in deps[m] => n \in deps[m] \ A /\ deps[m] \ (A \cup {n}) = (deps[m] \ A) \ {n}
              /\ n \notin deps[m] => deps[m] \ (A \cup {n}) = deps[m] \ A
              /\ n \in deps[m] => m \notin A /\ m # n
  <2>1. deps[m] \ A \in SUBSET Nodes
    BY <1>2
  <2>2. m \in A => deps[m] \subseteq A
    BY <1>2
  <2> QED
    BY <2>1, <2>2, <1>6, FiniteNodes
<1>12. inDegree' \in [Nodes -> Nat] /\ \A m \in Nodes : inDegree'[m] = Cardinality(deps[m] \ (A \cup {n}))
  <2>1. ASSUME NEW m \in Nodes
        PROVE  inDegree'[m] \in Nat /\ inDegree'[m] = Cardinality(deps[m] \ (A \cup {n}))
    <3>1. CASE n \in deps[m]
      <4>1. Cardinality((deps[m] \ A) \ {n}) = Cardinality(deps[m] \ A) - 1
            /\ IsFiniteSet((deps[m] \ A) \ {n})
        BY <3>1, <1>11, FS_RemoveElement
      <4>2. Cardinality((deps[m] \ A) \ {n}) \in Nat
        BY <4>1, FS_CardinalityType
      <4> QED
        BY <3>1, <4>1, <4>2, <1>1, <1>3, <1>11
    <3>2. CASE n \notin deps[m]
      BY <3>2, <1>1, <1>3, <1>11
    <3> QED
      BY <3>1, <3>2
  <2>2. \E f : f = inDegree' /\ f = [m \in Nodes |-> inDegree'[m]]
    BY <1>1
  <2> QED
    BY <2>1, <2>2
<1>13. FreedBy(n) = {m \in Nodes : n \in deps[m] /\ deps[m] \ A = {n}}
  <2>1. ASSUME NEW m \in Nodes, n \in deps[m]
        PROVE  Cardinality(deps[m] \ A) = 1 <=> deps[m] \ A = {n}
    <3>1. Cardinality(deps[m] \ A) = 1 <=> \E x : deps[m] \ A = {x}
      BY <1>11, FS_Singleton
    <3>2. n \in deps[m] \ A
      BY <2>1, <1>11
    <3> QED
      BY <3>1, <3>2
  <2> QED
    BY <2>1, <1>3 DEF FreedBy
<1>14. (Ready \ {n}) \cup FreedBy(n) = {m \in Nodes \ (A \cup {n}) : deps[m] \subseteq A \cup {n}}
  <2>1. ASSUME NEW m \in (Ready \ {n}) \cup FreedBy(n)
        PROVE  m \in Nodes \ (A \cup {n}) /\ deps[m] \subseteq A \cup {n}
    <3>1. CASE m \in Ready \ {n}
      BY <3>1, <1>4
    <3>2. CASE m \in FreedBy(n)
      BY <3>2, <1>11, <1>13
    <3> QED
      BY <2>1, <3>1, <3>2
  <2>2. ASSUME NEW m \in Nodes \ (A \cup {n}), deps[m] \subseteq A \cup {n}
        PROVE  m \in (Ready \ {n}) \cup FreedBy(n)
    <3>1. CASE n \in deps[m]
      <4>1. deps[m] \ A = {n}
        BY <2>2, <3>1, <1>6
      <4> QED
        BY <2>2, <3>1, <4>1, <1>13
    <3>2. CASE n \notin deps[m]
      BY <2>2, <3>2, <1>4
    <3> QED
      BY <3>1, <3>2
  <2> QED
    BY <2>1, <2>2
<1>15. KahnInv'
  <2>1. ToSet(Tail(queue)) \cup FreedBy(n) \in SUBSET Nodes
    BY <1>4, <1>5, <1>13
  <2>2. queue' \in Seq(Nodes) /\ IsInjective(queue')
        /\ ToSet(queue') = ToSet(Tail(queue)) \cup FreedBy(n)
    BY <2>1, <1>1, SortedNodes
  <2>3. Ready' = {m \in Nodes \ (A \cup {n}) : deps[m] \subseteq A \cup {n}}
    BY <1>1, <1>8 DEF Ready
  <2>4. \A m \in Nodes : inDegree'[m] = Cardinality(deps'[m] \ ToSet(sorted'))
    BY <1>1, <1>8, <1>12
  <2> QED
    BY <2>2, <2>3, <2>4, <1>1, <1>5, <1>7, <1>14 DEF KahnInv, Leveled
<1>16. CursorInv'
  BY <1>1 DEF IInv, CursorInv, planVars
<1>17. LevelInv' /\ GroupsInv' /\ PlanInv' /\ DecidedInv' /\ GroupsSorted'
  BY <1>1 DEF LevelInv, GroupsInv, PlanInv, DecidedInv, GroupsSorted, Leveled
<1>18. levels' \in [Nodes -> Nat] /\ skippedNodes' \subseteq Nodes
  BY <1>1, <1>2 DEF planVars
<1> QED
  BY <1>1, <1>2, <1>7, <1>9, <1>10, <1>12, <1>15, <1>16, <1>17, <1>18, LaterStep DEF Sorting

\* In a graph without cycles some unsorted node is always ready, so an empty
\* queue means that all nodes are sorted.
LEMMA EndSortStep ==
    ASSUME IInv, EndSort
    PROVE  IInv'
<1>1. /\ phase = "sort" /\ queue = <<>>
      /\ phase' = IF Len(sorted) = Cardinality(Nodes) THEN "levels" ELSE "rejected"
      /\ UNCHANGED <<workflowVars, deps, dfsVars, kahnVars, levels, groups, planVars>>
  BY DEF EndSort
<1>2. /\ phase # "build" /\ stack = <<>> /\ Visited = Nodes
      /\ levels \in [Nodes -> Nat] /\ inDegree \in [Nodes -> Nat]
      /\ sorted \in Seq(Nodes) /\ IsInjective(sorted) /\ Len(sorted) \in Nat
      /\ ToSet(sorted) \subseteq Nodes
      /\ skippedNodes \subseteq Nodes
  BY <1>1, LaterTypes DEF Sorting
<1>3. ToSet(sorted) = Nodes
  <2>1. Ready = {}
    BY <1>1 DEF IInv, KahnInv, ToSet
  <2>2. SUFFICES ASSUME Nodes \ ToSet(sorted) # {}
                 PROVE  FALSE
    BY <1>2
  <2>3. \A S \in (SUBSET Nodes) \ {{}} : \E n \in S : deps[n] \cap S = {}
    BY <1>2 DEF IInv, VisitedInv
  <2>4. PICK n \in Nodes \ ToSet(sorted) : deps[n] \cap (Nodes \ ToSet(sorted)) = {}
    BY <2>2, <2>3
  <2>5. deps[n] \subseteq ToSet(sorted)
    BY <2>4, SearchTypes
  <2> QED
    BY <2>1, <2>4, <2>5 DEF Ready
<1>4. phase' = "levels"
  BY <1>1, <1>2, <1>3, InjectiveLength
<1>5. UNCHANGED <<sorted, queue, inDegree, levels, groups, skippedNodes, plan, cursor>>
  BY <1>1 DEF kahnVars, planVars
<1>6. KahnInv'
  BY <1>1, <1>3, <1>4, <1>5 DEF IInv, KahnInv, Leveled
<1>7. CursorInv'
  BY <1>1, <1>4, <1>5 DEF IInv, CursorInv
<1>8. LevelInv'
  <2>1. cursor.index = 1
    BY <1>1 DEF IInv, CursorInv
  <2> QED
    BY <2>1, <1>2, <1>4, <1>5 DEF LevelInv, Leveled
<1>9. GroupsInv' /\ PlanInv' /\ DecidedInv' /\ GroupsSorted'
  BY <1>4 DEF GroupsInv, PlanInv, DecidedInv, GroupsSorted, Leveled
<1>10. SortedAfterDependencies'
  BY <1>1, <1>5 DEF IInv, PlannerInv, SortedAfterDependencies
<1> QED
  BY <1>1, <1>2, <1>4, <1>5, <1>6, <1>7, <1>8, <1>9, <1>10, LaterStep DEF Sorting

-----------------------------------------------------------------------------
(* ParallelGroups.                                                         *)

\* What a function gives for finitely many arguments is finitely many things.
LEMMA FiniteImage ==
    ASSUME NEW D, IsFiniteSet(D), NEW f
    PROVE  IsFiniteSet({f[d] : d \in D})
<1> DEFINE T == {f[d] : d \in D}
           h == [d \in D |-> f[d]]
<1>1. h \in Surjection(D, T)
  BY DEF Surjection
<1> QED
  BY <1>1, FS_Surjection

\* A level is a number above the levels of the dependencies.
LEMMA LevelAbove ==
    ASSUME deps \in [Nodes -> SUBSET Nodes], NEW ls \in [Nodes -> Nat], NEW n \in Nodes
    PROVE  LevelAfter(n, ls) \in Nat /\ \A d \in deps[n] : ls[d] < LevelAfter(n, ls)
<1> DEFINE T == {ls[d] : d \in deps[n]}
<1>1. CASE deps[n] = {}
  BY <1>1 DEF LevelAfter
<1>2. CASE deps[n] # {}
  <2>1. T \in SUBSET Nat /\ T # {}
    BY <1>2
  <2>2. IsFiniteSet(T)
    <3>1. IsFiniteSet(deps[n])
      BY FiniteNodes
    <3> QED
      BY <3>1, FiniteImage
  <2>3. LevelAfter(n, ls) = 1 + Max(T)
    BY <1>2 DEF LevelAfter
  <2> HIDE DEF T
  <2>4. Max(T) \in T /\ \A y \in T : y <= Max(T)
    BY <2>1, <2>2, MaxOfSet
  <2>5. Max(T) \in Nat /\ \A y \in T : y \in Nat
    BY <2>1, <2>4
  <2>6. \A y \in T : y < 1 + Max(T)
    BY <2>4, <2>5
  <2> QED
    BY <2>3, <2>5, <2>6 DEF T
<1> QED
  BY <1>1, <1>2

\* It depends on the levels of the dependencies only.
LEMMA SameLevel ==
    ASSUME deps \in [Nodes -> SUBSET Nodes], NEW ls, NEW ks, NEW m \in Nodes, NEW n \in Nodes,
           deps[m] = deps[n], \A d \in deps[n] : ls[d] = ks[d]
    PROVE  LevelAfter(m, ls) = LevelAfter(n, ks)
<1>1. {ls[d] : d \in deps[m]} = {ks[d] : d \in deps[n]}
  OBVIOUS
<1> QED
  BY <1>1 DEF LevelAfter

\* The levels of the nodes before are those of all that the next one needs.
LEMMA AssignLevelStep ==
    ASSUME IInv, AssignLevel
    PROVE  IInv'
<1>0. PICK n, i : n = sorted[cursor.index] /\ i = cursor.index
  OBVIOUS
<1>1. /\ phase = "levels" /\ phase' = "levels" /\ i <= Len(sorted)
      /\ levels' = [levels EXCEPT ![n] = LevelAfter(n, levels)]
      /\ cursor' = [cursor EXCEPT !.index = @ + 1]
      /\ UNCHANGED <<workflowVars, deps, dfsVars, kahnVars, groups, skippedNodes, plan>>
  BY <1>0 DEF AssignLevel
<1>2. /\ phase # "build" /\ stack = <<>> /\ Visited = Nodes
      /\ deps \in [Nodes -> SUBSET Nodes] /\ levels \in [Nodes -> Nat] /\ inDegree \in [Nodes -> Nat]
      /\ sorted \in Seq(Nodes) /\ IsInjective(sorted) /\ DOMAIN sorted = 1..Len(sorted) /\ Len(sorted) \in Nat
      /\ \A k \in 1..Len(sorted) : /\ sorted[k] \in Nodes
                                   /\ deps[sorted[k]] \subseteq {sorted[l] : l \in 1..(k - 1)}
      /\ skippedNodes \subseteq Nodes
  BY <1>1, LaterTypes DEF Sorting
<1>3. i \in 1..Len(sorted) /\ n \in Nodes /\ cursor \in [group : Nat \ {0}, index : Nat \ {0}]
  BY <1>0, <1>1, <1>2 DEF IInv, CursorInv
<1>4. cursor'.group = cursor.group /\ cursor'.index = i + 1 /\ cursor' \in [group : Nat \ {0}, index : Nat \ {0}]
  BY <1>0, <1>1, <1>3
<1>5. levels' \in [Nodes -> Nat] /\ levels'[n] = LevelAfter(n, levels)
      /\ \A m \in Nodes : m # n => levels'[m] = levels[m]
  BY <1>1, <1>2, <1>3, LevelAbove
<1>6. \A k, l \in 1..Len(sorted) : sorted[k] = sorted[l] => k = l
  BY <1>2 DEF IsInjective
<1>7. UNCHANGED <<sorted, queue, inDegree, deps>>
  BY <1>1 DEF kahnVars
<1>8. LevelInv'
  <2>1. ASSUME NEW k \in 1..i
        PROVE  levels'[sorted[k]] = LevelAfter(sorted[k], levels)
    <3>1. CASE k = i
      BY <3>1, <1>0, <1>5
    <3>2. CASE k # i
      <4>1. k \in 1..(i - 1) /\ k \in 1..Len(sorted)
        BY <3>2, <1>3, <1>2
      <4>2. sorted[k] # n
        BY <4>1, <3>2, <1>0, <1>3, <1>6
      <4>3. levels[sorted[k]] = LevelAfter(sorted[k], levels)
        BY <4>1, <1>0, <1>1 DEF IInv, LevelInv
      <4> QED
        BY <4>1, <4>2, <4>3, <1>2, <1>5
    <3> QED
      BY <3>1, <3>2
  <2>2. ASSUME NEW k \in 1..i
        PROVE  LevelAfter(sorted[k], levels') = LevelAfter(sorted[k], levels)
    <3>1. k \in 1..Len(sorted) /\ \A l \in 1..(k - 1) : l \in 1..Len(sorted) /\ l # i
      BY <1>2, <1>3
    <3>2. \A d \in deps[sorted[k]] : d # n /\ d \in Nodes
      <4>1. \A l \in 1..(k - 1) : sorted[l] # n /\ sorted[l] \in Nodes
        BY <3>1, <1>0, <1>2, <1>3, <1>6
      <4> QED
        BY <3>1, <4>1, <1>2
    <3>3. \A d \in deps[sorted[k]] : levels'[d] = levels[d]
      BY <3>2, <1>5
    <3> QED
      BY <3>1, <3>3, <1>2, SameLevel
  <2>3. \A k \in 1..i : LevelAfter(sorted[k], levels)' = LevelAfter(sorted[k], levels')
    BY <1>7 DEF LevelAfter
  <2>4. \A k \in 1..i : levels'[sorted'[k]] = LevelAfter(sorted[k], levels)'
    BY <2>1, <2>2, <2>3, <1>7
  <2>5. i + 1 <= Len(sorted') + 1 /\ (i + 1) - 1 = i
    BY <1>2, <1>3, <1>7
  <2>6. cursor'.index - 1 = i
    BY <1>3, <1>4
  <2> QED
    BY <2>4, <2>5, <2>6, <1>1, <1>4, <1>7 DEF LevelInv, Leveled
<1>9. KahnInv'
  BY <1>1, <1>7 DEF IInv, KahnInv, Leveled
<1>10. CursorInv'
  BY <1>1, <1>4 DEF IInv, CursorInv
<1>11. GroupsInv' /\ PlanInv' /\ DecidedInv' /\ GroupsSorted'
  BY <1>1 DEF GroupsInv, PlanInv, DecidedInv, GroupsSorted, Leveled
<1>12. SortedAfterDependencies'
  BY <1>7 DEF IInv, PlannerInv, SortedAfterDependencies
<1>13. skippedNodes' \subseteq Nodes
  BY <1>1, <1>2
<1> QED
  BY <1>1, <1>2, <1>5, <1>7, <1>8, <1>9, <1>10, <1>11, <1>12, <1>13, LaterStep DEF Sorting

\* No level is beyond the groups.
LEMMA LevelsCounted ==
    ASSUME levels \in [Nodes -> Nat], sorted = <<>> <=> Nodes = {}
    PROVE  LevelCount \in Nat /\ \A n \in Nodes : levels[n] < LevelCount
<1>1. CASE Nodes = {}
  BY <1>1 DEF LevelCount
<1>2. CASE Nodes # {}
  <2>1. Range(levels) = {levels[n] : n \in Nodes}
    BY DEF Range
  <2>2. Range(levels) \in SUBSET Nat /\ Range(levels) # {}
    BY <2>1, <1>2
  <2>3. IsFiniteSet(Range(levels))
    <3>1. IsFiniteSet({levels[n] : n \in Nodes})
      BY FiniteNodes, FiniteImage
    <3> QED
      BY <2>1, <3>1
  <2>4. Max(Range(levels)) \in Range(levels) /\ \A y \in Range(levels) : y <= Max(Range(levels))
    BY <2>2, <2>3, MaxOfSet
  <2>5. LevelCount = 1 + Max(Range(levels))
    BY <1>2 DEF LevelCount
  <2>6. Max(Range(levels)) \in Nat /\ \A n \in Nodes : levels[n] \in Nat /\ levels[n] <= Max(Range(levels))
    BY <2>1, <2>2, <2>4
  <2> QED
    BY <2>5, <2>6
<1> QED
  BY <1>1, <1>2

\* With all levels assigned the groups hold all nodes, and Plan has seen none.
LEMMA GroupByLevelStep ==
    ASSUME IInv, GroupByLevel
    PROVE  IInv'
<1>1. /\ phase = "levels" /\ phase' = "plan" /\ cursor.index > Len(sorted)
      /\ groups' = [i \in 1..LevelCount |-> Sorted({n \in Nodes : levels[n] = i - 1})]
      /\ plan' = <<<<>>>> /\ cursor' = [group |-> 1, index |-> 1]
      /\ UNCHANGED <<workflowVars, deps, dfsVars, kahnVars, levels, skippedNodes>>
  BY DEF GroupByLevel
<1>2. /\ phase # "build" /\ stack = <<>> /\ Visited = Nodes
      /\ levels \in [Nodes -> Nat] /\ inDegree \in [Nodes -> Nat]
      /\ sorted \in Seq(Nodes) /\ IsInjective(sorted) /\ Len(sorted) \in Nat
      /\ ToSet(sorted) = {sorted[i] : i \in 1..Len(sorted)}
      /\ skippedNodes \subseteq Nodes
  BY <1>1, LaterTypes DEF Sorting
<1>3. UNCHANGED <<sorted, queue, inDegree, deps, levels, skippedNodes>>
  BY <1>1 DEF kahnVars
<1>4. ToSet(sorted) = Nodes /\ skippedNodes = {}
  BY <1>1 DEF IInv, KahnInv, CursorInv
<1>5. \A n \in Nodes : levels[n] = LevelAfter(n, levels)
  <2>1. cursor.index \in Nat /\ cursor.index <= Len(sorted) + 1
    BY <1>1 DEF IInv, CursorInv, LevelInv
  <2>2. cursor.index - 1 = Len(sorted)
    BY <2>1, <1>1, <1>2
  <2>3. \A k \in 1..Len(sorted) : levels[sorted[k]] = LevelAfter(sorted[k], levels)
    BY <2>2, <1>1 DEF IInv, LevelInv
  <2> QED
    BY <2>3, <1>2, <1>4
<1>6. LevelInv'
  <2>1. \A n \in Nodes : LevelAfter(n, levels)' = LevelAfter(n, levels)
    BY <1>3 DEF LevelAfter
  <2> QED
    BY <2>1, <1>1, <1>3, <1>5 DEF LevelInv, Leveled
<1>7. LevelCount \in Nat /\ \A n \in Nodes : levels[n] < LevelCount
  <2>1. sorted = <<>> <=> Nodes = {}
    <3>1. sorted = <<>> => Nodes = {}
      BY <1>4 DEF ToSet
    <3>2. ASSUME sorted # <<>>
          PROVE  Nodes # {}
      <4>1. Len(sorted) \in Nat \ {0}
        BY <3>2, <1>2, EmptySeq
      <4>2. 1 \in 1..Len(sorted)
        BY <4>1
      <4> QED
        BY <4>2, <1>2, <1>4
    <3> QED
      BY <3>1, <3>2
  <2> QED
    BY <2>1, <1>2, LevelsCounted
<1>8. /\ groups' \in Seq(Seq(Nodes)) /\ Len(groups') = LevelCount /\ DOMAIN groups' = 1..LevelCount
      /\ \A g \in 1..LevelCount : groups'[g] = Sorted({n \in Nodes : levels[n] = g - 1})
  <2>1. \A g \in 1..LevelCount : Sorted({n \in Nodes : levels[n] = g - 1}) \in Seq(Nodes)
    <3> TAKE g \in 1..LevelCount
    <3>1. {n \in Nodes : levels[n] = g - 1} \in SUBSET Nodes
      OBVIOUS
    <3> QED
      BY <3>1, SortedNodes
  <2>2. groups' \in [1..LevelCount -> Seq(Nodes)]
    BY <2>1, <1>1
  <2>3. groups' \in Seq(Seq(Nodes))
    BY <2>2, <1>7, SeqDef
  <2>4. Len(groups') = LevelCount
    BY <2>2, <2>3, <1>7, LenProperties
  <2> QED
    BY <2>3, <2>4, <1>1
<1>9. GroupsInv'
  <2>1. 1 <= Len(groups') + 1
    BY <1>7, <1>8
  <2>2. 1 <= Len(groups') => Len(groups'[1]) \in Nat
    <3>1. ASSUME 1 <= Len(groups')
          PROVE  groups'[1] \in Seq(Nodes)
      BY <3>1, <1>7, <1>8, ElementOfSeq
    <3> QED
      BY <3>1, LenProperties
  <2>3. 1 <= Len(groups') => 1 <= Len(groups'[1]) + 1
    BY <2>2
  <2> QED
    BY <2>1, <2>3, <1>1, <1>3, <1>7, <1>8 DEF GroupsInv
<1>10. Len(plan') = 1 /\ DOMAIN plan' = {1} /\ plan'[1] = <<>> /\ plan' \in Seq(Seq(Nodes)) /\ plan' # <<>>
       /\ ToSet(<<>>) = {} /\ IsInjective(<<>>)
  BY <1>1 DEF ToSet, IsInjective
<1>11. PlanNodes' = {}
  BY <1>10 DEF PlanNodes
<1>12. PlanInv'
  BY <1>10, <1>11 DEF PlanInv, LevelsApart
<1>13. Passed' = {}
  <2>1. \A n \in Nodes : ~(levels[n] < 1 - 1)
    BY <1>2
  <2> QED
    BY <2>1, <1>1, <1>3 DEF Passed
<1>14. DecidedInv'
  BY <1>1, <1>3, <1>4, <1>10, <1>11, <1>13 DEF DecidedInv
<1>15. GroupsSorted'
  BY <1>10 DEF GroupsSorted
<1>16. CursorInv' /\ KahnInv'
  BY <1>1, <1>3, <1>4 DEF IInv, CursorInv, KahnInv, Leveled
<1>17. SortedAfterDependencies'
  BY <1>3 DEF IInv, PlannerInv, SortedAfterDependencies
<1> QED
  BY <1>1, <1>2, <1>3, <1>6, <1>9, <1>12, <1>14, <1>15, <1>16, <1>17, LaterStep DEF Sorting

-----------------------------------------------------------------------------
(* Plan.                                                                   *)

\* A step of Plan or of a filter leaves the graph, its order and its levels.
LEMMA PlanStep ==
    ASSUME IInv, phase \in Leveled, phase' \in Leveled,
           UNCHANGED <<workflowVars, deps, dfsVars, kahnVars, levels, groups>>,
           skippedNodes' \subseteq Nodes,
           CursorInv', GroupsInv', PlanInv', DecidedInv', GroupsSorted'
    PROVE  IInv'
<1>1. phase \in Sorting /\ phase' \in Sorting /\ phase' \notin {"build", "validate", "sort", "levels"}
  BY DEF Leveled, Sorting
<1>2. UNCHANGED <<sorted, queue, inDegree, deps, levels>>
  BY DEF kahnVars
<1>3. KahnInv'
  BY <1>1, <1>2 DEF IInv, KahnInv, Leveled
<1>4. LevelInv'
  <2>1. \A n \in Nodes : LevelAfter(n, levels)' = LevelAfter(n, levels)
    BY <1>2 DEF LevelAfter
  <2> QED
    BY <1>1, <1>2, <2>1 DEF IInv, LevelInv
<1>5. SortedAfterDependencies'
  BY <1>2 DEF IInv, PlannerInv, SortedAfterDependencies
<1> QED
  BY <1>1, <1>2, <1>3, <1>4, <1>5, LaterTypes, LaterStep

\* The levels of the nodes, the groups by level, and the cursor of Plan.
LEMMA PlanTypes ==
    ASSUME IInv, phase = "plan"
    PROVE  /\ deps \in [Nodes -> SUBSET Nodes] /\ levels \in [Nodes -> Nat]
           /\ \A n \in Nodes : deps[n] \subseteq Nodes /\ \A d \in deps[n] : levels[d] < levels[n]
           /\ Len(groups) \in Nat /\ DOMAIN groups = 1..Len(groups)
           /\ \A n \in Nodes : levels[n] < Len(groups)
           /\ \A g \in 1..Len(groups) :
                 /\ groups[g] \in Seq(Nodes) /\ Len(groups[g]) \in Nat /\ DOMAIN groups[g] = 1..Len(groups[g])
                 /\ \A k, l \in 1..Len(groups[g]) : groups[g][k] = groups[g][l] => k = l
                 /\ {groups[g][k] : k \in 1..Len(groups[g])} = {n \in Nodes : levels[n] = g - 1}
                 /\ \A k, l \in 1..Len(groups[g]) : k < l =>
                       \E p, q \in DOMAIN NodeOrder :
                          p < q /\ NodeOrder[p] = groups[g][k] /\ NodeOrder[q] = groups[g][l]
           /\ cursor.group \in 1..(Len(groups) + 1) /\ cursor.index \in Nat \ {0}
           /\ cursor \in [group : Nat \ {0}, index : Nat \ {0}]
           /\ plan \in Seq(Seq(Nodes)) /\ Len(plan) \in Nat \ {0} /\ DOMAIN plan = 1..Len(plan)
           /\ \A i \in 1..Len(plan) : /\ plan[i] \in Seq(Nodes) /\ Len(plan[i]) \in Nat
                                      /\ DOMAIN plan[i] = 1..Len(plan[i]) /\ ToSet(plan[i]) \subseteq Nodes
           /\ skippedNodes \subseteq Nodes
<1>1. /\ deps \in [Nodes -> SUBSET Nodes] /\ levels \in [Nodes -> Nat] /\ skippedNodes \subseteq Nodes
      /\ \A n \in Nodes : levels[n] = LevelAfter(n, levels)
  BY LaterTypes DEF Sorting, IInv, LevelInv, Leveled
<1>2. \A n \in Nodes : deps[n] \subseteq Nodes /\ \A d \in deps[n] : levels[d] < levels[n]
  BY <1>1, LevelAbove
<1>3. /\ groups \in Seq(Seq(Nodes)) /\ \A n \in Nodes : levels[n] < Len(groups)
      /\ \A g \in DOMAIN groups : groups[g] = Sorted({n \in Nodes : levels[n] = g - 1})
      /\ cursor.group <= Len(groups) + 1
      /\ cursor \in [group : Nat \ {0}, index : Nat \ {0}]
  BY DEF IInv, GroupsInv, CursorInv
<1>4. Len(groups) \in Nat /\ DOMAIN groups = 1..Len(groups)
  BY <1>3, LenProperties
<1>5. ASSUME NEW g \in 1..Len(groups)
      PROVE  /\ groups[g] \in Seq(Nodes) /\ Len(groups[g]) \in Nat /\ DOMAIN groups[g] = 1..Len(groups[g])
             /\ \A k, l \in 1..Len(groups[g]) : groups[g][k] = groups[g][l] => k = l
             /\ {groups[g][k] : k \in 1..Len(groups[g])} = {n \in Nodes : levels[n] = g - 1}
             /\ \A k, l \in 1..Len(groups[g]) : k < l =>
                   \E p, q \in DOMAIN NodeOrder :
                      p < q /\ NodeOrder[p] = groups[g][k] /\ NodeOrder[q] = groups[g][l]
  <2> DEFINE S == {n \in Nodes : levels[n] = g - 1}
             s == groups[g]
  <2>1. s = Sorted(S) /\ S \in SUBSET Nodes
    BY <1>3, <1>4
  <2> HIDE DEF S, s
  <2>2. /\ s \in Seq(Nodes) /\ IsInjective(s) /\ ToSet(s) = S
        /\ \A k, l \in DOMAIN s : k < l =>
              \E p, q \in DOMAIN NodeOrder : p < q /\ NodeOrder[p] = s[k] /\ NodeOrder[q] = s[l]
    BY <2>1, SortedNodes
  <2>3. Len(s) \in Nat /\ DOMAIN s = 1..Len(s)
    BY <2>2, LenProperties
  <2>4. \A k, l \in 1..Len(s) : s[k] = s[l] => k = l
    BY <2>2, <2>3 DEF IsInjective
  <2>5. {s[k] : k \in 1..Len(s)} = S
    BY <2>2, <2>3 DEF ToSet
  <2>6. \A k, l \in 1..Len(s) : k < l =>
           \E p, q \in DOMAIN NodeOrder : p < q /\ NodeOrder[p] = s[k] /\ NodeOrder[q] = s[l]
    BY <2>2, <2>3
  <2> QED
    BY <2>2, <2>3, <2>4, <2>5, <2>6 DEF s, S
<1>6. plan \in Seq(Seq(Nodes)) /\ plan # <<>>
  BY DEF IInv, PlanInv, DecidedInv, Leveled
<1>7. Len(plan) \in Nat \ {0} /\ DOMAIN plan = 1..Len(plan) /\ \A i \in 1..Len(plan) : plan[i] \in Seq(Nodes)
  BY <1>6, EmptySeq, LenProperties, ElementOfSeq
<1>8. ASSUME NEW i \in 1..Len(plan)
      PROVE  Len(plan[i]) \in Nat /\ DOMAIN plan[i] = 1..Len(plan[i]) /\ ToSet(plan[i]) \subseteq Nodes
  <2>1. plan[i] \in Seq(Nodes)
    BY <1>7
  <2>2. \A k \in DOMAIN plan[i] : plan[i][k] \in Nodes
    BY <2>1, LenProperties, ElementOfSeq
  <2> QED
    BY <2>1, <2>2, LenProperties DEF ToSet
<1>9. cursor.group \in 1..(Len(groups) + 1) /\ cursor.index \in Nat \ {0}
  BY <1>3, <1>4
<1> QED
  BY <1>1, <1>2, <1>3, <1>4, <1>5, <1>6, <1>7, <1>8, <1>9

\* The node at the cursor has not been passed, and is passed next.
LEMMA NextNode ==
    ASSUME IInv, PlanNode, NEW g, g = cursor.group, NEW i, i = cursor.index, NEW n, n = groups[g][i]
    PROVE  /\ phase = "plan" /\ phase' = "plan"
           /\ UNCHANGED <<workflowVars, deps, dfsVars, kahnVars, levels, groups>>
           /\ cursor' = [group |-> g, index |-> i + 1]
           /\ g \in 1..Len(groups) /\ i \in 1..Len(groups[g])
           /\ n \in Nodes /\ levels[n] = g - 1
           /\ n \notin Passed /\ Passed' = Passed \cup {n}
           /\ \A m \in Passed : /\ m \in Nodes /\ levels[m] <= levels[n] /\ n \notin deps[m]
                                /\ levels[m] = g - 1 => \E k \in 1..(i - 1) : m = groups[g][k]
           /\ n \notin deps[n]
<1>1. /\ phase = "plan" /\ phase' = "plan" /\ g <= Len(groups) /\ i <= Len(groups[g])
      /\ cursor' = [cursor EXCEPT !.index = @ + 1]
      /\ UNCHANGED <<workflowVars, deps, dfsVars, kahnVars, levels, groups>>
  BY DEF PlanNode
<1>2. /\ levels \in [Nodes -> Nat] /\ Len(groups) \in Nat
      /\ \A m \in Nodes : deps[m] \subseteq Nodes /\ \A d \in deps[m] : levels[d] < levels[m]
      /\ cursor.group \in 1..(Len(groups) + 1) /\ cursor.index \in Nat \ {0}
      /\ cursor \in [group : Nat \ {0}, index : Nat \ {0}]
  BY <1>1, PlanTypes
<1>3. g \in 1..Len(groups) /\ cursor' = [group |-> g, index |-> i + 1]
  BY <1>1, <1>2
<1>4. /\ Len(groups[g]) \in Nat
      /\ \A k, l \in 1..Len(groups[g]) : groups[g][k] = groups[g][l] => k = l
      /\ {groups[g][k] : k \in 1..Len(groups[g])} = {m \in Nodes : levels[m] = g - 1}
  BY <1>1, <1>3, PlanTypes
<1>5. i \in 1..Len(groups[g]) /\ n \in Nodes /\ levels[n] = g - 1 /\ g \in Nat
  BY <1>1, <1>2, <1>3, <1>4
<1>6. Passed = {m \in Nodes : levels[m] < g - 1} \cup {groups[g][k] : k \in 1..(i - 1)}
  BY <1>1 DEF Passed
<1>7. \A k \in 1..(i - 1) : k \in 1..Len(groups[g]) /\ k # i /\ groups[g][k] \in Nodes /\ levels[groups[g][k]] = g - 1
  BY <1>4, <1>5
<1>8. n \notin Passed
  <2>1. ~(levels[n] < g - 1)
    BY <1>5
  <2>2. \A k \in 1..(i - 1) : groups[g][k] # n
    BY <1>4, <1>5, <1>7
  <2> QED
    BY <1>6, <2>1, <2>2
<1>9. Passed' = Passed \cup {n}
  <2>1. 1..((i + 1) - 1) = (1..(i - 1)) \cup {i}
    BY <1>5
  <2>2. Passed' = {m \in Nodes : levels[m] < g - 1} \cup {groups[g][k] : k \in 1..((i + 1) - 1)}
    BY <1>1, <1>3 DEF Passed
  <2> QED
    BY <1>6, <2>1, <2>2
<1>10. ASSUME NEW m \in Passed
       PROVE  /\ m \in Nodes /\ levels[m] <= levels[n] /\ n \notin deps[m]
              /\ levels[m] = g - 1 => \E k \in 1..(i - 1) : m = groups[g][k]
  <2>1. m \in Nodes /\ levels[m] <= levels[n] /\ levels[m] \in Nat /\ levels[n] \in Nat
    BY <1>2, <1>5, <1>6, <1>7
  <2>2. n \notin deps[m]
    BY <2>1, <1>2
  <2>3. levels[m] = g - 1 => m \notin {l \in Nodes : levels[l] < g - 1}
    BY <2>1, <1>5
  <2> QED
    BY <2>1, <2>2, <2>3, <1>6
<1>11. n \notin deps[n]
  BY <1>2, <1>5
<1> QED
  BY <1>1, <1>3, <1>5, <1>8, <1>9, <1>10, <1>11

\* The cursor stays within the groups.
LEMMA NextCursor ==
    ASSUME IInv, PlanNode
    PROVE  CursorInv' /\ GroupsInv'
<1>0. PICK g, i, n : g = cursor.group /\ i = cursor.index /\ n = groups[g][i]
  OBVIOUS
<1>1. /\ phase = "plan" /\ phase' = "plan" /\ UNCHANGED <<levels, groups>>
      /\ cursor' = [group |-> g, index |-> i + 1]
      /\ g \in 1..Len(groups) /\ i \in 1..Len(groups[g])
  BY <1>0, NextNode
<1>2. Len(groups) \in Nat /\ Len(groups[g]) \in Nat
  BY <1>1, PlanTypes
<1>3. g \in Nat \ {0} /\ i + 1 \in Nat \ {0} /\ i + 1 <= Len(groups[g]) + 1
      /\ g <= Len(groups) + 1 /\ g # Len(groups) + 1
  BY <1>1, <1>2
<1> QED
  BY <1>1, <1>3 DEF IInv, CursorInv, GroupsInv

\* Whether Plan drops a node was settled by nodes it passed earlier.
LEMMA DropsSettled ==
    ASSUME NEW m, UNCHANGED <<workflowVars, deps>>, deps[m] \cap skippedNodes' = deps[m] \cap skippedNodes
    PROVE  Drops(m)' <=> Drops(m)
<1>1. DepSkipped(m)' <=> DepSkipped(m)
  BY DEF DepSkipped
<1> QED
  BY <1>1 DEF Drops, ContainsAlways, NeedsRuntimeEval, workflowVars

\* Of what Plan does not drop it may rely on.
LEMMA KeptNode ==
    ASSUME NEW n, ~Drops(n)
    PROVE  /\ deps[n] \cap skippedNodes # {} => ContainsAlways(n)
           /\ cond[JobOf[n]] # "false"
BY DEF Drops, DepSkipped, NeedsRuntimeEval

LEMMA DropNodeStep ==
    ASSUME IInv, PlanNode, Drops(groups[cursor.group][cursor.index])
    PROVE  IInv'
<1>0. PICK n, g, i : n = groups[g][i] /\ g = cursor.group /\ i = cursor.index
  OBVIOUS
<1>1. /\ phase = "plan" /\ phase' = "plan"
      /\ UNCHANGED <<workflowVars, deps, dfsVars, kahnVars, levels, groups>>
      /\ cursor' = [group |-> g, index |-> i + 1]
      /\ g \in 1..Len(groups) /\ i \in 1..Len(groups[g])
      /\ n \in Nodes /\ levels[n] = g - 1
      /\ n \notin Passed /\ Passed' = Passed \cup {n}
      /\ \A m \in Passed : m \in Nodes /\ n \notin deps[m]
      /\ n \notin deps[n]
  BY <1>0, NextNode
<1>2. Drops(n) /\ skippedNodes' = skippedNodes \cup {n} /\ plan' = plan
  BY <1>0 DEF PlanNode
<1>3. /\ plan # <<>> /\ PlanNodes = Passed \ skippedNodes
      /\ skippedNodes = {m \in Passed : Drops(m)}
  BY <1>1 DEF IInv, DecidedInv
<1>4. PlanNodes' = PlanNodes
  BY <1>2 DEF PlanNodes
<1>5. \A m \in Passed \cup {n} : deps[m] \cap skippedNodes' = deps[m] \cap skippedNodes
  BY <1>1, <1>2
<1>6. \A m \in Passed \cup {n} : Drops(m)' <=> Drops(m)
  BY <1>1, <1>5, DropsSettled
<1>7. skippedNodes' = {m \in Passed' : Drops(m)'}
  BY <1>1, <1>2, <1>3, <1>6
<1>8. PlanNodes' = Passed' \ skippedNodes'
  BY <1>1, <1>2, <1>3, <1>4
<1>9. DecidedInv'
  <2>1. cursor'.group = cursor.group
    BY <1>0, <1>1
  <2> QED
    BY <2>1, <1>1, <1>2, <1>7, <1>8 DEF IInv, DecidedInv
<1>10. PlanInv'
  <2>1. ASSUME NEW m \in PlanNodes
        PROVE  m \notin skippedNodes' /\ deps[m] \cap skippedNodes' = deps[m] \cap skippedNodes
    BY <1>1, <1>2, <1>3, <1>5
  <2>2. \A m \in PlanNodes : ContainsAlways(m)' <=> ContainsAlways(m)
    BY <1>1 DEF ContainsAlways, workflowVars
  <2>3. LevelsApart' /\ cond' = cond
    BY <1>1, <1>2 DEF IInv, PlanInv, Leveled, LevelsApart, workflowVars
  <2> QED
    BY <2>1, <2>2, <2>3, <1>1, <1>2, <1>4 DEF IInv, PlanInv, Leveled
<1>11. CursorInv' /\ GroupsInv'
  BY NextCursor
<1>12. GroupsSorted'
  BY <1>1, <1>2 DEF IInv, GroupsSorted
<1>13. skippedNodes' \subseteq Nodes
  BY <1>1, <1>2, PlanTypes
<1> QED
  BY <1>1, <1>9, <1>10, <1>11, <1>12, <1>13, PlanStep DEF Leveled

\* A node Plan keeps joins the last group, whose nodes have its level.
LEMMA KeepNodeStep ==
    ASSUME IInv, PlanNode, ~Drops(groups[cursor.group][cursor.index])
    PROVE  IInv'
<1>0. PICK n, g, i, L : n = groups[g][i] /\ g = cursor.group /\ i = cursor.index /\ L = Len(plan)
  OBVIOUS
<1>1. /\ phase = "plan" /\ phase' = "plan"
      /\ UNCHANGED <<workflowVars, deps, dfsVars, kahnVars, levels, groups>>
      /\ cursor' = [group |-> g, index |-> i + 1]
      /\ g \in 1..Len(groups) /\ i \in 1..Len(groups[g])
      /\ n \in Nodes /\ levels[n] = g - 1
      /\ n \notin Passed /\ Passed' = Passed \cup {n}
      /\ \A m \in Passed : /\ m \in Nodes
                           /\ levels[m] = g - 1 => \E k \in 1..(i - 1) : m = groups[g][k]
  BY SMTT(30), <1>0, NextNode
<1>2. ~Drops(n) /\ skippedNodes' = skippedNodes
      /\ plan' = [plan EXCEPT ![L] = Append(plan[L], n)]
  BY <1>0 DEF PlanNode
<1>3. /\ plan # <<>> /\ PlanNodes = Passed \ skippedNodes
      /\ skippedNodes = {m \in Passed : Drops(m)}
      /\ \A m \in ToSet(plan[L]) : levels[m] = g - 1
      /\ \A k \in 1..(L - 1) : plan[k] # <<>> /\ \A m \in ToSet(plan[k]) : levels[m] < g - 1
  BY <1>0, <1>1 DEF IInv, DecidedInv
<1>4. /\ plan \in Seq(Seq(Nodes)) /\ L \in Nat \ {0} /\ DOMAIN plan = 1..L
      /\ \A k \in 1..L : /\ plan[k] \in Seq(Nodes) /\ Len(plan[k]) \in Nat
                         /\ DOMAIN plan[k] = 1..Len(plan[k]) /\ ToSet(plan[k]) \subseteq Nodes
      /\ levels \in [Nodes -> Nat] /\ skippedNodes \subseteq Nodes
  BY <1>0, <1>1, PlanTypes
<1>5. PICK s, K : s = plan[L] /\ K = Len(s)
  OBVIOUS
<1>6. /\ s \in Seq(Nodes) /\ K \in Nat /\ DOMAIN s = 1..K /\ L \in 1..L /\ ToSet(s) \subseteq PlanNodes
      /\ ToSet(s) = {s[k] : k \in 1..K}
  BY <1>4, <1>5 DEF PlanNodes, ToSet
<1>7. PICK z : z = Append(s, n)
  OBVIOUS
<1>8. /\ z \in Seq(Nodes) /\ Len(z) = K + 1 /\ DOMAIN z = 1..(K + 1)
      /\ \A k \in 1..K : z[k] = s[k]
      /\ z[K + 1] = n
  BY <1>1, <1>5, <1>6, <1>7, AppendProperties, LenProperties
<1>9. ToSet(z) = ToSet(s) \cup {n}
  <2>1. 1..(K + 1) = (1..K) \cup {K + 1}
    BY <1>6
  <2>2. ToSet(z) = {z[k] : k \in 1..(K + 1)}
    BY <1>8 DEF ToSet
  <2> QED
    BY <2>1, <2>2, <1>6, <1>8
<1>10. /\ plan' \in Seq(Seq(Nodes)) /\ Len(plan') = L /\ DOMAIN plan' = 1..L
       /\ plan'[L] = z
       /\ \A k \in 1..L : k # L => plan'[k] = plan[k]
  <2> DEFINE T == Seq(Nodes)
  <2>1. plan \in Seq(T) /\ z \in T /\ plan' = [plan EXCEPT ![L] = z] /\ L \in 1..Len(plan)
    BY <1>0, <1>2, <1>4, <1>5, <1>6, <1>7, <1>8
  <2> HIDE DEF T
  <2>2. plan' \in Seq(T) /\ Len(plan') = Len(plan) /\ \A k \in 1..Len(plan) : plan'[k] = IF k = L THEN z ELSE plan[k]
    BY <2>1, ExceptSeq
  <2>3. DOMAIN plan' = 1..Len(plan')
    BY <2>2, LenProperties
  <2> QED
    BY <2>2, <2>3, <1>0, <1>6 DEF T
<1>11. n \notin PlanNodes /\ n \notin skippedNodes /\ PlanNodes \subseteq Passed
  BY <1>1, <1>3
<1>12. PlanNodes' = PlanNodes \cup {n}
  <2>1. PlanNodes = UNION {ToSet(plan[k]) : k \in 1..L}
    BY <1>4 DEF PlanNodes
  <2>2. PlanNodes' = UNION {ToSet(plan'[k]) : k \in 1..L}
    BY <1>10 DEF PlanNodes
  <2>3. ASSUME NEW m \in PlanNodes
        PROVE  m \in PlanNodes'
    <3>1. PICK k \in 1..L : m \in ToSet(plan[k])
      BY <2>1
    <3> QED
      BY <3>1, <2>2, <1>5, <1>9, <1>10
  <2>4. n \in PlanNodes'
    BY <2>2, <1>6, <1>9, <1>10
  <2>5. ASSUME NEW m \in PlanNodes'
        PROVE  m \in PlanNodes \cup {n}
    <3>1. PICK k \in 1..L : m \in ToSet(plan'[k])
      BY <2>2
    <3> QED
      BY <3>1, <2>1, <1>5, <1>9, <1>10
  <2> QED
    BY <2>3, <2>4, <2>5
<1>13. /\ \A m \in ToSet(z) : levels[m] = g - 1
       /\ \A k \in 1..(L - 1) : plan'[k] # <<>> /\ \A m \in ToSet(plan'[k]) : levels[m] < g - 1
  <2>1. \A m \in ToSet(z) : levels[m] = g - 1
    BY <1>1, <1>3, <1>5, <1>9
  <2>2. \A k \in 1..(L - 1) : k \in 1..L /\ k # L
    BY <1>4
  <2> QED
    BY <2>1, <2>2, <1>3, <1>10
<1>14. DecidedInv'
  <2>1. \A m \in Passed \cup {n} : Drops(m)' <=> Drops(m)
    BY <1>1, <1>2, DropsSettled
  <2>2. skippedNodes' = {m \in Passed' : Drops(m)'}
    BY <2>1, <1>1, <1>2, <1>3
  <2>3. PlanNodes' = Passed' \ skippedNodes'
    BY <1>1, <1>2, <1>3, <1>11, <1>12
  <2>4. plan' # <<>> /\ plan'[Len(plan')] = z
    BY <1>4, <1>10, EmptySeq
  <2>5. levels' = levels /\ cursor'.group = g /\ Len(plan') - 1 = L - 1
    BY <1>1, <1>10
  <2> QED
    BY <2>2, <2>3, <2>4, <2>5, <1>1, <1>13 DEF DecidedInv
<1>15. \A k \in 1..L : IsInjective(plan'[k])
  <2>1. \A k \in 1..L : IsInjective(plan[k])
    BY <1>1, <1>4 DEF IInv, PlanInv, Leveled
  <2>2. IsInjective(z)
    <3>1. \A k, l \in 1..K : s[k] = s[l] => k = l
      BY <2>1, <1>5, <1>6 DEF IsInjective
    <3>2. \A k \in 1..K : s[k] # n
      BY <1>6, <1>11
    <3>3. \A k \in 1..(K + 1) : k \in 1..K \/ k = K + 1
      BY <1>6
    <3> QED
      BY <3>1, <3>2, <3>3, <1>8 DEF IsInjective
  <2> QED
    BY <2>1, <2>2, <1>10
<1>16. LevelsApart'
  <2> SUFFICES ASSUME NEW j \in 1..L, NEW k \in 1..L, NEW m \in ToSet(plan'[j]), NEW o \in ToSet(plan'[k])
               PROVE  /\ j = k => levels[m] = levels[o]
                      /\ j < k => levels[m] < levels[o]
    BY SMTT(30), <1>1, <1>10 DEF LevelsApart
  <2>1. CASE j = L
    <3>1. levels[m] = g - 1 /\ ~(j < k)
      BY <2>1, <1>4, <1>10, <1>13
    <3> QED
      BY <2>1, <3>1, <1>10, <1>13
  <2>2. CASE j # L /\ k = L
    BY <2>2, <1>4, <1>10, <1>13
  <2>3. CASE j # L /\ k # L
    BY ZenonT(30), <2>3, <1>1, <1>4, <1>10 DEF IInv, PlanInv, Leveled, LevelsApart
  <2> QED
    BY <2>1, <2>2, <2>3
<1>17. PlanInv'
  <2>1. ASSUME NEW m \in PlanNodes'
        PROVE  /\ m \notin skippedNodes'
               /\ deps'[m] \cap skippedNodes' # {} => ContainsAlways(m)'
               /\ cond'[JobOf[m]] # "false"
    <3>1. ContainsAlways(m)' <=> ContainsAlways(m)
      BY <1>1 DEF ContainsAlways, workflowVars
    <3>2. m \notin skippedNodes /\ ~Drops(m)
      BY <1>1, <1>2, <1>3, <1>11, <1>12
    <3> QED
      BY <3>1, <3>2, <1>1, <1>2, KeptNode DEF workflowVars
  <2> QED
    BY <2>1, <1>10, <1>15, <1>16 DEF PlanInv
<1>18. GroupsSorted'
  <2> DEFINE Before(m, o) == \E p, q \in DOMAIN NodeOrder : p < q /\ NodeOrder[p] = m /\ NodeOrder[q] = o
  <2>1. \A j \in 1..L : \A k, l \in DOMAIN plan[j] : k < l => Before(plan[j][k], plan[j][l])
    BY <1>1, <1>4 DEF IInv, GroupsSorted
  <2>2. \A k, l \in 1..Len(groups[g]) : k < l => Before(groups[g][k], groups[g][l])
    BY <1>1, PlanTypes
  <2>3. Len(groups[g]) \in Nat
    BY <1>1, PlanTypes
  <2> HIDE DEF Before
  <2>4. ASSUME NEW k \in 1..(K + 1), NEW l \in 1..(K + 1), k < l
        PROVE  Before(z[k], z[l])
    <3>1. CASE l \in 1..K
      <4>1. k \in 1..K
        BY <3>1, <2>4, <1>6
      <4> QED
        BY <3>1, <4>1, <2>1, <2>4, <1>5, <1>6, <1>8
    <3>2. CASE l = K + 1
      <4>1. k \in 1..K /\ z[k] = s[k] /\ s[k] \in ToSet(s)
        BY <3>2, <2>4, <1>6, <1>8
      <4>2. s[k] \in Passed /\ levels[s[k]] = g - 1
        BY <4>1, <1>3, <1>5, <1>6, <1>11
      <4>3. PICK h \in 1..(i - 1) : s[k] = groups[g][h]
        BY <4>2, <1>1
      <4>4. h \in 1..Len(groups[g]) /\ h < i
        BY SMTT(30), <2>3, <1>1
      <4> QED
        BY SMTT(30), <3>2, <4>1, <4>3, <4>4, <2>2, <1>0, <1>1, <1>8
    <3> QED
      BY <3>1, <3>2, <1>6
  <2>5. \A j \in 1..L : \A k, l \in DOMAIN plan'[j] : k < l => Before(plan'[j][k], plan'[j][l])
    <3> TAKE j \in 1..L
    <3>1. CASE j = L
      BY <3>1, <2>4, <1>8, <1>10
    <3>2. CASE j # L
      BY <3>2, <2>1, <1>10
    <3> QED
      BY <3>1, <3>2
  <2> QED
    BY <2>5, <1>10 DEF GroupsSorted, Before
<1>19. CursorInv' /\ GroupsInv'
  BY NextCursor
<1>20. skippedNodes' \subseteq Nodes
  BY <1>2, <1>4
<1> QED
  BY <1>1, <1>14, <1>17, <1>18, <1>19, <1>20, PlanStep DEF Leveled

\* At the end of a group the nodes of its level have been passed; the last group
\* of the plan is empty again or a new one.
LEMMA EndGroupStep ==
    ASSUME IInv, EndGroup
    PROVE  IInv'
<1>0. PICK g, L : g = cursor.group /\ L = Len(plan)
  OBVIOUS
<1>1. /\ phase = "plan" /\ phase' = "plan" /\ g <= Len(groups) /\ cursor.index > Len(groups[g])
      /\ plan' = IF Last(plan) = <<>> THEN plan ELSE Append(plan, <<>>)
      /\ cursor' = [group |-> g + 1, index |-> 1]
      /\ UNCHANGED <<workflowVars, deps, dfsVars, kahnVars, levels, groups, skippedNodes>>
  BY <1>0 DEF EndGroup
<1>2. /\ plan \in Seq(Seq(Nodes)) /\ L \in Nat \ {0} /\ DOMAIN plan = 1..L
      /\ \A k \in 1..L : plan[k] \in Seq(Nodes) /\ ToSet(plan[k]) \subseteq Nodes
      /\ levels \in [Nodes -> Nat] /\ skippedNodes \subseteq Nodes
      /\ Len(groups) \in Nat /\ g \in 1..(Len(groups) + 1) /\ cursor.index \in Nat \ {0}
      /\ \A n \in Nodes : levels[n] < Len(groups)
  BY <1>0, <1>1, PlanTypes
<1>3. g \in 1..Len(groups)
  BY <1>1, <1>2
<1>4. Len(groups[g]) \in Nat /\ {groups[g][k] : k \in 1..Len(groups[g])} = {n \in Nodes : levels[n] = g - 1}
  BY <1>1, <1>3, PlanTypes
<1>5. cursor.index - 1 = Len(groups[g])
  <2>1. cursor.index <= Len(groups[g]) + 1
    BY <1>0, <1>1 DEF IInv, GroupsInv
  <2> QED
    <3>1. cursor.index \in Nat /\ Len(groups[g]) \in Nat /\ cursor.index > Len(groups[g])
      BY <1>1, <1>2, <1>4
    <3> QED
      BY <2>1, <3>1
<1>6. Passed = {n \in Nodes : levels[n] < g}
  <2>1. Passed = {n \in Nodes : levels[n] < g - 1} \cup {n \in Nodes : levels[n] = g - 1}
    BY <1>0, <1>1, <1>4, <1>5 DEF Passed
  <2>2. \A n \in Nodes : levels[n] < g <=> levels[n] < g - 1 \/ levels[n] = g - 1
    BY <1>2, <1>3
  <2> QED
    BY <2>1, <2>2
<1>7. Passed' = Passed
  <2>1. (g + 1) - 1 = g /\ 1..(1 - 1) = {}
    BY <1>3
  <2>2. cursor'.group = g + 1 /\ cursor'.index = 1
    BY <1>1
  <2>3. Passed' = {n \in Nodes : levels[n] < (g + 1) - 1} \cup {}
    BY <1>1, <2>1, <2>2 DEF Passed
  <2> QED
    BY <1>6, <2>1, <2>3
<1>8. /\ plan # <<>> /\ PlanNodes = Passed \ skippedNodes
      /\ skippedNodes = {m \in Passed : Drops(m)}
      /\ \A m \in ToSet(plan[L]) : levels[m] = g - 1
      /\ \A k \in 1..(L - 1) : plan[k] # <<>> /\ \A m \in ToSet(plan[k]) : levels[m] < g - 1
  BY <1>0, <1>1 DEF IInv, DecidedInv
<1>9. ToSet(<<>>) = {} /\ DOMAIN <<>> = {} /\ IsInjective(<<>>) /\ <<>> \in Seq(Nodes)
  BY DEF ToSet, IsInjective
<1>10. \/ plan' = plan /\ plan[L] = <<>>
       \/ /\ plan' \in Seq(Seq(Nodes)) /\ Len(plan') = L + 1 /\ DOMAIN plan' = 1..(L + 1)
          /\ \A k \in 1..L : plan'[k] = plan[k]
          /\ plan'[L + 1] = <<>>
          /\ plan[L] # <<>>
  <2>1. CASE plan[L] = <<>>
    BY <2>1, <1>0, <1>1 DEF Last
  <2>2. CASE plan[L] # <<>>
    <3> DEFINE T == Seq(Nodes)
    <3>1. plan' = Append(plan, <<>>) /\ plan \in Seq(T) /\ <<>> \in T
      BY <2>2, <1>0, <1>1, <1>2, <1>9 DEF Last
    <3> HIDE DEF T
    <3>2. plan' \in Seq(T) /\ Len(plan') = Len(plan) + 1 /\ (\A k \in 1..Len(plan) : plan'[k] = plan[k])
          /\ plan'[Len(plan) + 1] = <<>>
      BY <3>1, AppendProperties
    <3>3. DOMAIN plan' = 1..Len(plan')
      BY <3>2, LenProperties
    <3> QED
      BY <2>2, <3>2, <3>3, <1>0 DEF T
  <2> QED
    BY <2>1, <2>2
<1>11. PICK M : M = Len(plan')
  OBVIOUS
<1>12. /\ plan' \in Seq(Seq(Nodes)) /\ M \in Nat \ {0} /\ DOMAIN plan' = 1..M
       /\ plan'[M] = <<>>
       /\ \A k \in 1..(M - 1) : k \in 1..L /\ plan'[k] = plan[k] /\ plan[k] # <<>>
       /\ \A k \in 1..L : plan[k] # <<>> => k \in 1..M /\ plan'[k] = plan[k]
  <2>1. CASE plan' = plan /\ plan[L] = <<>>
    <3>1. M = L
      BY <2>1, <1>0, <1>11
    <3>2. \A k \in 1..(L - 1) : k \in 1..L
      BY <1>2
    <3> QED
      BY <2>1, <3>1, <3>2, <1>2, <1>8
  <2>2. CASE plan' # plan \/ plan[L] # <<>>
    <3>1. M = L + 1 /\ (M - 1) = L /\ \A k \in 1..L : k \in 1..(L + 1)
      BY <2>2, <1>2, <1>10, <1>11
    <3>2. \A k \in 1..L : k \in 1..(L - 1) \/ k = L
      BY <1>2
    <3>3. \A k \in 1..L : plan[k] # <<>>
      BY <2>2, <3>2, <1>8, <1>10
    <3> QED
      BY SMTT(30), <2>2, <3>1, <3>3, <1>2, <1>10
  <2> QED
    BY <2>1, <2>2
<1>13. \A k \in 1..M : k = M \/ k \in 1..(M - 1)
  BY <1>12
<1>14. PlanNodes' = PlanNodes
  <2>1. PlanNodes = UNION {ToSet(plan[k]) : k \in 1..L} /\ PlanNodes' = UNION {ToSet(plan'[k]) : k \in 1..M}
    BY <1>2, <1>12 DEF PlanNodes
  <2>2. \A k \in 1..M : \A m \in ToSet(plan'[k]) : \E j \in 1..L : m \in ToSet(plan[j])
    BY <1>9, <1>12, <1>13
  <2>3. \A k \in 1..L : \A m \in ToSet(plan[k]) : \E j \in 1..M : m \in ToSet(plan'[j])
    BY <1>9, <1>12
  <2> QED
    BY <2>1, <2>2, <2>3
<1>15. \A k \in 1..(M - 1) : \A m \in ToSet(plan[k]) : levels[m] < g
  <2>1. \A k \in 1..L : k \in 1..(L - 1) \/ k = L
    BY <1>2
  <2>2. \A k \in 1..L : \A m \in ToSet(plan[k]) : levels[m] < g
    <3>1. g \in Nat /\ \A k \in 1..L : \A m \in ToSet(plan[k]) : levels[m] \in Nat
      BY <1>2, <1>3
    <3>2. \A k \in 1..L : \A m \in ToSet(plan[k]) : levels[m] = g - 1 \/ levels[m] < g - 1
      BY <2>1, <1>8
    <3> QED
      BY <3>1, <3>2
  <2> QED
    BY <2>2, <1>12
<1>16. DecidedInv'
  <2>1. \A m \in Passed : Drops(m)' <=> Drops(m)
    BY <1>1, DropsSettled
  <2>2. (g + 1) - 1 = g /\ cursor'.group = g + 1
    BY <1>1, <1>3
  <2>3. plan' # <<>>
    BY <1>11, <1>12, EmptySeq
  <2>4. \A m \in ToSet(plan'[M]) : levels'[m] = cursor'.group - 1
    BY <1>9, <1>12
  <2>5. \A k \in 1..(M - 1) : plan'[k] # <<>> /\ \A m \in ToSet(plan'[k]) : levels'[m] < cursor'.group - 1
    BY <2>2, <1>1, <1>12, <1>15
  <2> QED
    BY <2>1, <2>3, <2>4, <2>5, <1>1, <1>7, <1>8, <1>11, <1>14 DEF DecidedInv
<1>17. PlanInv'
  <2>1. /\ \A k \in 1..L : IsInjective(plan[k])
        /\ LevelsApart
        /\ \A m \in PlanNodes : /\ m \notin skippedNodes
                                /\ deps[m] \cap skippedNodes # {} => ContainsAlways(m)
                                /\ cond[JobOf[m]] # "false"
    BY <1>1, <1>2 DEF IInv, PlanInv, Leveled
  <2>2. \A k \in 1..M : IsInjective(plan'[k])
    BY <2>1, <1>9, <1>12, <1>13
  <2>3. ASSUME NEW j \in 1..M, NEW k \in 1..M, NEW m \in ToSet(plan'[j]), NEW o \in ToSet(plan'[k])
        PROVE  /\ j = k => levels[m] = levels[o]
               /\ j < k => levels[m] < levels[o]
    <3>1. j \in 1..(M - 1) /\ k \in 1..(M - 1)
      BY <2>3, <1>9, <1>12, <1>13
    <3>2. j \in DOMAIN plan /\ k \in DOMAIN plan /\ m \in ToSet(plan[j]) /\ o \in ToSet(plan[k])
      BY <2>3, <3>1, <1>2, <1>12
    <3> QED
      BY <2>1, <3>2 DEF LevelsApart
  <2>4. LevelsApart'
    <3>1. levels' = levels /\ DOMAIN plan' = 1..M
      BY <1>1, <1>12
    <3> QED
      BY <2>3, <3>1 DEF LevelsApart
  <2>5. \A m \in PlanNodes : ContainsAlways(m)' <=> ContainsAlways(m)
    BY <1>1 DEF ContainsAlways, workflowVars
  <2> QED
    BY <2>1, <2>2, <2>4, <2>5, <1>1, <1>12, <1>14 DEF PlanInv, workflowVars
<1>18. GroupsSorted'
  <2> DEFINE Before(m, o) == \E p, q \in DOMAIN NodeOrder : p < q /\ NodeOrder[p] = m /\ NodeOrder[q] = o
  <2>1. \A j \in 1..L : \A k, l \in DOMAIN plan[j] : k < l => Before(plan[j][k], plan[j][l])
    BY <1>1, <1>2 DEF IInv, GroupsSorted
  <2> HIDE DEF Before
  <2>2. \A j \in 1..M : \A k, l \in DOMAIN plan'[j] : k < l => Before(plan'[j][k], plan'[j][l])
    BY <2>1, <1>9, <1>12, <1>13
  <2> QED
    BY <2>2, <1>12 DEF GroupsSorted, Before
<1>19. CursorInv' /\ GroupsInv'
  <2>1. g + 1 \in Nat \ {0} /\ 1 \in Nat \ {0} /\ g + 1 <= Len(groups) + 1
    BY <1>1, <1>2, <1>3
  <2>2. cursor'.group = g + 1 /\ cursor'.index = 1
    BY <1>1
  <2>3. g + 1 <= Len(groups) => 1 <= Len(groups[g + 1]) + 1
    <3>1. ASSUME g + 1 <= Len(groups)
          PROVE  Len(groups[g + 1]) \in Nat
      <4>1. g + 1 \in 1..Len(groups)
        BY <2>1, <3>1, <1>2
      <4> QED
        BY <4>1, <1>1, PlanTypes
    <3> QED
      BY <3>1
  <2>4. cursor' \in [group : Nat \ {0}, index : Nat \ {0}]
    BY <2>1, <1>1
  <2> QED
    BY <2>1, <2>2, <2>3, <2>4, <1>1 DEF IInv, CursorInv, GroupsInv
<1>20. skippedNodes' \subseteq Nodes
  BY <1>1, <1>2
<1> QED
  BY <1>1, <1>16, <1>17, <1>18, <1>19, <1>20, PlanStep DEF Leveled

\* In the end every node has been passed and the last group is empty.
LEMMA EndPlanStep ==
    ASSUME IInv, EndPlan
    PROVE  IInv'
<1>0. PICK g, L : g = cursor.group /\ L = Len(plan)
  OBVIOUS
<1>1. /\ phase = "plan" /\ phase' = "done" /\ g > Len(groups) /\ plan' = Front(plan)
      /\ UNCHANGED <<workflowVars, deps, dfsVars, kahnVars, levels, groups, skippedNodes, cursor>>
  BY <1>0 DEF EndPlan
<1>2. /\ plan \in Seq(Seq(Nodes)) /\ L \in Nat \ {0} /\ DOMAIN plan = 1..L
      /\ \A k \in 1..L : plan[k] \in Seq(Nodes) /\ DOMAIN plan[k] = 1..Len(plan[k])
                         /\ ToSet(plan[k]) \subseteq Nodes
      /\ levels \in [Nodes -> Nat] /\ skippedNodes \subseteq Nodes
      /\ Len(groups) \in Nat /\ g \in 1..(Len(groups) + 1)
      /\ \A n \in Nodes : levels[n] < Len(groups)
      /\ cursor \in [group : Nat \ {0}, index : Nat \ {0}]
  BY <1>0, <1>1, PlanTypes
<1>3. g - 1 = Len(groups)
  BY <1>1, <1>2
<1>4. Passed = Nodes
  BY <1>0, <1>1, <1>2, <1>3 DEF Passed
<1>5. /\ PlanNodes = Passed \ skippedNodes
      /\ skippedNodes = {m \in Passed : Drops(m)}
      /\ \A m \in ToSet(plan[L]) : levels[m] = g - 1
      /\ \A k \in 1..(L - 1) : plan[k] # <<>>
  BY <1>0, <1>1 DEF IInv, DecidedInv
<1>6. ToSet(plan[L]) = {}
  BY <1>2, <1>3, <1>5
<1>7. /\ plan' \in Seq(Seq(Nodes)) /\ DOMAIN plan' = 1..(L - 1)
      /\ \A k \in 1..(L - 1) : k \in 1..L /\ plan'[k] = plan[k]
  <2> DEFINE T == Seq(Nodes)
  <2>1. L - 1 \in Int /\ 1 \in Int /\ \A k \in 1..(L - 1) : k \in 1..L /\ plan[k] \in T
    BY <1>2
  <2>2. plan' = SubSeq(plan, 1, L - 1)
    BY <1>0, <1>1 DEF Front
  <2> HIDE DEF T
  <2>3. /\ plan' \in Seq(T)
        /\ Len(plan') = IF 1 <= L - 1 THEN L - 1 - 1 + 1 ELSE 0
        /\ \A i \in 1..(L - 1 - 1 + 1) : plan'[i] = plan[1 + i - 1]
    BY <2>1, <2>2, SubSeqProperties
  <2>4. Len(plan') = L - 1 /\ \A k \in 1..(L - 1) : plan'[k] = plan[k]
    BY <2>3, <1>2
  <2>5. DOMAIN plan' = 1..(L - 1)
    BY <2>3, <2>4, LenProperties
  <2> QED
    BY <2>1, <2>3, <2>4, <2>5 DEF T
<1>8. PlanNodes' = PlanNodes
  <2>1. PlanNodes = UNION {ToSet(plan[k]) : k \in 1..L} /\ PlanNodes' = UNION {ToSet(plan'[k]) : k \in 1..(L - 1)}
    BY <1>2, <1>7 DEF PlanNodes
  <2>2. \A k \in 1..L : k = L \/ k \in 1..(L - 1)
    BY <1>2
  <2> QED
    BY <2>1, <2>2, <1>6, <1>7
<1>9. \A m \in Nodes : Drops(m)' <=> Drops(m)
  BY <1>1, DropsSettled
<1>10. DecidedInv'
  BY <1>1, <1>4, <1>5, <1>7, <1>8, <1>9 DEF DecidedInv
<1>11. PlanInv'
  <2>1. /\ \A k \in 1..L : IsInjective(plan[k])
        /\ LevelsApart
        /\ \A m \in PlanNodes : /\ m \notin skippedNodes
                                /\ deps[m] \cap skippedNodes # {} => ContainsAlways(m)
                                /\ cond[JobOf[m]] # "false"
    BY <1>1, <1>2 DEF IInv, PlanInv, Leveled
  <2>2. LevelsApart'
    <3>1. levels' = levels /\ DOMAIN plan' = 1..(L - 1)
      BY <1>1, <1>7
    <3>2. ASSUME NEW j \in 1..(L - 1), NEW k \in 1..(L - 1), NEW m \in ToSet(plan'[j]), NEW o \in ToSet(plan'[k])
          PROVE  /\ j = k => levels[m] = levels[o]
                 /\ j < k => levels[m] < levels[o]
      <4>1. j \in DOMAIN plan /\ k \in DOMAIN plan /\ m \in ToSet(plan[j]) /\ o \in ToSet(plan[k])
        BY <3>2, <1>2, <1>7
      <4> QED
        BY <2>1, <4>1 DEF LevelsApart
    <3> QED
      BY <3>1, <3>2 DEF LevelsApart
  <2>3. \A m \in PlanNodes : ContainsAlways(m)' <=> ContainsAlways(m)
    BY <1>1 DEF ContainsAlways, workflowVars
  <2> QED
    BY <2>1, <2>2, <2>3, <1>1, <1>7, <1>8 DEF PlanInv, workflowVars
<1>12. GroupsSorted'
  <2> DEFINE Before(m, o) == \E p, q \in DOMAIN NodeOrder : p < q /\ NodeOrder[p] = m /\ NodeOrder[q] = o
  <2>1. \A j \in 1..L : \A k, l \in DOMAIN plan[j] : k < l => Before(plan[j][k], plan[j][l])
    BY <1>1, <1>2 DEF IInv, GroupsSorted
  <2> HIDE DEF Before
  <2>2. \A j \in 1..(L - 1) : \A k, l \in DOMAIN plan'[j] : k < l => Before(plan'[j][k], plan'[j][l])
    BY <2>1, <1>7
  <2> QED
    BY <2>2, <1>7 DEF GroupsSorted, Before
<1>13. CursorInv' /\ GroupsInv'
  BY <1>1, <1>2 DEF CursorInv, GroupsInv
<1>14. skippedNodes' \subseteq Nodes
  BY <1>1, <1>2
<1> QED
  BY <1>1, <1>10, <1>11, <1>12, <1>13, <1>14, PlanStep DEF Leveled

-----------------------------------------------------------------------------
(* The filters.                                                            *)

\* A filtered plan has the groups of the plan some of whose nodes pass, in their
\* order, without the others.
LEMMA KeptGroups ==
    ASSUME NEW job, NEW values, plan \in Seq(Seq(Nodes)), \A k \in DOMAIN plan : IsInjective(plan[k])
    PROVE  \E f :
              /\ Kept(job, values) \in Seq(Seq(Nodes))
              /\ \A g \in DOMAIN Kept(job, values) :
                    /\ f[g] \in DOMAIN plan /\ f[g] \in Nat /\ g \in Nat
                    /\ IsInjective(Kept(job, values)[g])
                    /\ ToSet(Kept(job, values)[g]) \subseteq ToSet(plan[f[g]])
              /\ \A g, h \in DOMAIN Kept(job, values) : g < h => f[g] < f[h]
<1> DEFINE W == {n \in Nodes : Passes(n, job, values)}
           Q == [i \in DOMAIN plan |-> Only(plan[i], W)]
           T == {i \in DOMAIN Q : Q[i] # <<>>}
           K == Kept(job, values)
           f == [g \in DOMAIN K |-> Nth(T, g)]
           Lists == Seq(Nodes)
<1>1. K = At(Q, T) /\ T \in SUBSET DOMAIN Q
  BY DEF Kept, NonEmpty
<1>2. \A i \in DOMAIN plan : plan[i] \in Lists
  BY LenProperties, ElementOfSeq
<1>3. \A i \in DOMAIN plan : /\ Q[i] \in Lists /\ ToSet(Q[i]) \subseteq ToSet(plan[i])
                             /\ IsInjective(Q[i])
  BY <1>2, OnlyKeeps
<1>4. Q \in Seq(Lists) /\ DOMAIN Q = DOMAIN plan
  <2>1. DOMAIN plan = 1..Len(plan) /\ Len(plan) \in Nat
    BY LenProperties
  <2>2. Q \in [1..Len(plan) -> Lists]
    BY <1>3, <2>1
  <2> QED
    BY <2>1, <2>2, SeqDef
<1> HIDE DEF T, Q, K, Lists
<1>5. /\ At(Q, T) \in Seq(Lists) /\ DOMAIN At(Q, T) = 1..Cardinality(T) /\ Cardinality(T) \in Nat
      /\ \A k \in DOMAIN At(Q, T) : Nth(T, k) \in T /\ At(Q, T)[k] = Q[Nth(T, k)]
      /\ \A k, l \in DOMAIN At(Q, T) : k < l => Nth(T, k) < Nth(T, l)
  BY <1>1, <1>4, AtKeeps
<1>6. \A i \in DOMAIN plan : i \in Nat
  BY LenProperties
<1>7. ASSUME NEW g \in DOMAIN K
      PROVE  /\ f[g] \in DOMAIN plan /\ f[g] \in Nat /\ g \in Nat
             /\ IsInjective(K[g]) /\ ToSet(K[g]) \subseteq ToSet(plan[f[g]])
  <2>1. f[g] = Nth(T, g) /\ f[g] \in DOMAIN plan /\ K[g] = Q[f[g]]
    BY <1>1, <1>4, <1>5
  <2>2. g \in Nat
    BY <1>1, <1>5
  <2> QED
    BY <2>1, <2>2, <1>3, <1>6
<1>8. \A g, h \in DOMAIN K : g < h => f[g] < f[h]
  BY <1>1, <1>5
<1>9. K \in Seq(Seq(Nodes))
  BY <1>1, <1>5 DEF Lists
<1> QED
  BY <1>7, <1>8, <1>9 DEF K

LEMMA FilterStep ==
    ASSUME IInv, Filter
    PROVE  IInv'
<1>1. /\ phase = "done" /\ phase' \in {"filtered", "no match"}
      /\ \E job \in JobFilters, values \in MatrixFilters : plan' = Kept(job, values)
      /\ skippedNodes' = {}
      /\ UNCHANGED <<workflowVars, deps, dfsVars, kahnVars, levels, groups, cursor>>
  BY DEF Filter
<1>2. PICK job, values : plan' = Kept(job, values)
  BY <1>1
<1>3. /\ plan \in Seq(Seq(Nodes)) /\ \A k \in DOMAIN plan : IsInjective(plan[k])
      /\ LevelsApart
      /\ \A m \in PlanNodes : cond[JobOf[m]] # "false"
  BY <1>1 DEF IInv, PlanInv, Leveled
<1>4. PICK f :
         /\ plan' \in Seq(Seq(Nodes))
         /\ \A g \in DOMAIN plan' : /\ f[g] \in DOMAIN plan /\ f[g] \in Nat /\ g \in Nat
                                    /\ IsInjective(plan'[g]) /\ ToSet(plan'[g]) \subseteq ToSet(plan[f[g]])
         /\ \A g, h \in DOMAIN plan' : g < h => f[g] < f[h]
  BY <1>2, <1>3, KeptGroups
<1>5. LevelsApart'
  <2>1. levels' = levels
    BY <1>1
  <2>2. ASSUME NEW g \in DOMAIN plan', NEW h \in DOMAIN plan', NEW m \in ToSet(plan'[g]), NEW n \in ToSet(plan'[h])
        PROVE  /\ g = h => levels[m] = levels[n]
               /\ g < h => levels[m] < levels[n]
    <3>1. /\ f[g] \in DOMAIN plan /\ f[h] \in DOMAIN plan /\ m \in ToSet(plan[f[g]]) /\ n \in ToSet(plan[f[h]])
          /\ g < h => f[g] < f[h]
      BY <1>4
    <3> QED
      BY <3>1, <1>3 DEF LevelsApart
  <2> QED
    BY <2>1, <2>2 DEF LevelsApart
<1>6. PlanNodes' \subseteq PlanNodes
  BY <1>4 DEF PlanNodes
<1>7. PlanInv'
  <2>1. \A m \in PlanNodes' : m \notin skippedNodes' /\ deps'[m] \cap skippedNodes' = {} /\ cond'[JobOf[m]] # "false"
    BY <1>1, <1>3, <1>6 DEF workflowVars
  <2> QED
    BY <2>1, <1>4, <1>5 DEF PlanInv
<1>8. CursorInv' /\ GroupsInv' /\ DecidedInv' /\ GroupsSorted'
  BY <1>1 DEF IInv, CursorInv, GroupsInv, DecidedInv, GroupsSorted
<1> QED
  BY <1>1, <1>7, <1>8, PlanStep DEF Leveled

-----------------------------------------------------------------------------
(* The theorems.                                                           *)

LEMMA StutterStep == IInv /\ UNCHANGED vars => IInv'
<1> SUFFICES ASSUME IInv, UNCHANGED vars
             PROVE  IInv'
  OBVIOUS
<1>1. UNCHANGED <<needs, cond, phase, deps, color, stack, cycle, inDegree, queue, sorted,
                  levels, groups, skippedNodes, plan, cursor>>
  BY DEF vars, workflowVars, dfsVars, kahnVars, planVars
<1>2. PlannerInv'
  BY <1>1 DEF IInv, PlannerInv, TypeOK, Path, CycleIsReal, AcceptsAcyclic, Acyclic, SortedAfterDependencies
<1>3. Wired' /\ VisitedInv' /\ KahnInv' /\ CursorInv'
  BY <1>1 DEF IInv, Wired, VisitedInv, Visited, KahnInv, Ready, CursorInv
<1>4. StackInv'
  BY SMTT(30), <1>1 DEF IInv, StackInv, NodeAt, DoneDeps, Visited
<1>5. LevelInv' /\ GroupsInv'
  <2>1. \A n : LevelAfter(n, levels)' = LevelAfter(n, levels)
    BY <1>1 DEF LevelAfter
  <2>2. LevelInv'
    BY <2>1, <1>1 DEF IInv, LevelInv
  <2>3. GroupsInv'
    BY <1>1 DEF IInv, GroupsInv, Sorted
  <2> QED
    BY <2>2, <2>3
<1>6. PlanInv'
  BY <1>1 DEF IInv, PlanInv, PlanNodes, LevelsApart, ContainsAlways
<1>7. DecidedInv' /\ GroupsSorted'
  BY <1>1 DEF IInv, DecidedInv, GroupsSorted, PlanNodes, Passed, Drops, DepSkipped, ContainsAlways, NeedsRuntimeEval
<1> QED
  BY <1>2, <1>3, <1>4, <1>5, <1>6, <1>7 DEF IInv

LEMMA NextIInv == IInv /\ [Next]_vars => IInv'
<1> SUFFICES ASSUME IInv, [Next]_vars
             PROVE  IInv'
  OBVIOUS
<1>1. CASE Build
  BY <1>1, BuildStep
<1>2. CASE StartSearch
  BY <1>2, StartSearchStep
<1>3. CASE VisitDependency
  BY <1>3, VisitDependencyStep
<1>4. CASE PassVisited
  BY <1>4, PassVisitedStep
<1>5. CASE FindCycle
  BY <1>5, FindCycleStep
<1>6. CASE LeaveNode
  BY <1>6, LeaveNodeStep
<1>7. CASE StartSort
  BY <1>7, StartSortStep
<1>8. CASE PopQueue
  BY <1>8, PopQueueStep
<1>9. CASE EndSort
  BY <1>9, EndSortStep
<1>10. CASE AssignLevel
  BY <1>10, AssignLevelStep
<1>11. CASE GroupByLevel
  BY <1>11, GroupByLevelStep
<1>12. CASE PlanNode
  BY <1>12, DropNodeStep, KeepNodeStep
<1>13. CASE EndGroup
  BY <1>13, EndGroupStep
<1>14. CASE EndPlan
  BY <1>14, EndPlanStep
<1>15. CASE Filter
  BY <1>15, FilterStep
<1>16. CASE Returned \/ UNCHANGED vars
  BY <1>16, StutterStep DEF Returned
<1> QED
  BY <1>1, <1>2, <1>3, <1>4, <1>5, <1>6, <1>7, <1>8, <1>9, <1>10, <1>11, <1>12, <1>13, <1>14, <1>15, <1>16
  DEF Next

LEMMA Invariant == Spec => []IInv
<1> QED
  BY InitIInv, NextIInv, PTL DEF Spec

\* Validate finds exactly the cycles and reports a real one, and Kahn's sort
\* comes to an end with every node after all it depends on, whatever the graph.
THEOREM PlannerCorrect == Spec => []PlannerInv
<1>1. IInv => PlannerInv
  BY DEF IInv
<1> QED
  BY <1>1, Invariant, PTL

\* A plan whose groups are of rising levels is ordered as WorkflowRun assumes.
LEMMA LevelsOrderPlan == IInv => PlanSuitsRun
<1> SUFFICES ASSUME IInv, phase \in {"done", "filtered"}
             PROVE  Ordered!PlanIsOrdered
  BY DEF PlanSuitsRun
<1>1. phase \in Sorting /\ phase \in Leveled
  BY DEF Sorting, Leveled
<1>2. /\ plan \in Seq(Seq(Nodes)) /\ \A g \in DOMAIN plan : IsInjective(plan[g])
      /\ LevelsApart
      /\ \A m \in PlanNodes : /\ m \notin skippedNodes
                              /\ deps[m] \cap skippedNodes # {} => ContainsAlways(m)
                              /\ cond[JobOf[m]] # "false"
  BY <1>1 DEF IInv, PlanInv
<1>3. /\ deps \in [Nodes -> SUBSET Nodes] /\ levels \in [Nodes -> Nat]
      /\ \A n \in Nodes : levels[n] = LevelAfter(n, levels)
  BY <1>1, LaterTypes DEF IInv, LevelInv
<1>4. \A n \in Nodes : \A d \in deps[n] : levels[d] < levels[n]
  BY <1>3, LevelAbove
<1>5. /\ DOMAIN plan = 1..Len(plan)
      /\ \A g \in DOMAIN plan : g \in Nat /\ ToSet(plan[g]) \subseteq Nodes
  <2>1. \A g \in DOMAIN plan : plan[g] \in Seq(Nodes) /\ g \in Nat
    BY <1>2, LenProperties, ElementOfSeq
  <2>2. \A g \in DOMAIN plan : \A k \in DOMAIN plan[g] : plan[g][k] \in Nodes
    BY <2>1, LenProperties, ElementOfSeq
  <2> QED
    BY <2>1, <2>2, <1>2, LenProperties DEF ToSet
<1>6. \A g \in DOMAIN plan : Ordered!NodesIn(g) = ToSet(plan[g])
  BY DEF Ordered!NodesIn, Ordered!ToSet, ToSet
<1>7. Ordered!Planned = PlanNodes
  BY <1>6 DEF Ordered!Planned, PlanNodes
<1>8. ASSUME NEW g \in DOMAIN plan, NEW h \in DOMAIN plan, NEW m \in ToSet(plan[g]), NEW n \in ToSet(plan[h])
      PROVE  /\ levels[m] = levels[n] => g = h
             /\ levels[m] < levels[n] => g < h
             /\ g = h => levels[m] = levels[n]
  <2>1. /\ g = h => levels[m] = levels[n]
        /\ g < h => levels[m] < levels[n]
        /\ h < g => levels[n] < levels[m]
    BY <1>2 DEF LevelsApart
  <2>2. g \in Nat /\ h \in Nat /\ levels[m] \in Nat /\ levels[n] \in Nat
    BY <1>3, <1>5
  <2> QED
    BY <2>1, <2>2
<1>9. ASSUME NEW g \in DOMAIN plan, NEW h \in DOMAIN plan, g # h
      PROVE  ToSet(plan[g]) \cap ToSet(plan[h]) = {}
  BY <1>8, <1>9
<1>10. ASSUME NEW g \in DOMAIN plan, NEW n \in ToSet(plan[g])
       PROVE  /\ Ordered!Siblings(n) \cap PlanNodes \subseteq ToSet(plan[g])
              /\ \A d \in deps[n] \cap PlanNodes : \E h \in 1..(g - 1) : d \in ToSet(plan[h])
              /\ deps[n] \cap skippedNodes # {} => Ordered!ContainsAlways(n)
              /\ cond[JobOf[n]] # "false"
  <2>1. n \in Nodes /\ n \in PlanNodes
    BY <1>5 DEF PlanNodes
  <2>2. ASSUME NEW m \in Ordered!Siblings(n) \cap PlanNodes
        PROVE  m \in ToSet(plan[g])
    <3>1. m \in Nodes /\ deps[m] = deps[n]
      BY <2>1 DEF Ordered!Siblings, IInv, Wired
    <3>2. levels[m] = levels[n]
      BY <3>1, <2>1, <1>3, SameLevel
    <3>3. PICK h \in DOMAIN plan : m \in ToSet(plan[h])
      BY DEF PlanNodes
    <3> QED
      BY <3>2, <3>3, <1>8
  <2>3. ASSUME NEW d \in deps[n] \cap PlanNodes
        PROVE  \E h \in 1..(g - 1) : d \in ToSet(plan[h])
    <3>1. levels[d] < levels[n]
      BY <2>1, <1>4
    <3>2. PICK h \in DOMAIN plan : d \in ToSet(plan[h])
      BY DEF PlanNodes
    <3>3. h < g
      BY <3>1, <3>2, <1>8
    <3>4. h \in 1..(g - 1)
      BY <3>3, <1>5
    <3> QED
      BY <3>2, <3>4
  <2>4. Ordered!ContainsAlways(n) <=> ContainsAlways(n)
    BY DEF Ordered!ContainsAlways, ContainsAlways
  <2> QED
    BY <2>1, <2>2, <2>3, <2>4, <1>2
<1>11. PlanNodes \cap skippedNodes = {}
  BY <1>2
<1> QED
  <2>1. \A g \in DOMAIN plan : Ordered!IsInjective(plan[g])
    BY <1>2 DEF Ordered!IsInjective, IsInjective
  <2>2. \A g, h \in DOMAIN plan : g # h => Ordered!NodesIn(g) \cap Ordered!NodesIn(h) = {}
    BY <1>6, <1>9
  <2>3. Ordered!Planned \cap skippedNodes = {}
    BY <1>7, <1>11
  <2>4. ASSUME NEW g \in DOMAIN plan, NEW n \in Ordered!NodesIn(g)
        PROVE  /\ Ordered!Siblings(n) \cap Ordered!Planned \subseteq Ordered!NodesIn(g)
               /\ \A d \in deps[n] \cap Ordered!Planned : \E h \in 1..(g - 1) : d \in Ordered!NodesIn(h)
               /\ deps[n] \cap skippedNodes # {} => Ordered!ContainsAlways(n)
               /\ cond[JobOf[n]] # "false"
    <3>1. n \in ToSet(plan[g]) /\ Ordered!NodesIn(g) = ToSet(plan[g])
      BY <1>6
    <3>2. ASSUME NEW d \in deps[n] \cap Ordered!Planned
          PROVE  \E h \in 1..(g - 1) : d \in Ordered!NodesIn(h)
      <4>1. PICK h \in 1..(g - 1) : d \in ToSet(plan[h])
        BY <3>1, <1>7, <1>10
      <4>2. h \in DOMAIN plan
        BY <1>5, LenProperties, <1>2
      <4> QED
        BY <4>1, <4>2, <1>6
    <3> QED
      BY <3>1, <3>2, <1>7, <1>10
  <2> QED
    BY <2>1, <2>2, <2>3, <2>4 DEF Ordered!PlanIsOrdered

\* Whatever the workflow and the filters, a node of the plan is in one group, with
\* the nodes of its job and after all it depends on, and what depends on a
\* dropped job asked for it: WorkflowRun may rely on its plan.
THEOREM PlanSuits == Spec => []PlanSuitsRun
<1> QED
  BY LevelsOrderPlan, Invariant, PTL

-----------------------------------------------------------------------------
(* The plan the loops arrive at is the one JobPlan defines.                *)

\* There is one way to count through a set of numbers upwards.
LEMMA NthIsUnique ==
    ASSUME NEW T \in SUBSET Nat, IsFiniteSet(T), NEW L \in Nat, NEW F \in [1..L -> T],
           \A i, j \in 1..L : i < j => F[i] < F[j],
           \A x \in T : \E i \in 1..L : F[i] = x
    PROVE  Cardinality(T) = L /\ \A k \in 1..L : Nth(T, k) = F[k]
<1>1. Cardinality(T) = L
  <2>1. F \in Seq(T) /\ Len(F) = L /\ DOMAIN F = 1..L
    BY SeqDef, LenProperties
  <2>2. \A i, j \in 1..L : F[i] = F[j] => i = j
    <3>1. ASSUME NEW i \in 1..L, NEW j \in 1..L, i # j
          PROVE  F[i] # F[j]
      <4>1. F[i] \in Nat /\ F[j] \in Nat
        OBVIOUS
      <4>3. i < j \/ j < i
        BY <3>1
      <4>2. F[i] < F[j] \/ F[j] < F[i]
        BY <4>3
      <4> QED
        BY <4>1, <4>2
    <3> QED
      BY <3>1
  <2>3. IsInjective(F)
    BY <2>1, <2>2 DEF IsInjective
  <2>4. ToSet(F) = T
    BY <2>1 DEF ToSet
  <2> QED
    BY <2>1, <2>3, <2>4, InjectiveLength
<1>2. /\ \A k \in 1..L : Nth(T, k) \in T
      /\ \A k, l \in 1..L : k < l => Nth(T, k) < Nth(T, l)
      /\ \A x \in T : \E k \in 1..L : Nth(T, k) = x
  BY <1>1, NthCounts
<1> DEFINE Apart == {k \in 1..L : Nth(T, k) # F[k]}
<1>3. Apart = {}
  <2> SUFFICES ASSUME Apart # {}
               PROVE  FALSE
    OBVIOUS
  <2>1. Apart \in SUBSET Nat
    OBVIOUS
  <2>2. PICK k \in Apart : \A l \in Apart : k <= l
    BY <2>1, LeastNumber
  <2>3. k \in 1..L /\ Nth(T, k) # F[k] /\ \A l \in 1..L : l < k => Nth(T, l) = F[l]
    BY <2>2
  <2> HIDE DEF Apart
  <2>4. PICK i \in 1..L : F[i] = Nth(T, k)
    BY <1>2, <2>3
  <2>5. PICK j \in 1..L : Nth(T, j) = F[k]
    BY <1>2, <2>3
  <2>6. /\ F[k] \in Nat /\ F[i] \in Nat /\ F[j] \in Nat
        /\ Nth(T, j) \in Nat /\ Nth(T, i) \in Nat /\ Nth(T, k) \in Nat
    BY <1>2, <2>3
  <2>7. ~(i < k) /\ i # k
    <3>1. i # k
      BY <2>3, <2>4
    <3>2. ASSUME i < k
          PROVE  FALSE
      <4>1. Nth(T, i) < Nth(T, k)
        BY <3>2, <2>3, <1>2
      <4>2. Nth(T, i) = F[i]
        BY <3>2, <2>3
      <4> QED
        BY <4>1, <4>2, <2>4, <2>6
    <3> QED
      BY <3>1, <3>2
  <2>8. ~(j < k) /\ j # k
    BY <2>3, <2>5, <2>6
  <2>9. k < i /\ k < j
    BY <2>7, <2>8, <2>3
  <2>10. F[k] < F[i] /\ Nth(T, k) < Nth(T, j)
    BY <2>9, <2>3, <1>2
  <2> QED
    BY <2>4, <2>5, <2>6, <2>10
<1> QED
  BY <1>1, <1>3

\* A sequence in the order of the nodes is the sorted sequence of its nodes.
LEMMA InOrderIsSorted ==
    ASSUME NEW s \in Seq(Nodes),
           \A k, l \in DOMAIN s : k < l =>
              \E p, q \in DOMAIN NodeOrder : p < q /\ NodeOrder[p] = s[k] /\ NodeOrder[q] = s[l]
    PROVE  s = Sorted(ToSet(s))
<1>1. PICK M \in Nat : M = Len(NodeOrder) /\ DOMAIN NodeOrder = 1..M
  BY PlannerAssumption, LenProperties
<1>2. PICK L \in Nat : L = Len(s) /\ DOMAIN s = 1..L
  BY LenProperties
<1>3. \A p, q \in 1..M : NodeOrder[p] = NodeOrder[q] => p = q
  BY <1>1, PlannerAssumption DEF IsInjective
<1>4. PICK T : T = {p \in DOMAIN NodeOrder : NodeOrder[p] \in ToSet(s)}
  OBVIOUS
<1>5. T \subseteq 1..M /\ T \in SUBSET Nat /\ IsFiniteSet(T)
  <2>1. IsFiniteSet(1..M)
    BY FS_Interval
  <2>2. T \subseteq 1..M
    BY <1>1, <1>4
  <2>3. T \in SUBSET Nat
    BY <2>2
  <2> QED
    BY <2>1, <2>2, <2>3, FS_Subset
<1>6. \A k \in 1..L : s[k] \in ToSet(s) /\ \E p \in T : NodeOrder[p] = s[k]
  <2> TAKE k \in 1..L
  <2>1. s[k] \in ToSet(s) /\ s[k] \in Nodes
    BY <1>2, ElementOfSeq DEF ToSet
  <2>2. PICK p \in DOMAIN NodeOrder : NodeOrder[p] = s[k]
    BY <2>1 DEF Nodes, ToSet
  <2> QED
    BY <2>1, <2>2, <1>4
<1>7. PICK F : F = [k \in 1..L |-> CHOOSE p \in T : NodeOrder[p] = s[k]]
  OBVIOUS
<1>8. F \in [1..L -> T] /\ \A k \in 1..L : NodeOrder[F[k]] = s[k]
  BY <1>6, <1>7
<1>9. \A i, j \in 1..L : i < j => F[i] < F[j]
  <2> SUFFICES ASSUME NEW i \in 1..L, NEW j \in 1..L, i < j
               PROVE  F[i] < F[j]
    OBVIOUS
  <2>1. PICK p, q \in 1..M : p < q /\ NodeOrder[p] = s[i] /\ NodeOrder[q] = s[j]
    BY <1>1, <1>2
  <2>2. F[i] \in 1..M /\ F[j] \in 1..M /\ NodeOrder[F[i]] = s[i] /\ NodeOrder[F[j]] = s[j]
    BY <1>5, <1>8
  <2>3. F[i] = p /\ F[j] = q
    BY <2>1, <2>2, <1>3
  <2> QED
    BY <2>1, <2>3
<1>10. \A x \in T : \E i \in 1..L : F[i] = x
  <2> TAKE x \in T
  <2>1. x \in 1..M /\ NodeOrder[x] \in ToSet(s)
    BY <1>4, <1>5
  <2>2. PICK i \in 1..L : s[i] = NodeOrder[x]
    BY <2>1, <1>2 DEF ToSet
  <2>3. F[i] \in 1..M /\ NodeOrder[F[i]] = NodeOrder[x]
    BY <2>2, <1>5, <1>8
  <2> QED
    BY <2>1, <2>2, <2>3, <1>3
<1>11. Cardinality(T) = L /\ \A k \in 1..L : Nth(T, k) = F[k]
  BY <1>5, <1>8, <1>9, <1>10, NthIsUnique
<1>12. Sorted(ToSet(s)) = [k \in 1..L |-> NodeOrder[Nth(T, k)]]
  BY <1>4, <1>11 DEF Sorted, Only, At
<1>13. s = [k \in 1..L |-> s[k]]
  BY <1>2
<1> QED
  BY <1>8, <1>11, <1>12, <1>13

\* What JobPlan is made of means here what it means there.
LEMMA ExpectedTerms ==
    /\ Expected!PlanNodes = Nodes
    /\ \A S : Expected!Max(S) = Max(S)
    /\ \A S : Expected!Only(NodeOrder, S) = Only(NodeOrder, S)
    /\ \A n \in Nodes : Expected!ContainsAlways(n) <=> ContainsAlways(n)
<1>1. Expected!PlanNodes = Nodes
  BY DEF Expected!PlanNodes, Expected!ToSet, Nodes, ToSet
<1>2. \A S : Expected!Max(S) = Max(S)
  BY DEF Expected!Max, Max
<1>0. \A S : Expected!Cardinality(S) = Cardinality(S)
  BY DEF Expected!Cardinality, Cardinality
<1>3. \A T, k : Expected!Nth(T, k) = Nth(T, k)
  BY <1>0 DEF Expected!Nth, Nth
<1>4. \A s, T : Expected!At(s, T) = At(s, T)
  BY <1>0, <1>3 DEF Expected!At, At
<1>5. \A S : Expected!Only(NodeOrder, S) = Only(NodeOrder, S)
  BY <1>4 DEF Expected!Only, Only
<1>6. \A n \in Nodes : Expected!ContainsAlways(n) <=> ContainsAlways(n)
  BY DEF Expected!ContainsAlways, ContainsAlways
<1> QED
  BY <1>1, <1>2, <1>5, <1>6

LEMMA ExpectedNonEmpty == \A s : Expected!NonEmpty(s) = NonEmpty(s)
<1>0. \A S : Expected!Cardinality(S) = Cardinality(S)
  BY DEF Expected!Cardinality, Cardinality
<1>1. \A T, k : Expected!Nth(T, k) = Nth(T, k)
  BY <1>0 DEF Expected!Nth, Nth
<1>2. \A s, T : Expected!At(s, T) = At(s, T)
  BY <1>0, <1>1 DEF Expected!At, At
<1> QED
  BY <1>2 DEF Expected!NonEmpty, NonEmpty

\* The levels the loop assigned are the levels of the definition: two level
\* functions cannot differ at a node all whose dependencies they agree on.
LEMMA LevelsAreDefined ==
    ASSUME IInv, phase = "done"
    PROVE  \A n \in Nodes : Expected!Level[n] = levels[n]
<1>1. /\ deps \in [Nodes -> SUBSET Nodes] /\ levels \in [Nodes -> Nat] /\ Acyclic
      /\ \A n \in Nodes : levels[n] = LevelAfter(n, levels)
  BY LaterTypes DEF IInv, PlannerInv, AcceptsAcyclic, LevelInv, Leveled, Sorting
<1>2. levels = [n \in Nodes |-> IF deps[n] = {} THEN 0 ELSE 1 + Max({levels[d] : d \in deps[n]})]
  BY <1>1 DEF LevelAfter
<1>3. \A n \in Nodes : Expected!Level[n]
        = IF deps[n] = {} THEN 0 ELSE 1 + Max({Expected!Level[d] : d \in deps[n]})
  <2> DEFINE P(f) == f = [n \in Nodes |-> IF deps[n] = {} THEN 0 ELSE 1 + Max({f[d] : d \in deps[n]})]
  <2>0. Expected!Level = CHOOSE f : P(f)
    BY ExpectedTerms DEF Expected!Level
  <2>1. P(levels)
    BY <1>2
  <2>2. P(Expected!Level)
    <3> HIDE DEF P
    <3> QED
      BY <2>0, <2>1
  <2> QED
    BY <2>2
<1> DEFINE Apart == {n \in Nodes : Expected!Level[n] # levels[n]}
<1>4. ASSUME Apart # {}
      PROVE  FALSE
  <2>1. PICK n \in Apart : deps[n] \cap Apart = {}
    BY <1>1, <1>4 DEF Acyclic
  <2>2. n \in Nodes /\ Expected!Level[n] # levels[n] /\ \A d \in deps[n] : Expected!Level[d] = levels[d]
    BY <2>1, <1>1
  <2>3. {Expected!Level[d] : d \in deps[n]} = {levels[d] : d \in deps[n]}
    BY <2>2
  <2> QED
    BY <2>2, <2>3, <1>1, <1>3 DEF LevelAfter
<1> QED
  BY <1>4

\* So it is with the jobs that are dropped.
LEMMA DropsAreDefined ==
    ASSUME IInv, phase = "done"
    PROVE  \A n \in Nodes : Expected!IsDropped[n] <=> n \in skippedNodes
<1> DEFINE Alone(n) == cond[JobOf[n]] = "false"
           P(f) == f = [n \in Nodes |-> \/ Alone(n)
                                        \/ ~ContainsAlways(n) /\ \E d \in deps[n] : f[d]]
           W == [n \in Nodes |-> n \in skippedNodes]
<1>1. deps \in [Nodes -> SUBSET Nodes] /\ Acyclic /\ skippedNodes = {n \in Nodes : Drops(n)}
  BY LaterTypes DEF IInv, PlannerInv, AcceptsAcyclic, DecidedInv, Sorting
<1>2. \A n \in Nodes : n \in skippedNodes <=> Alone(n) \/ (~ContainsAlways(n) /\ deps[n] \cap skippedNodes # {})
  <2>1. \A n \in Nodes : Alone(n) => ~NeedsRuntimeEval(n)
    BY DEF NeedsRuntimeEval
  <2> QED
    BY <1>1, <2>1 DEF Drops, DepSkipped
<1>3. P(W)
  <2>1. ASSUME NEW n \in Nodes
        PROVE  n \in skippedNodes <=>
                        \/ Alone(n)
                        \/ ~ContainsAlways(n) /\ \E d \in deps[n] : W[d]
    <3>1. (\E d \in deps[n] : W[d]) <=> deps[n] \cap skippedNodes # {}
      BY <1>1
    <3> HIDE DEF Alone
    <3> QED
      BY <1>2, <3>1
  <2> DEFINE B(n) == \/ Alone(n)
                     \/ ~ContainsAlways(n) /\ \E d \in deps[n] : W[d]
  <2>2. \A n \in Nodes : (n \in skippedNodes) = B(n)
    <3> TAKE n \in Nodes
    <3>1. n \in skippedNodes <=> B(n)
      BY <2>1
    <3>2. B(n) \in BOOLEAN
      OBVIOUS
    <3> HIDE DEF B
    <3> QED
      BY <3>1, <3>2
  <2>3. [n \in Nodes |-> n \in skippedNodes] = [n \in Nodes |-> B(n)]
    <3> HIDE DEF B, W
    <3> QED
      BY <2>2
  <2> QED
    BY <2>3
<1>4. Expected!IsDropped = CHOOSE f : P(f)
  <2>1. Expected!IsDropped = CHOOSE f : f = [n \in Nodes |->
           \/ [m \in Nodes |-> cond[JobOf[m]]][n] = "false"
           \/ ~Expected!ContainsAlways(n) /\ \E d \in deps[n] : f[d]]
    BY ExpectedTerms DEF Expected!IsDropped
  <2>2. \A f : [n \in Nodes |-> \/ [m \in Nodes |-> cond[JobOf[m]]][n] = "false"
                                \/ ~Expected!ContainsAlways(n) /\ \E d \in deps[n] : f[d]]
               = [n \in Nodes |-> \/ Alone(n)
                                  \/ ~ContainsAlways(n) /\ \E d \in deps[n] : f[d]]
    <3> TAKE f
    <3>1. \A n \in Nodes : Expected!ContainsAlways(n) <=> ContainsAlways(n)
      BY ExpectedTerms
    <3>2. \A n \in Nodes : [m \in Nodes |-> cond[JobOf[m]]][n] = cond[JobOf[n]]
      OBVIOUS
    <3> QED
      BY <3>1, <3>2
  <2> HIDE DEF Alone
  <2> QED
    BY ZenonT(30), <2>1, <2>2
<1>5. P(Expected!IsDropped)
  <2> HIDE DEF P, W
  <2> QED
    BY <1>3, <1>4
<1>6. \A n \in Nodes : Expected!IsDropped[n] <=>
         \/ Alone(n)
         \/ ~ContainsAlways(n) /\ \E d \in deps[n] : Expected!IsDropped[d]
  <2>1. PICK f : f = Expected!IsDropped
    OBVIOUS
  <2> HIDE DEF Alone
  <2>2. f = [n \in Nodes |-> \/ Alone(n)
                             \/ ~ContainsAlways(n) /\ \E d \in deps[n] : f[d]]
    BY <1>5, <2>1
  <2>3. \A n \in Nodes : f[n] <=> \/ Alone(n)
                                  \/ ~ContainsAlways(n) /\ \E d \in deps[n] : f[d]
    BY <2>2
  <2> QED
    BY <2>1, <2>3
<1> DEFINE Apart == {n \in Nodes : ~(Expected!IsDropped[n] <=> n \in skippedNodes)}
<1>7. ASSUME Apart # {}
      PROVE  FALSE
  <2>1. PICK n \in Apart : deps[n] \cap Apart = {}
    BY <1>1, <1>7 DEF Acyclic
  <2>2. n \in Nodes /\ ~(Expected!IsDropped[n] <=> n \in skippedNodes)
    BY <2>1
  <2>3. \A d \in deps[n] : Expected!IsDropped[d] <=> d \in skippedNodes
    BY <2>1, <2>2, <1>1
  <2>4. (\E d \in deps[n] : Expected!IsDropped[d]) <=> deps[n] \cap skippedNodes # {}
    BY <2>3
  <2> HIDE DEF Alone
  <2> QED
    BY <2>2, <2>4, <1>2, <1>6
<1> QED
  BY <1>7

\* The nodes of a level that the plan keeps.
KeptAt(l) == {n \in Nodes : levels[n] = l /\ n \notin skippedNodes}

\* The groups of the definition, in the terms of the loops.
LEMMA GroupsAreDefined ==
    ASSUME IInv, phase = "done"
    PROVE  \E C \in Nat : /\ \A n \in Nodes : levels[n] < C
                          /\ Expected!PlanGroups = NonEmpty([i \in 1..C |-> Sorted(KeptAt(i - 1))])
<1>1. levels \in [Nodes -> Nat] /\ IsFiniteSet(Nodes)
  BY LaterTypes, FiniteNodes DEF Sorting
<1>2. \A l : Expected!KeptOnLevel(l) = Sorted(KeptAt(l))
  <2> TAKE l
  <2>1. {n \in Nodes : Expected!Level[n] = l /\ ~Expected!IsDropped[n]} = KeptAt(l)
    BY LevelsAreDefined, DropsAreDefined DEF KeptAt
  <2> QED
    BY <2>1, ExpectedTerms DEF Expected!KeptOnLevel, Sorted
<1>3. PICK C : C = Expected!LevelCount
  OBVIOUS
<1>4. C \in Nat /\ \A n \in Nodes : levels[n] < C
  <2>1. CASE Nodes = {}
    BY <2>1, <1>3, ExpectedTerms DEF Expected!LevelCount
  <2>2. CASE Nodes # {}
    <3>1. PICK R : R = {levels[n] : n \in Nodes}
      OBVIOUS
    <3>2. {Expected!Level[n] : n \in Nodes} = R
      BY <3>1, LevelsAreDefined
    <3>3. C = 1 + Max(R)
      BY <3>2, <2>2, <1>3, ExpectedTerms DEF Expected!LevelCount
    <3>4. R \in SUBSET Nat /\ R # {} /\ IsFiniteSet(R)
      <4>1. R \in SUBSET Nat /\ R # {}
        BY <3>1, <2>2, <1>1
      <4>2. IsFiniteSet(R)
        BY <3>1, <1>1, FiniteImage
      <4> QED
        BY <4>1, <4>2
    <3>5. Max(R) \in Nat /\ \A y \in R : y \in Nat /\ y <= Max(R)
      BY <3>4, MaxOfSet
    <3>6. \A n \in Nodes : levels[n] \in Nat /\ levels[n] <= Max(R)
      BY <3>1, <3>5
    <3> QED
      BY <3>3, <3>5, <3>6
  <2> QED
    BY <2>1, <2>2
<1>5. Expected!ByLevel = [i \in 1..C |-> Sorted(KeptAt(i - 1))]
  BY <1>2, <1>3 DEF Expected!ByLevel
<1>6. Expected!PlanGroups = NonEmpty([i \in 1..C |-> Sorted(KeptAt(i - 1))])
  BY <1>5, ExpectedNonEmpty DEF Expected!PlanGroups
<1> QED
  BY <1>4, <1>6

\* The groups of the plan count through the levels of which someone is kept.
LEMMA LoopsArriveAtPlan == IInv => PlanIsJobPlan
<1> SUFFICES ASSUME IInv, phase = "done"
             PROVE  plan = Expected!PlanGroups /\ skippedNodes = Expected!PlanSkipped
  BY DEF PlanIsJobPlan
<1>1. skippedNodes = Expected!PlanSkipped
  <2>1. skippedNodes \subseteq Nodes
    BY DEF IInv, DecidedInv
  <2> QED
    BY <2>1, DropsAreDefined, ExpectedTerms DEF Expected!PlanSkipped
<1>2. PICK C \in Nat : /\ \A n \in Nodes : levels[n] < C
                       /\ Expected!PlanGroups = NonEmpty([i \in 1..C |-> Sorted(KeptAt(i - 1))])
  BY GroupsAreDefined
<1>3. /\ levels \in [Nodes -> Nat] /\ plan \in Seq(Seq(Nodes)) /\ LevelsApart
      /\ PlanNodes = Nodes \ skippedNodes
      /\ \A i \in DOMAIN plan : plan[i] # <<>>
  BY LaterTypes DEF IInv, PlanInv, DecidedInv, Sorting, Leveled
<1>4. PICK L \in Nat : L = Len(plan) /\ DOMAIN plan = 1..L
  BY <1>3, LenProperties
<1>5. PICK F : F = [i \in 1..L |-> levels[plan[i][1]] + 1]
  OBVIOUS
<1>6. \A i \in 1..L : plan[i] \in Seq(Nodes) /\ plan[i][1] \in ToSet(plan[i]) /\ plan[i][1] \in Nodes
  <2> TAKE i \in 1..L
  <2>1. plan[i] \in Seq(Nodes) /\ plan[i] # <<>>
    BY <1>3, <1>4, ElementOfSeq
  <2>2. 1 \in DOMAIN plan[i]
    BY <2>1, EmptySeq, LenProperties
  <2> QED
    BY <2>1, <2>2, ElementOfSeq, LenProperties DEF ToSet
<1>7. \A i, j \in 1..L : \A m \in ToSet(plan[i]), n \in ToSet(plan[j]) :
         /\ i = j => levels[m] = levels[n]
         /\ i < j => levels[m] < levels[n]
  BY <1>3, <1>4 DEF LevelsApart
<1>8. \A i \in 1..L : F[i] \in 1..C /\ F[i] - 1 = levels[plan[i][1]]
  <2> TAKE i \in 1..L
  <2>1. F[i] = levels[plan[i][1]] + 1 /\ levels[plan[i][1]] \in Nat /\ levels[plan[i][1]] < C
    BY <1>2, <1>3, <1>5, <1>6
  <2> QED
    BY <2>1
<1>9. \A i \in 1..L : ToSet(plan[i]) = KeptAt(F[i] - 1)
  <2> TAKE i \in 1..L
  <2>1. ASSUME NEW m \in ToSet(plan[i])
        PROVE  m \in KeptAt(F[i] - 1)
    <3>1. m \in PlanNodes
      BY <1>4 DEF PlanNodes
    <3>2. levels[m] = levels[plan[i][1]]
      BY <1>6, <1>7
    <3> QED
      BY <3>1, <3>2, <1>3, <1>8 DEF KeptAt
  <2>2. ASSUME NEW m \in KeptAt(F[i] - 1)
        PROVE  m \in ToSet(plan[i])
    <3>1. m \in PlanNodes /\ levels[m] = levels[plan[i][1]]
      BY <1>3, <1>8 DEF KeptAt
    <3>2. PICK j \in 1..L : m \in ToSet(plan[j])
      BY <3>1, <1>4 DEF PlanNodes
    <3>3. /\ i < j => levels[plan[i][1]] < levels[m]
          /\ j < i => levels[m] < levels[plan[i][1]]
      BY <3>2, <1>6, <1>7
    <3>4. levels[m] \in Nat
      BY <1>3 DEF KeptAt
    <3>5. i = j
      BY <3>1, <3>3, <3>4
    <3> QED
      BY <3>2, <3>5
  <2> QED
    BY <2>1, <2>2
<1>10. PICK B : B = [i \in 1..C |-> Sorted(KeptAt(i - 1))]
  OBVIOUS
<1>11. \A i \in 1..L : B[F[i]] = plan[i]
  <2> TAKE i \in 1..L
  <2>1. B[F[i]] = Sorted(ToSet(plan[i]))
    BY <1>8, <1>9, <1>10
  <2>2. plan[i] = Sorted(ToSet(plan[i]))
    <3>1. \A k, l \in DOMAIN plan[i] : k < l =>
             \E p, q \in DOMAIN NodeOrder : p < q /\ NodeOrder[p] = plan[i][k] /\ NodeOrder[q] = plan[i][l]
      BY <1>4 DEF IInv, GroupsSorted
    <3> QED
      BY <3>1, <1>6, InOrderIsSorted
  <2> QED
    BY <2>1, <2>2
<1>12. PICK T : T = {i \in DOMAIN B : B[i] # <<>>}
  OBVIOUS
<1>13. T \in SUBSET Nat /\ IsFiniteSet(T)
  <2>1. IsFiniteSet(1..C)
    BY FS_Interval
  <2>2. T \subseteq 1..C
    BY <1>10, <1>12
  <2>3. T \in SUBSET Nat
    BY <2>2
  <2> QED
    BY <2>1, <2>2, <2>3, FS_Subset
<1>14. F \in [1..L -> T]
  <2>1. \A i \in 1..L : F[i] \in T
    <3> TAKE i \in 1..L
    <3>1. F[i] \in DOMAIN B
      BY <1>8, <1>10
    <3>2. plan[i] # <<>> /\ B[F[i]] = plan[i]
      BY <1>3, <1>4, <1>11
    <3> QED
      BY <3>1, <3>2, <1>12
  <2> QED
    BY <2>1, <1>5
<1>15. \A i, j \in 1..L : i < j => F[i] < F[j]
  <2> SUFFICES ASSUME NEW i \in 1..L, NEW j \in 1..L, i < j
               PROVE  F[i] < F[j]
    OBVIOUS
  <2>1. levels[plan[i][1]] < levels[plan[j][1]]
    BY <1>6, <1>7
  <2>2. F[i] \in Nat /\ F[j] \in Nat /\ F[i] - 1 = levels[plan[i][1]] /\ F[j] - 1 = levels[plan[j][1]]
    BY <1>8
  <2> QED
    BY <2>1, <2>2
<1>16. \A x \in T : \E i \in 1..L : F[i] = x
  <2> TAKE x \in T
  <2>1. x \in 1..C /\ Sorted(KeptAt(x - 1)) # <<>>
    BY <1>10, <1>12
  <2>2. KeptAt(x - 1) \subseteq Nodes
    BY DEF KeptAt
  <2>3. KeptAt(x - 1) # {}
    <3>1. ASSUME KeptAt(x - 1) = {}
          PROVE  FALSE
      <4>1. Sorted(KeptAt(x - 1)) \in Seq(Nodes) /\ Len(Sorted(KeptAt(x - 1))) = Cardinality(KeptAt(x - 1))
        BY <2>2, SortedNodes
      <4>2. Len(Sorted(KeptAt(x - 1))) = 0
        BY <4>1, <3>1, FS_EmptySet
      <4> QED
        BY <4>1, <4>2, <2>1, EmptySeq
    <3> QED
      BY <3>1
  <2>4. PICK m : m \in KeptAt(x - 1)
    BY <2>3
  <2>5. m \in PlanNodes /\ levels[m] = x - 1
    BY <2>4, <1>3 DEF KeptAt
  <2>6. PICK i \in 1..L : m \in ToSet(plan[i])
    BY <2>5, <1>4 DEF PlanNodes
  <2>7. F[i] - 1 = x - 1
    BY <2>5, <2>6, <1>9 DEF KeptAt
  <2>8. F[i] \in Nat /\ x \in Nat
    BY <2>1, <1>8
  <2> QED
    BY <2>7, <2>8
<1>17. Cardinality(T) = L /\ \A k \in 1..L : Nth(T, k) = F[k]
  BY <1>13, <1>14, <1>15, <1>16, NthIsUnique
<1>18. NonEmpty(B) = [k \in 1..L |-> B[Nth(T, k)]]
  BY <1>12, <1>17 DEF NonEmpty, At
<1>19. plan = [k \in 1..L |-> plan[k]]
  BY <1>3, <1>4
<1>20. \A k \in 1..L : B[Nth(T, k)] = plan[k]
  BY <1>11, <1>17
<1>21. NonEmpty(B) = plan
  BY <1>18, <1>19, <1>20
<1> QED
  BY <1>1, <1>2, <1>10, <1>21

\* Whatever the workflow, the loops of ParallelGroups and Plan arrive at the plan
\* the definitions of JobPlan describe: the same groups in the same order, and the
\* same jobs dropped.
THEOREM PlanIsAsDefined == Spec => []PlanIsJobPlan
<1> QED
  BY LoopsArriveAtPlan, Invariant, PTL
=============================================================================
