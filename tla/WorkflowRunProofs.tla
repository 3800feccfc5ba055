------------------------- MODULE WorkflowRunProofs -------------------------
(***************************************************************************)
(* Proofs about WorkflowRun, for every workflow and every plan that        *)
(* PlanIsOrdered describes; at the end, that it implements DagRun.         *)
(***************************************************************************)
EXTENDS WorkflowRun, FiniteSetTheorems, TLAPS

-----------------------------------------------------------------------------
(***************************************************************************)
(* Where a node is in the plan: its group is done with, or the main        *)
(* goroutine has passed it in the current group.                           *)
(***************************************************************************)
Past(n) == \E h \in 1..(group - 1) : n \in NodesIn(h)

Passed(n) ==
    /\ mainPc = "launch"
    /\ \E i \in 1..(cursor - 1) : i \in DOMAIN Groups[group] /\ Groups[group][i] = n

BeforeRecord == {"waiting", "admitted", "setup", "running", "returned", "recording"}
AfterRecord  == {"recorded", "leaving", "done"}

\* A node's goroutine belongs to a node the loops have passed, is gone when
\* its group is past, and writes the results map once.
NodeInv(n) ==
    /\ pc[n] # "idle" \/ results[n] # "none" => Past(n) \/ Passed(n)
    /\ Past(n) => pc[n] \in {"idle", "done"}
    /\ pc[n] \in BeforeRecord => results[n] = "none"
    /\ pc[n] \in AfterRecord => results[n] = status[n]
    /\ pc[n] = "idle" => status[n] = "none" /\ results[n] \in {"none", "skipped"}

LoopInv == \A n \in Nodes : NodeInv(n)

\* A fail-fast context that is cancelled while its group runs was cancelled
\* by a failure.
FailFastInv ==
    \A n \in Nodes :
        HasFailFast(n) /\ JobOf[n] \in failFast /\ n \in Planned =>
            Past(n) \/ \E m \in Siblings(n) : results[m] = "failure"

SlotInv ==
    \A j \in Jobs : MaxParallel[j] # NoLimit => Cardinality(InSlot(j)) <= MaxParallel[j]

\* A failure under fail-fast has cancelled the siblings, or its goroutine,
\* which still has its slot, is about to.
FailureInv ==
    \A n \in Nodes : HasFailFast(n) =>
        /\ results[n] = "failure" => pc[n] = "recorded" \/ JobOf[n] \in failFast
        /\ MaxParallel[JobOf[n]] = 1 /\ JobOf[n] \in failFast => pc[n] # "running"

\* Where every job of a group cancels the others, a live job that was not
\* cancelled is the one in the map.
CancelsAll(c) == \A j \in Jobs : Concurrency[j] = c => j \in CancelInProgress

HolderInv ==
    \A n \in Nodes :
        (/\ Concurrency[JobOf[n]] # NoGroup
         /\ CancelsAll(Concurrency[JobOf[n]])
         /\ pc[n] \in {"setup", "running"}
         /\ n \notin superseded) => holder[Concurrency[JobOf[n]]] = n

-----------------------------------------------------------------------------
(***************************************************************************)
(* Type correctness.                                                       *)
(***************************************************************************)
GroupInv == mainPc = "launch" => group <= Len(Groups)

LEMMA GroupsTyped == Len(Groups) \in Nat /\ DOMAIN Groups = 1..Len(Groups)
  BY WorkflowAssumption DEF WorkflowAssumption

LEMMA PlannedAreNodes == \A g \in DOMAIN Groups : NodesIn(g) \subseteq Nodes
<1> SUFFICES ASSUME NEW g \in DOMAIN Groups PROVE NodesIn(g) \subseteq Nodes
  OBVIOUS
<1>1. Groups[g] \in Seq(Nodes)
  BY GroupsTyped, WorkflowAssumption DEF WorkflowAssumption
<1>. QED BY <1>1 DEF NodesIn, ToSet

\* The node the main goroutine looks at.
LEMMA CurrentIsNode ==
    ASSUME TypeOK, GroupInv, Launching
    PROVE  /\ group \in DOMAIN Groups
           /\ cursor \in DOMAIN Groups[group]
           /\ Current \in Nodes
           /\ Current \in NodesIn(group)
<1>1. group \in DOMAIN Groups
  BY GroupsTyped DEF TypeOK, GroupInv, Launching
<1>2. Groups[group] \in Seq(Nodes)
  BY <1>1, GroupsTyped, WorkflowAssumption DEF WorkflowAssumption
<1>3. cursor \in DOMAIN Groups[group] /\ Current \in Nodes
  BY <1>2 DEF TypeOK, Launching, Current
<1>. QED BY <1>1, <1>3 DEF NodesIn, ToSet, Current

LEMMA InitType == Init => TypeOK /\ GroupInv
<1> SUFFICES ASSUME Init PROVE TypeOK /\ GroupInv
  OBVIOUS
<1>1. group \in 1..(Len(Groups) + 1) /\ cursor \in Nat \ {0}
  BY GroupsTyped DEF Init
<1>2. holder \in [ConcurrencyGroups -> Nodes \cup {NoNode}]
  BY DEF Init
<1>. QED BY <1>1, <1>2 DEF Init, TypeOK, GroupInv, Statuses

LEMMA ReturnType ==
    ASSUME TypeOK, GroupInv, NEW n \in Nodes, NEW s \in {"success", "failure", "cancelled"},
           Return(n, s)
    PROVE  TypeOK' /\ GroupInv'
<1>1. holder' \in [ConcurrencyGroups -> Nodes \cup {NoNode}]
  BY DEF TypeOK, Return, Released
<1>. QED BY <1>1 DEF TypeOK, GroupInv, Return, SlotStates, Statuses, mainVars, sumVars, ctxVars

LEMMA NextType == TypeOK /\ GroupInv /\ [Next]_vars => TypeOK' /\ GroupInv'
<1> SUFFICES ASSUME TypeOK, GroupInv, [Next]_vars PROVE TypeOK' /\ GroupInv'
  OBVIOUS
<1> USE GroupsTyped DEF TypeOK, GroupInv, Statuses, SlotStates
<1>1. CASE CancelGroup
  BY <1>1 DEF CancelGroup, ctxVars
<1>2. CASE BeginGroup
  BY <1>2 DEF BeginGroup, sumVars, ctxVars
<1>3. CASE LaunchJob
  <2>1. Current \in Nodes /\ cursor' \in Nat \ {0}
    BY <1>3, CurrentIsNode DEF LaunchJob
  <2>. QED BY <1>3, <2>1 DEF LaunchJob, mainVars, sumVars, ctxVars
<1>4. CASE SkipJob
  <2>1. Current \in Nodes /\ cursor' \in Nat \ {0}
    BY <1>4, CurrentIsNode DEF SkipJob
  <2>2. crashed' \in BOOLEAN
    BY <1>4 DEF SkipJob
  <2>. QED BY <1>4, <2>1, <2>2 DEF SkipJob, mainVars, sumVars, ctxVars
<1>5. CASE CollectGroup
  <2>1. jobOutputs' \in [Nodes -> Statuses]
    BY <1>5 DEF CollectGroup, Conclusion
  <2>2. failFast' \subseteq Jobs
    BY <1>5, WorkflowAssumption, PlannedAreNodes DEF CollectGroup, WorkflowAssumption
  <2>3. success' \in BOOLEAN
    BY <1>5 DEF CollectGroup
  <2>4. allResults' \in [Nodes -> Statuses]
    BY <1>5 DEF CollectGroup
  <2>. QED BY <1>5, <2>1, <2>2, <2>3, <2>4 DEF CollectGroup
<1>6. CASE Finish
  BY <1>6 DEF Finish, ctxVars
<1>7. ASSUME NEW n \in Nodes,
             \/ AcquireSlot(n) \/ StartRunner(n) \/ LockResults(n) \/ LeaveGroup(n)
      PROVE  TypeOK' /\ GroupInv'
  BY <1>7 DEF AcquireSlot, StartRunner, LockResults, LeaveGroup, mainVars, sumVars, ctxVars
<1>8. ASSUME NEW n \in Nodes, EnterJob(n) PROVE TypeOK' /\ GroupInv'
  <2> DEFINE c == Concurrency[JobOf[n]]
  <2>1. CASE c = NoGroup
    BY <1>8, <2>1 DEF EnterJob, mainVars, sumVars
  <2>2. CASE c # NoGroup
    <3>1. c \in ConcurrencyGroups
      BY <2>2, WorkflowAssumption DEF WorkflowAssumption, ConcurrencyGroups
    <3>2. Acquire(n, c)
      BY <1>8, <2>2 DEF EnterJob
    <3>3. /\ holder' \in [ConcurrencyGroups -> Nodes \cup {NoNode}]
          /\ superseded' \subseteq Nodes
      BY <3>1, <3>2 DEF Acquire
    <3>. QED BY <1>8, <3>3 DEF EnterJob, mainVars, sumVars
  <2>. QED BY <2>1, <2>2
<1>9. ASSUME NEW n \in Nodes,
             \/ SetupFails(n) \/ ContextDone(n)
             \/ \E s \in {"success", "failure"} : ResultArrives(n, s)
      PROVE  TypeOK' /\ GroupInv'
  BY <1>9, ReturnType DEF SetupFails, ContextDone, ResultArrives
<1>10. ASSUME NEW n \in Nodes, RecordResult(n) PROVE TypeOK' /\ GroupInv'
  BY <1>10 DEF RecordResult, mainVars, sumVars, ctxVars
<1>11. ASSUME NEW n \in Nodes, CancelSiblings(n) PROVE TypeOK' /\ GroupInv'
  <2>1. JobOf[n] \in Jobs
    BY WorkflowAssumption DEF WorkflowAssumption
  <2>. QED BY <1>11, <2>1 DEF CancelSiblings, mainVars, sumVars
<1>12. CASE CancelRun
  BY <1>12 DEF CancelRun, mainVars, sumVars
<1>13. ASSUME NEW n \in Nodes, Expire(n) PROVE TypeOK' /\ GroupInv'
  BY <1>13 DEF Expire, mainVars, sumVars
<1>14. CASE UNCHANGED vars
  BY <1>14 DEF vars, mainVars, sumVars, ctxVars
<1>. QED
  BY <1>1, <1>2, <1>3, <1>4, <1>5, <1>6, <1>7, <1>8, <1>9, <1>10, <1>11, <1>12, <1>13, <1>14
     DEF Next, MainStep, NodeStep, Stopped

\* The state of a run keeps its type, and the loop stays within the plan, for
\* every workflow.
THEOREM TypeCorrect == Spec => []TypeOK
<1>1. Spec => [](TypeOK /\ GroupInv)
  BY InitType, NextType, PTL DEF Spec
<1>. QED BY <1>1, PTL

-----------------------------------------------------------------------------
(***************************************************************************)
(* The loops.                                                              *)
(***************************************************************************)

LEMMA PlanOrdered == PlanIsOrdered
  BY WorkflowAssumption DEF WorkflowAssumption

\* The loop looks at a node it has not looked at before.
LEMMA CurrentIsFresh ==
    ASSUME TypeOK, GroupInv, LoopInv, Launching
    PROVE  /\ ~Past(Current) /\ ~Passed(Current)
           /\ pc[Current] = "idle" /\ results[Current] = "none"
<1>1. /\ group \in DOMAIN Groups /\ cursor \in DOMAIN Groups[group]
      /\ Current \in Nodes /\ Current \in NodesIn(group)
  BY CurrentIsNode
<1>2. ~Past(Current)
  BY <1>1, GroupsTyped, PlanOrdered DEF PlanIsOrdered, Past
<1>3. ~Passed(Current)
  <2>1. IsInjective(Groups[group])
    BY <1>1, PlanOrdered DEF PlanIsOrdered
  <2>2. cursor \in Nat
    BY DEF TypeOK
  <2>. QED BY <1>1, <2>1, <2>2 DEF Passed, IsInjective, Current
<1>. QED BY <1>1, <1>2, <1>3 DEF LoopInv, NodeInv

LEMMA PassedIsInGroup ==
    ASSUME TypeOK, NEW n, Passed(n)
    PROVE  n \in NodesIn(group)
  BY DEF Passed, NodesIn, ToSet

\* When the loop goes on to the next group, this one is past.
LEMMA GroupGoesPast ==
    ASSUME TypeOK, GroupInv, group \in DOMAIN Groups, group' = group + 1, mainPc' = "group"
    PROVE  \A n : (Past(n)' <=> Past(n) \/ n \in NodesIn(group)) /\ ~Passed(n)'
<1>1. group \in Nat /\ group >= 1
  BY GroupsTyped DEF TypeOK
<1>2. 1..(group' - 1) = 1..(group - 1) \cup {group}
  BY <1>1
<1>. QED BY <1>2 DEF Past, Passed, NodesIn

\* When it goes on to the next node, this one is passed.
LEMMA CurrentIsPassed ==
    ASSUME TypeOK, GroupInv, Launching, cursor' = cursor + 1, UNCHANGED <<mainPc, group>>
    PROVE  \A n : (Past(n)' <=> Past(n)) /\ (Passed(n)' <=> Passed(n) \/ n = Current)
<1>1. /\ group \in DOMAIN Groups /\ cursor \in DOMAIN Groups[group]
      /\ cursor \in Nat \ {0}
  BY CurrentIsNode DEF TypeOK
<1>2. 1..(cursor' - 1) = 1..(cursor - 1) \cup {cursor}
  BY <1>1
<1>. QED BY <1>1, <1>2 DEF Past, Passed, Launching, Current

LEMMA SameNode ==
    ASSUME NEW n \in Nodes, NodeInv(n), Past(n)' <=> Past(n), Passed(n)' <=> Passed(n),
           pc'[n] = pc[n], results'[n] = results[n], status'[n] = status[n]
    PROVE  NodeInv(n)'
  BY DEF NodeInv

LEMMA MainUnchanged ==
    ASSUME UNCHANGED mainVars
    PROVE  \A n : (Past(n)' <=> Past(n)) /\ (Passed(n)' <=> Passed(n))
  BY DEF mainVars, Past, Passed

\* executeJob returns: what is recorded later was not recorded yet.
LEMMA LoopInvReturn ==
    ASSUME TypeOK, LoopInv, NEW n \in Nodes, NEW s, Return(n, s),
           pc[n] \in {"setup", "running"}
    PROVE  LoopInv'
<1> SUFFICES ASSUME NEW m \in Nodes PROVE NodeInv(m)'
  BY DEF LoopInv
<1>1. NodeInv(m)
  BY DEF LoopInv
<1>2. (Past(m)' <=> Past(m)) /\ (Passed(m)' <=> Passed(m))
  BY MainUnchanged DEF Return
<1>3. CASE m = n
  BY <1>1, <1>2, <1>3 DEF Return, NodeInv, TypeOK, BeforeRecord, AfterRecord
<1>4. CASE m # n
  BY <1>1, <1>2, <1>4, SameNode DEF Return, TypeOK
<1>. QED BY <1>3, <1>4

LEMMA LoopInvStep == TypeOK /\ GroupInv /\ LoopInv /\ [Next]_vars => LoopInv'
<1> SUFFICES ASSUME TypeOK, GroupInv, LoopInv, [Next]_vars PROVE LoopInv'
  OBVIOUS
<1>1. ASSUME mainPc = "group", group \in DOMAIN Groups, group' = group + 1, mainPc' = "group",
             UNCHANGED <<pc, results, status>>, NEW m \in Nodes
      PROVE  NodeInv(m)'
  <2>1. (Past(m)' <=> Past(m) \/ m \in NodesIn(group)) /\ ~Passed(m)'
    BY <1>1, GroupGoesPast
  <2>2. ~Passed(m)
    BY <1>1 DEF Passed
  <2>3. NodeInv(m)
    BY DEF LoopInv
  <2>. QED BY <1>1, <2>1, <2>2, <2>3 DEF NodeInv
<1>2. CASE CancelGroup
  BY <1>2, <1>1, GroupsTyped DEF CancelGroup, LoopInv, TypeOK
<1>3. ASSUME mainPc = "group", mainPc' \in {"launch", "done"}, mainPc' = "launch" => cursor' = 1,
             UNCHANGED <<group, pc, results, status>>
      PROVE  LoopInv'
  <2>1. \A n : (Past(n)' <=> Past(n)) /\ (Passed(n)' <=> Passed(n))
    BY <1>3 DEF Past, Passed
  <2>. QED BY <1>3, <2>1, SameNode DEF LoopInv
<1>4. CASE BeginGroup
  BY <1>4, <1>3 DEF BeginGroup
<1>5. CASE Finish
  BY <1>5, <1>3 DEF Finish
<1>6. CASE LaunchJob
  <2>1. /\ Current \in Nodes
        /\ ~Past(Current) /\ pc[Current] = "idle" /\ results[Current] = "none"
    BY <1>6, CurrentIsFresh, CurrentIsNode DEF LaunchJob
  <2>2. ASSUME NEW m \in Nodes PROVE NodeInv(m)'
    <3>1. (Past(m)' <=> Past(m)) /\ (Passed(m)' <=> Passed(m) \/ m = Current)
      BY <1>6, CurrentIsPassed DEF LaunchJob
    <3>2. NodeInv(m)
      BY DEF LoopInv
    <3>3. CASE m = Current
      BY <1>6, <2>1, <3>1, <3>2, <3>3 DEF LaunchJob, NodeInv, TypeOK, BeforeRecord, AfterRecord
    <3>4. CASE m # Current
      BY <1>6, <3>1, <3>2, <3>4, SameNode DEF LaunchJob, TypeOK
    <3>. QED BY <3>3, <3>4
  <2>. QED BY <2>2 DEF LoopInv
<1>7. CASE SkipJob
  <2>1. /\ Current \in Nodes
        /\ ~Past(Current) /\ pc[Current] = "idle" /\ results[Current] = "none"
    BY <1>7, CurrentIsFresh, CurrentIsNode DEF SkipJob
  <2>2. ASSUME NEW m \in Nodes PROVE NodeInv(m)'
    <3>1. (Past(m)' <=> Past(m)) /\ (Passed(m)' <=> Passed(m) \/ m = Current)
      BY <1>7, CurrentIsPassed DEF SkipJob
    <3>2. NodeInv(m)
      BY DEF LoopInv
    <3>3. CASE m = Current
      BY <1>7, <2>1, <3>1, <3>2, <3>3 DEF SkipJob, NodeInv, TypeOK, BeforeRecord, AfterRecord
    <3>4. CASE m # Current
      BY <1>7, <3>1, <3>2, <3>4, SameNode DEF SkipJob, TypeOK
    <3>. QED BY <3>3, <3>4
  <2>. QED BY <2>2 DEF LoopInv
<1>8. CASE CollectGroup
  <2>1. group \in DOMAIN Groups
    BY <1>8, GroupsTyped DEF CollectGroup, GroupInv, TypeOK
  <2>2. ASSUME NEW m \in Nodes PROVE NodeInv(m)'
    <3>1. (Past(m)' <=> Past(m) \/ m \in NodesIn(group)) /\ ~Passed(m)'
      BY <1>8, <2>1, GroupGoesPast DEF CollectGroup
    <3>2. Passed(m) => m \in NodesIn(group)
      BY PassedIsInGroup
    <3>3. NodeInv(m)
      BY DEF LoopInv
    <3>. QED BY <1>8, <3>1, <3>2, <3>3 DEF CollectGroup, NodeInv
  <2>. QED BY <2>2 DEF LoopInv
<1>9. ASSUME NEW n \in Nodes,
             \/ AcquireSlot(n) \/ StartRunner(n) \/ LockResults(n) \/ LeaveGroup(n)
             \/ EnterJob(n) \/ RecordResult(n) \/ CancelSiblings(n)
      PROVE  LoopInv'
  <2>1. UNCHANGED <<mainVars, status>> /\ pc[n] # "idle" /\ pc'[n] # "idle"
    BY <1>9 DEF AcquireSlot, StartRunner, LockResults, LeaveGroup, EnterJob, RecordResult,
                CancelSiblings, TypeOK
  <2>2. ASSUME NEW m \in Nodes PROVE NodeInv(m)'
    <3>1. (Past(m)' <=> Past(m)) /\ (Passed(m)' <=> Passed(m))
      BY <2>1, MainUnchanged
    <3>2. NodeInv(m)
      BY DEF LoopInv
    <3>3. CASE m # n
      <4>1. pc'[m] = pc[m] /\ results'[m] = results[m]
        BY <1>9, <3>3 DEF AcquireSlot, StartRunner, LockResults, LeaveGroup, EnterJob,
                          RecordResult, CancelSiblings, TypeOK
      <4>. QED BY <2>1, <3>1, <3>2, <4>1, SameNode
    <3>4. CASE m = n /\ ~RecordResult(n)
      <4>1. UNCHANGED results
        BY <1>9, <3>4 DEF AcquireSlot, StartRunner, LockResults, LeaveGroup, EnterJob,
                          CancelSiblings
      <4>2. \/ pc[n] \in BeforeRecord /\ pc'[n] \in BeforeRecord
            \/ pc[n] \in AfterRecord /\ pc'[n] \in AfterRecord
        BY <1>9, <3>4 DEF AcquireSlot, StartRunner, LockResults, LeaveGroup, EnterJob,
                          CancelSiblings, BeforeRecord, AfterRecord, TypeOK
      <4>3. ~Past(n)
        BY <1>9, <3>2, <3>4 DEF NodeInv, AcquireSlot, StartRunner, LockResults, LeaveGroup,
                                EnterJob, CancelSiblings
      <4>. QED BY <2>1, <3>1, <3>2, <3>4, <4>1, <4>2, <4>3
              DEF NodeInv, BeforeRecord, AfterRecord
    <3>5. CASE m = n /\ RecordResult(n)
      BY <2>1, <3>1, <3>2, <3>5 DEF RecordResult, NodeInv, TypeOK, BeforeRecord, AfterRecord
    <3>. QED BY <3>3, <3>4, <3>5
  <2>. QED BY <2>2 DEF LoopInv
<1>10. ASSUME NEW n \in Nodes,
              \/ SetupFails(n) \/ ContextDone(n)
              \/ \E s \in {"success", "failure"} : ResultArrives(n, s)
       PROVE  LoopInv'
  BY <1>10, LoopInvReturn DEF SetupFails, ContextDone, ResultArrives
<1>11. ASSUME UNCHANGED <<mainVars, pc, results, status>> PROVE LoopInv'
  BY <1>11, MainUnchanged, SameNode DEF LoopInv
<1>12. CASE CancelRun
  BY <1>12, <1>11 DEF CancelRun
<1>13. ASSUME NEW n \in Nodes, Expire(n) PROVE LoopInv'
  BY <1>13, <1>11 DEF Expire
<1>14. CASE UNCHANGED vars
  BY <1>14, <1>11 DEF vars
<1>. QED
  BY <1>2, <1>4, <1>5, <1>6, <1>7, <1>8, <1>9, <1>10, <1>12, <1>13, <1>14
     DEF Next, MainStep, NodeStep, Stopped

-----------------------------------------------------------------------------
(***************************************************************************)
(* max-parallel.                                                           *)
(***************************************************************************)
LEMMA SlotsFinite == \A j : IsFiniteSet(InSlot(j)) /\ Cardinality(InSlot(j)) \in Nat
<1> SUFFICES ASSUME NEW j PROVE IsFiniteSet(InSlot(j)) /\ Cardinality(InSlot(j)) \in Nat
  OBVIOUS
<1>1. InSlot(j) \subseteq Nodes /\ IsFiniteSet(Nodes)
  BY WorkflowAssumption DEF WorkflowAssumption, InSlot
<1>. QED BY <1>1, FS_Subset, FS_CardinalityType

\* Steps that do not take a slot leave no more nodes in one.
LEMMA FewerInSlot ==
    ASSUME SlotInv, \A n \in Nodes : pc'[n] \in SlotStates => pc[n] \in SlotStates
    PROVE  SlotInv'
<1> SUFFICES ASSUME NEW j \in Jobs, MaxParallel[j] # NoLimit
             PROVE  Cardinality(InSlot(j)') <= MaxParallel[j]
  BY DEF SlotInv
<1>1. InSlot(j)' \subseteq InSlot(j)
  BY DEF InSlot
<1>2. Cardinality(InSlot(j)') <= Cardinality(InSlot(j)) /\ Cardinality(InSlot(j)') \in Nat
  BY <1>1, SlotsFinite, FS_Subset, FS_CardinalityType
<1>3. MaxParallel[j] \in Nat
  BY WorkflowAssumption DEF WorkflowAssumption
<1>. QED BY <1>2, <1>3, SlotsFinite DEF SlotInv

LEMMA SlotInvStep == TypeOK /\ GroupInv /\ LoopInv /\ SlotInv /\ [Next]_vars => SlotInv'
<1> SUFFICES ASSUME TypeOK, GroupInv, LoopInv, SlotInv, [Next]_vars PROVE SlotInv'
  OBVIOUS
<1>1. ASSUME NEW n \in Nodes, AcquireSlot(n) PROVE SlotInv'
  <2> SUFFICES ASSUME NEW j \in Jobs, MaxParallel[j] # NoLimit
               PROVE  Cardinality(InSlot(j)') <= MaxParallel[j]
    BY DEF SlotInv
  <2>1. /\ MaxParallel[j] \in Nat
        /\ Cardinality(InSlot(j)) \in Nat /\ IsFiniteSet(InSlot(j))
        /\ Cardinality(InSlot(j)) <= MaxParallel[j]
    BY SlotsFinite, WorkflowAssumption DEF WorkflowAssumption, SlotInv
  <2>2. CASE JobOf[n] = j
    <3>1. InSlot(j)' = InSlot(j) \cup {n} /\ n \notin InSlot(j)
      BY <1>1, <2>2 DEF AcquireSlot, InSlot, SlotStates, TypeOK
    <3>2. Cardinality(InSlot(j)) < MaxParallel[j]
      BY <1>1, <2>2 DEF AcquireSlot
    <3>3. Cardinality(InSlot(j) \cup {n}) = Cardinality(InSlot(j)) + 1
      BY <2>1, <3>1, FS_AddElement
    <3>. QED BY <2>1, <3>1, <3>2, <3>3
  <2>3. CASE JobOf[n] # j
    <3>1. InSlot(j)' = InSlot(j)
      BY <1>1, <2>3 DEF AcquireSlot, InSlot, TypeOK
    <3>. QED BY <2>1, <3>1
  <2>. QED BY <2>2, <2>3
<1>2. ASSUME NEW n \in Nodes,
             \/ StartRunner(n) \/ LockResults(n) \/ LeaveGroup(n) \/ EnterJob(n)
             \/ RecordResult(n) \/ CancelSiblings(n) \/ SetupFails(n) \/ ContextDone(n)
             \/ \E s \in {"success", "failure"} : ResultArrives(n, s)
      PROVE  SlotInv'
  BY <1>2, FewerInSlot
     DEF StartRunner, LockResults, LeaveGroup, EnterJob, RecordResult, CancelSiblings,
         SetupFails, ContextDone, ResultArrives, Return, SlotStates, TypeOK
<1>3. CASE LaunchJob
  <2>1. Current \in Nodes
    BY <1>3, CurrentIsNode DEF LaunchJob
  <2>. QED BY <1>3, <2>1, FewerInSlot DEF LaunchJob, SlotStates, TypeOK
<1>4. CASE CancelGroup \/ BeginGroup \/ SkipJob \/ CollectGroup \/ Finish \/ CancelRun
  BY <1>4, FewerInSlot DEF CancelGroup, BeginGroup, SkipJob, CollectGroup, Finish, CancelRun
<1>5. ASSUME NEW n \in Nodes, Expire(n) PROVE SlotInv'
  BY <1>5, FewerInSlot DEF Expire
<1>6. CASE UNCHANGED vars
  BY <1>6, FewerInSlot DEF vars
<1>. QED
  BY <1>1, <1>2, <1>3, <1>4, <1>5, <1>6 DEF Next, MainStep, NodeStep, Stopped

\* With one slot there is one node in it.
LEMMA OneInSlot ==
    ASSUME TypeOK, SlotInv, NEW m \in Nodes, NEW n \in Nodes, JobOf[m] = JobOf[n],
           MaxParallel[JobOf[n]] = 1, pc[m] \in SlotStates, pc[n] \in SlotStates
    PROVE  m = n
<1>1. JobOf[n] \in Jobs /\ NoLimit # 1
  BY WorkflowAssumption DEF WorkflowAssumption
<1>2. Cardinality(InSlot(JobOf[n])) <= 1
  BY <1>1 DEF SlotInv
<1>3. {m, n} \subseteq InSlot(JobOf[n])
  BY DEF InSlot
<1>4. Cardinality({m, n}) <= 1
  BY <1>2, <1>3, SlotsFinite, FS_Subset, FS_CardinalityType
<1>5. CASE m # n
  <2>1. Cardinality({m} \cup {n}) = 2
    <3>1. IsFiniteSet({m}) /\ Cardinality({m}) = 1 /\ n \notin {m}
      BY <1>5, FS_Singleton
    <3>2. Cardinality({m} \cup {n}) = IF n \in {m} THEN Cardinality({m}) ELSE Cardinality({m}) + 1
      BY <3>1, FS_AddElement
    <3>. QED BY <3>1, <3>2
  <2>2. {m} \cup {n} = {m, n}
    OBVIOUS
  <2>. QED BY <1>4, <2>1, <2>2
<1>. QED BY <1>5

-----------------------------------------------------------------------------
(***************************************************************************)
(* Fail-fast.                                                              *)
(***************************************************************************)
LEMMA SiblingsShare ==
    ASSUME NEW m \in Nodes, NEW n \in Nodes, JobOf[m] = JobOf[n]
    PROVE  HasFailFast(m) <=> HasFailFast(n)
  BY DEF HasFailFast, Siblings

\* The nodes of one job are in one group.
LEMMA SiblingsTogether ==
    ASSUME NEW g \in DOMAIN Groups, NEW m \in NodesIn(g), NEW n \in Nodes,
           JobOf[m] = JobOf[n], n \in Planned
    PROVE  n \in NodesIn(g)
  BY PlanOrdered DEF PlanIsOrdered, Siblings

LEMMA BusyIsPlanned ==
    ASSUME TypeOK, GroupInv, LoopInv, NEW n \in Nodes, pc[n] # "idle"
    PROVE  n \in Planned
<1>1. CASE Past(n)
  BY <1>1, GroupsTyped DEF Past, Planned, TypeOK
<1>2. CASE Passed(n)
  <2>1. group \in DOMAIN Groups
    BY <1>2, GroupsTyped DEF Passed, GroupInv, TypeOK
  <2>. QED BY <1>2, <2>1, PassedIsInGroup DEF Planned
<1>. QED BY <1>1, <1>2 DEF LoopInv, NodeInv

\* What is in the results map stays there.
LEMMA FailureStays ==
    ASSUME TypeOK, GroupInv, LoopInv, [Next]_vars, NEW m \in Nodes, results[m] = "failure"
    PROVE  results'[m] = "failure"
<1>1. NodeInv(m)
  BY DEF LoopInv
<1>2. CASE SkipJob
  <2>1. Current # m
    BY <1>2, CurrentIsFresh DEF SkipJob
  <2>. QED BY <1>2, <2>1 DEF SkipJob, TypeOK
<1>3. ASSUME NEW n \in Nodes, RecordResult(n) PROVE results'[m] = "failure"
  <2>1. n # m
    BY <1>1, <1>3 DEF RecordResult, NodeInv, BeforeRecord
  <2>. QED BY <1>3, <2>1 DEF RecordResult, TypeOK
<1>4. CASE UNCHANGED results
  BY <1>4
<1>. QED
  BY <1>2, <1>3, <1>4
     DEF Next, MainStep, NodeStep, Stopped, CancelGroup, BeginGroup, LaunchJob, CollectGroup,
         Finish, AcquireSlot, EnterJob, StartRunner, ContextDone, LockResults, CancelSiblings,
         LeaveGroup, SetupFails, ResultArrives, Return, CancelRun, Expire, vars

\* The other steps change no fail-fast context.
LEMMA FailFastSteps ==
    ASSUME [Next]_vars, ~CollectGroup, \A n \in Nodes : ~CancelSiblings(n)
    PROVE  failFast' = failFast
  BY DEF Next, MainStep, NodeStep, Stopped, CancelGroup, BeginGroup, LaunchJob, SkipJob, Finish,
         AcquireSlot, EnterJob, StartRunner, ContextDone, LockResults, RecordResult, LeaveGroup,
         SetupFails, ResultArrives, Return, CancelRun, Expire, vars, ctxVars

LEMMA PastStays ==
    ASSUME TypeOK, GroupInv, [Next]_vars, NEW n, Past(n)
    PROVE  Past(n)'
<1>1. group \in Nat
  BY GroupsTyped DEF TypeOK
<1>2. PICK h \in 1..(group - 1) : n \in NodesIn(h)
  BY DEF Past
<1>3. CASE group' = group
  BY <1>2, <1>3 DEF Past, NodesIn
<1>4. CASE group' = group + 1
  <2>1. h \in 1..(group' - 1)
    BY <1>1, <1>2, <1>4
  <2>. QED BY <1>2, <2>1 DEF Past, NodesIn
<1>5. group' = group \/ CancelGroup \/ CollectGroup
  BY DEF Next, MainStep, NodeStep, Stopped, BeginGroup, LaunchJob, SkipJob, Finish,
         AcquireSlot, EnterJob, StartRunner, ContextDone, LockResults, RecordResult,
         CancelSiblings, LeaveGroup, SetupFails, ResultArrives, Return, CancelRun, Expire,
         vars, mainVars
<1>. QED BY <1>3, <1>4, <1>5 DEF CancelGroup, CollectGroup

LEMMA FailFastInvStep == TypeOK /\ GroupInv /\ LoopInv /\ FailFastInv /\ [Next]_vars => FailFastInv'
<1> SUFFICES ASSUME TypeOK, GroupInv, LoopInv, FailFastInv, [Next]_vars,
                    NEW n \in Nodes, HasFailFast(n), JobOf[n] \in failFast', n \in Planned
             PROVE  Past(n)' \/ \E m \in Siblings(n) : results'[m] = "failure"
  BY DEF FailFastInv, HasFailFast
<1>1. CASE JobOf[n] \in failFast
  <2>1. CASE Past(n)
    BY <2>1, PastStays
  <2>2. ASSUME NEW m \in Siblings(n), results[m] = "failure"
        PROVE  results'[m] = "failure"
    BY <2>2, FailureStays DEF Siblings
  <2>. QED BY <1>1, <2>1, <2>2 DEF FailFastInv
<1>2. CASE JobOf[n] \notin failFast /\ CollectGroup
  <2>1. group \in DOMAIN Groups
    BY <1>2, GroupsTyped DEF CollectGroup, GroupInv, TypeOK
  <2>2. PICK m \in NodesIn(group) : JobOf[m] = JobOf[n]
    BY <1>2 DEF CollectGroup
  <2>3. n \in NodesIn(group)
    BY <2>1, <2>2, SiblingsTogether
  <2>. QED BY <1>2, <2>1, <2>3, GroupGoesPast DEF CollectGroup
<1>3. ASSUME JobOf[n] \notin failFast, NEW m \in Nodes, CancelSiblings(m)
      PROVE  \E k \in Siblings(n) : results'[k] = "failure"
  <2>1. status[m] = "failure" /\ JobOf[m] = JobOf[n] /\ pc[m] = "recorded" /\ results' = results
    BY <1>3 DEF CancelSiblings
  <2>2. results[m] = status[m]
    BY <2>1 DEF LoopInv, NodeInv, AfterRecord
  <2>. QED BY <2>1, <2>2 DEF Siblings
<1>. QED BY <1>1, <1>2, <1>3, FailFastSteps

RunInv == TypeOK /\ GroupInv /\ LoopInv /\ FailFastInv /\ SlotInv

\* TypeOK and the invariants of the loops, slots and fail-fast contexts
\* together are inductive.
LEMMA RunInvariant == Spec => []RunInv
<1>1. Init => RunInv
  <2> SUFFICES ASSUME Init PROVE RunInv
    OBVIOUS
  <2>1. LoopInv
    BY DEF Init, LoopInv, NodeInv, Past, Passed, BeforeRecord, AfterRecord
  <2>2. FailFastInv
    BY DEF Init, FailFastInv
  <2>3. SlotInv
    <3> SUFFICES ASSUME NEW j \in Jobs, MaxParallel[j] # NoLimit
                 PROVE  Cardinality(InSlot(j)) <= MaxParallel[j]
      BY DEF SlotInv
    <3>1. InSlot(j) = {}
      BY DEF Init, InSlot, SlotStates
    <3>. QED BY <3>1, FS_EmptySet, WorkflowAssumption DEF WorkflowAssumption
  <2>. QED BY <2>1, <2>2, <2>3, InitType DEF RunInv
<1>2. RunInv /\ [Next]_vars => RunInv'
  BY NextType, LoopInvStep, FailFastInvStep, SlotInvStep DEF RunInv
<1>. QED BY <1>1, <1>2, PTL DEF Spec

\* The semaphore of a job admits no more runners than its max-parallel,
\* whatever the workflow.
THEOREM MaxParallelHolds == Spec => []WithinMaxParallel
<1>1. RunInv => WithinMaxParallel
  <2> SUFFICES ASSUME RunInv, NEW j \in Jobs, MaxParallel[j] # NoLimit
               PROVE  Cardinality({n \in Nodes : JobOf[n] = j /\ pc[n] = "running"})
                        <= MaxParallel[j]
    BY DEF WithinMaxParallel
  <2> DEFINE Running == {n \in Nodes : JobOf[n] = j /\ pc[n] = "running"}
  <2>1. Running \subseteq InSlot(j)
    BY DEF InSlot, SlotStates
  <2>2. Cardinality(Running) <= Cardinality(InSlot(j)) /\ Cardinality(Running) \in Nat
    BY <2>1, SlotsFinite, FS_Subset, FS_CardinalityType
  <2>3. MaxParallel[j] \in Nat /\ Cardinality(InSlot(j)) <= MaxParallel[j]
    BY WorkflowAssumption DEF WorkflowAssumption, RunInv, SlotInv
  <2>. QED BY <2>2, <2>3, SlotsFinite
<1>. QED BY <1>1, RunInvariant, PTL

-----------------------------------------------------------------------------
(***************************************************************************)
(* Cancelled jobs have a cause.                                            *)
(***************************************************************************)
Cause(n) ==
    \/ runCancelled
    \/ n \in expired
    \/ n \in superseded
    \/ HasFailFast(n) /\ \E m \in Siblings(n) \ {n} : results[m] = "failure"

\* A cause does not go away.
LEMMA CauseStays ==
    ASSUME RunInv, [Next]_vars, NEW n \in Nodes, Cause(n)
    PROVE  Cause(n)'
<1>1. runCancelled => runCancelled'
  BY DEF Next, MainStep, NodeStep, Stopped, CancelGroup, BeginGroup, LaunchJob, SkipJob,
         CollectGroup, Finish, AcquireSlot, EnterJob, StartRunner, ContextDone, LockResults,
         RecordResult, CancelSiblings, LeaveGroup, SetupFails, ResultArrives, Return, CancelRun,
         Expire, vars, ctxVars
<1>2. expired \subseteq expired'
  BY DEF Next, MainStep, NodeStep, Stopped, CancelGroup, BeginGroup, LaunchJob, SkipJob,
         CollectGroup, Finish, AcquireSlot, EnterJob, StartRunner, ContextDone, LockResults,
         RecordResult, CancelSiblings, LeaveGroup, SetupFails, ResultArrives, Return, CancelRun,
         Expire, vars, ctxVars
<1>3. superseded \subseteq superseded'
  BY DEF Next, MainStep, NodeStep, Stopped, CancelGroup, BeginGroup, LaunchJob, SkipJob,
         CollectGroup, Finish, AcquireSlot, EnterJob, Acquire, StartRunner, ContextDone,
         LockResults, RecordResult, CancelSiblings, LeaveGroup, SetupFails, ResultArrives,
         Return, CancelRun, Expire, vars, ctxVars
<1>4. \A m \in Siblings(n) \ {n} : results[m] = "failure" => results'[m] = "failure"
  BY FailureStays DEF RunInv, Siblings
<1>. QED BY <1>1, <1>2, <1>3, <1>4 DEF Cause, HasFailFast

\* A running job whose context is done has a cause.
LEMMA DoneContextHasCause ==
    ASSUME RunInv, NEW n \in Nodes, pc[n] = "running", CtxDone(n)
    PROVE  Cause(n)
<1>1. CASE HasFailFast(n) /\ JobOf[n] \in failFast
  <2>1. n \in Planned
    BY BusyIsPlanned DEF RunInv
  <2>2. ~Past(n) /\ results[n] = "none"
    BY DEF RunInv, LoopInv, NodeInv, BeforeRecord
  <2>3. PICK m \in Siblings(n) : results[m] = "failure"
    BY <1>1, <2>1, <2>2 DEF RunInv, FailFastInv
  <2>. QED BY <1>1, <2>2, <2>3 DEF Cause
<1>. QED BY <1>1 DEF CtxDone, Cause

\* A job of a matrix is never cancelled because a job of another matrix
\* failed next to it: CtxDone is true of its own contexts only, and a
\* fail-fast context that is done while its group runs has a failure behind it.
THEOREM CancelledForCauseHolds == Spec => []CancelledForCause
<1> DEFINE CauseInv == \A n \in Nodes : status[n] = "cancelled" => Cause(n)
<1>1. Init => CauseInv
  BY DEF Init
<1>2. RunInv /\ CauseInv /\ [Next]_vars => CauseInv'
  <2> SUFFICES ASSUME RunInv, CauseInv, [Next]_vars, NEW n \in Nodes, status'[n] = "cancelled"
               PROVE  Cause(n)'
    OBVIOUS
  <2>1. CASE status[n] = "cancelled"
    BY <2>1, CauseStays
  <2>2. CASE ContextDone(n)
    BY <2>2, DoneContextHasCause, CauseStays DEF ContextDone
  <2>3. ASSUME NEW m \in Nodes, NEW s, Return(m, s), s # "cancelled" \/ m # n
        PROVE  status[n] = "cancelled"
    BY <2>3 DEF Return, RunInv, TypeOK
  <2>4. ASSUME NEW m \in Nodes, ContextDone(m) PROVE Cause(n)'
    <3>1. CASE m = n
      BY <2>2, <2>4, <3>1
    <3>2. CASE m # n
      BY <2>1, <2>3, <2>4, <3>2 DEF ContextDone
    <3>. QED BY <3>1, <3>2
  <2>5. ASSUME NEW m \in Nodes, NEW s \in {"success", "failure"},
               SetupFails(m) \/ ResultArrives(m, s)
        PROVE  Cause(n)'
    <3>1. status[n] = "cancelled"
      BY <2>3, <2>5 DEF SetupFails, ResultArrives
    <3>. QED BY <2>1, <3>1
  <2>6. CASE status' = status
    BY <2>1, <2>6
  <2>7. \/ status' = status
        \/ \E m \in Nodes : ContextDone(m)
        \/ \E m \in Nodes, s \in {"success", "failure"} : SetupFails(m) \/ ResultArrives(m, s)
    BY DEF Next, MainStep, NodeStep, Stopped, CancelGroup, BeginGroup, LaunchJob, SkipJob,
           CollectGroup, Finish, AcquireSlot, EnterJob, StartRunner, LockResults,
           RecordResult, CancelSiblings, LeaveGroup, CancelRun, Expire, vars
  <2>. QED BY <2>4, <2>5, <2>6, <2>7
<1>3. CauseInv => CancelledForCause
  BY DEF CancelledForCause, Cause
<1>. QED BY <1>1, <1>2, <1>3, RunInvariant, PTL DEF Spec

-----------------------------------------------------------------------------
(***************************************************************************)
(* A sequential matrix stops at its first failure.                         *)
(***************************************************************************)
LEMMA FailureInvStep == RunInv /\ FailureInv /\ [Next]_vars => FailureInv'
<1> SUFFICES ASSUME RunInv, FailureInv, [Next]_vars, NEW n \in Nodes, HasFailFast(n)
             PROVE  /\ results'[n] = "failure" => pc'[n] = "recorded" \/ JobOf[n] \in failFast'
                    /\ MaxParallel[JobOf[n]] = 1 /\ JobOf[n] \in failFast' => pc'[n] # "running"
  BY DEF FailureInv, HasFailFast
<1> USE DEF RunInv
<1>1. /\ results[n] = "failure" => pc[n] = "recorded" \/ JobOf[n] \in failFast
      /\ MaxParallel[JobOf[n]] = 1 /\ JobOf[n] \in failFast => pc[n] # "running"
      /\ NodeInv(n)
  BY DEF FailureInv, LoopInv
<1>2. CASE LaunchJob
  <2>1. Current \in Nodes /\ results[Current] = "none"
    BY <1>2, CurrentIsFresh, CurrentIsNode DEF LaunchJob
  <2>. QED BY <1>1, <1>2, <2>1 DEF LaunchJob, ctxVars, TypeOK
<1>3. CASE SkipJob
  BY <1>1, <1>3 DEF SkipJob, ctxVars, TypeOK
<1>4. CASE CollectGroup
  <2>1. group \in DOMAIN Groups
    BY <1>4, GroupsTyped DEF CollectGroup, GroupInv, TypeOK
  <2>2. CASE JobOf[n] \in failFast' \ failFast /\ pc[n] # "idle"
    <3>1. PICK m \in NodesIn(group) : JobOf[m] = JobOf[n]
      BY <1>4, <2>2 DEF CollectGroup
    <3>2. n \in NodesIn(group)
      BY <2>1, <2>2, <3>1, SiblingsTogether, BusyIsPlanned
    <3>. QED BY <1>1, <1>4, <3>2 DEF CollectGroup
  <2>. QED BY <1>1, <1>4, <2>2 DEF CollectGroup
<1>5. ASSUME NEW m \in Nodes, StartRunner(m)
      PROVE  /\ results'[n] = "failure" => pc'[n] = "recorded" \/ JobOf[n] \in failFast'
             /\ MaxParallel[JobOf[n]] = 1 /\ JobOf[n] \in failFast' => pc'[n] # "running"
  BY <1>1, <1>5 DEF StartRunner, CtxDone, ctxVars, TypeOK
<1>6. ASSUME NEW m \in Nodes,
             AcquireSlot(m) \/ EnterJob(m) \/ LockResults(m) \/ RecordResult(m) \/ LeaveGroup(m)
      PROVE  /\ results'[n] = "failure" => pc'[n] = "recorded" \/ JobOf[n] \in failFast'
             /\ MaxParallel[JobOf[n]] = 1 /\ JobOf[n] \in failFast' => pc'[n] # "running"
  BY <1>1, <1>6 DEF AcquireSlot, EnterJob, LockResults, RecordResult, LeaveGroup, ctxVars, TypeOK
<1>7. ASSUME NEW m \in Nodes, CancelSiblings(m)
      PROVE  /\ results'[n] = "failure" => pc'[n] = "recorded" \/ JobOf[n] \in failFast'
             /\ MaxParallel[JobOf[n]] = 1 /\ JobOf[n] \in failFast' => pc'[n] # "running"
  <2>1. results[m] = status[m] /\ results' = results /\ failFast \subseteq failFast'
    BY <1>7 DEF CancelSiblings, LoopInv, NodeInv, AfterRecord
  <2>2. CASE m = n
    BY <1>1, <1>7, <2>1, <2>2 DEF CancelSiblings, TypeOK
  <2>3. CASE m # n
    <3>1. pc'[n] = pc[n]
      BY <1>7, <2>3 DEF CancelSiblings, TypeOK
    <3>2. MaxParallel[JobOf[n]] = 1 /\ JobOf[m] = JobOf[n] => pc[n] # "running"
      BY <1>7, <2>3, OneInSlot DEF CancelSiblings, SlotStates
    <3>3. JobOf[n] \in failFast' => JobOf[n] \in failFast \/ JobOf[m] = JobOf[n]
      BY <1>7 DEF CancelSiblings
    <3>. QED BY <1>1, <2>1, <3>1, <3>2, <3>3
  <2>. QED BY <2>2, <2>3
<1>8. ASSUME NEW m \in Nodes, NEW s, Return(m, s), pc[m] \in {"setup", "running"}
      PROVE  /\ results'[n] = "failure" => pc'[n] = "recorded" \/ JobOf[n] \in failFast'
             /\ MaxParallel[JobOf[n]] = 1 /\ JobOf[n] \in failFast' => pc'[n] # "running"
  BY <1>1, <1>8 DEF Return, ctxVars, TypeOK
<1>9. CASE CancelGroup \/ BeginGroup \/ Finish \/ CancelRun \/ UNCHANGED vars
  BY <1>1, <1>9 DEF CancelGroup, BeginGroup, Finish, CancelRun, vars, ctxVars
<1>10. ASSUME NEW m \in Nodes, Expire(m)
       PROVE  UNCHANGED <<results, pc, failFast>>
  BY <1>10 DEF Expire
<1>. QED
  BY <1>1, <1>2, <1>3, <1>4, <1>5, <1>6, <1>7, <1>8, <1>9, <1>10
     DEF Next, MainStep, NodeStep, Stopped, SetupFails, ContextDone, ResultArrives

\* With max-parallel 1 and fail-fast no job of the matrix runs after a failure.
THEOREM SequentialMatrixHolds == Spec => []SequentialMatrixStops
<1>1. Init => FailureInv
  BY DEF Init, FailureInv
<1>2. RunInv /\ FailureInv => SequentialMatrixStops
  <2> SUFFICES ASSUME RunInv, FailureInv, NEW m \in Nodes, NEW n \in Nodes, m # n,
                      JobOf[m] = JobOf[n], HasFailFast(n), MaxParallel[JobOf[n]] = 1,
                      results[m] = "failure", pc[n] = "running"
               PROVE  FALSE
    BY DEF SequentialMatrixStops
  <2>1. pc[m] = "recorded" \/ JobOf[n] \in failFast
    BY SiblingsShare DEF FailureInv
  <2>2. pc[m] # "recorded"
    BY OneInSlot DEF RunInv, SlotStates
  <2>. QED BY <2>1, <2>2 DEF FailureInv
<1>. QED BY <1>1, <1>2, FailureInvStep, RunInvariant, PTL DEF Spec

-----------------------------------------------------------------------------
(***************************************************************************)
(* Concurrency groups.                                                     *)
(***************************************************************************)

\* A job that returns takes only itself out of the map.
LEMMA HolderInvReturn ==
    ASSUME TypeOK, HolderInv, NEW m \in Nodes, NEW s, Return(m, s)
    PROVE  HolderInv'
<1> SUFFICES ASSUME NEW n \in Nodes, Concurrency[JobOf[n]] # NoGroup,
                    CancelsAll(Concurrency[JobOf[n]]), pc'[n] \in {"setup", "running"},
                    n \notin superseded'
             PROVE  holder'[Concurrency[JobOf[n]]] = n
  BY DEF HolderInv, CancelsAll
<1>1. n # m /\ pc'[n] = pc[n] /\ superseded' = superseded
  BY DEF Return, TypeOK, ctxVars
<1>2. Concurrency[JobOf[n]] \in ConcurrencyGroups
  BY WorkflowAssumption DEF WorkflowAssumption, ConcurrencyGroups
<1>3. holder[Concurrency[JobOf[n]]] = n
  BY <1>1 DEF HolderInv
<1>. QED BY <1>1, <1>2, <1>3 DEF Return, Released

LEMMA HolderInvStep == TypeOK /\ GroupInv /\ HolderInv /\ [Next]_vars => HolderInv'
<1> SUFFICES ASSUME TypeOK, GroupInv, HolderInv, [Next]_vars PROVE HolderInv'
  OBVIOUS
<1>1. ASSUME NEW m \in Nodes, EnterJob(m) PROVE HolderInv'
  <2> SUFFICES ASSUME NEW n \in Nodes, Concurrency[JobOf[n]] # NoGroup,
                      CancelsAll(Concurrency[JobOf[n]]), pc'[n] \in {"setup", "running"},
                      n \notin superseded'
               PROVE  holder'[Concurrency[JobOf[n]]] = n
    BY DEF HolderInv, CancelsAll
  <2> DEFINE c == Concurrency[JobOf[m]]
  <2>1. Concurrency[JobOf[n]] \in ConcurrencyGroups /\ JobOf[m] \in Jobs
    BY WorkflowAssumption DEF WorkflowAssumption, ConcurrencyGroups
  <2>2. m # n => pc'[n] = pc[n]
    BY <1>1 DEF EnterJob, TypeOK
  <2>3. CASE c = Concurrency[JobOf[n]]
    <3>1. Acquire(m, c)
      BY <1>1, <2>3 DEF EnterJob
    <3>2. holder'[c] = m
      BY <2>1, <2>3, <3>1 DEF Acquire, TypeOK
    <3>3. superseded' = superseded \cup ({holder[c]} \ {NoNode})
      BY <2>1, <2>3, <3>1 DEF Acquire, CancelsAll
    <3>4. CASE m # n
      <4>1. holder[c] = n /\ n # NoNode
        BY <2>2, <2>3, <3>3, <3>4, WorkflowAssumption DEF HolderInv, WorkflowAssumption
      <4>. QED BY <3>3, <4>1
    <3>. QED BY <2>3, <3>2, <3>4
  <2>4. CASE c # Concurrency[JobOf[n]]
    <3>1. holder'[Concurrency[JobOf[n]]] = holder[Concurrency[JobOf[n]]]
      BY <1>1, <2>1, <2>4 DEF EnterJob, Acquire, TypeOK
    <3>2. superseded \subseteq superseded'
      BY <1>1 DEF EnterJob, Acquire
    <3>. QED BY <2>2, <2>4, <3>1, <3>2 DEF HolderInv
  <2>. QED BY <2>3, <2>4
<1>2. ASSUME NEW m \in Nodes,
             \/ SetupFails(m) \/ ContextDone(m)
             \/ \E s \in {"success", "failure"} : ResultArrives(m, s)
      PROVE  HolderInv'
  BY <1>2, HolderInvReturn DEF SetupFails, ContextDone, ResultArrives
<1>3. ASSUME UNCHANGED <<holder, superseded>>,
             \A n \in Nodes : pc'[n] \in {"setup", "running"} => pc[n] \in {"setup", "running"}
      PROVE  HolderInv'
  BY <1>3 DEF HolderInv, CancelsAll
<1>4. ASSUME NEW m \in Nodes,
             \/ AcquireSlot(m) \/ StartRunner(m) \/ LockResults(m) \/ RecordResult(m)
             \/ CancelSiblings(m) \/ LeaveGroup(m)
      PROVE  HolderInv'
  BY <1>3, <1>4 DEF AcquireSlot, StartRunner, LockResults, RecordResult, CancelSiblings,
                    LeaveGroup, ctxVars, TypeOK
<1>5. CASE LaunchJob
  <2>1. Current \in Nodes
    BY <1>5, CurrentIsNode DEF LaunchJob
  <2>. QED BY <1>3, <1>5, <2>1 DEF LaunchJob, ctxVars, TypeOK
<1>6. CASE CancelGroup \/ BeginGroup \/ SkipJob \/ CollectGroup \/ Finish \/ CancelRun
           \/ UNCHANGED vars
  BY <1>3, <1>6 DEF CancelGroup, BeginGroup, SkipJob, CollectGroup, Finish, CancelRun, vars, ctxVars
<1>7. ASSUME NEW m \in Nodes, Expire(m) PROVE HolderInv'
  BY <1>3, <1>7 DEF Expire
<1>. QED
  BY <1>1, <1>2, <1>4, <1>5, <1>6, <1>7 DEF Next, MainStep, NodeStep, Stopped

\* Where every job of a group cancels what is in progress, at most one job of
\* it is live: the others are cancelled, and none of them can empty the map
\* when it returns.
THEOREM OneLiveHolderHolds == Spec => []OneLiveHolder
<1>1. Init => HolderInv
  BY DEF Init, HolderInv
<1>2. HolderInv => OneLiveHolder
  BY DEF HolderInv, OneLiveHolder, CancelsAll
<1>3. RunInv => TypeOK /\ GroupInv
  BY DEF RunInv
<1>. QED BY <1>1, <1>2, <1>3, HolderInvStep, RunInvariant, PTL DEF Spec

-----------------------------------------------------------------------------
(***************************************************************************)
(* WorkflowRun implements DagRun, for every workflow and every plan that   *)
(* PlanIsOrdered describes.                                                *)
(***************************************************************************)

Final == {"success", "failure", "cancelled", "skipped"}

\* What Run passes on of a result it returns.
Told(n) == IF allResults[n] = "failure" /\ Excused(n) THEN "success" ELSE allResults[n]

\* The jobs of past groups have ended, and later jobs are told how; only after
\* the run was cancelled, when no job starts any more, are they not.
PastInv ==
    \A n \in Nodes :
        /\ Past(n) => /\ allResults[n] \in Final
                      /\ jobOutputs[n] = Told(n) \/ (runCancelled /\ mainPc # "launch")
        /\ ~Past(n) => jobOutputs[n] = "none" /\ (allResults[n] = "none" \/ n \in Skipped)

\* A job the loop has passed was started or skipped; one that returned has a
\* status.
ArriveInv ==
    \A n \in Nodes :
        /\ Passed(n) => pc[n] # "idle" \/ results[n] # "none"
        /\ pc[n] \in {"returned", "recording"} \cup AfterRecord => status[n] # "none"

SuccessInv == success <=> \A n \in Nodes : Past(n) => allResults[n] # "failure" \/ Excused(n)

DagInv == PastInv /\ ArriveInv /\ SuccessInv

-----------------------------------------------------------------------------
LEMMA PastIsPlanned == ASSUME TypeOK, NEW n, Past(n) PROVE n \in Planned
BY GroupsTyped DEF Past, Planned, TypeOK

\* No node is in two groups.
LEMMA InGroupNotPast ==
    ASSUME TypeOK, group \in DOMAIN Groups, NEW n \in NodesIn(group)
    PROVE  ~Past(n) /\ n \in Nodes /\ n \in Planned /\ n \notin Skipped
<1>1. n \in Nodes /\ n \in Planned /\ n \notin Skipped
  BY PlannedAreNodes, PlanOrdered DEF PlanIsOrdered, Planned
<1>2. ~Past(n)
  BY GroupsTyped, PlanOrdered DEF PlanIsOrdered, Past, TypeOK
<1> QED
  BY <1>1, <1>2

\* When the group is collected all its jobs have a result.
LEMMA GroupHasResults ==
    ASSUME RunInv, DagInv, CollectGroup, NEW n \in NodesIn(group)
    PROVE  results[n] \in Final
<1>1. group \in DOMAIN Groups /\ Groups[group] \in Seq(Nodes)
  BY GroupsTyped, WorkflowAssumption DEF RunInv, TypeOK, GroupInv, CollectGroup, WorkflowAssumption
<1>2. n \in Nodes
  BY <1>1, PlannedAreNodes
<1>3. Passed(n)
  <2>1. PICK i \in DOMAIN Groups[group] : Groups[group][i] = n
    BY DEF NodesIn, ToSet
  <2>2. i \in 1..Len(Groups[group]) /\ Len(Groups[group]) \in Nat /\ cursor \in Nat
    BY <1>1, <2>1 DEF RunInv, TypeOK
  <2>3. i \in 1..(cursor - 1)
    BY <2>2 DEF CollectGroup
  <2> QED
    BY <2>1, <2>3 DEF Passed, CollectGroup
<1>4. NodeInv(n) /\ pc[n] \in {"idle", "done"}
  BY <1>2 DEF CollectGroup, RunInv, LoopInv
<1>5. CASE pc[n] = "idle"
  BY <1>2, <1>3, <1>4, <1>5 DEF NodeInv, DagInv, ArriveInv, Final
<1>6. CASE pc[n] = "done"
  <2>1. results[n] = status[n] /\ status[n] # "none"
    BY <1>2, <1>4, <1>6 DEF NodeInv, DagInv, ArriveInv, AfterRecord
  <2> QED
    BY <1>2, <2>1 DEF RunInv, TypeOK, Final
<1> QED
  BY <1>4, <1>5, <1>6

-----------------------------------------------------------------------------
(***************************************************************************)
(* DagInv is inductive.                                                    *)
(***************************************************************************)
LEMMA DagInvInit == Init => DagInv
BY DEF Init, DagInv, PastInv, ArriveInv, SuccessInv, Past, Passed, AfterRecord

\* A job's goroutine and the contexts do not touch what Run returns.
LEMMA OnlyMainReturns ==
    ASSUME [Next]_vars, ~MainStep
    PROVE  UNCHANGED <<mainVars, sumVars>> /\ (runCancelled => runCancelled')
<1>1. ASSUME NEW n \in Nodes, NodeStep(n) \/ SetupFails(n) \/ Expire(n)
      PROVE  UNCHANGED <<mainVars, sumVars, runCancelled>>
  BY <1>1 DEF NodeStep, AcquireSlot, EnterJob, StartRunner, ContextDone, LockResults,
              RecordResult, CancelSiblings, LeaveGroup, SetupFails, Return, Expire, ctxVars
<1>2. ASSUME NEW n \in Nodes, NEW s, ResultArrives(n, s)
      PROVE  UNCHANGED <<mainVars, sumVars, runCancelled>>
  BY <1>2 DEF ResultArrives, Return, ctxVars
<1>3. CASE CancelRun
  BY <1>3 DEF CancelRun
<1>4. CASE UNCHANGED vars
  BY <1>4 DEF vars, ctxVars
<1> QED
  BY <1>1, <1>2, <1>3, <1>4 DEF Next, Stopped

\* Steps of the main goroutine within a group.
LEMMA WithinGroup ==
    ASSUME BeginGroup \/ LaunchJob \/ SkipJob
    PROVE  /\ UNCHANGED <<group, sumVars, runCancelled>>
           /\ mainPc' = "launch"
           /\ ~runCancelled \/ mainPc = "launch"
BY DEF BeginGroup, LaunchJob, SkipJob, Launching, ctxVars

LEMMA SamePast == ASSUME UNCHANGED group PROVE \A n : Past(n)' <=> Past(n)
BY DEF Past

LEMMA PastInvStep == RunInv /\ DagInv /\ [Next]_vars => PastInv' /\ SuccessInv'
<1> SUFFICES ASSUME RunInv, DagInv, [Next]_vars
             PROVE  PastInv' /\ SuccessInv'
  OBVIOUS
<1>1. CASE UNCHANGED <<mainVars, sumVars>> /\ (runCancelled => runCancelled')
  BY <1>1, SamePast DEF DagInv, PastInv, SuccessInv, Told, mainVars, sumVars
<1>2. CASE BeginGroup \/ LaunchJob \/ SkipJob
  BY <1>2, WithinGroup, SamePast DEF DagInv, PastInv, SuccessInv, Told, sumVars
<1>3. ASSUME group \in DOMAIN Groups, group' = group + 1, mainPc' = "group"
      PROVE  /\ \A n : Past(n)' <=> Past(n) \/ n \in NodesIn(group)
             /\ \A n \in NodesIn(group) : ~Past(n) /\ n \in Nodes
  BY <1>3, GroupGoesPast, InGroupNotPast DEF RunInv
<1>4. CASE CancelGroup
  <2>1. group \in DOMAIN Groups /\ group' = group + 1 /\ mainPc' = "group" /\ runCancelled'
        /\ jobOutputs' = jobOutputs /\ success' = success
    BY <1>4, GroupsTyped DEF CancelGroup, RunInv, TypeOK, ctxVars
  <2>2. \A n \in Nodes : allResults'[n] = IF n \in NodesIn(group) THEN "cancelled" ELSE allResults[n]
    BY <1>4 DEF CancelGroup
  <2> QED
    BY <1>3, <2>1, <2>2 DEF DagInv, PastInv, SuccessInv, Final
<1>5. CASE CollectGroup
  <2>1. group \in DOMAIN Groups /\ group' = group + 1 /\ mainPc' = "group" /\ mainPc = "launch"
    BY <1>5, GroupsTyped DEF CollectGroup, RunInv, TypeOK, GroupInv
  <2>2. \A n \in Nodes :
           /\ allResults'[n] = IF n \in NodesIn(group) THEN results[n] ELSE allResults[n]
           /\ jobOutputs'[n] = IF n \in NodesIn(group) THEN Conclusion(n) ELSE jobOutputs[n]
    BY <1>5 DEF CollectGroup
  <2>3. \A n \in NodesIn(group) : results[n] \in Final
    BY <1>5, GroupHasResults
  <2>4. PastInv'
    BY <1>3, <2>1, <2>2, <2>3 DEF DagInv, PastInv, Told, Conclusion, Excused
  <2>5. success' <=> success /\ \A n \in NodesIn(group) : results[n] # "failure" \/ Excused(n)
    BY <1>5 DEF CollectGroup, RunInv, TypeOK
  <2>6. SuccessInv'
    BY <1>3, <2>1, <2>2, <2>5 DEF DagInv, SuccessInv, Excused
  <2> QED
    BY <2>4, <2>6
<1>6. CASE Finish
  <2>1. /\ UNCHANGED <<group, jobOutputs, success, runCancelled>> /\ mainPc' = "done" /\ mainPc = "group"
        /\ \A n \in Nodes : allResults'[n] = IF n \in Skipped THEN "skipped" ELSE allResults[n]
    BY <1>6 DEF Finish, ctxVars
  <2>2. \A n \in Nodes : Past(n) => n \notin Skipped
    BY PastIsPlanned, PlanOrdered DEF PlanIsOrdered, RunInv
  <2> QED
    BY <2>1, <2>2, SamePast DEF DagInv, PastInv, SuccessInv, Told, Excused
<1> QED
  BY <1>1, <1>2, <1>4, <1>5, <1>6, OnlyMainReturns DEF MainStep

LEMMA ArriveInvStep == RunInv /\ DagInv /\ [Next]_vars => ArriveInv'
<1> SUFFICES ASSUME RunInv, DagInv, [Next]_vars
             PROVE  ArriveInv'
  OBVIOUS
<1> USE DEF RunInv, DagInv
<1>1. ASSUME UNCHANGED <<pc, status, results>>, \A n \in Nodes : Passed(n)' => Passed(n)
      PROVE  ArriveInv'
  BY <1>1 DEF ArriveInv
<1>2. CASE CancelGroup \/ BeginGroup \/ CollectGroup \/ Finish
  <2>1. UNCHANGED <<pc, status, results>>
    BY <1>2 DEF CancelGroup, BeginGroup, CollectGroup, Finish
  <2>2. mainPc' # "launch" \/ cursor' = 1
    BY <1>2 DEF CancelGroup, BeginGroup, CollectGroup, Finish
  <2>3. \A n \in Nodes : ~Passed(n)'
    BY <2>2 DEF Passed
  <2> QED
    BY <1>1, <2>1, <2>3
<1>3. CASE LaunchJob
  <2>1. Current \in Nodes /\ \A n : Passed(n)' <=> Passed(n) \/ n = Current
    BY <1>3, CurrentIsNode, CurrentIsPassed DEF LaunchJob
  <2>2. UNCHANGED <<status, results>> /\ pc' = [pc EXCEPT ![Current] = "waiting"]
    BY <1>3 DEF LaunchJob
  <2> QED
    BY <2>1, <2>2 DEF ArriveInv, AfterRecord, TypeOK
<1>4. CASE SkipJob
  <2>1. Current \in Nodes /\ \A n : Passed(n)' <=> Passed(n) \/ n = Current
    BY <1>4, CurrentIsNode, CurrentIsPassed DEF SkipJob
  <2>2. UNCHANGED <<status, pc>> /\ results' = [results EXCEPT ![Current] = "skipped"]
    BY <1>4 DEF SkipJob
  <2> QED
    BY <2>1, <2>2 DEF ArriveInv, TypeOK
<1>5. ASSUME NEW n \in Nodes, UNCHANGED mainVars,
             pc'[n] # "idle",
             pc'[n] \in {"returned", "recording"} \cup AfterRecord => status'[n] # "none",
             \A m \in Nodes \ {n} : pc'[m] = pc[m] /\ status'[m] = status[m] /\ results'[m] = results[m]
      PROVE  ArriveInv'
  BY <1>5, MainUnchanged DEF ArriveInv
<1>6. ASSUME NEW n \in Nodes, NodeStep(n) \/ SetupFails(n) \/ \E s \in {"success", "failure"} : ResultArrives(n, s)
      PROVE  ArriveInv'
  <2>1. /\ UNCHANGED mainVars
        /\ \A m \in Nodes \ {n} : pc'[m] = pc[m] /\ status'[m] = status[m] /\ results'[m] = results[m]
    BY <1>6 DEF NodeStep, AcquireSlot, EnterJob, StartRunner, ContextDone, LockResults,
                RecordResult, CancelSiblings, LeaveGroup, SetupFails, ResultArrives, Return, TypeOK
  <2>2. CASE \E s : s # "none" /\ Return(n, s)
    BY <2>1, <2>2, <1>5 DEF Return, TypeOK
  <2>3. CASE AcquireSlot(n) \/ EnterJob(n) \/ StartRunner(n)
    BY <2>1, <2>3, <1>5 DEF AcquireSlot, EnterJob, StartRunner, AfterRecord, TypeOK
  <2>4. CASE LockResults(n) \/ RecordResult(n) \/ CancelSiblings(n) \/ LeaveGroup(n)
    <3>1. pc[n] \in {"returned", "recording"} \cup AfterRecord /\ UNCHANGED status /\ pc'[n] # "idle"
      BY <2>4 DEF LockResults, RecordResult, CancelSiblings, LeaveGroup, AfterRecord, TypeOK
    <3> QED
      BY <2>1, <3>1, <1>5 DEF ArriveInv
  <2> QED
    BY <1>6, <2>2, <2>3, <2>4 DEF NodeStep, ContextDone, SetupFails, ResultArrives
<1>7. ASSUME UNCHANGED <<mainVars, pc, status, results>>
      PROVE  ArriveInv'
  BY <1>7, <1>1, MainUnchanged
<1>8. ASSUME NEW n \in Nodes, Expire(n)
      PROVE  ArriveInv'
  BY <1>8, <1>7 DEF Expire
<1>9. CASE CancelRun
  BY <1>9, <1>7 DEF CancelRun
<1>10. CASE UNCHANGED vars
  BY <1>10, <1>7 DEF vars
<1> QED
  BY <1>2, <1>3, <1>4, <1>6, <1>8, <1>9, <1>10 DEF Next, MainStep, Stopped

-----------------------------------------------------------------------------
(***************************************************************************)
(* The refinement.                                                         *)
(***************************************************************************)

\* What DagRun sees of a job that the run returned, or has not come to.
LEMMA OutcomeOf ==
    ASSUME RunInv, DagInv, NEW n \in Nodes
    PROVE  /\ Outcome(n) \in Final \cup {"none", "running"}
           /\ n \in Skipped => Outcome(n) = "skipped"
           /\ Past(n) => n \notin Skipped /\ Outcome(n) = allResults[n]
           /\ ~Past(n) /\ ~Passed(n) /\ n \notin Skipped => Outcome(n) = "none"
<1>1. Past(n) => n \notin Skipped
  BY PastIsPlanned, PlanOrdered DEF PlanIsOrdered, RunInv
<1>2. NodeInv(n)
  BY DEF RunInv, LoopInv
<1>3. allResults[n] \in Statuses /\ results[n] \in Statuses
  BY DEF RunInv, TypeOK
<1>4. Outcome(n) \in Final \cup {"none", "running"}
  BY <1>3 DEF Outcome, Final, Statuses
<1>5. n \in Skipped => Outcome(n) = "skipped"
  BY DEF Outcome
<1>6. Past(n) => Outcome(n) = allResults[n]
  <2>1. ASSUME Past(n)
        PROVE  allResults[n] # "none" /\ n \notin Skipped
    BY <1>1, <2>1 DEF DagInv, PastInv, Final
  <2> QED
    BY <2>1 DEF Outcome
<1>7. ASSUME ~Past(n), ~Passed(n), n \notin Skipped
      PROVE  Outcome(n) = "none"
  <2>1. allResults[n] = "none"
    BY <1>7 DEF DagInv, PastInv
  <2>2. results[n] = "none" /\ pc[n] = "idle"
    BY <1>2, <1>7 DEF NodeInv
  <2> QED
    BY <1>7, <2>1, <2>2 DEF Outcome
<1> QED
  BY <1>1, <1>4, <1>5, <1>6, <1>7

\* A job of the current group finds all it depends on ended.
LEMMA NeedsEndBefore ==
    ASSUME RunInv, DagInv, group \in DOMAIN Groups, NEW n \in NodesIn(group)
    PROVE  /\ n \in Nodes /\ DependsOn[n] \subseteq Nodes
           /\ \A d \in DependsOn[n] \cap Planned : Past(d)
           /\ Dag!NeedsEnded(n)
<1>1. n \in Nodes /\ DependsOn[n] \subseteq Nodes
  BY PlannedAreNodes, WorkflowAssumption DEF WorkflowAssumption
<1>2. \A d \in DependsOn[n] \cap Planned : Past(d)
  BY PlanOrdered DEF PlanIsOrdered, Past
<1>3. \A d \in DependsOn[n] \cap Planned : Outcome(d) \in Final
  BY <1>1, <1>2, OutcomeOf DEF DagInv, PastInv
<1> QED
  BY <1>1, <1>2, <1>3 DEF Dag!NeedsEnded, Dag!Ended, Final

\* The loop looks at a job that is ready, and sees what the jobs it needs came to.
LEMMA CurrentIsReady ==
    ASSUME RunInv, DagInv, Launching
    PROVE  /\ Current \in Nodes /\ Outcome(Current) = "none" /\ Dag!Ready(Current)
           /\ Current \notin Skipped /\ allResults[Current] = "none" /\ results[Current] = "none"
           /\ \A d \in DependsOn[Current] : \A r \in {"failure", "cancelled"} :
                 jobOutputs[d] = r <=> Dag!Conclusion(d) = r
<1>1. group \in DOMAIN Groups /\ Current \in Nodes /\ Current \in NodesIn(group)
  BY CurrentIsNode DEF RunInv
<1>2. ~Past(Current) /\ ~Passed(Current) /\ results[Current] = "none"
  BY CurrentIsFresh DEF RunInv
<1>3. Current \in Planned /\ Current \notin Skipped
  BY <1>1, InGroupNotPast DEF RunInv
<1>4. Outcome(Current) = "none" /\ allResults[Current] = "none"
  BY <1>1, <1>2, <1>3, OutcomeOf DEF DagInv, PastInv
<1>5. Dag!NeedsEnded(Current) /\ DependsOn[Current] \subseteq Nodes
  BY <1>1, NeedsEndBefore
<1>6. ASSUME NEW d \in DependsOn[Current], NEW r \in {"failure", "cancelled"}
      PROVE  jobOutputs[d] = r <=> Dag!Conclusion(d) = r
  <2>1. d \in Nodes
    BY <1>5
  <2>2. CASE Past(d)
    <3>1. Outcome(d) = allResults[d] /\ jobOutputs[d] = Told(d)
      BY <2>1, <2>2, OutcomeOf DEF DagInv, PastInv, Launching
    <3> QED
      BY <2>1, <3>1 DEF Dag!Conclusion, Told, Excused
  <2>3. CASE ~Past(d)
    <3>1. d \notin Planned
      BY <1>1, <2>3, NeedsEndBefore
    <3>2. ~Passed(d)
      BY <1>1, <3>1, PassedIsInGroup DEF Planned, RunInv
    <3>3. Outcome(d) \in {"none", "skipped"} /\ jobOutputs[d] = "none"
      BY <2>1, <2>3, <3>2, OutcomeOf DEF DagInv, PastInv
    <3> QED
      BY <2>1, <3>3 DEF Dag!Conclusion
  <2> QED
    BY <2>2, <2>3
<1> QED
  BY <1>1, <1>2, <1>3, <1>4, <1>5, <1>6 DEF Dag!Ready

\* What ShouldRun decides, DagRun's conditions allow or forbid.
LEMMA ConditionsAgree ==
    ASSUME RunInv, DagInv, Launching, NEW data \in BOOLEAN
    PROVE  /\ ShouldRun(Current, data) => Dag!Allows(Current)
           /\ ~ShouldRun(Current, data) => Dag!Forbids(Current)
<1> DEFINE n == Current
           cond == If[JobOf[n]]
<1>1. /\ n \in Nodes
      /\ \A d \in DependsOn[n] : \A r \in {"failure", "cancelled"} :
            jobOutputs[d] = r <=> Dag!Conclusion(d) = r
  BY CurrentIsReady
<1>2. /\ Dag!NeedFailed(n) <=> \E d \in DependsOn[n] : jobOutputs[d] = "failure"
      /\ Dag!NeedCancelled(n) <=> \E d \in DependsOn[n] : jobOutputs[d] = "cancelled"
  BY <1>1 DEF Dag!NeedFailed, Dag!NeedCancelled
<1>3. /\ DependencyStatus(n) = "failure" <=> Dag!NeedFailed(n)
      /\ DependencyStatus(n) = "success" <=> ~Dag!NeedFailed(n) /\ ~Dag!NeedCancelled(n)
      /\ DependencyStatus(n) = "cancelled" <=> ~Dag!NeedFailed(n) /\ Dag!NeedCancelled(n)
  BY <1>2 DEF DependencyStatus
<1>4. /\ cond \in Conditions /\ cond # "false"
      /\ Dag!NeedDropped(n) => cond \in {"always", "always_needs"}
  <2>1. group \in DOMAIN Groups /\ n \in NodesIn(group) /\ JobOf[n] \in Jobs
    BY <1>1, CurrentIsNode, WorkflowAssumption DEF WorkflowAssumption, RunInv
  <2> QED
    BY <2>1, WorkflowAssumption DEF WorkflowAssumption, PlanIsOrdered, ContainsAlways,
                                    Dag!NeedDropped
<1>5. [m \in Nodes |-> If[JobOf[m]]][n] = cond
  BY <1>1
<1> HIDE DEF n
<1>6. CASE cond \in {"success", "failure", "cancelled"}
  BY <1>3, <1>5, <1>6 DEF n, ShouldRun, NeedsRuntimeEval, EvalCondition, Dag!Allows, Dag!Forbids
<1>7. CASE cond \in {"needs", "always_needs"}
  BY <1>5, <1>7 DEF n, Dag!Allows, Dag!Forbids
<1>8. CASE cond \in {"none", "true"}
  BY <1>3, <1>4, <1>5, <1>8
     DEF n, ShouldRun, NeedsRuntimeEval, ContainsAlways, Dag!Allows, Dag!Forbids
<1>9. CASE cond = "always"
  BY <1>5, <1>9 DEF n, ShouldRun, NeedsRuntimeEval, ContainsAlways, Dag!Allows, Dag!Forbids
<1> QED
  BY <1>4, <1>6, <1>7, <1>8, <1>9 DEF Conditions

\* One job's outcome changes, and no verdict is given.
LEMMA LaunchBegins == ASSUME RunInv, DagInv, LaunchJob PROVE Dag!Next
<1> PICK data \in BOOLEAN : ShouldRun(Current, data)
  BY DEF LaunchJob
<1>1. /\ Current \in Nodes /\ Dag!Ready(Current) /\ Dag!Allows(Current)
      /\ Current \notin Skipped /\ allResults[Current] = "none" /\ results[Current] = "none"
  BY CurrentIsReady, ConditionsAgree DEF LaunchJob
<1>2. PICK n \in Nodes : n = Current
  BY <1>1
<1>3. UNCHANGED <<results, allResults, success>> /\ mainPc = "launch" /\ mainPc' = "launch"
  BY DEF LaunchJob, Launching, sumVars
<1>4. pc' = [pc EXCEPT ![n] = "waiting"]
  BY <1>2 DEF LaunchJob
<1>5. Outcome(n)' = "running" /\ \A m \in Nodes \ {n} : Outcome(m)' = Outcome(m)
  BY <1>1, <1>2, <1>3, <1>4 DEF Outcome, RunInv, TypeOK
<1>6. Dag!Begin(n)
  BY <1>1, <1>2, <1>3, <1>5 DEF Dag!Begin
<1> QED
  BY <1>6 DEF Dag!Next

LEMMA SkipSkips == ASSUME RunInv, DagInv, SkipJob PROVE Dag!Next
<1> PICK data \in BOOLEAN : ~ShouldRun(Current, data)
  BY DEF SkipJob
<1>1. /\ Current \in Nodes /\ Dag!Ready(Current) /\ Dag!Forbids(Current)
      /\ Current \notin Skipped /\ allResults[Current] = "none"
  BY CurrentIsReady, ConditionsAgree DEF SkipJob
<1>2. PICK n \in Nodes : n = Current
  BY <1>1
<1>3. UNCHANGED <<pc, allResults, success>> /\ mainPc = "launch" /\ mainPc' = "launch"
  BY DEF SkipJob, Launching, sumVars
<1>4. results' = [results EXCEPT ![n] = "skipped"]
  BY <1>2 DEF SkipJob
<1>5. Outcome(n)' = "skipped" /\ \A m \in Nodes \ {n} : Outcome(m)' = Outcome(m)
  BY <1>1, <1>2, <1>3, <1>4 DEF Outcome, RunInv, TypeOK
<1>6. Dag!Skip(n)
  BY <1>1, <1>2, <1>3, <1>5 DEF Dag!Skip
<1> QED
  BY <1>6 DEF Dag!Next

LEMMA RecordEnds == ASSUME RunInv, DagInv, NEW n \in Nodes, RecordResult(n) PROVE Dag!Next
<1>1. pc[n] = "recording" /\ results[n] = "none" /\ ~Past(n)
  BY DEF RecordResult, RunInv, LoopInv, NodeInv, BeforeRecord
<1>2. n \notin Skipped /\ allResults[n] = "none"
  <2>1. n \in Planned
    BY <1>1, BusyIsPlanned DEF RunInv
  <2> QED
    BY <1>1, <2>1, PlanOrdered DEF PlanIsOrdered, DagInv, PastInv
<1>3. status[n] \in {"success", "failure", "cancelled"}
  BY <1>1 DEF DagInv, ArriveInv, RunInv, TypeOK
<1>4. /\ UNCHANGED <<mainPc, success, allResults>>
      /\ results' = [results EXCEPT ![n] = status[n]]
      /\ pc' = [pc EXCEPT ![n] = "recorded"]
  BY DEF RecordResult, mainVars, sumVars
<1>5. Outcome(n) = "running" /\ Outcome(n)' = status[n]
  BY <1>1, <1>2, <1>3, <1>4 DEF Outcome, RunInv, TypeOK
<1>6. \A m \in Nodes \ {n} : Outcome(m)' = Outcome(m)
  BY <1>4 DEF Outcome, RunInv, TypeOK
<1>7. Dag!End(n, status[n])
  BY <1>4, <1>5, <1>6 DEF Dag!End
<1> QED
  BY <1>3, <1>7 DEF Dag!Next

\* The jobs of a group that is not started any more are given up.
LEMMA CancelGivesUp == ASSUME RunInv, DagInv, CancelGroup PROVE Dag!Next
<1>1. group \in DOMAIN Groups /\ UNCHANGED <<pc, results, mainPc, success>> /\ mainPc = "group"
      /\ allResults' = [n \in Nodes |-> IF n \in NodesIn(group) THEN "cancelled" ELSE allResults[n]]
  BY GroupsTyped DEF CancelGroup, RunInv, TypeOK
<1>2. ASSUME NEW n \in Nodes \ NodesIn(group)
      PROVE  Outcome(n)' = Outcome(n)
  BY <1>1 DEF Outcome
<1>3. ASSUME NEW n \in NodesIn(group)
      PROVE  /\ n \in Nodes /\ Outcome(n) = "none" /\ Outcome(n)' = "cancelled"
             /\ Dag!NeedsEnded(n) /\ n \in Planned
  <2>1. ~Past(n) /\ n \in Nodes /\ n \in Planned /\ n \notin Skipped /\ ~Passed(n)
    BY <1>1, InGroupNotPast DEF RunInv, Passed
  <2>2. Outcome(n) = "none" /\ Dag!NeedsEnded(n)
    BY <1>1, <2>1, OutcomeOf, NeedsEndBefore
  <2> QED
    BY <1>1, <2>1, <2>2 DEF Outcome
<1>4. ASSUME NEW n \in Nodes
      PROVE  /\ Outcome(n)' \in Final \cup {"none", "running"}
             /\ Outcome(n)' # Outcome(n) => Dag!Ready(n) /\ Outcome(n)' = "cancelled"
  BY <1>2, <1>3, OutcomeOf DEF Dag!Ready, Final
<1>5. Dag!GiveUp
  BY <1>1, <1>4 DEF Dag!GiveUp, Dag!Ended, Final
<1> QED
  BY <1>5 DEF Dag!Next

\* Taking over the results of a group changes nothing that is seen.
LEMMA CollectStutters == ASSUME RunInv, DagInv, CollectGroup PROVE UNCHANGED Dag!vars
<1>1. /\ group \in DOMAIN Groups /\ UNCHANGED <<pc, results>> /\ mainPc = "launch" /\ mainPc' = "group"
      /\ allResults' = [n \in Nodes |-> IF n \in NodesIn(group) THEN results[n] ELSE allResults[n]]
  BY GroupsTyped DEF CollectGroup, RunInv, TypeOK, GroupInv
<1>2. ASSUME NEW n \in Nodes
      PROVE  Outcome(n)' = Outcome(n)
  <2>1. CASE n \in NodesIn(group)
    <3>1. allResults[n] = "none" /\ results[n] # "none"
      BY <1>1, <2>1, InGroupNotPast, GroupHasResults DEF RunInv, DagInv, PastInv, Final
    <3> QED
      BY <1>1, <2>1, <3>1 DEF Outcome
  <2>2. CASE n \notin NodesIn(group)
    BY <1>1, <2>2 DEF Outcome
  <2> QED
    BY <2>1, <2>2
<1> QED
  BY <1>1, <1>2 DEF Dag!vars

\* Success tells whether a job failed that should not have.
LEMMA FinishConcludes == ASSUME RunInv, DagInv, Finish PROVE Dag!Next
<1>1. /\ UNCHANGED <<pc, results, success>> /\ mainPc = "group" /\ mainPc' = "done"
      /\ allResults' = [n \in Nodes |-> IF n \in Skipped THEN "skipped" ELSE allResults[n]]
  BY DEF Finish
<1>2. \A n \in Planned : n \in Nodes /\ Past(n)
  <2>1. group = Len(Groups) + 1
    BY GroupsTyped DEF Finish, RunInv, TypeOK
  <2> QED
    BY <2>1, GroupsTyped, PlannedAreNodes DEF Planned, Past
<1>3. \A n \in Planned : Outcome(n) = allResults[n] /\ Outcome(n) \in Final
  BY <1>2, OutcomeOf DEF DagInv, PastInv
<1>4. \A n \in Nodes : Outcome(n)' = Outcome(n)
  BY <1>1 DEF Outcome
<1>5. (\E n \in Planned : Dag!HardFailure(n)) <=> ~success
  <2>1. \A n \in Planned : Dag!HardFailure(n) <=> allResults[n] = "failure" /\ ~Excused(n)
    BY <1>2, <1>3 DEF Dag!HardFailure, Excused
  <2>2. \A n \in Nodes : Past(n) => n \in Planned
    BY PastIsPlanned DEF RunInv
  <2> QED
    BY <1>2, <2>1, <2>2 DEF DagInv, SuccessInv
<1>6. Dag!Conclude
  BY <1>1, <1>2, <1>3, <1>4, <1>5 DEF Dag!Conclude, Dag!Ended, Final
<1> QED
  BY <1>6 DEF Dag!Next

\* Every step of the run is one of DagRun, or none of it is seen.
LEMMA DagStep == RunInv /\ DagInv /\ [Next]_vars => [Dag!Next]_(Dag!vars)
<1> SUFFICES ASSUME RunInv, DagInv, [Next]_vars
             PROVE  Dag!Next \/ UNCHANGED Dag!vars
  OBVIOUS
<1>1. ASSUME UNCHANGED <<allResults, results, success>>,
             mainPc' = mainPc \/ {mainPc, mainPc'} \subseteq {"group", "launch"},
             \A n \in Nodes : pc'[n] = "idle" <=> pc[n] = "idle"
      PROVE  UNCHANGED Dag!vars
  <2>1. \A n \in Nodes : Outcome(n)' = Outcome(n)
    BY <1>1 DEF Outcome
  <2> QED
    BY <1>1, <2>1 DEF Dag!vars
<1>2. CASE MainStep
  <2>1. CASE BeginGroup
    BY <2>1, <1>1 DEF BeginGroup, sumVars
  <2> QED
    BY <1>2, <2>1, LaunchBegins, SkipSkips, CancelGivesUp, CollectStutters, FinishConcludes DEF MainStep
<1>3. ASSUME ~MainStep
      PROVE  UNCHANGED <<mainPc, allResults, success>>
  BY <1>3, OnlyMainReturns DEF mainVars, sumVars
<1>4. ASSUME ~MainStep, NEW n \in Nodes,
             NodeStep(n) \/ SetupFails(n) \/ Expire(n) \/ \E s \in {"success", "failure"} : ResultArrives(n, s)
      PROVE  Dag!Next \/ UNCHANGED Dag!vars
  <2>1. CASE RecordResult(n)
    BY <2>1, RecordEnds
  <2>2. CASE Expire(n)
    BY <2>2, <1>3, <1>4, <1>1 DEF Expire
  <2>3. CASE /\ UNCHANGED results
             /\ pc[n] # "idle"
             /\ \E l \in {"done"} \cup SlotStates : pc' = [pc EXCEPT ![n] = l]
    <3>1. \A m \in Nodes : pc'[m] = "idle" <=> pc[m] = "idle"
      BY <2>3 DEF RunInv, TypeOK, SlotStates
    <3> QED
      BY <2>3, <3>1, <1>3, <1>4, <1>1
  <2> QED
    BY <1>4, <2>1, <2>2, <2>3
       DEF NodeStep, AcquireSlot, EnterJob, StartRunner, ContextDone, LockResults, CancelSiblings,
           LeaveGroup, SetupFails, ResultArrives, Return, SlotStates
<1>5. CASE ~MainStep /\ (CancelRun \/ UNCHANGED vars)
  <2>1. UNCHANGED <<pc, results>>
    BY <1>5 DEF CancelRun, vars
  <2> QED
    BY <2>1, <1>5, <1>3, <1>1
<1> QED
  BY <1>2, <1>4, <1>5 DEF Next, Stopped

\* Nothing has happened in the beginning; dropped jobs count as skipped.
LEMMA DagInit == Init => Dag!Init
BY DEF Init, Dag!Init, Outcome

\* Seen from outside, the jobs of every workflow run as DagRun says, whatever the
\* plan, the goroutines' interleaving, failures, timeouts and cancellations: after
\* what they need, if their condition allows it, once, and with a true verdict.
THEOREM RunImplementsDag == Spec => ImplementsDag
<1>1. RunInv /\ DagInv /\ [Next]_vars => DagInv'
  BY PastInvStep, ArriveInvStep DEF DagInv
<1>2. Spec => []DagInv
  BY <1>1, DagInvInit, RunInvariant, PTL DEF Spec
<1>3. Spec => Dag!Init /\ [][Dag!Next]_(Dag!vars)
  BY <1>2, DagInit, DagStep, RunInvariant, PTL DEF Spec
<1> QED
  BY <1>3 DEF ImplementsDag, Dag!Spec
=============================================================================
