---------------------------- MODULE WorkflowRun ----------------------------
(***************************************************************************)
(* The execution of a plan: the group loop of Orchestrator.Run,            *)
(* executeGroup with its goroutine per job, and executeJob with the        *)
(* concurrency groups, in src/internal/orchestrator.                       *)
(*                                                                         *)
(* The main goroutine starts or skips the jobs of a group one after the    *)
(* other, waits for all of them, and goes on to the next group.  A job's   *)
(* goroutine queues for a max-parallel slot, runs the job and records its  *)
(* result; contexts carry cancellation from the user, from fail-fast, from *)
(* a concurrency group and from the job's timeout.                         *)
(*                                                                         *)
(* Abstractions.  A job's result (its exchange with the broker is module   *)
(* Broker) and every failure before its runner has started are choices of  *)
(* the environment.  Outputs, logging and the progress UI are left out,    *)
(* and so are jobs that call a reusable workflow.                          *)
(***************************************************************************)
EXTENDS PlanOrder, FiniteSets

CONSTANTS ContinueOnError,   \* jobs with continue-on-error
          FailFast,          \* jobs whose strategy does not switch it off
          MaxParallel,       \* [Jobs -> Nat \cup {NoLimit}]
          NoLimit,
          Concurrency,       \* [Jobs -> concurrency group or NoGroup]
          NoGroup,
          CancelInProgress,  \* jobs with cancel-in-progress
          NoNode

\* A job's if:.  "needs" reads the needs context and nothing else, "true" and
\* "false" are known when the run is planned.
Conditions == {"none", "true", "false", "always",
               "success", "failure", "cancelled", "needs", "always_needs"}

NeedsRuntimeEval(n) ==
    If[JobOf[n]] \in {"success", "failure", "cancelled", "needs", "always_needs"}

ASSUME WorkflowAssumption ==
    /\ JobOf \in [Nodes -> Jobs]
    /\ DependsOn \in [Nodes -> SUBSET Nodes]
    /\ If \in [Jobs -> Conditions]
    /\ MaxParallel \in [Jobs -> Nat \cup {NoLimit}]
    /\ NoLimit \notin Nat
    /\ NoNode \notin Nodes
    /\ IsFiniteSet(Nodes)
    /\ Groups \in Seq(Seq(Nodes))
    /\ Skipped \subseteq Nodes
    /\ PlanIsOrdered

VARIABLES
    mainPc,       \* the group loop: "group", "launch" or "done"
    group,        \* index of the group
    cursor,       \* index, in the group, of the node to start or skip next
    pc,           \* [Nodes -> where the node's goroutine is]
    status,       \* [Nodes -> what executeJob returned]
    results,      \* the results maps of executeGroup
    allResults,   \* what Run returns for each node
    jobOutputs,   \* conclusions that later groups see
    success,      \* Run's success flag
    runCancelled, \* the context of the run is done
    failFast,     \* jobs whose fail-fast context was cancelled
    holder,       \* [groups -> node in ConcurrencyTracker.groups]
    superseded,   \* nodes whose concurrency context was cancelled
    expired,      \* nodes whose timeout is over
    crashed       \* the Go runtime ended the process

mainVars == <<mainPc, group, cursor>>
ctxVars  == <<runCancelled, failFast, superseded, expired>>
sumVars  == <<allResults, jobOutputs, success>>
vars     == <<mainVars, pc, status, results, sumVars, ctxVars, holder, crashed>>

ConcurrencyGroups == {Concurrency[j] : j \in Jobs} \ {NoGroup}

\* The job has a fail-fast context: node.JobTotal > 1 and fail-fast is on.
HasFailFast(n) == JobOf[n] \in FailFast /\ Cardinality(Siblings(n)) > 1

\* The goroutines that hold a slot of their job's semaphore.
SlotStates == {"admitted", "setup", "running", "returned", "recording", "recorded", "leaving"}

\* Mutant: the slot is freed when executeJob returns.
InSlotUntilReturn(j) == {n \in Nodes : JobOf[n] = j /\ pc[n] \in {"admitted", "setup", "running"}}

InSlot(j) == {n \in Nodes : JobOf[n] = j /\ pc[n] \in SlotStates}

\* Mutant: one fail-fast context for the whole group.
CtxDoneShared(n) ==
    \/ runCancelled
    \/ failFast # {}
    \/ n \in superseded
    \/ n \in expired

\* Mutant: the timeout is not applied to the context.
CtxDoneNoTimeout(n) ==
    \/ runCancelled
    \/ HasFailFast(n) /\ JobOf[n] \in failFast
    \/ n \in superseded

\* Mutant: fail-fast contexts are not derived from the run's.
CtxDoneDetached(n) ==
    \/ runCancelled /\ ~HasFailFast(n)
    \/ HasFailFast(n) /\ JobOf[n] \in failFast
    \/ n \in superseded
    \/ n \in expired

\* The context executeJob works with is done.
CtxDone(n) ==
    \/ runCancelled
    \/ HasFailFast(n) /\ JobOf[n] \in failFast
    \/ n \in superseded
    \/ n \in expired

Init ==
    /\ mainPc       = "group"
    /\ group        = 1
    /\ cursor       = 1
    /\ pc           = [n \in Nodes |-> "idle"]
    /\ status       = [n \in Nodes |-> "none"]
    /\ results      = [n \in Nodes |-> "none"]
    /\ allResults   = [n \in Nodes |-> "none"]
    /\ jobOutputs   = [n \in Nodes |-> "none"]
    /\ success      = TRUE
    /\ runCancelled = FALSE
    /\ failFast     = {}
    /\ holder       = [c \in ConcurrencyGroups |-> NoNode]
    /\ superseded   = {}
    /\ expired      = {}
    /\ crashed      = FALSE
-----------------------------------------------------------------------------
(* The main goroutine.                                                     *)

\* The verdict of a group's results: continue-on-error turns a failure into
\* a success for later groups and keeps it from failing the run.
Excused(n)    == JobOf[n] \in ContinueOnError

Conclusion(n) == IF results[n] = "failure" /\ Excused(n) THEN "success" ELSE results[n]

\* Mutant: cancelled dependencies are overlooked.
DependencyStatusNoCancel(n) ==
    IF \E d \in DependsOn[n] : jobOutputs[d] = "failure" THEN "failure" ELSE "success"

DependencyStatus(n) ==
    CASE \E d \in DependsOn[n] : jobOutputs[d] = "failure"   -> "failure"
      [] \A d \in DependsOn[n] : jobOutputs[d] \notin {"failure", "cancelled"} -> "success"
      [] OTHER -> "cancelled"

\* A condition that reads the needs context has the value data.
EvalCondition(n, data) ==
    CASE If[JobOf[n]] \in {"success", "failure", "cancelled"} ->
             DependencyStatus(n) = If[JobOf[n]]
      [] OTHER -> data

ShouldRun(n, data) ==
    IF NeedsRuntimeEval(n) THEN EvalCondition(n, data)
    ELSE DependencyStatus(n) = "success" \/ ContainsAlways(n)

\* The context of the run is done: the jobs of the group are not started.
CancelGroup ==
    /\ mainPc = "group"
    /\ group <= Len(Groups)
    /\ runCancelled
    /\ allResults' = [n \in Nodes |->
                        IF n \in NodesIn(group) THEN "cancelled" ELSE allResults[n]]
    /\ group' = group + 1
    /\ UNCHANGED <<mainPc, cursor, pc, status, results, jobOutputs, success, ctxVars,
                   holder, crashed>>

BeginGroup ==
    /\ mainPc = "group"
    /\ group <= Len(Groups)
    /\ ~runCancelled
    /\ mainPc' = "launch"
    /\ cursor' = 1
    /\ UNCHANGED <<group, pc, status, results, sumVars, ctxVars, holder, crashed>>

Launching == mainPc = "launch" /\ cursor <= Len(Groups[group])
Current   == Groups[group][cursor]

LaunchJob ==
    /\ Launching
    /\ \E data \in BOOLEAN : ShouldRun(Current, data)
    /\ pc' = [pc EXCEPT ![Current] = "waiting"]
    /\ cursor' = cursor + 1
    /\ UNCHANGED <<mainPc, group, status, results, sumVars, ctxVars, holder, crashed>>

\* skipJob writes the results map without its mutex.  While a goroutine
\* writes it too, the write may be one the Go runtime detects and dies of.
SkipJob ==
    /\ Launching
    /\ \E data \in BOOLEAN : ~ShouldRun(Current, data)
    /\ results' = [results EXCEPT ![Current] = "skipped"]
    /\ crashed' \in {FALSE, \E n \in Nodes : pc[n] = "recording"}
    /\ cursor' = cursor + 1
    /\ UNCHANGED <<mainPc, group, pc, status, sumVars, ctxVars, holder>>

\* wg.Wait returns, executeGroup cancels what is left of its fail-fast
\* contexts, and Run takes over the results of the group.
CollectGroup ==
    /\ mainPc = "launch"
    /\ cursor > Len(Groups[group])
    /\ \A n \in NodesIn(group) : pc[n] \in {"idle", "done"}
    /\ allResults' = [n \in Nodes |-> IF n \in NodesIn(group) THEN results[n] ELSE allResults[n]]
    /\ jobOutputs' = [n \in Nodes |-> IF n \in NodesIn(group) THEN Conclusion(n) ELSE jobOutputs[n]]
    /\ success' = (success /\ \A n \in NodesIn(group) : results[n] # "failure" \/ Excused(n))
    /\ failFast' = failFast \cup {JobOf[n] : n \in {m \in NodesIn(group) : HasFailFast(m)}}
    /\ group' = group + 1
    /\ mainPc' = "group"
    /\ UNCHANGED <<cursor, pc, status, results, runCancelled, superseded, expired, holder, crashed>>

Finish ==
    /\ mainPc = "group"
    /\ group > Len(Groups)
    /\ allResults' = [n \in Nodes |-> IF n \in Skipped THEN "skipped" ELSE allResults[n]]
    /\ mainPc' = "done"
    /\ UNCHANGED <<group, cursor, pc, status, results, jobOutputs, success, ctxVars, holder, crashed>>
-----------------------------------------------------------------------------
(* The goroutine of a job.                                                 *)

\* Mutant: one slot too many.
AcquireSlotOneMore(n) ==
    /\ pc[n] = "waiting"
    /\ MaxParallel[JobOf[n]] # NoLimit =>
          Cardinality(InSlot(JobOf[n])) <= MaxParallel[JobOf[n]]
    /\ pc' = [pc EXCEPT ![n] = "admitted"]
    /\ UNCHANGED <<mainVars, status, results, sumVars, ctxVars, holder, crashed>>

AcquireSlot(n) ==
    /\ pc[n] = "waiting"
    /\ MaxParallel[JobOf[n]] # NoLimit =>
          Cardinality(InSlot(JobOf[n])) < MaxParallel[JobOf[n]]
    /\ pc' = [pc EXCEPT ![n] = "admitted"]
    /\ UNCHANGED <<mainVars, status, results, sumVars, ctxVars, holder, crashed>>

\* ConcurrencyTracker.Acquire: it never waits.  The holder it cancels is the
\* one in the map; the new one replaces it in any case.
Acquire(n, c) ==
    /\ holder' = [holder EXCEPT ![c] = n]
    /\ superseded' = IF JobOf[n] \in CancelInProgress
                     THEN superseded \cup ({holder[c]} \ {NoNode})
                     ELSE superseded

EnterJob(n) ==
    /\ pc[n] = "admitted"
    /\ IF Concurrency[JobOf[n]] = NoGroup THEN UNCHANGED <<holder, superseded>>
                                          ELSE Acquire(n, Concurrency[JobOf[n]])
    /\ pc' = [pc EXCEPT ![n] = "setup"]
    /\ UNCHANGED <<mainVars, status, results, sumVars, runCancelled, failFast, expired, crashed>>

\* Mutant: a released group is empty, whoever holds it.
ReleasedAlways(n) ==
    [c \in ConcurrencyGroups |-> IF c = Concurrency[JobOf[n]] THEN NoNode ELSE holder[c]]

\* The function Acquire returned: only the current holder leaves the map.
Released(n) == [c \in ConcurrencyGroups |-> IF holder[c] = n THEN NoNode ELSE holder[c]]

\* executeJob returns s and its deferred functions run.
Return(n, s) ==
    /\ pc' = [pc EXCEPT ![n] = "returned"]
    /\ status' = [status EXCEPT ![n] = s]
    /\ holder' = Released(n)
    /\ UNCHANGED <<mainVars, results, sumVars, ctxVars, crashed>>

\* Mutant: a job that cannot be started counts as skipped.
SetupFailsSkipped(n) == pc[n] = "setup" /\ Return(n, "skipped")

\* Services, job message, runner process or its configuration fail, or the
\* context is done when the process is to be started.
SetupFails(n) == pc[n] = "setup" /\ Return(n, "failure")

StartRunner(n) ==
    /\ pc[n] = "setup"
    /\ ~CtxDone(n)
    /\ pc' = [pc EXCEPT ![n] = "running"]
    /\ UNCHANGED <<mainVars, status, results, sumVars, ctxVars, holder, crashed>>

\* The select: a result from the broker, or the context.  Both may be ready.
ResultArrives(n, s) == pc[n] = "running" /\ Return(n, s)
ContextDone(n)      == pc[n] = "running" /\ CtxDone(n) /\ Return(n, "cancelled")

LockResults(n) ==
    /\ pc[n] = "returned"
    /\ \A m \in Nodes : pc[m] # "recording"
    /\ pc' = [pc EXCEPT ![n] = "recording"]
    /\ UNCHANGED <<mainVars, status, results, sumVars, ctxVars, holder, crashed>>

RecordResult(n) ==
    /\ pc[n] = "recording"
    /\ results' = [results EXCEPT ![n] = status[n]]
    /\ pc' = [pc EXCEPT ![n] = "recorded"]
    /\ UNCHANGED <<mainVars, status, sumVars, ctxVars, holder, crashed>>

CancelSiblings(n) ==
    /\ pc[n] = "recorded"
    /\ failFast' = IF status[n] = "failure" /\ HasFailFast(n)
                   THEN failFast \cup {JobOf[n]} ELSE failFast
    /\ pc' = [pc EXCEPT ![n] = "leaving"]
    /\ UNCHANGED <<mainVars, status, results, sumVars, runCancelled, superseded, expired,
                   holder, crashed>>

\* The deferred functions: the slot is free again, wg.Done.
LeaveGroup(n) ==
    /\ pc[n] = "leaving"
    /\ pc' = [pc EXCEPT ![n] = "done"]
    /\ UNCHANGED <<mainVars, status, results, sumVars, ctxVars, holder, crashed>>
-----------------------------------------------------------------------------
(* Contexts that end for reasons outside the run.                          *)

\* The user interrupts the run.
CancelRun ==
    /\ mainPc # "done"
    /\ ~runCancelled
    /\ runCancelled' = TRUE
    /\ UNCHANGED <<mainVars, pc, status, results, sumVars, failFast, superseded, expired,
                   holder, crashed>>

\* timeout-minutes, or six hours, have passed since the job started.
Expire(n) ==
    /\ pc[n] \in {"setup", "running"}
    /\ n \notin expired
    /\ expired' = expired \cup {n}
    /\ UNCHANGED <<mainVars, pc, status, results, sumVars, runCancelled, failFast, superseded,
                   holder, crashed>>

MainStep == CancelGroup \/ BeginGroup \/ LaunchJob \/ SkipJob \/ CollectGroup \/ Finish

\* What a job's goroutine does by itself; the result comes from a runner.
NodeStep(n) ==
    \/ AcquireSlot(n) \/ EnterJob(n) \/ StartRunner(n) \/ ContextDone(n)
    \/ LockResults(n) \/ RecordResult(n) \/ CancelSiblings(n) \/ LeaveGroup(n)
    \/ CtxDone(n) /\ SetupFails(n)

\* Run has returned, or the process is gone.
Stopped == (mainPc = "done" \/ crashed) /\ UNCHANGED vars

Next ==
    \/ /\ ~crashed
       /\ \/ MainStep
          \/ \E n \in Nodes :
                \/ NodeStep(n) \/ SetupFails(n) \/ Expire(n)
                \/ \E s \in {"success", "failure"} : ResultArrives(n, s)
          \/ CancelRun
    \/ Stopped

Spec == Init /\ [][Next]_vars

\* Goroutines are scheduled; no assumption on users, runners or timers.
FairSpec ==
    /\ Spec
    /\ WF_vars(~crashed /\ MainStep)
    /\ \A n \in Nodes : WF_vars(~crashed /\ NodeStep(n))

\* Every job has a timeout, and timers fire.
TimedSpec == FairSpec /\ \A n \in Nodes : WF_vars(~crashed /\ Expire(n))
-----------------------------------------------------------------------------
Statuses == {"none", "success", "failure", "cancelled", "skipped"}

\* Types.  A node's goroutine ends as it began, outside every slot.
TypeOK ==
    /\ mainPc \in {"group", "launch", "done"}
    /\ group \in 1..(Len(Groups) + 1)
    /\ cursor \in Nat \ {0}
    /\ pc \in [Nodes -> {"idle", "waiting", "done"} \cup SlotStates]
    /\ status \in [Nodes -> {"none", "success", "failure", "cancelled"}]
    /\ results \in [Nodes -> Statuses]
    /\ allResults \in [Nodes -> Statuses]
    /\ jobOutputs \in [Nodes -> Statuses]
    /\ success \in BOOLEAN
    /\ runCancelled \in BOOLEAN
    /\ failFast \subseteq Jobs
    /\ holder \in [ConcurrencyGroups -> Nodes \cup {NoNode}]
    /\ superseded \subseteq Nodes
    /\ expired \subseteq Nodes
    /\ crashed \in BOOLEAN

\* With max-parallel 1 and fail-fast, the jobs of a matrix run one by one up
\* to the first failure: no runner starts, or still runs, once the failure of
\* a sibling is in the results.  It rests on the order in which a goroutine
\* records, cancels and only then frees its slot.
SequentialMatrixStops ==
    \A m, n \in Nodes :
        (/\ m # n
         /\ JobOf[m] = JobOf[n]
         /\ HasFailFast(n)
         /\ MaxParallel[JobOf[n]] = 1
         /\ results[m] = "failure") => pc[n] # "running"

\* No more runners of a job at a time than its max-parallel.
WithinMaxParallel ==
    \A j \in Jobs : MaxParallel[j] # NoLimit =>
        Cardinality({n \in Nodes : JobOf[n] = j /\ pc[n] = "running"}) <= MaxParallel[j]

\* A job is cancelled for a reason of its own: the user, its timeout, its
\* concurrency group, or a failed sibling under fail-fast; never because a job
\* of another matrix failed next to it.
CancelledForCause ==
    \A n \in Nodes : status[n] = "cancelled" =>
        \/ runCancelled
        \/ n \in expired
        \/ n \in superseded
        \/ HasFailFast(n) /\ \E m \in Siblings(n) \ {n} : results[m] = "failure"

\* Where every job of a concurrency group cancels what is in progress, at
\* most one of them is not cancelled, whatever the order in which the others
\* return and release the group.
OneLiveHolder ==
    \A m, n \in Nodes :
        (/\ m # n
         /\ Concurrency[JobOf[m]] = Concurrency[JobOf[n]]
         /\ Concurrency[JobOf[n]] # NoGroup
         /\ \A j \in Jobs : Concurrency[j] = Concurrency[JobOf[n]] => j \in CancelInProgress
         /\ {pc[m], pc[n]} \subseteq {"setup", "running"})
            => m \in superseded \/ n \in superseded

\* The run ends by itself: no job waits for a slot, a result or a group for
\* ever, because every job has a timeout.
RunEnds == <>(mainPc = "done" \/ crashed)

\* An interrupted run ends although no runner reports any more.
InterruptEndsRun == runCancelled ~> (mainPc = "done" \/ crashed)

(* The run implements DagRun: a job starts after what it needs, only if    *)
(* its condition allows it, ends once, and success tells the truth.        *)
Outcome(n) ==
    IF n \in Skipped THEN "skipped"
    ELSE IF allResults[n] # "none" THEN allResults[n]
    ELSE IF results[n] # "none" THEN results[n]
    ELSE IF pc[n] # "idle" THEN "running"
    ELSE "none"

Dag == INSTANCE DagRun WITH
    Needs   <- DependsOn,
    Dropped <- Skipped,
    If      <- [n \in Nodes |-> If[JobOf[n]]],
    ContinueOnError <- {n \in Nodes : JobOf[n] \in ContinueOnError},
    outcome <- [n \in Nodes |-> Outcome(n)],
    verdict <- IF mainPc # "done" THEN "none" ELSE IF success THEN "success" ELSE "failure"

\* Seen from outside, the jobs of the workflow run as DagRun says.
ImplementsDag == Dag!Spec

\* A job without a condition of its own does not run when a job it needs was
\* skipped: what Graph.Plan says of the jobs it drops.
SkippedDependencySkips ==
    \A n \in Nodes : pc[n] # "idle" /\ ~ContainsAlways(n) /\ ~NeedsRuntimeEval(n) =>
        \A d \in DependsOn[n] : jobOutputs[d] # "skipped"

\* A job that claims its group with cancel-in-progress is alone in it.
ClaimCancelsOthers ==
    \A m, n \in Nodes :
        (/\ m # n
         /\ Concurrency[JobOf[m]] = Concurrency[JobOf[n]]
         /\ Concurrency[JobOf[n]] # NoGroup
         /\ JobOf[n] \in CancelInProgress
         /\ holder[Concurrency[JobOf[n]]] = n
         /\ pc[m] \in {"setup", "running"}) => m \in superseded

\* Jobs of a group run concurrently and are skipped without taking the
\* process down.
NoMapCrash == ~crashed
=============================================================================
