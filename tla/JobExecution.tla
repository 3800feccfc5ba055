---------------------------- MODULE JobExecution ----------------------------
(***************************************************************************)
(* executeJob from inside: service containers (src/internal/docker), the   *)
(* message for the broker, the instance directory, configuration and life  *)
(* of the runner process (src/internal/runner/process.go), and what is     *)
(* taken down again on every way out.  Module WorkflowRun sees a job only  *)
(* as set up, running and returned.                                        *)
(*                                                                         *)
(* Abstractions.  The broker is its queue: a runner takes the first        *)
(* message that is for its name (module Broker has the handlers).  A job's *)
(* context is done or not, for whatever reason.  The runner is started     *)
(* natively; a job's container is the runner's business.  A docker command *)
(* happens or fails as a whole, and a container that runs is attached to   *)
(* the network of its name.                                                *)
(***************************************************************************)
EXTENDS Naturals, FiniteSets, Sequences, SequencesExt

CONSTANTS Jobs,
          Name,       \* [Jobs -> name of runner, network and containers]
          Services,   \* [Jobs -> services ions itself has to start]
          Leftover,   \* names of which an earlier run left something
          MaxFaults,  \* bound: functions in which docker commands fail
          NoJob, NoName

ASSUME JobExecutionAssumption ==
    /\ NoJob \notin Jobs
    /\ IsFiniteSet(Jobs)
    /\ MaxFaults \in Nat
    /\ NoName \notin {Name[j] : j \in Jobs}
    /\ Leftover \subseteq {Name[j] : j \in Jobs}

VARIABLES
    pc,           \* [Jobs -> where executeJob is]
    status,       \* [Jobs -> what it returns]
    ctxDone,      \* jobs whose context is done
    reuseContainers, \* --reuse-containers
    networks,     \* docker networks, by name
    containers,   \* docker containers, <<name, service, state>>
    dockerEnv,    \* [Jobs -> services in JobEnvironment.Services]
    setUp,        \* jobs for which SetupServices succeeded
    refused,      \* jobs for whose teardown docker refused a command
    faults,
    pendingJobs,  \* the broker's queue
    resultCh,     \* [Jobs -> result in the channel EnqueueJob returned]
    configMu,     \* holder of the lock over all configurations
    configLocked, \* processes that have to release it
    timer,        \* processes whose release timer runs
    instanceDir,  \* instance directories on disk
    config,       \* [directories -> name in its configuration files]
    proc,         \* [Jobs -> runner process: "none", "up", "dead"]
    loaded,       \* [Jobs -> name the runner read from its configuration]
    taken,        \* [Jobs -> job whose message the runner took]
    worker,       \* runners with a worker process
    done          \* processes whose end lies in the channel

downVars   == <<reuseContainers, refused>>
dockerVars == <<networks, containers, dockerEnv, setUp, faults, downVars>>
brokerVars == <<pendingJobs, resultCh>>
lockVars   == <<configMu, configLocked, timer>>
dirVars    == <<instanceDir, config>>
procVars   == <<proc, loaded, taken, worker, done>>
vars == <<pc, status, ctxDone, dockerVars, brokerVars, lockVars, dirVars, procVars>>

Names       == {Name[j] : j \in Jobs}
AllServices == UNION {Services[j] : j \in Jobs}

\* What a run that was killed, or torn down in vain, left: containers that run,
\* if their network is there, and others that were stopped or never started.
Remains(nets) ==
    {{<<c[1], c[2], IF c \in up THEN "running" ELSE "exited">> : c \in left} :
        left \in SUBSET (Leftover \X AllServices), up \in SUBSET (nets \X AllServices)}

\* Mutant: every process works in the shared installation.
SharedDir(j) == NoJob

\* materializeInstance: a directory of its own for every process.
DirOf(j) == j

Init ==
    /\ pc           = [j \in Jobs |-> "begin"]
    /\ status       = [j \in Jobs |-> "none"]
    /\ ctxDone      = {}
    /\ reuseContainers \in BOOLEAN
    /\ networks \in SUBSET Leftover
    /\ containers \in Remains(networks)
    /\ dockerEnv    = [j \in Jobs |-> {}]
    /\ setUp        = {}
    /\ refused      = {}
    /\ faults       = 0
    /\ pendingJobs  = <<>>
    /\ resultCh     = [j \in Jobs |-> "none"]
    /\ configMu     = NoJob
    /\ configLocked = {}
    /\ timer        = {}
    /\ instanceDir  = {}
    /\ config       = [d \in Jobs \cup {NoJob} |-> NoName]
    /\ proc         = [j \in Jobs |-> "none"]
    /\ loaded       = [j \in Jobs |-> NoName]
    /\ taken        = [j \in Jobs |-> NoJob]
    /\ worker       = {}
    /\ done         = {}

Goto(j, l)   == pc' = [pc EXCEPT ![j] = l]
\* executeJob returns s; a job with services tears them down first.
Leave(j, s) ==
    /\ status' = [status EXCEPT ![j] = s]
    /\ Goto(j, IF j \in setUp THEN "teardown" ELSE "returned")
-----------------------------------------------------------------------------
(* Service containers.  A command whose context is done is not run.        *)

Here(j, s)  == {c \in containers : c[1] = Name[j] /\ c[2] = s}
Attached(n) == {c \in containers : c[1] = n /\ c[3] = "running"}

Fault == faults < MaxFaults /\ faults' = faults + 1

\* A network of that name goes before it is created anew, and before it the
\* containers attached to it; others of that name stay.
CreateNetwork(j) ==
    /\ pc[j] = "begin" /\ Services[j] # {}
    /\ j \notin ctxDone
    /\ networks' = networks \cup {Name[j]}
    /\ containers' = IF Name[j] \in networks THEN containers \ Attached(Name[j]) ELSE containers
    /\ Goto(j, "create")
    /\ UNCHANGED <<status, ctxDone, dockerEnv, setUp, faults, downVars, brokerVars, lockVars, dirVars,
                   procVars>>

\* Of a network that is there, some or all may be gone by then.
NetworkFails(j) ==
    /\ pc[j] = "begin" /\ Services[j] # {}
    /\ IF j \in ctxDone THEN UNCHANGED faults ELSE Fault
    /\ \E removed \in SUBSET (IF Name[j] \in networks THEN Attached(Name[j]) ELSE {}) :
          /\ containers' = containers \ removed
          /\ \/ UNCHANGED networks
             \/ removed = Attached(Name[j]) /\ networks' = networks \ {Name[j]}
    /\ Leave(j, "failure")
    /\ UNCHANGED <<ctxDone, dockerEnv, setUp, downVars, brokerVars, lockVars, dirVars, procVars>>

\* startService, up to "docker create".
CreateContainer(j, s) ==
    /\ pc[j] = "create" /\ s \in Services[j] \ dockerEnv[j]
    /\ j \notin ctxDone /\ Here(j, s) = {}
    /\ containers' = containers \cup {<<Name[j], s, "created">>}
    /\ Goto(j, "run")
    /\ UNCHANGED <<status, ctxDone, networks, dockerEnv, setUp, faults, downVars, brokerVars, lockVars, dirVars,
                   procVars>>

CreateFails(j) ==
    /\ pc[j] = "create" /\ Services[j] \ dockerEnv[j] # {}
    /\ IF j \in ctxDone \/ \E s \in Services[j] \ dockerEnv[j] : Here(j, s) # {}
       THEN UNCHANGED faults ELSE Fault
    /\ Goto(j, "undo")
    /\ UNCHANGED <<status, ctxDone, networks, containers, dockerEnv, setUp, downVars, brokerVars, lockVars,
                   dirVars, procVars>>

\* "docker start": the service goes into the environment.
StartContainer(j, s) ==
    /\ pc[j] = "run" /\ <<Name[j], s, "created">> \in containers
    /\ j \notin ctxDone
    /\ containers' = (containers \ Here(j, s)) \cup {<<Name[j], s, "running">>}
    /\ dockerEnv' = [dockerEnv EXCEPT ![j] = @ \cup {s}]
    /\ Goto(j, "create")
    /\ UNCHANGED <<status, ctxDone, networks, setUp, faults, downVars, brokerVars, lockVars, dirVars, procVars>>

\* The container is removed, if that succeeds.
StartFails(j, s) ==
    /\ pc[j] = "run" /\ <<Name[j], s, "created">> \in containers
    /\ IF j \in ctxDone THEN UNCHANGED faults ELSE Fault
    /\ containers' \in {containers, containers \ Here(j, s)}
    /\ Goto(j, "undo")
    /\ UNCHANGED <<status, ctxDone, networks, dockerEnv, setUp, downVars, brokerVars, lockVars, dirVars,
                   procVars>>

\* Teardown, with a context that is done by its end (dead) or not.  What is in
\* the environment goes, then the network if nothing is attached to it; a
\* command that fails is passed over, and its error ignored by the callers.
TakeDown(j, dead) ==
    IF reuseContainers THEN UNCHANGED <<networks, containers, faults, refused>>
    ELSE \E gone \in SUBSET UNION {Here(j, s) : s \in dockerEnv[j]}, nets \in SUBSET {Name[j]} :
        /\ containers' = containers \ gone
        /\ networks' = networks \ nets
        /\ nets # {} => Attached(Name[j]) \subseteq gone
        /\ \/ /\ gone = UNION {Here(j, s) : s \in dockerEnv[j]}
              /\ nets # {} \/ ~(Attached(Name[j]) \subseteq gone)
              /\ UNCHANGED <<faults, refused>>
           \/ dead /\ UNCHANGED <<faults, refused>>
           \/ ~dead /\ Fault /\ refused' = refused \cup {j}

\* SetupServices gives up, with the context it was given.
UndoServices(j) ==
    /\ pc[j] = "undo"
    /\ TakeDown(j, j \in ctxDone)
    /\ Leave(j, "failure")
    /\ UNCHANGED <<ctxDone, reuseContainers, dockerEnv, setUp, brokerVars, lockVars, dirVars, procVars>>

ServicesReady(j) ==
    /\ pc[j] = "create" /\ Services[j] = dockerEnv[j]
    /\ setUp' = setUp \cup {j}
    /\ Goto(j, "message")
    /\ UNCHANGED <<status, ctxDone, networks, containers, dockerEnv, faults, downVars, brokerVars,
                   lockVars, dirVars, procVars>>

\* Mutant: the deferred Teardown gets the job's context.
TeardownInContext(j) ==
    /\ pc[j] = "teardown"
    /\ TakeDown(j, j \in ctxDone)
    /\ Goto(j, "returned")
    /\ UNCHANGED <<status, ctxDone, reuseContainers, dockerEnv, setUp, brokerVars, lockVars, dirVars,
                   procVars>>

\* The deferred Teardown has a context of its own.
Teardown(j) ==
    /\ pc[j] = "teardown"
    /\ TakeDown(j, FALSE)
    /\ Goto(j, "returned")
    /\ UNCHANGED <<status, ctxDone, reuseContainers, dockerEnv, setUp, brokerVars, lockVars, dirVars,
                   procVars>>

ServiceStep(j) ==
    \/ CreateNetwork(j) \/ NetworkFails(j) \/ CreateFails(j) \/ UndoServices(j)
    \/ ServicesReady(j) \/ Teardown(j)
    \/ \E s \in Services[j] : CreateContainer(j, s) \/ StartContainer(j, s) \/ StartFails(j, s)
-----------------------------------------------------------------------------
(* Message, instance directory, configuration, start.                      *)

\* A job without services begins here.
ToMessage(j) == IF Services[j] = {} THEN "begin" ELSE "message"

\* BuildJobMessage may fail; so may a job whose container needs Linux.
MessageFails(j) ==
    /\ pc[j] = ToMessage(j)
    /\ Leave(j, "failure")
    /\ UNCHANGED <<ctxDone, dockerVars, brokerVars, lockVars, dirVars, procVars>>

EnqueueJob(j) ==
    /\ pc[j] = ToMessage(j)
    /\ pendingJobs' = Append(pendingJobs, j)
    /\ Goto(j, "instance")
    /\ UNCHANGED <<status, ctxDone, dockerVars, resultCh, lockVars, dirVars, procVars>>

NewProcess(j) ==
    /\ pc[j] = "instance"
    /\ instanceDir' = instanceDir \cup {DirOf(j)}
    /\ Goto(j, "configure")
    /\ UNCHANGED <<status, ctxDone, dockerVars, brokerVars, lockVars, config, procVars>>

\* A walk that fails takes its directory with it.
NewProcessFails(j) ==
    /\ pc[j] = "instance"
    /\ Leave(j, "failure")
    /\ UNCHANGED <<ctxDone, dockerVars, brokerVars, lockVars, dirVars, procVars>>

\* The lock is waited for whether the context is done or not.
Configure(j) ==
    /\ pc[j] = "configure"
    /\ configMu = NoJob
    /\ configMu' = j
    /\ configLocked' = configLocked \cup {j}
    /\ config' = [config EXCEPT ![DirOf(j)] = Name[j]]
    /\ Goto(j, "start")
    /\ UNCHANGED <<status, ctxDone, dockerVars, brokerVars, timer, instanceDir, procVars>>

\* A file cannot be written: the lock is released at once.
ConfigureFails(j) ==
    /\ pc[j] = "configure"
    /\ configMu = NoJob
    /\ Leave(j, "failure")
    /\ UNCHANGED <<ctxDone, dockerVars, brokerVars, lockVars, dirVars, procVars>>

\* Mutant: the process is not bound to the job's context.
StartAnyway(j) ==
    /\ pc[j] = "start"
    /\ proc' = [proc EXCEPT ![j] = "up"]
    /\ timer' = timer \cup {j}
    /\ Goto(j, "select")
    /\ UNCHANGED <<status, ctxDone, dockerVars, brokerVars, configMu, configLocked, dirVars, loaded,
                   taken, worker, done>>

Start(j) ==
    /\ pc[j] = "start"
    /\ j \notin ctxDone
    /\ proc' = [proc EXCEPT ![j] = "up"]
    /\ timer' = timer \cup {j}
    /\ Goto(j, "select")
    /\ UNCHANGED <<status, ctxDone, dockerVars, brokerVars, configMu, configLocked, dirVars, loaded,
                   taken, worker, done>>

\* Mutant: only a process that was started releases the lock.
StartFailsLocked(j) ==
    /\ pc[j] = "start"
    /\ Leave(j, "failure")
    /\ UNCHANGED <<ctxDone, dockerVars, brokerVars, lockVars, dirVars, procVars>>

\* No executable, no pipe, or the context is done; the timer runs all the same.
RunnerStartFails(j) ==
    /\ pc[j] = "start"
    /\ timer' = timer \cup {j}
    /\ Leave(j, "failure")
    /\ UNCHANGED <<ctxDone, dockerVars, brokerVars, configMu, configLocked, dirVars, procVars>>

\* The deferred goroutine of Start, some seconds later.
ReleaseConfig(j) ==
    /\ j \in timer
    /\ timer' = timer \ {j}
    /\ configLocked' = configLocked \ {j}
    /\ configMu' = IF j \in configLocked THEN NoJob ELSE configMu
    /\ UNCHANGED <<pc, status, ctxDone, dockerVars, brokerVars, dirVars, procVars>>

SetupStep(j) ==
    \/ MessageFails(j) \/ EnqueueJob(j) \/ NewProcess(j) \/ NewProcessFails(j)
    \/ Start(j) \/ RunnerStartFails(j)

LockStep(j) == Configure(j) \/ ConfigureFails(j)
-----------------------------------------------------------------------------
(* The runner.                                                             *)

LoadConfig(j) ==
    /\ proc[j] = "up" /\ loaded[j] = NoName
    /\ loaded' = [loaded EXCEPT ![j] = config[DirOf(j)]]
    /\ UNCHANGED <<pc, status, ctxDone, dockerVars, brokerVars, lockVars, dirVars, proc, taken,
                   worker, done>>

\* The broker gives the runner the first message for its name, and only one.
TakeJob(j) ==
    /\ proc[j] = "up" /\ loaded[j] # NoName /\ taken[j] = NoJob
    /\ \E i \in DOMAIN pendingJobs :
          /\ Name[pendingJobs[i]] = loaded[j]
          /\ \A h \in 1..(i - 1) : Name[pendingJobs[h]] # loaded[j]
          /\ taken' = [taken EXCEPT ![j] = pendingJobs[i]]
          /\ pendingJobs' = RemoveAt(pendingJobs, i)
    /\ worker' = worker \cup {j}
    /\ UNCHANGED <<pc, status, ctxDone, dockerVars, resultCh, lockVars, dirVars, proc, loaded, done>>

Report(j, r) ==
    /\ proc[j] = "up" /\ j \in worker
    /\ resultCh' = [resultCh EXCEPT ![taken[j]] = r]
    /\ worker' = worker \ {j}
    /\ UNCHANGED <<pc, status, ctxDone, dockerVars, pendingJobs, lockVars, dirVars, proc, loaded, taken, done>>

\* The process ends: on SIGINT, because exec kills it when the context is
\* done, or by itself.  Its children are not touched.
ProcessEnds(j) ==
    /\ proc[j] = "up"
    /\ proc' = [proc EXCEPT ![j] = "dead"]
    /\ done' = done \cup {j}
    /\ UNCHANGED <<pc, status, ctxDone, dockerVars, brokerVars, lockVars, dirVars, loaded, taken, worker>>

WorkerEnds(j) ==
    /\ j \in worker
    /\ worker' = worker \ {j}
    /\ UNCHANGED <<pc, status, ctxDone, dockerVars, brokerVars, lockVars, dirVars, proc, loaded, taken, done>>
-----------------------------------------------------------------------------
(* The select of executeJob, and Stop.                                     *)

ResultReady(j) ==
    /\ pc[j] = "select" /\ resultCh[j] # "none"
    /\ status' = [status EXCEPT ![j] = IF resultCh[j] = "succeeded" THEN "success" ELSE "failure"]
    /\ Goto(j, "interrupt")
    /\ UNCHANGED <<ctxDone, dockerVars, brokerVars, lockVars, dirVars, procVars>>

ContextReady(j) ==
    /\ pc[j] = "select" /\ j \in ctxDone
    /\ status' = [status EXCEPT ![j] = "cancelled"]
    /\ Goto(j, "interrupt")
    /\ UNCHANGED <<ctxDone, dockerVars, brokerVars, lockVars, dirVars, procVars>>

\* Stop sends SIGINT to the process group.
Interrupt(j) ==
    /\ pc[j] = "interrupt"
    /\ Goto(j, "stopping")
    /\ UNCHANGED <<status, ctxDone, dockerVars, brokerVars, lockVars, dirVars, procVars>>

\* The process is done: cleanupInstance.
StopReturns(j) ==
    /\ pc[j] = "stopping" /\ j \in done
    /\ done' = done \ {j}
    /\ instanceDir' = instanceDir \ {DirOf(j)}
    /\ Leave(j, status[j])
    /\ UNCHANGED <<ctxDone, dockerVars, brokerVars, lockVars, config, proc, loaded, taken, worker>>

\* Five seconds have passed: SIGKILL to the group.
StopKills(j) ==
    /\ pc[j] = "stopping"
    /\ proc' = [proc EXCEPT ![j] = "dead"]
    /\ done' = done \cup {j}
    /\ worker' = worker \ {j}
    /\ instanceDir' = instanceDir \ {DirOf(j)}
    /\ Leave(j, status[j])
    /\ UNCHANGED <<ctxDone, dockerVars, brokerVars, lockVars, config, loaded, taken>>

StopStep(j) ==
    ResultReady(j) \/ ContextReady(j) \/ Interrupt(j) \/ StopReturns(j) \/ StopKills(j)

\* Timeout, fail-fast, a concurrency group or the user.
ContextEnds(j) ==
    /\ pc[j] # "returned" /\ j \notin ctxDone
    /\ ctxDone' = ctxDone \cup {j}
    /\ UNCHANGED <<pc, status, dockerVars, brokerVars, lockVars, dirVars, procVars>>

ExecuteJob(j) == ServiceStep(j) \/ SetupStep(j) \/ LockStep(j) \/ StopStep(j)

Runner(j) ==
    \/ LoadConfig(j) \/ TakeJob(j) \/ ProcessEnds(j) \/ WorkerEnds(j)
    \/ \E r \in {"succeeded", "failed"} : Report(j, r)

Next == \E j \in Jobs : ExecuteJob(j) \/ ReleaseConfig(j) \/ Runner(j) \/ ContextEnds(j)

Spec == Init /\ [][Next]_vars

\* Goroutines are scheduled, a mutex is handed to those who wait for it, and
\* the timer that releases it fires.
SchedulerSpec ==
    /\ Spec
    /\ \A j \in Jobs :
          /\ WF_vars(ServiceStep(j) \/ SetupStep(j) \/ StopStep(j))
          /\ SF_vars(LockStep(j))
          /\ WF_vars(ReleaseConfig(j))

\* In the end the job's timeout (six hours, unless it says less) has passed.
FairSpec == SchedulerSpec /\ \A j \in Jobs : WF_vars(ContextEnds(j))
-----------------------------------------------------------------------------
\* Types.  A lock is to be released by its holder alone: Go ends a program
\* that unlocks an unlocked mutex.
TypeOK ==
    /\ pc \in [Jobs -> {"begin", "create", "run", "undo", "message", "instance", "configure",
                        "start", "select", "interrupt", "stopping", "teardown", "returned"}]
    /\ status \in [Jobs -> {"none", "success", "failure", "cancelled"}]
    /\ ctxDone \subseteq Jobs
    /\ networks \subseteq Names
    /\ reuseContainers \in BOOLEAN
    /\ containers \subseteq Names \X AllServices \X {"created", "running", "exited"}
    /\ dockerEnv \in [Jobs -> SUBSET AllServices]
    /\ \A j \in Jobs : dockerEnv[j] \subseteq Services[j]
    /\ setUp \subseteq Jobs
    /\ refused \subseteq Jobs
    /\ faults \in 0..MaxFaults
    /\ pendingJobs \in Seq(Jobs)
    /\ resultCh \in [Jobs -> {"none", "succeeded", "failed"}]
    /\ configMu \in Jobs \cup {NoJob}
    /\ configLocked = {configMu} \ {NoJob}
    /\ timer \subseteq Jobs
    /\ instanceDir \subseteq Jobs \cup {NoJob}
    /\ config \in [Jobs \cup {NoJob} -> Names \cup {NoName}]
    /\ proc \in [Jobs -> {"none", "up", "dead"}]
    /\ loaded \in [Jobs -> Names \cup {NoName}]
    /\ taken \in [Jobs -> Jobs \cup {NoJob}]
    /\ worker \subseteq Jobs
    /\ done \subseteq Jobs

\* A job never works with the configuration of another: the message a runner
\* took is the one its own goroutine waits for, so no goroutine stops a runner
\* in the middle of another's job.
RunsOwnJob == \A j \in Jobs : taken[j] \in {NoJob, j}

\* However a job ends after its services were set up, cancelled, failed or
\* done: its network and its containers are gone, unless docker refused to
\* remove one of them; with --reuse-containers all of them are kept.
ServicesRemoved ==
    \A j \in setUp : pc[j] = "returned" =>
        IF reuseContainers
        THEN Name[j] \in networks /\ \A s \in Services[j] : <<Name[j], s, "running">> \in containers
        ELSE j \in refused \/ (/\ Name[j] \notin networks /\ Attached(Name[j]) = {}
                               /\ \A s \in Services[j] : Here(j, s) = {})

\* A job that started its runner leaves neither the process nor its directory.
RunnerRemoved ==
    \A j \in Jobs : pc[j] = "returned" /\ proc[j] # "none" =>
        proc[j] = "dead" /\ DirOf(j) \notin instanceDir

\* Whenever its context ends and whichever step of its own fails, what a job set up is taken down,
\* as far as docker obeys and --reuse-containers does not keep it, and the lock over the
\* configurations is released by its holder alone.
JobInv == TypeOK /\ ServicesRemoved /\ RunnerRemoved

\* What module WorkflowRun assumes of executeJob: it starts no runner once its
\* context is done, returns "cancelled" only for that reason and "success" or,
\* after the start, "failure" only for a report on this very job.
Phase(j) == IF pc[j] \in {"select"} THEN "running"
            ELSE IF status[j] # "none" THEN status[j] ELSE "setup"

PhaseStep(j) ==
    \/ Phase(j) = "setup"   /\ Phase(j)' = "failure"
    \/ Phase(j) = "setup"   /\ Phase(j)' = "running"   /\ j \notin ctxDone
    \/ Phase(j) = "running" /\ Phase(j)' = "cancelled" /\ j \in ctxDone
    \/ Phase(j) = "running" /\ Phase(j)' = "success" /\ resultCh[j] = "succeeded"
    \/ Phase(j) = "running" /\ Phase(j)' = "failure" /\ resultCh[j] = "failed"

ExecutesAsAssumed == [][\A j \in Jobs : Phase(j)' # Phase(j) => PhaseStep(j)]_vars

\* Every job returns: no path leaves the configuration lock behind, although
\* it is taken in one function and released by a timer of another.
EveryJobReturns == \A j \in Jobs : <>(pc[j] = "returned")

\* executeJob waits "for result from broker or runner exit": a runner that is
\* gone ends the wait, without a timeout's help.
RunnerExitNoticed ==
    \A j \in Jobs : (pc[j] = "select" /\ proc[j] = "dead") ~> (pc[j] # "select")
=============================================================================
