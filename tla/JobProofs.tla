----------------------------- MODULE JobProofs -----------------------------
(***************************************************************************)
(* Proofs about one job.  With a runner: it works for its own goroutine,   *)
(* and what the job set up is taken down, as far as docker obeys, for any  *)
(* jobs of different names, any services and any leftovers.  With a called *)
(* workflow: for any that call each other to any depth, in a circle too,   *)
(* with any conditions on their jobs.                                      *)
(***************************************************************************)
EXTENDS JobExecution, CalledWorkflow, SequenceTheorems, TLAPS

\* Nodes of one plan have names of their own; a called job may bear the name of
\* one of its caller, and is not covered.
NamesDiffer == \A j, k \in Jobs : Name[j] = Name[k] => j = k

\* The configuration in a directory is the one of the job it was made for, and
\* so is what a runner read from it and the message it got for it.
OwnInv ==
    \A j \in Jobs : /\ config[j] \in {NoName, Name[j]}
                    /\ loaded[j] \in {NoName, Name[j]}
                    /\ taken[j] \in {NoJob, j}

\* Where a process may be up and a directory be there.
ProcessInv ==
    \A j \in Jobs :
        /\ j \in done => proc[j] = "dead"
        /\ proc[j] # "none" => pc[j] \in {"select", "interrupt", "stopping", "teardown", "returned"}
        /\ proc[j] # "none" /\ pc[j] \in {"teardown", "returned"} =>
               proc[j] = "dead" /\ j \notin instanceDir

\* A container of name n runs if it is of a service in env, and is a leftover
\* otherwise.
Accounted(n, env) ==
    \A c \in containers :
        c[1] = n => (c[2] \in env /\ c[3] = "running") \/ (c[2] \notin env /\ c[3] = "exited")

\* The network of name n and a container of each service in env are there.
Kept(n, env) == n \in networks /\ \A s \in env : <<n, s, "running">> \in containers

\* All that is left of name n are containers of services not in env that do not run.
Removed(n, env) ==
    n \notin networks /\ \A c \in containers : c[1] = n => c[2] \notin env /\ c[3] = "exited"

\* Containers of a job that run are those in its environment, and all of these
\* run until the teardown; one more is about to be started.  Before it begins
\* those that run hang on a network of its name.  After a teardown that docker
\* did not refuse there is none.
DockerOf(j) ==
    /\ pc[j] = "begin" =>
           /\ j \notin setUp /\ dockerEnv[j] = {}
           /\ \A c \in containers :
                  c[1] = Name[j] => c[3] = "exited" \/ (c[3] = "running" /\ Name[j] \in networks)
    /\ pc[j] = "create" => j \notin setUp /\ Accounted(Name[j], dockerEnv[j]) /\ Kept(Name[j], dockerEnv[j])
    /\ pc[j] = "run" =>
           /\ j \notin setUp /\ Kept(Name[j], dockerEnv[j])
           /\ \E s \in Services[j] \ dockerEnv[j] :
                  \A c \in containers :
                      c[1] = Name[j] => \/ c[2] = s /\ c[3] = "created"
                                        \/ c[2] \in dockerEnv[j] /\ c[3] = "running"
                                        \/ c[2] \notin dockerEnv[j] \cup {s} /\ c[3] = "exited"
    /\ j \in setUp =>
           /\ pc[j] # "undo" /\ dockerEnv[j] = Services[j] /\ Accounted(Name[j], dockerEnv[j])
           /\ pc[j] # "returned" \/ reuseContainers => Kept(Name[j], dockerEnv[j])
           /\ pc[j] = "returned" /\ ~reuseContainers /\ j \notin refused => Removed(Name[j], dockerEnv[j])

DockerInv == \A j \in Jobs : DockerOf(j)

-----------------------------------------------------------------------------
\* RemoveAt yields a sequence over the same set.
LEMMA RemoveAtType ==
    ASSUME NEW S, NEW q \in Seq(S), NEW i \in DOMAIN q
    PROVE  RemoveAt(q, i) \in Seq(S)
<1>1. SubSeq(q, 1, i - 1) \in Seq(S) /\ SubSeq(q, i + 1, Len(q)) \in Seq(S)
  OBVIOUS
<1> QED
  BY <1>1 DEF RemoveAt

\* The types and OwnInv hold in the beginning.
LEMMA InitOwn == Init => TypeOK /\ OwnInv
<1> SUFFICES ASSUME Init
             PROVE  TypeOK /\ OwnInv
  OBVIOUS
<1>1. containers \subseteq Names \X AllServices \X {"created", "running", "exited"}
  <2>1. PICK left \in SUBSET (Leftover \X AllServices), up \in SUBSET (networks \X AllServices) :
            containers = {<<c[1], c[2], IF c \in up THEN "running" ELSE "exited">> : c \in left}
    BY DEF Init, Remains
  <2>2. \A c \in left : c[1] \in Names /\ c[2] \in AllServices
    BY JobExecutionAssumption DEF Names
  <2> QED
    BY <2>1, <2>2
<1>2. networks \subseteq Names
  BY JobExecutionAssumption DEF Init, Names
<1>3. /\ setUp = {} /\ refused = {} /\ pendingJobs \in Seq(Jobs) /\ configMu = NoJob /\ configLocked = {}
      /\ faults \in 0..MaxFaults /\ \A j \in Jobs : dockerEnv[j] = {}
  BY JobExecutionAssumption DEF Init
<1> QED
  BY <1>1, <1>2, <1>3, JobExecutionAssumption DEF Init, TypeOK, OwnInv, Names

\* Every step of a goroutine, its runner and its timer keeps the types.
LEMMA NextType == TypeOK /\ [Next]_vars => TypeOK'
<1> SUFFICES ASSUME TypeOK, [Next]_vars
             PROVE  TypeOK'
  OBVIOUS
<1> USE JobExecutionAssumption
        DEF TypeOK, Names, dockerVars, downVars, brokerVars, lockVars, dirVars, procVars, Goto, Leave
<1>1. ASSUME NEW j \in Jobs, ServiceStep(j)
      PROVE  TypeOK'
  <2>1. CASE CreateNetwork(j)
    BY <2>1 DEF CreateNetwork
  <2>2. CASE NetworkFails(j)
    BY <2>2 DEF NetworkFails, Fault
  <2>3. CASE CreateFails(j)
    BY <2>3 DEF CreateFails, Fault
  <2>4. CASE UndoServices(j)
    BY <2>4 DEF UndoServices, TakeDown, Fault
  <2>5. CASE ServicesReady(j)
    BY <2>5 DEF ServicesReady
  <2>6. CASE Teardown(j)
    BY <2>6 DEF Teardown, TakeDown, Fault
  <2>7. ASSUME NEW s \in Services[j], CreateContainer(j, s)
        PROVE  TypeOK'
    <3>1. Name[j] \in Names /\ s \in AllServices
      BY DEF AllServices
    <3> QED
      BY <2>7, <3>1 DEF CreateContainer
  <2>8. ASSUME NEW s \in Services[j], StartContainer(j, s)
        PROVE  TypeOK'
    BY <2>8 DEF StartContainer
  <2>9. ASSUME NEW s \in Services[j], StartFails(j, s)
        PROVE  TypeOK'
    BY <2>9 DEF StartFails, Fault
  <2> QED
    BY <1>1, <2>1, <2>2, <2>3, <2>4, <2>5, <2>6, <2>7, <2>8, <2>9 DEF ServiceStep
<1>2. ASSUME NEW j \in Jobs, SetupStep(j)
      PROVE  TypeOK'
  <2>1. CASE MessageFails(j)
    BY <2>1 DEF MessageFails
  <2>2. CASE EnqueueJob(j)
    BY <2>2 DEF EnqueueJob
  <2>3. CASE NewProcess(j)
    BY <2>3 DEF NewProcess, DirOf
  <2>4. CASE NewProcessFails(j)
    BY <2>4 DEF NewProcessFails
  <2>5. CASE Start(j)
    BY <2>5 DEF Start
  <2>6. CASE RunnerStartFails(j)
    BY <2>6 DEF RunnerStartFails
  <2> QED
    BY <1>2, <2>1, <2>2, <2>3, <2>4, <2>5, <2>6 DEF SetupStep
<1>3. ASSUME NEW j \in Jobs, LockStep(j) \/ ReleaseConfig(j)
      PROVE  TypeOK'
  <2>1. CASE Configure(j)
    BY <2>1 DEF Configure, DirOf
  <2>2. CASE ConfigureFails(j)
    BY <2>2 DEF ConfigureFails
  <2>3. CASE ReleaseConfig(j)
    BY <2>3 DEF ReleaseConfig
  <2> QED
    BY <1>3, <2>1, <2>2, <2>3 DEF LockStep
<1>4. ASSUME NEW j \in Jobs, StopStep(j)
      PROVE  TypeOK'
  <2>1. CASE ResultReady(j)
    BY <2>1 DEF ResultReady
  <2>2. CASE ContextReady(j)
    BY <2>2 DEF ContextReady
  <2>3. CASE Interrupt(j)
    BY <2>3 DEF Interrupt
  <2>4. CASE StopReturns(j)
    BY <2>4 DEF StopReturns
  <2>5. CASE StopKills(j)
    BY <2>5 DEF StopKills
  <2> QED
    BY <1>4, <2>1, <2>2, <2>3, <2>4, <2>5 DEF StopStep
<1>5. ASSUME NEW j \in Jobs, TakeJob(j)
      PROVE  TypeOK'
  <2>1. PICK i \in DOMAIN pendingJobs : taken' = [taken EXCEPT ![j] = pendingJobs[i]]
                                         /\ pendingJobs' = RemoveAt(pendingJobs, i)
    BY <1>5 DEF TakeJob
  <2>2. pendingJobs' \in Seq(Jobs) /\ pendingJobs[i] \in Jobs
    BY <2>1, RemoveAtType
  <2> QED
    BY <1>5, <2>1, <2>2 DEF TakeJob
<1>6. ASSUME NEW j \in Jobs, LoadConfig(j) \/ ProcessEnds(j) \/ WorkerEnds(j) \/ ContextEnds(j)
      PROVE  TypeOK'
  <2>1. CASE LoadConfig(j)
    BY <2>1 DEF LoadConfig, DirOf
  <2>2. CASE ProcessEnds(j)
    BY <2>2 DEF ProcessEnds
  <2>3. CASE WorkerEnds(j)
    BY <2>3 DEF WorkerEnds
  <2>4. CASE ContextEnds(j)
    BY <2>4 DEF ContextEnds
  <2> QED
    BY <1>6, <2>1, <2>2, <2>3, <2>4
<1>7. ASSUME NEW j \in Jobs, NEW r \in {"succeeded", "failed"}, Report(j, r)
      PROVE  TypeOK'
  BY <1>7 DEF Report
<1>8. CASE UNCHANGED vars
  BY <1>8 DEF vars
<1> HIDE DEF TypeOK, Leave, Goto
<1> QED
  BY <1>1, <1>2, <1>3, <1>4, <1>5, <1>6, <1>7, <1>8 DEF Next, ExecuteJob, Runner

-----------------------------------------------------------------------------
\* Every step keeps OwnInv: a directory belongs to one job, and the broker
\* gives a runner a message for its name only.
LEMMA NextOwn == ASSUME NamesDiffer PROVE TypeOK /\ OwnInv /\ [Next]_vars => OwnInv'
<1> SUFFICES ASSUME NamesDiffer, TypeOK, OwnInv, [Next]_vars
             PROVE  OwnInv'
  OBVIOUS
<1> USE JobExecutionAssumption DEF OwnInv, dockerVars, downVars, brokerVars, lockVars, dirVars, procVars
<1>1. ASSUME NEW j \in Jobs, Configure(j)
      PROVE  OwnInv'
  BY <1>1 DEF Configure, DirOf, TypeOK
<1>2. ASSUME NEW j \in Jobs, LoadConfig(j)
      PROVE  OwnInv'
  BY <1>2 DEF LoadConfig, DirOf, TypeOK
<1>3. ASSUME NEW j \in Jobs, TakeJob(j)
      PROVE  OwnInv'
  <2>1. PICK i \in DOMAIN pendingJobs : /\ Name[pendingJobs[i]] = loaded[j]
                                        /\ taken' = [taken EXCEPT ![j] = pendingJobs[i]]
    BY <1>3 DEF TakeJob
  <2>2. pendingJobs[i] \in Jobs /\ loaded[j] = Name[j]
    BY <1>3 DEF TakeJob, TypeOK
  <2>3. pendingJobs[i] = j
    BY <2>1, <2>2 DEF NamesDiffer
  <2>4. taken' = [taken EXCEPT ![j] = j] /\ UNCHANGED <<config, loaded>>
    BY <1>3, <2>1, <2>3 DEF TakeJob
  <2> QED
    BY <2>4 DEF TypeOK
<1>4. ASSUME NEW j \in Jobs, ServiceStep(j) \/ SetupStep(j) \/ ConfigureFails(j) \/ StopStep(j)
      PROVE  UNCHANGED <<config, loaded, taken>>
  <2>1. CASE ServiceStep(j)
    BY <2>1 DEF ServiceStep, CreateNetwork, NetworkFails, CreateFails, UndoServices, ServicesReady, Teardown,
        CreateContainer, StartContainer, StartFails
  <2>2. CASE SetupStep(j)
    BY <2>2 DEF SetupStep, MessageFails, EnqueueJob, NewProcess, NewProcessFails, Start, RunnerStartFails
  <2>3. CASE ConfigureFails(j) \/ StopStep(j)
    BY <2>3 DEF ConfigureFails, StopStep, ResultReady, ContextReady, Interrupt, StopReturns, StopKills
  <2> QED
    BY <1>4, <2>1, <2>2, <2>3
<1>5. ASSUME NEW j \in Jobs,
             \/ ProcessEnds(j) \/ WorkerEnds(j) \/ ContextEnds(j) \/ ReleaseConfig(j)
             \/ \E r \in {"succeeded", "failed"} : Report(j, r)
      PROVE  UNCHANGED <<config, loaded, taken>>
  BY <1>5 DEF ProcessEnds, WorkerEnds, ContextEnds, ReleaseConfig, Report
<1>6. CASE UNCHANGED vars
  BY <1>6 DEF vars
<1> QED
  BY <1>1, <1>2, <1>3, <1>4, <1>5, <1>6 DEF Next, ExecuteJob, Runner, LockStep

\* A runner never works with the configuration of another job: the message it took is the one its
\* own goroutine waits for (materializeInstance, claimJob).
THEOREM RunnersWorkForTheirOwn == ASSUME NamesDiffer PROVE Spec => []RunsOwnJob
<1>1. OwnInv => RunsOwnJob
  BY DEF OwnInv, RunsOwnJob
<1> QED
  BY InitOwn, NextType, NextOwn, <1>1, PTL DEF Spec

-----------------------------------------------------------------------------
\* Every step keeps ProcessInv.
LEMMA NextProcess == TypeOK /\ ProcessInv /\ [Next]_vars => ProcessInv'
<1> SUFFICES ASSUME TypeOK, ProcessInv, [Next]_vars
             PROVE  ProcessInv'
  OBVIOUS
<1> USE JobExecutionAssumption
        DEF TypeOK, ProcessInv, dockerVars, downVars, brokerVars, lockVars, dirVars, procVars, Goto, Leave, DirOf
<1>1. ASSUME NEW j \in Jobs, ServiceStep(j)
      PROVE  ProcessInv'
  <2>1. UNCHANGED <<proc, done, instanceDir>> /\ pc[j] \in {"begin", "create", "run", "undo", "teardown"}
    BY <1>1 DEF ServiceStep, CreateNetwork, NetworkFails, CreateFails, UndoServices, ServicesReady, Teardown,
        CreateContainer, StartContainer, StartFails
  <2>2. \E l \in {"create", "run", "undo", "message", "teardown", "returned"} :
            /\ pc' = [pc EXCEPT ![j] = l]
            /\ pc[j] = "teardown" => l = "returned"
    BY <1>1 DEF ServiceStep, CreateNetwork, NetworkFails, CreateFails, UndoServices, ServicesReady, Teardown,
        CreateContainer, StartContainer, StartFails
  <2> QED
    BY <2>1, <2>2
<1>2. ASSUME NEW j \in Jobs, SetupStep(j)
      PROVE  ProcessInv'
  <2>1. CASE MessageFails(j)
    BY <2>1 DEF MessageFails, ToMessage
  <2>2. CASE EnqueueJob(j)
    BY <2>2 DEF EnqueueJob, ToMessage
  <2>3. CASE NewProcess(j)
    BY <2>3 DEF NewProcess
  <2>4. CASE NewProcessFails(j)
    BY <2>4 DEF NewProcessFails
  <2>5. CASE Start(j)
    BY <2>5 DEF Start
  <2>6. CASE RunnerStartFails(j)
    BY <2>6 DEF RunnerStartFails
  <2> QED
    BY <1>2, <2>1, <2>2, <2>3, <2>4, <2>5, <2>6 DEF SetupStep
<1>3. ASSUME NEW j \in Jobs, LockStep(j)
      PROVE  ProcessInv'
  BY <1>3 DEF LockStep, Configure, ConfigureFails
<1>4. ASSUME NEW j \in Jobs, StopStep(j)
      PROVE  ProcessInv'
  <2>1. CASE ResultReady(j) \/ ContextReady(j) \/ Interrupt(j)
    BY <2>1 DEF ResultReady, ContextReady, Interrupt
  <2>2. CASE StopReturns(j)
    BY <2>2 DEF StopReturns
  <2>3. CASE StopKills(j)
    BY <2>3 DEF StopKills
  <2> QED
    BY <1>4, <2>1, <2>2, <2>3 DEF StopStep
<1>5. ASSUME NEW j \in Jobs, ProcessEnds(j)
      PROVE  ProcessInv'
  BY <1>5 DEF ProcessEnds
<1>6. ASSUME NEW j \in Jobs,
             \/ LoadConfig(j) \/ TakeJob(j) \/ WorkerEnds(j) \/ ContextEnds(j) \/ ReleaseConfig(j)
             \/ \E r \in {"succeeded", "failed"} : Report(j, r)
      PROVE  UNCHANGED <<pc, proc, done, instanceDir>>
  BY <1>6 DEF LoadConfig, TakeJob, WorkerEnds, ContextEnds, ReleaseConfig, Report
<1>7. CASE UNCHANGED vars
  BY <1>7 DEF vars
<1> QED
  BY <1>1, <1>2, <1>3, <1>4, <1>5, <1>6, <1>7 DEF Next, ExecuteJob, Runner

-----------------------------------------------------------------------------
\* What a step of job j leaves alone: everything of another job.
Others(j) ==
    \A k \in Jobs \ {j} :
        /\ pc'[k] = pc[k] /\ dockerEnv'[k] = dockerEnv[k]
        /\ k \in setUp' <=> k \in setUp
        /\ k \in refused' <=> k \in refused
        /\ Name[k] \in networks' <=> Name[k] \in networks
        /\ \A c : c[1] = Name[k] => (c \in containers' <=> c \in containers)

\* A step on the docker state of one job keeps DockerInv if it keeps it for that job.
LEMMA DockerOfOne ==
    ASSUME NEW j \in Jobs, DockerInv, Others(j), UNCHANGED reuseContainers, DockerOf(j)'
    PROVE  DockerInv'
<1>1. ASSUME NEW k \in Jobs \ {j}
      PROVE  DockerOf(k)'
  <2>1. DockerOf(k)
    BY DEF DockerInv
  <2>2. /\ pc'[k] = pc[k] /\ dockerEnv'[k] = dockerEnv[k] /\ reuseContainers' = reuseContainers
        /\ k \in setUp' <=> k \in setUp
        /\ k \in refused' <=> k \in refused
        /\ Name[k] \in networks' <=> Name[k] \in networks
        /\ \A c : c[1] = Name[k] => (c \in containers' <=> c \in containers)
    BY DEF Others
  <2>3. \A env : Accounted(Name[k], env) => Accounted(Name[k], env)'
    BY <2>2 DEF Accounted
  <2>4. \A env : Removed(Name[k], env) => Removed(Name[k], env)'
    BY <2>2 DEF Removed
  <2>5. \A env : Kept(Name[k], env) => Kept(Name[k], env)'
    BY <2>2 DEF Kept
  <2> QED
    BY <2>1, <2>2, <2>3, <2>4, <2>5 DEF DockerOf
<1> QED
  BY <1>1 DEF DockerInv

\* Before the first step the only containers are those an earlier run left.
LEMMA InitDocker == Init => ProcessInv /\ DockerInv
<1> SUFFICES ASSUME Init
             PROVE  ProcessInv /\ DockerInv
  OBVIOUS
<1>1. \A c \in containers : c[3] = "exited" \/ (c[3] = "running" /\ c[1] \in networks)
  BY DEF Init, Remains
<1> QED
  BY <1>1 DEF Init, ProcessInv, DockerInv, DockerOf

\* Every step keeps DockerInv.
LEMMA NextDocker == ASSUME NamesDiffer PROVE TypeOK /\ DockerInv /\ [Next]_vars => DockerInv'
<1> SUFFICES ASSUME NamesDiffer, TypeOK, DockerInv, [Next]_vars
             PROVE  DockerInv'
  OBVIOUS
<1> USE DEF dockerVars, downVars, brokerVars, lockVars, dirVars, procVars, Goto, Leave
<1>1. ASSUME NEW j \in Jobs, ServiceStep(j)
      PROVE  DockerInv'
  <2>0. /\ \A k \in Jobs \ {j} : Name[k] # Name[j]
        /\ DOMAIN pc = Jobs /\ DOMAIN dockerEnv = Jobs /\ DockerOf(j)
        /\ \A c \in containers : c = <<c[1], c[2], c[3]>>
    BY DEF TypeOK, NamesDiffer, DockerInv
  <2>1. CASE CreateNetwork(j)
    <3>1. Others(j) /\ UNCHANGED reuseContainers
      BY <2>0, <2>1 DEF CreateNetwork, Attached, Others
    <3>2. DockerOf(j)'
      BY <2>0, <2>1 DEF CreateNetwork, Attached, DockerOf, Accounted, Kept
    <3> QED
      BY <3>1, <3>2, DockerOfOne
  <2>2. CASE NetworkFails(j)
    <3>1. Others(j) /\ UNCHANGED reuseContainers
      BY <2>0, <2>2 DEF NetworkFails, Attached, Others
    <3>2. DockerOf(j)'
      BY <2>0, <2>2 DEF NetworkFails, DockerOf
    <3> QED
      BY <3>1, <3>2, DockerOfOne
  <2>3. CASE CreateFails(j)
    <3>1. Others(j) /\ UNCHANGED reuseContainers
      BY <2>0, <2>3 DEF CreateFails, Others
    <3>2. DockerOf(j)'
      BY <2>0, <2>3 DEF CreateFails, DockerOf
    <3> QED
      BY <3>1, <3>2, DockerOfOne
  <2>4. CASE UndoServices(j)
    <3>1. Others(j) /\ UNCHANGED reuseContainers
      BY <2>0, <2>4 DEF UndoServices, TakeDown, Here, Others
    <3>2. DockerOf(j)'
      BY <2>0, <2>4 DEF UndoServices, DockerOf
    <3> QED
      BY <3>1, <3>2, DockerOfOne
  <2>5. CASE ServicesReady(j)
    <3>1. Others(j) /\ UNCHANGED reuseContainers
      BY <2>0, <2>5 DEF ServicesReady, Others
    <3>2. DockerOf(j)'
      BY <2>0, <2>5 DEF ServicesReady, DockerOf, Accounted, Kept
    <3> QED
      BY <3>1, <3>2, DockerOfOne
  <2>6. CASE Teardown(j)
    <3>1. Others(j) /\ UNCHANGED reuseContainers
      BY <2>0, <2>6 DEF Teardown, TakeDown, Here, Others
    <3>2. pc'[j] = "returned" /\ dockerEnv' = dockerEnv /\ setUp' = setUp
      BY <2>0, <2>6 DEF Teardown
    <3>3. CASE j \notin setUp
      BY <3>1, <3>2, <3>3, DockerOfOne DEF DockerOf
    <3>4. CASE j \in setUp /\ reuseContainers
      <4>1. UNCHANGED <<networks, containers, refused>>
        BY <2>6, <3>4 DEF Teardown, TakeDown
      <4>2. DockerOf(j)'
        BY <2>0, <2>6, <3>1, <3>2, <3>4, <4>1 DEF Teardown, DockerOf, Accounted, Kept
      <4> QED
        BY <3>1, <4>2, DockerOfOne
    <3>5. CASE j \in setUp /\ ~reuseContainers
      <4>1. Accounted(Name[j], dockerEnv[j])
        BY <2>0, <3>5 DEF DockerOf
      <4>2. TakeDown(j, FALSE)
        BY <2>6 DEF Teardown
      <4>3. containers' \subseteq containers
        BY <4>2, <3>5 DEF TakeDown
      <4>4. Accounted(Name[j], dockerEnv[j])'
        BY <4>1, <4>3, <3>2 DEF Accounted
      <4>5. ASSUME j \notin refused'
            PROVE  Removed(Name[j], dockerEnv[j])'
        <5>1. PICK gone \in SUBSET UNION {Here(j, s) : s \in dockerEnv[j]}, nets \in SUBSET {Name[j]} :
                  /\ containers' = containers \ gone
                  /\ networks' = networks \ nets
                  /\ gone = UNION {Here(j, s) : s \in dockerEnv[j]}
                  /\ nets # {} \/ ~(Attached(Name[j]) \subseteq gone)
          BY <4>2, <4>5, <3>5 DEF TakeDown
        <5>2. Attached(Name[j]) \subseteq gone
          BY <4>1, <5>1 DEF Attached, Here, Accounted
        <5>3. Name[j] \notin networks'
          BY <5>1, <5>2
        <5>4. \A c \in containers' : c[1] = Name[j] => c[2] \notin dockerEnv[j] /\ c[3] = "exited"
          BY <4>1, <5>1 DEF Here, Accounted
        <5> QED
          BY <3>2, <5>3, <5>4 DEF Removed
      <4>6. DockerOf(j)'
        BY <2>0, <3>1, <3>2, <3>5, <4>4, <4>5 DEF DockerOf
      <4> QED
        BY <3>1, <4>6, DockerOfOne
    <3> QED
      BY <3>3, <3>4, <3>5
  <2>7. ASSUME NEW s \in Services[j], CreateContainer(j, s)
        PROVE  DockerInv'
    <3>1. Others(j) /\ UNCHANGED reuseContainers
      BY <2>0, <2>7 DEF CreateContainer, Others
    <3>2. DockerOf(j)'
      BY <2>0, <2>7 DEF CreateContainer, Here, DockerOf, Accounted, Kept
    <3> QED
      BY <3>1, <3>2, DockerOfOne
  <2>8. ASSUME NEW s \in Services[j], StartContainer(j, s)
        PROVE  DockerInv'
    <3>1. Others(j) /\ UNCHANGED reuseContainers
      BY <2>0, <2>8 DEF StartContainer, Here, Others
    <3>2. /\ pc'[j] = "create" /\ dockerEnv'[j] = dockerEnv[j] \cup {s} /\ j \notin setUp'
          /\ UNCHANGED networks
      BY <2>0, <2>8 DEF StartContainer, DockerOf
    <3>3. PICK t \in Services[j] \ dockerEnv[j] :
              \A c \in containers :
                  c[1] = Name[j] => \/ c[2] = t /\ c[3] = "created"
                                    \/ c[2] \in dockerEnv[j] /\ c[3] = "running"
                                    \/ c[2] \notin dockerEnv[j] \cup {t} /\ c[3] = "exited"
      BY <2>0, <2>8 DEF StartContainer, DockerOf
    <3>4. s = t
      BY <2>8, <3>3 DEF StartContainer
    <3>5. Accounted(Name[j], dockerEnv[j])'
      <4> SUFFICES ASSUME NEW c \in containers', c[1] = Name[j]
                   PROVE  \/ c[2] \in dockerEnv[j] \cup {s} /\ c[3] = "running"
                          \/ c[2] \notin dockerEnv[j] \cup {s} /\ c[3] = "exited"
        BY <3>2 DEF Accounted
      <4>1. CASE c = <<Name[j], s, "running">>
        BY <4>1
      <4>2. CASE c \in containers /\ c[2] # s
        BY <4>2, <3>3, <3>4
      <4> QED
        BY <2>8, <4>1, <4>2 DEF StartContainer, Here
    <3>6. Kept(Name[j], dockerEnv[j])'
      BY <2>0, <2>8, <3>2, <3>3, <3>4 DEF StartContainer, Here, Kept, DockerOf
    <3>7. DockerOf(j)'
      BY <3>2, <3>5, <3>6 DEF DockerOf
    <3> QED
      BY <3>1, <3>7, DockerOfOne
  <2>9. ASSUME NEW s \in Services[j], StartFails(j, s)
        PROVE  DockerInv'
    <3>1. Others(j) /\ UNCHANGED reuseContainers
      BY <2>0, <2>9 DEF StartFails, Here, Others
    <3>2. DockerOf(j)'
      BY <2>0, <2>9 DEF StartFails, DockerOf
    <3> QED
      BY <3>1, <3>2, DockerOfOne
  <2> QED
    BY <1>1, <2>1, <2>2, <2>3, <2>4, <2>5, <2>6, <2>7, <2>8, <2>9 DEF ServiceStep
<1>2. ASSUME NEW j \in Jobs, SetupStep(j) \/ LockStep(j) \/ StopStep(j)
      PROVE  DockerInv'
  <2>1. UNCHANGED dockerVars
    BY <1>2 DEF SetupStep, MessageFails, EnqueueJob, NewProcess, NewProcessFails, Start, RunnerStartFails,
        LockStep, Configure, ConfigureFails, StopStep, ResultReady, ContextReady, Interrupt, StopReturns, StopKills
  <2>2. \E l \in {"instance", "configure", "start", "select", "interrupt", "stopping", "teardown", "returned"} :
            /\ pc' = [pc EXCEPT ![j] = l]
            /\ j \in setUp => l # "returned"
    BY <1>2 DEF SetupStep, MessageFails, EnqueueJob, NewProcess, NewProcessFails, Start, RunnerStartFails,
        LockStep, Configure, ConfigureFails, StopStep, ResultReady, ContextReady, Interrupt, StopReturns, StopKills
  <2>3. CASE j \in setUp => pc[j] # "returned"
    <3>1. Others(j)
      BY <2>1, <2>2 DEF Others, TypeOK
    <3>2. DockerOf(j)'
      BY <2>1, <2>2, <2>3 DEF DockerInv, DockerOf, Accounted, Kept, TypeOK
    <3> QED
      BY <2>1, <3>1, <3>2, DockerOfOne
  <2>4. pc[j] # "returned"
    BY <1>2 DEF SetupStep, MessageFails, EnqueueJob, NewProcess, NewProcessFails, Start, RunnerStartFails, ToMessage,
        LockStep, Configure, ConfigureFails, StopStep, ResultReady, ContextReady, Interrupt, StopReturns, StopKills
  <2> QED
    BY <2>3, <2>4
<1>3. ASSUME NEW j \in Jobs,
             \/ LoadConfig(j) \/ TakeJob(j) \/ ProcessEnds(j) \/ WorkerEnds(j) \/ ContextEnds(j)
             \/ ReleaseConfig(j) \/ \E r \in {"succeeded", "failed"} : Report(j, r)
      PROVE  UNCHANGED <<pc, dockerVars>>
  BY <1>3 DEF LoadConfig, TakeJob, ProcessEnds, WorkerEnds, ContextEnds, ReleaseConfig, Report
<1>4. CASE UNCHANGED <<pc, dockerVars>>
  BY <1>4 DEF DockerInv, DockerOf, Accounted, Kept, Removed
<1>5. [Next]_vars => UNCHANGED <<pc, dockerVars>> \/ \E j \in Jobs : ServiceStep(j) \/ SetupStep(j) \/ LockStep(j) \/ StopStep(j)
  BY <1>3 DEF Next, ExecuteJob, Runner, vars
<1> QED
  BY <1>1, <1>2, <1>4, <1>5

\* However a job ends, its runner and its directory are gone, and so are the services it set up, or
\* docker refused to remove one, or all of them are there because --reuse-containers keeps them; the
\* lock over the configurations is released by its holder alone (executeJob, Teardown, Stop, Start).
THEOREM WhatWasSetUpIsTakenDown == ASSUME NamesDiffer PROVE Spec => []JobInv
<1>1. TypeOK /\ ProcessInv /\ DockerInv => JobInv
  <2> SUFFICES ASSUME TypeOK, ProcessInv, DockerInv
               PROVE  ServicesRemoved /\ RunnerRemoved
    BY DEF JobInv
  <2>1. ASSUME NEW j \in setUp, pc[j] = "returned", reuseContainers
        PROVE  Name[j] \in networks /\ \A s \in Services[j] : <<Name[j], s, "running">> \in containers
    BY <2>1 DEF TypeOK, DockerInv, DockerOf, Kept
  <2>2. ASSUME NEW j \in setUp, pc[j] = "returned", ~reuseContainers, j \notin refused
        PROVE  /\ Name[j] \notin networks /\ Attached(Name[j]) = {}
               /\ \A s \in Services[j] : Here(j, s) = {}
    <3>1. Removed(Name[j], Services[j])
      BY <2>2 DEF TypeOK, DockerInv, DockerOf
    <3> QED
      BY <3>1 DEF Removed, Attached, Here
  <2>3. ServicesRemoved
    BY <2>1, <2>2 DEF ServicesRemoved
  <2> QED
    BY <2>3 DEF ProcessInv, RunnerRemoved, DirOf
<1> QED
  BY InitOwn, InitDocker, NextType, NextProcess, NextDocker, <1>1, PTL DEF Spec

-----------------------------------------------------------------------------
\* Nothing is returned before the select, unless executeJob is on its way out.
BeforeSelect == {"begin", "create", "run", "undo", "message", "instance", "configure", "start"}

StatusInv == \A j \in Jobs : pc[j] \in BeforeSelect => status[j] = "none"

\* A job stays in its phase, or takes one of the steps it is assumed to take.
PhaseKept(j) == Phase(j)' # Phase(j) => PhaseStep(j)

\* A step of one job keeps StatusInv and the phases if it does for that job.
LEMMA PhaseOfOne ==
    ASSUME StatusInv, NEW j \in Jobs,
           \A k \in Jobs \ {j} : pc'[k] = pc[k] /\ status'[k] = status[k],
           pc'[j] \in BeforeSelect => status'[j] = "none",
           PhaseKept(j)
    PROVE  StatusInv' /\ \A k \in Jobs : PhaseKept(k)
<1>1. ASSUME NEW k \in Jobs, k # j
      PROVE  PhaseKept(k)
  BY <1>1 DEF PhaseKept, Phase
<1> QED
  BY <1>1 DEF StatusInv

\* Every step of the system is such a step.
LEMMA NextPhase ==
    TypeOK /\ StatusInv /\ [Next]_vars => StatusInv' /\ \A j \in Jobs : PhaseKept(j)
<1> SUFFICES ASSUME TypeOK, StatusInv, [Next]_vars
             PROVE  StatusInv' /\ \A j \in Jobs : PhaseKept(j)
  OBVIOUS
<1>1. /\ pc \in [Jobs -> {"begin", "create", "run", "undo", "message", "instance", "configure",
                          "start", "select", "interrupt", "stopping", "teardown", "returned"}]
      /\ status \in [Jobs -> {"none", "success", "failure", "cancelled"}]
      /\ resultCh \in [Jobs -> {"none", "succeeded", "failed"}]
  BY DEF TypeOK
\* On its way from one place before the select to the next, nothing is decided.
<1>2. ASSUME NEW j \in Jobs, pc[j] \in BeforeSelect, status' = status,
             \E l \in BeforeSelect : Goto(j, l)
      PROVE  StatusInv' /\ \A k \in Jobs : PhaseKept(k)
  <2>1. PhaseKept(j)
    BY <1>1, <1>2 DEF Goto, BeforeSelect, PhaseKept, Phase
  <2> QED
    BY <1>1, <1>2, <2>1, PhaseOfOne DEF Goto, StatusInv
\* What fails there makes the job a failure.
<1>3. ASSUME NEW j \in Jobs, pc[j] \in BeforeSelect, Leave(j, "failure")
      PROVE  StatusInv' /\ \A k \in Jobs : PhaseKept(k)
  <2>1. pc'[j] \in {"teardown", "returned"} /\ status'[j] = "failure" /\ status[j] = "none"
    BY <1>1, <1>3 DEF Leave, Goto, StatusInv
  <2>2. PhaseKept(j)
    BY <1>3, <2>1 DEF BeforeSelect, PhaseKept, Phase, PhaseStep
  <2> QED
    BY <1>1, <1>3, <2>1, <2>2, PhaseOfOne DEF Leave, Goto, BeforeSelect
\* After the select the decision stands.
<1>4. ASSUME NEW j \in Jobs, pc[j] \in {"interrupt", "stopping", "teardown"},
             pc' = [pc EXCEPT ![j] = pc'[j]], status' = status,
             pc'[j] \in {"stopping", "teardown", "returned"}
      PROVE  StatusInv' /\ \A k \in Jobs : PhaseKept(k)
  <2>1. PhaseKept(j)
    BY <1>1, <1>4 DEF PhaseKept, Phase
  <2> QED
    BY <1>1, <1>4, <2>1, PhaseOfOne DEF BeforeSelect
<1>5. ASSUME NEW j \in Jobs, ServiceStep(j)
      PROVE  StatusInv' /\ \A k \in Jobs : PhaseKept(k)
  <2>1. CASE CreateNetwork(j)
    BY <1>2, <2>1 DEF CreateNetwork, BeforeSelect
  <2>2. CASE NetworkFails(j)
    BY <1>3, <2>2 DEF NetworkFails, BeforeSelect
  <2>3. CASE CreateFails(j)
    BY <1>2, <2>3 DEF CreateFails, BeforeSelect
  <2>4. CASE UndoServices(j)
    BY <1>3, <2>4 DEF UndoServices, BeforeSelect
  <2>5. CASE ServicesReady(j)
    BY <1>2, <2>5 DEF ServicesReady, BeforeSelect
  <2>6. CASE Teardown(j)
    BY <1>1, <1>4, <2>6 DEF Teardown, Goto
  <2>7. ASSUME NEW s \in Services[j], CreateContainer(j, s) \/ StartContainer(j, s) \/ StartFails(j, s)
        PROVE  StatusInv' /\ \A k \in Jobs : PhaseKept(k)
    BY <1>2, <2>7 DEF CreateContainer, StartContainer, StartFails, BeforeSelect
  <2> QED
    BY <1>5, <2>1, <2>2, <2>3, <2>4, <2>5, <2>6, <2>7 DEF ServiceStep
<1>6. ASSUME NEW j \in Jobs, SetupStep(j)
      PROVE  StatusInv' /\ \A k \in Jobs : PhaseKept(k)
  <2>1. CASE MessageFails(j)
    BY <1>3, <2>1 DEF MessageFails, ToMessage, BeforeSelect
  <2>2. CASE EnqueueJob(j)
    BY <1>2, <2>2 DEF EnqueueJob, ToMessage, BeforeSelect
  <2>3. CASE NewProcess(j)
    BY <1>2, <2>3 DEF NewProcess, BeforeSelect
  <2>4. CASE NewProcessFails(j)
    BY <1>3, <2>4 DEF NewProcessFails, BeforeSelect
  <2>5. CASE Start(j)
    <3>1. pc[j] = "start" /\ j \notin ctxDone /\ pc' = [pc EXCEPT ![j] = "select"] /\ status' = status
      BY <2>5 DEF Start, Goto
    <3>2. status[j] = "none" /\ pc'[j] = "select"
      BY <1>1, <3>1 DEF StatusInv, BeforeSelect
    <3>3. PhaseKept(j)
      BY <3>1, <3>2 DEF PhaseKept, Phase, PhaseStep
    <3> QED
      BY <1>1, <3>1, <3>2, <3>3, PhaseOfOne DEF BeforeSelect
  <2>6. CASE RunnerStartFails(j)
    BY <1>3, <2>6 DEF RunnerStartFails, BeforeSelect
  <2> QED
    BY <1>6, <2>1, <2>2, <2>3, <2>4, <2>5, <2>6 DEF SetupStep
<1>7. ASSUME NEW j \in Jobs, LockStep(j)
      PROVE  StatusInv' /\ \A k \in Jobs : PhaseKept(k)
  <2>1. CASE Configure(j)
    BY <1>2, <2>1 DEF Configure, BeforeSelect
  <2>2. CASE ConfigureFails(j)
    BY <1>3, <2>2 DEF ConfigureFails, BeforeSelect
  <2> QED
    BY <1>7, <2>1, <2>2 DEF LockStep
<1>8. ASSUME NEW j \in Jobs, StopStep(j)
      PROVE  StatusInv' /\ \A k \in Jobs : PhaseKept(k)
  <2>1. CASE ResultReady(j)
    <3>1. /\ pc[j] = "select" /\ pc' = [pc EXCEPT ![j] = "interrupt"] /\ pc'[j] = "interrupt"
          /\ status' = [status EXCEPT ![j] = status'[j]]
          /\ \/ resultCh[j] = "succeeded" /\ status'[j] = "success"
             \/ resultCh[j] = "failed" /\ status'[j] = "failure"
      BY <1>1, <2>1 DEF ResultReady, Goto
    <3>2. PhaseKept(j)
      BY <3>1 DEF PhaseKept, Phase, PhaseStep
    <3> QED
      BY <1>1, <3>1, <3>2, PhaseOfOne DEF BeforeSelect
  <2>2. CASE ContextReady(j)
    <3>1. /\ pc[j] = "select" /\ pc' = [pc EXCEPT ![j] = "interrupt"] /\ pc'[j] = "interrupt"
          /\ status' = [status EXCEPT ![j] = "cancelled"] /\ status'[j] = "cancelled"
          /\ j \in ctxDone
      BY <1>1, <2>2 DEF ContextReady, Goto
    <3>2. PhaseKept(j)
      BY <3>1 DEF PhaseKept, Phase, PhaseStep
    <3> QED
      BY <1>1, <3>1, <3>2, PhaseOfOne DEF BeforeSelect
  <2>3. CASE Interrupt(j)
    BY <1>1, <1>4, <2>3 DEF Interrupt, Goto
  <2>4. CASE StopReturns(j) \/ StopKills(j)
    BY <1>1, <1>4, <2>4 DEF StopReturns, StopKills, Leave, Goto
  <2> QED
    BY <1>8, <2>1, <2>2, <2>3, <2>4 DEF StopStep
\* The runner, the timer and whoever ends the context move no goroutine.
<1>9. ASSUME UNCHANGED <<pc, status>>
      PROVE  StatusInv' /\ \A k \in Jobs : PhaseKept(k)
  BY <1>9 DEF StatusInv, PhaseKept, Phase
<1>10. ASSUME NEW j \in Jobs, Runner(j) \/ ReleaseConfig(j) \/ ContextEnds(j)
       PROVE  UNCHANGED <<pc, status>>
  BY <1>10 DEF Runner, LoadConfig, TakeJob, ProcessEnds, WorkerEnds, Report, ReleaseConfig, ContextEnds
<1>11. CASE UNCHANGED vars
  BY <1>9, <1>11 DEF vars
<1> QED
  BY <1>5, <1>6, <1>7, <1>8, <1>9, <1>10, <1>11 DEF Next, ExecuteJob

\* executeJob keeps what a run of the plan assumes of it (module WorkflowRun): no runner is started
\* once its context is done, "cancelled" is returned for no other reason, and what is returned
\* after the start is what was reported on this very job.
THEOREM PhasesAsAssumed == Spec => ExecutesAsAssumed
<1>1. Init => StatusInv
  BY DEF Init, StatusInv
<1>2. TypeOK /\ StatusInv /\ [Next]_vars => [\A j \in Jobs : Phase(j)' # Phase(j) => PhaseStep(j)]_vars
  BY NextPhase DEF PhaseKept
<1>3. TypeOK /\ StatusInv /\ [Next]_vars => StatusInv'
  BY NextPhase
<1> QED
  BY InitOwn, NextType, <1>1, <1>2, <1>3, PTL DEF Spec, ExecutesAsAssumed

-----------------------------------------------------------------------------
(* Called workflows.                                                       *)

FrameResults(w) == [JobsOfWorkflow(w) -> ResultValues]

\* A call under way.
Frame(f) ==
    /\ f = [workflow |-> f.workflow, phase |-> f.phase, group |-> f.group, inputs |-> f.inputs,
            secrets |-> f.secrets, results |-> f.results, outputs |-> f.outputs,
            success |-> f.success, calling |-> f.calling]
    /\ f.workflow \in Workflows
    /\ f.group \in 1..(Len(CallGroups[f.workflow]) + 1)
    /\ f.results \in FrameResults(f.workflow) /\ f.outputs \in FrameResults(f.workflow)
    /\ f.success \in BOOLEAN
    /\ DOMAIN Defaults[f.workflow] \subseteq DOMAIN f.inputs

\* The jobs of the groups a call is through with.
PastJobs(f) == UNION {CallGroups[f.workflow][g] : g \in 1..(f.group - 1)}

\* They have results, which later jobs are told, and the call failed if one of them did.
Progress(f) ==
    /\ \A j \in PastJobs(f) : f.results[j] # "none" /\ f.outputs[j] = f.results[j]
    /\ f.success <=> \A j \in PastJobs(f) : f.results[j] # "failure"

\* f waits for g, which it has called from a job of its group.
Waits(f, g) ==
    /\ f.group <= Len(CallGroups[f.workflow])
    /\ f.calling \in CallGroups[f.workflow][f.group]
    /\ Uses[f.calling] = g.workflow
    /\ Range(g.secrets) \cap Range(MainSecrets) \subseteq
          IF Passed[f.calling].how = "none" THEN {} ELSE Range(f.secrets)

StackInv ==
    /\ calls \in Seq(ToSet(calls))
    /\ \A i \in DOMAIN calls : Frame(calls[i]) /\ Progress(calls[i])
    /\ \A i \in DOMAIN calls :
          IF i = Len(calls) THEN calls[i].calling = NoJobCall ELSE Waits(calls[i], calls[i + 1])

\* What a call that is over says of its jobs.
Told(r) ==
    /\ r.status = "failure" <=> r.phase = "resolve" \/ \E j \in DOMAIN r.results : r.results[j] = "failure"
    /\ r.phase = "groups" => \A j \in JobsOfWorkflow(r.workflow) : r.results[j] # "none"

ReturnedInv ==
    /\ returned \in Seq(ToSet(returned))
    /\ \A i \in DOMAIN returned : Told(returned[i])

StartedInv ==
    /\ startedWith \in [CallJobs -> SUBSET ResultValues]
    /\ CalledNeedsHold

\* t is s with x at its end, and s with x at n.
Extended(s, x, t) ==
    /\ t \in Seq(ToSet(t)) /\ Len(t) = Len(s) + 1 /\ DOMAIN t = 1..(Len(s) + 1)
    /\ \A i \in DOMAIN s : t[i] = s[i]
    /\ t[Len(s) + 1] = x

Replaced(s, n, x, t) ==
    /\ t \in Seq(ToSet(t)) /\ Len(t) = Len(s) /\ DOMAIN t = DOMAIN s
    /\ \A i \in DOMAIN s : i # n => t[i] = s[i]
    /\ t[n] = x

\* g is f later on, no longer waiting if f was.
Later(f, g) ==
    Frame(g) /\ Progress(g) /\ g.workflow = f.workflow /\ g.secrets = f.secrets /\ g.calling = NoJobCall

\* The inductive invariant.
CallIInv == StackInv /\ ReturnedInv /\ StartedInv
-----------------------------------------------------------------------------
(* Sequences and groups.                                                   *)

LEMMA ElementsOfSeq ==
    ASSUME NEW S, NEW s \in Seq(S)
    PROVE  /\ s \in Seq(ToSet(s)) /\ Len(s) \in Nat /\ DOMAIN s = 1..Len(s)
           /\ \A i \in DOMAIN s : s[i] \in S
  <1>1. s \in [1..Len(s) -> S] /\ Len(s) \in Nat
    OBVIOUS
  <1>2. \A i \in DOMAIN s : s[i] \in ToSet(s)
    BY <1>1 DEF ToSet
  <1>3. s \in [1..Len(s) -> ToSet(s)]
    BY <1>1, <1>2
  <1> QED BY <1>1, <1>3, SeqDef

LEMMA OneMore ==
    ASSUME NEW S, NEW s \in Seq(S), NEW x
    PROVE  Extended(s, x, Append(s, x))
  <1>1. s \in Seq(S \cup {x})
    BY SeqDef
  <1>2. Append(s, x) \in Seq(S \cup {x})
    BY <1>1
  <1>3. Append(s, x) \in Seq(ToSet(Append(s, x)))
    BY <1>2, ElementsOfSeq
  <1> QED BY <1>1, <1>2, <1>3 DEF Extended

LEMMA OneChanged ==
    ASSUME NEW S, NEW s \in Seq(S), NEW n \in DOMAIN s, NEW x
    PROVE  Replaced(s, n, x, [s EXCEPT ![n] = x])
  <1> DEFINE t == [s EXCEPT ![n] = x]
  <1>1. s \in [1..Len(s) -> S] /\ Len(s) \in Nat /\ DOMAIN s = 1..Len(s)
    OBVIOUS
  <1>2. t \in [1..Len(s) -> S \cup {x}]
    BY <1>1
  <1>3. t \in Seq(S \cup {x})
    BY <1>1, <1>2, SeqDef
  <1>4. t \in Seq(ToSet(t))
    BY <1>3, ElementsOfSeq
  <1>5. Len(t) = Len(s)
    BY <1>1, <1>2, <1>3
  <1> QED BY <1>1, <1>2, <1>3, <1>4, <1>5 DEF Replaced

LEMMA OneLess ==
    ASSUME NEW S, NEW s \in Seq(S), NEW m \in Nat, Len(s) = m + 1, NEW t, t = SubSeq(s, 1, m)
    PROVE  /\ t \in Seq(S) /\ Len(t) = m /\ DOMAIN t = 1..m
           /\ \A i \in DOMAIN t : t[i] = s[i]
  <1>1. \A i \in 1..m : s[i] \in S
    OBVIOUS
  <1>2. t \in Seq(S)
    BY <1>1, SubSeqProperties
  <1>3. Len(t) = m
    BY <1>1
  <1>4. DOMAIN t = 1..m
    BY <1>2, <1>3
  <1>5. \A i \in 1..m : t[i] = s[i]
    OBVIOUS
  <1> QED BY <1>2, <1>3, <1>4, <1>5

LEMMA Groups ==
    ASSUME NEW w \in Workflows
    PROVE  /\ CallGroups[w] \in Seq(SUBSET CallJobs) /\ Len(CallGroups[w]) \in Nat
           /\ DOMAIN CallGroups[w] = 1..Len(CallGroups[w])
           /\ \A g \in DOMAIN CallGroups[w] : CallGroups[w][g] \subseteq JobsOfWorkflow(w) \cap CallJobs
           /\ \A j \in JobsOfWorkflow(w) : \E g \in DOMAIN CallGroups[w] : j \in CallGroups[w][g]
           /\ \A g, h \in DOMAIN CallGroups[w] : \A j \in CallGroups[w][g] : j \in CallGroups[w][h] => g = h
  <1>1. CallGroups[w] \in Seq(SUBSET CallJobs)
    BY CallAssumption
  <1>2. Len(CallGroups[w]) \in Nat /\ DOMAIN CallGroups[w] = 1..Len(CallGroups[w])
    BY <1>1
  <1>3. JobsOfWorkflow(w) = UNION {CallGroups[w][g] : g \in DOMAIN CallGroups[w]}
    BY DEF JobsOfWorkflow, ToSet
  <1>4. \A g \in DOMAIN CallGroups[w] : CallGroups[w][g] \subseteq CallJobs
    BY <1>1, <1>2
  <1>5. \A g, h \in DOMAIN CallGroups[w] : \A j \in CallGroups[w][g] : j \in CallGroups[w][h] => g = h
    BY CallAssumption
  <1> QED BY <1>1, <1>2, <1>3, <1>4, <1>5
-----------------------------------------------------------------------------
(* One call.                                                               *)

LEMMA NewFrame ==
    ASSUME NEW w \in Workflows, NEW inputs, NEW secrets, DOMAIN Defaults[w] \subseteq DOMAIN inputs,
           NEW f, f = Call(w, inputs, secrets)
    PROVE  Frame(f) /\ Progress(f) /\ f.calling = NoJobCall /\ f.workflow = w /\ f.secrets = secrets
  <1>1. /\ f.workflow = w /\ f.phase = "resolve" /\ f.group = 1 /\ f.inputs = inputs
        /\ f.secrets = secrets /\ f.success = TRUE /\ f.calling = NoJobCall
        /\ f.results = [j \in JobsOfWorkflow(w) |-> "none"]
        /\ f.outputs = [j \in JobsOfWorkflow(w) |-> "none"]
    BY DEF Call
  <1>2. f = [workflow |-> f.workflow, phase |-> f.phase, group |-> f.group, inputs |-> f.inputs,
             secrets |-> f.secrets, results |-> f.results, outputs |-> f.outputs,
             success |-> f.success, calling |-> f.calling]
    BY <1>1 DEF Call
  <1>3. f.results \in FrameResults(w) /\ f.outputs \in FrameResults(w)
    BY <1>1 DEF FrameResults, ResultValues
  <1>4. 1 \in 1..(Len(CallGroups[w]) + 1)
    BY Groups
  <1>5. PastJobs(f) = {}
    BY <1>1 DEF PastJobs
  <1> QED BY <1>1, <1>2, <1>3, <1>4, <1>5 DEF Frame, Progress

LEMMA ResolvedFrame ==
    ASSUME NEW f, Frame(f), Progress(f), NEW g, g = [f EXCEPT !.phase = "groups"]
    PROVE  f.calling = NoJobCall => Later(f, g)
  <1>1. /\ g.workflow = f.workflow /\ g.phase = "groups" /\ g.group = f.group /\ g.inputs = f.inputs
        /\ g.secrets = f.secrets /\ g.success = f.success /\ g.calling = f.calling
        /\ g.results = f.results /\ g.outputs = f.outputs
        /\ g = [workflow |-> g.workflow, phase |-> g.phase, group |-> g.group, inputs |-> g.inputs,
                secrets |-> g.secrets, results |-> g.results, outputs |-> g.outputs,
                success |-> g.success, calling |-> g.calling]
    BY DEF Frame
  <1>2. PastJobs(g) = PastJobs(f)
    BY <1>1 DEF PastJobs
  <1>3. Frame(g)
    BY <1>1 DEF Frame
  <1>4. Progress(g)
    BY <1>1, <1>2 DEF Progress
  <1> QED BY <1>1, <1>3, <1>4 DEF Later

LEMMA CallingFrame ==
    ASSUME NEW f, Frame(f), Progress(f), NEW j, NEW g, g = [f EXCEPT !.calling = j]
    PROVE  /\ Frame(g) /\ Progress(g) /\ g.workflow = f.workflow /\ g.secrets = f.secrets
           /\ g.calling = j /\ g.group = f.group
  <1>1. /\ g.workflow = f.workflow /\ g.phase = f.phase /\ g.group = f.group /\ g.inputs = f.inputs
        /\ g.secrets = f.secrets /\ g.success = f.success /\ g.calling = j
        /\ g.results = f.results /\ g.outputs = f.outputs
        /\ g = [workflow |-> g.workflow, phase |-> g.phase, group |-> g.group, inputs |-> g.inputs,
                secrets |-> g.secrets, results |-> g.results, outputs |-> g.outputs,
                success |-> g.success, calling |-> g.calling]
    BY DEF Frame
  <1>2. PastJobs(g) = PastJobs(f)
    BY <1>1 DEF PastJobs
  <1>3. Frame(g)
    BY <1>1 DEF Frame
  <1>4. Progress(g)
    BY <1>1, <1>2 DEF Progress
  <1> QED BY <1>1, <1>3, <1>4

\* A job of the group gets its result.
LEMMA DecidedFrame ==
    ASSUME NEW f, Frame(f), Progress(f), f.group <= Len(CallGroups[f.workflow]),
           NEW j, j \in CallGroups[f.workflow][f.group], NEW s \in ResultValues,
           NEW g, g = [f EXCEPT !.results[j] = s, !.calling = NoJobCall]
    PROVE  Later(f, g)
  <1>1. /\ g.workflow = f.workflow /\ g.phase = f.phase /\ g.group = f.group /\ g.inputs = f.inputs
        /\ g.secrets = f.secrets /\ g.success = f.success /\ g.calling = NoJobCall
        /\ g.results = [f.results EXCEPT ![j] = s] /\ g.outputs = f.outputs
    BY DEF Frame
  <1>2. g = [workflow |-> g.workflow, phase |-> g.phase, group |-> g.group, inputs |-> g.inputs,
             secrets |-> g.secrets, results |-> g.results, outputs |-> g.outputs,
             success |-> g.success, calling |-> g.calling]
    BY DEF Frame
  <1>4. f.workflow \in Workflows /\ f.group \in Nat /\ f.group \in DOMAIN CallGroups[f.workflow]
    BY Groups DEF Frame
  <1>5. PastJobs(g) = PastJobs(f) /\ j \notin PastJobs(f)
    <2>1. \A h \in 1..(f.group - 1) : h \in DOMAIN CallGroups[f.workflow] /\ h # f.group
      BY <1>4, Groups
    <2>2. \A h \in 1..(f.group - 1) : j \notin CallGroups[f.workflow][h]
      BY <1>4, <2>1, Groups
    <2> QED BY <1>1, <2>2 DEF PastJobs
  <1>6. g.results \in FrameResults(f.workflow)
    BY <1>1 DEF FrameResults, Frame
  <1>7. \A i : i # j => g.results[i] = f.results[i]
    BY <1>1 DEF Frame, FrameResults
  <1>8. Frame(g)
    BY <1>1, <1>2, <1>6 DEF Frame
  <1>9. \A i \in PastJobs(f) : g.results[i] = f.results[i]
    BY <1>5, <1>7
  <1>10. Progress(g)
    BY <1>1, <1>5, <1>9 DEF Progress
  <1> QED BY <1>1, <1>8, <1>10 DEF Later
-----------------------------------------------------------------------------
(* The stack.                                                              *)

LEMMA Top ==
    ASSUME StackInv, calls # <<>>
    PROVE  /\ Len(calls) \in Nat /\ Len(calls) >= 1 /\ DOMAIN calls = 1..Len(calls)
           /\ Len(calls) \in DOMAIN calls /\ Inner = calls[Len(calls)]
           /\ Frame(Inner) /\ Progress(Inner) /\ Inner.calling = NoJobCall
  <1>1. Len(calls) \in Nat /\ DOMAIN calls = 1..Len(calls) /\ Len(calls) >= 1
    BY DEF StackInv
  <1>2. Inner = calls[Len(calls)]
    BY DEF Inner, Last
  <1> QED BY <1>1, <1>2 DEF StackInv

LEMMA ChangeTop ==
    ASSUME StackInv, calls # <<>>, NEW f, calls' = WithInner(f), Later(Inner, f)
    PROVE  StackInv'
  <1>0. PICK n \in Nat : n = Len(calls)
    BY Top
  <1>1. n \in DOMAIN calls /\ Inner = calls[n] /\ DOMAIN calls = 1..n
    BY <1>0, Top
  <1>a. PICK s : s = calls /\ s \in Seq(ToSet(s))
    BY DEF StackInv
  <1>b. PICK t : t = [s EXCEPT ![n] = f]
    OBVIOUS
  <1>c. calls' = t
    BY <1>0, <1>a, <1>b DEF WithInner
  <1>2. /\ calls' \in Seq(ToSet(calls')) /\ Len(calls') = n /\ DOMAIN calls' = DOMAIN calls
        /\ \A i \in DOMAIN calls : i # n => calls'[i] = calls[i]
        /\ calls'[n] = f
    <2>1. Replaced(s, n, f, t)
      BY <1>1, <1>a, <1>b, OneChanged
    <2> QED BY <1>0, <1>a, <1>c, <2>1 DEF Replaced
  <1>3. \A i \in DOMAIN calls' : Frame(calls'[i]) /\ Progress(calls'[i])
    BY <1>1, <1>2 DEF StackInv, Later
  <1>4. ASSUME NEW i \in DOMAIN calls', i # n PROVE Waits(calls'[i], calls'[i + 1])
    <2>1. Waits(calls[i], calls[i + 1]) /\ calls'[i] = calls[i] /\ i + 1 \in DOMAIN calls
      BY <1>1, <1>2, <1>4 DEF StackInv
    <2>2. calls'[i + 1].workflow = calls[i + 1].workflow /\ calls'[i + 1].secrets = calls[i + 1].secrets
      BY <1>1, <1>2, <2>1 DEF Later
    <2> QED BY <2>1, <2>2 DEF Waits
  <1> QED BY <1>2, <1>3, <1>4 DEF StackInv, Later

LEMMA PushCall ==
    ASSUME StackInv, calls # <<>>, NEW f, NEW g, calls' = Append(WithInner(f), g),
           Frame(f), Progress(f), f.workflow = Inner.workflow, f.secrets = Inner.secrets,
           Frame(g), Progress(g), g.calling = NoJobCall, Waits(f, g)
    PROVE  StackInv'
  <1>0. PICK n \in Nat : n = Len(calls)
    BY Top
  <1>1. n \in DOMAIN calls /\ Inner = calls[n] /\ DOMAIN calls = 1..n
    BY <1>0, Top
  <1>a. PICK s : s = calls /\ s \in Seq(ToSet(s))
    BY DEF StackInv
  <1>b. PICK t : t = [s EXCEPT ![n] = f]
    OBVIOUS
  <1>2. t = WithInner(f) /\ calls' = Append(t, g)
    BY <1>0, <1>a, <1>b DEF WithInner
  <1>3. /\ t \in Seq(ToSet(t)) /\ Len(t) = n /\ DOMAIN t = DOMAIN calls
        /\ \A i \in DOMAIN calls : i # n => t[i] = calls[i]
        /\ t[n] = f
    <2>1. Replaced(s, n, f, t)
      BY <1>1, <1>a, <1>b, OneChanged
    <2> QED BY <1>0, <1>a, <2>1 DEF Replaced
  <1>4. /\ calls' \in Seq(ToSet(calls')) /\ Len(calls') = n + 1 /\ DOMAIN calls' = 1..(n + 1)
        /\ \A i \in DOMAIN t : calls'[i] = t[i]
        /\ calls'[n + 1] = g
    <2>1. Extended(t, g, Append(t, g))
      BY <1>3, OneMore
    <2> QED BY <1>2, <1>3, <2>1 DEF Extended
  <1>5. ASSUME NEW i \in DOMAIN calls' PROVE Frame(calls'[i]) /\ Progress(calls'[i])
    <2>1. i \in DOMAIN calls \/ i = n + 1
      BY <1>1, <1>4
    <2>2. i \in DOMAIN calls => calls'[i] = calls[i] \/ calls'[i] = f
      BY <1>3, <1>4
    <2> QED BY <1>4, <2>1, <2>2 DEF StackInv
  <1>6. ASSUME NEW i \in DOMAIN calls', i # n + 1 PROVE Waits(calls'[i], calls'[i + 1])
    <2>1. CASE i = n
      BY <1>1, <1>3, <1>4, <2>1
    <2>2. CASE i # n
      <3>1. i \in DOMAIN calls /\ i + 1 \in DOMAIN calls
        BY <1>1, <1>4, <1>6, <2>2
      <3>2. Waits(calls[i], calls[i + 1]) /\ calls'[i] = calls[i]
        BY <1>3, <1>4, <2>2, <3>1 DEF StackInv
      <3>3. calls'[i + 1].workflow = calls[i + 1].workflow /\ calls'[i + 1].secrets = calls[i + 1].secrets
        BY <1>1, <1>3, <1>4, <3>1
      <3> QED BY <3>2, <3>3 DEF Waits
    <2> QED BY <2>1, <2>2
  <1> QED BY <1>4, <1>5, <1>6 DEF StackInv

LEMMA PopCall ==
    ASSUME StackInv, calls # <<>>, NEW s0 \in ResultValues, Finish(s0)
    PROVE  StackInv'
  <1>a. PICK n \in Nat : n = Len(calls)
    BY Top
  <1>b. PICK m \in Nat : m = n - 1
    BY <1>a, Top
  <1>1. n \in DOMAIN calls /\ Inner = calls[n] /\ DOMAIN calls = 1..n /\ n = m + 1
    BY <1>a, <1>b, Top
  <1>2. PICK outer : outer = SubSeq(calls, 1, m)
    OBVIOUS
  <1>c. PICK s : s = calls /\ s \in Seq(ToSet(s)) /\ Len(s) = m + 1
    BY <1>a, <1>1 DEF StackInv
  <1>d. outer = SubSeq(s, 1, m)
    BY <1>2, <1>c
  <1>3. /\ outer \in Seq(ToSet(s)) /\ Len(outer) = m /\ DOMAIN outer = 1..m
        /\ \A i \in DOMAIN outer : outer[i] = calls[i]
    BY <1>c, <1>d, OneLess
  <1>4. calls' = IF outer = <<>> THEN <<>>
                 ELSE [outer EXCEPT ![Len(outer)].results[Last(outer).calling] = s0,
                                    ![Len(outer)].calling = NoJobCall]
    BY <1>a, <1>b, <1>2 DEF Finish
  <1>5. CASE outer = <<>>
    <2>1. calls' = <<>> /\ DOMAIN calls' = {} /\ calls' \in Seq(ToSet(calls'))
      BY <1>4, <1>5
    <2> QED BY <2>1 DEF StackInv
  <1>6. CASE outer # <<>>
    <2>1. m >= 1 /\ m \in DOMAIN outer /\ m \in DOMAIN calls /\ m + 1 = n
      BY <1>1, <1>3, <1>6
    <2>2. PICK f : f = outer[m]
      OBVIOUS
    <2>3. PICK g : g = [f EXCEPT !.results[f.calling] = s0, !.calling = NoJobCall]
      OBVIOUS
    <2>4. Frame(f) /\ Progress(f) /\ Waits(f, calls[n])
      BY <1>1, <1>3, <2>1, <2>2 DEF StackInv
    <2>5. f.group <= Len(CallGroups[f.workflow]) /\ f.calling \in CallGroups[f.workflow][f.group]
      BY <2>4 DEF Waits
    <2>6. Frame(g) /\ Progress(g) /\ g.workflow = f.workflow /\ g.secrets = f.secrets /\ g.calling = NoJobCall
      <3>1. PICK j : j = f.calling
        OBVIOUS
      <3>2. g = [f EXCEPT !.results[j] = s0, !.calling = NoJobCall]
        BY <2>3, <3>1
      <3>3. Later(f, g)
        BY <2>4, <2>5, <3>1, <3>2, DecidedFrame
      <3> QED BY <3>3 DEF Later
    <2>7. Len(outer) = m /\ Last(outer) = f
      BY <1>3, <2>2 DEF Last
    <2>8. calls' = [outer EXCEPT ![m] = g]
      BY <1>4, <1>6, <2>2, <2>3, <2>7
    <2>9. /\ calls' \in Seq(ToSet(calls')) /\ Len(calls') = m /\ DOMAIN calls' = 1..m
          /\ \A i \in DOMAIN outer : i # m => calls'[i] = outer[i]
          /\ calls'[m] = g
      <3>1. PICK t : t = [outer EXCEPT ![m] = g]
        OBVIOUS
      <3>2. calls' = t
        BY <2>8, <3>1
      <3>3. Replaced(outer, m, g, t)
        BY <1>3, <2>1, <3>1, OneChanged
      <3> QED BY <1>3, <3>2, <3>3 DEF Replaced
    <2>10. \A i \in DOMAIN calls' : Frame(calls'[i]) /\ Progress(calls'[i])
      BY <1>1, <1>3, <2>1, <2>6, <2>9 DEF StackInv
    <2>11. ASSUME NEW i \in DOMAIN calls', i # m PROVE Waits(calls'[i], calls'[i + 1])
      <3>1. i \in DOMAIN calls /\ i # n /\ i \in DOMAIN outer /\ i + 1 \in DOMAIN outer
        BY <1>1, <1>3, <2>1, <2>9, <2>11
      <3>2. Waits(calls[i], calls[i + 1])
        BY <1>a, <3>1 DEF StackInv
      <3>4. calls'[i] = calls[i]
        BY <1>3, <2>9, <2>11, <3>1
      <3>3. calls'[i + 1].workflow = calls[i + 1].workflow /\ calls'[i + 1].secrets = calls[i + 1].secrets
        BY <1>3, <2>2, <2>6, <2>9, <3>1
      <3> QED BY <3>2, <3>3, <3>4 DEF Waits
    <2> QED BY <2>6, <2>9, <2>10, <2>11 DEF StackInv
  <1> QED BY <1>5, <1>6

LEMMA DecidedTop ==
    ASSUME NEW f, Frame(f), Progress(f), f.group <= Len(CallGroups[f.workflow]), f.calling = NoJobCall,
           NEW j, j \in CallGroups[f.workflow][f.group], NEW s \in ResultValues,
           NEW g, g = [f EXCEPT !.results[j] = s]
    PROVE  Later(f, g)
  <1>1. g = [f EXCEPT !.results[j] = s, !.calling = NoJobCall]
    BY DEF Frame
  <1> QED BY <1>1, DecidedFrame

\* A group has results for all its jobs.
LEMMA NextGroup ==
    ASSUME StackInv, calls # <<>>, Inner.group <= Len(CallGroups[Inner.workflow]), Undecided = {},
           Inner.calling = NoJobCall,
           NEW g, g = [Inner EXCEPT !.success = Succeeded(Inner), !.outputs = OutputsAfter(Inner),
                                    !.group = @ + 1]
    PROVE  Later(Inner, g)
  <1>1. PICK f : f = Inner
    OBVIOUS
  <1>2. Frame(f) /\ Progress(f) /\ f.workflow \in Workflows /\ f.group \in Nat /\ f.group >= 1
        /\ f.calling = NoJobCall
    BY <1>1, Top, Groups DEF Frame
  <1>3. PICK now : now = CallGroups[f.workflow][f.group]
    OBVIOUS
  <1>4. now = Group
    BY <1>1, <1>3 DEF Group
  <1>5. \A j \in now : f.results[j] # "none"
    BY <1>1, <1>4 DEF Undecided
  <1>6. /\ g.workflow = f.workflow /\ g.phase = f.phase /\ g.group = f.group + 1 /\ g.inputs = f.inputs
        /\ g.secrets = f.secrets /\ g.calling = NoJobCall /\ g.results = f.results
        /\ g.success = Succeeded(f) /\ g.outputs = OutputsAfter(f)
        /\ g = [workflow |-> g.workflow, phase |-> g.phase, group |-> g.group, inputs |-> g.inputs,
                secrets |-> g.secrets, results |-> g.results, outputs |-> g.outputs,
                success |-> g.success, calling |-> g.calling]
    BY <1>1, <1>2 DEF Frame
  <1>7. /\ g.success <=> f.success /\ \A j \in now : f.results[j] # "failure"
        /\ g.success \in BOOLEAN
    BY <1>2, <1>4, <1>6 DEF Succeeded, Frame
  <1>8. g.outputs = [j \in DOMAIN f.outputs |-> IF j \in now THEN f.results[j] ELSE f.outputs[j]]
    BY <1>4, <1>6 DEF OutputsAfter
  <1>9. f.results \in FrameResults(f.workflow) /\ f.outputs \in FrameResults(f.workflow)
    BY <1>2 DEF Frame
  <1>10. g.outputs \in FrameResults(f.workflow)
    BY <1>8, <1>9 DEF FrameResults
  <1>11. f.group \in DOMAIN CallGroups[f.workflow] /\ f.group + 1 \in 1..(Len(CallGroups[f.workflow]) + 1)
    BY <1>1, <1>2, Groups
  <1>12. Frame(g)
    BY <1>2, <1>6, <1>7, <1>9, <1>10, <1>11 DEF Frame
  <1>13. PastJobs(g) = PastJobs(f) \cup now
    <2>1. 1..(g.group - 1) = (1..(f.group - 1)) \cup {f.group}
      BY <1>2, <1>6
    <2> QED BY <1>3, <1>6, <2>1 DEF PastJobs
  <1>14. PastJobs(g) \subseteq JobsOfWorkflow(f.workflow)
    <2>1. \A h \in 1..(g.group - 1) : h \in DOMAIN CallGroups[f.workflow]
      BY <1>2, <1>6, <1>11, Groups
    <2>2. \A h \in 1..(g.group - 1) : CallGroups[f.workflow][h] \subseteq JobsOfWorkflow(f.workflow)
      BY <1>2, <2>1, Groups
    <2> QED BY <1>6, <2>2 DEF PastJobs
  <1>15. \A j \in PastJobs(g) : g.outputs[j] = f.results[j] /\ f.results[j] # "none"
    <2>1. TAKE j \in PastJobs(g)
    <2>2. j \in DOMAIN f.outputs /\ g.outputs[j] = IF j \in now THEN f.results[j] ELSE f.outputs[j]
      BY <1>8, <1>9, <1>14 DEF FrameResults
    <2> QED BY <1>2, <1>5, <1>13, <2>2 DEF Progress
  <1>16. Progress(g)
    BY <1>2, <1>6, <1>7, <1>13, <1>15 DEF Progress
  <1> QED BY <1>1, <1>6, <1>12, <1>16 DEF Later

\* What a job is given holds no secret its caller was not to pass on.
LEMMA SecretsGoDown ==
    ASSUME NEW j \in CallJobs, NEW held
    PROVE  Range(MapSecrets(held, Passed[j])) \cap Range(MainSecrets)
              \subseteq IF Passed[j].how = "none" THEN {} ELSE Range(held)
  <1> DEFINE given == MapSecrets(held, Passed[j])
  <1>1. CASE Passed[j].how = "none"
    <2>1. given = <<>>
      BY <1>1 DEF MapSecrets
    <2>2. Range(given) = {}
      BY <2>1 DEF Range
    <2> QED BY <2>2
  <1>2. CASE Passed[j].how = "inherit"
    <2>1. given = held
      BY <1>2 DEF MapSecrets
    <2> QED BY <1>2, <2>1
  <1>3. CASE Passed[j].how \notin {"none", "inherit"}
    <2> DEFINE names == Passed[j].names
    <2>1. given = [n \in DOMAIN names |-> IF names[n] \in DOMAIN held THEN held[names[n]] ELSE names[n]]
      BY <1>3 DEF MapSecrets
    <2>0. Range(names) \cap Range(MainSecrets) = {}
      BY <1>3, CallAssumption
    <2>2. \A n \in DOMAIN names : names[n] \notin Range(MainSecrets)
      BY <2>0 DEF Range
    <2>3. ASSUME NEW v \in Range(given), v \in Range(MainSecrets) PROVE v \in Range(held)
      <3>1. PICK n \in DOMAIN names : v = IF names[n] \in DOMAIN held THEN held[names[n]] ELSE names[n]
        BY <2>1, <2>3 DEF Range
      <3>2. names[n] \in DOMAIN held /\ v = held[names[n]]
        BY <2>2, <2>3, <3>1
      <3> QED BY <3>2 DEF Range
    <2> QED BY <1>3, <2>3
  <1> QED BY <1>1, <1>2, <1>3
-----------------------------------------------------------------------------
(* Steps.                                                                  *)

LEMMA CallInitInv == CallInit => CallIInv
  <1> SUFFICES ASSUME CallInit PROVE CallIInv
    OBVIOUS
  <1>1. PICK f : f = Call(Main, Defaults[Main], MainSecrets)
    OBVIOUS
  <1>2. Frame(f) /\ Progress(f) /\ f.calling = NoJobCall
    BY <1>1, CallAssumption, NewFrame
  <1>3. calls = <<f>> /\ returned = <<>> /\ startedWith = [j \in CallJobs |-> {}]
    BY <1>1 DEF CallInit
  <1>4. calls \in Seq({f}) /\ Len(calls) = 1 /\ DOMAIN calls = {1} /\ calls[1] = f
    BY <1>3
  <1>5. calls \in Seq(ToSet(calls))
    BY <1>4, ElementsOfSeq
  <1>6. StackInv
    BY <1>2, <1>4, <1>5 DEF StackInv
  <1>7. ReturnedInv
    BY <1>3 DEF ReturnedInv
  <1>8. StartedInv
    BY <1>3 DEF StartedInv, CalledNeedsHold
  <1> QED BY <1>6, <1>7, <1>8 DEF CallIInv

\* Where the jobs of a group are.
LEMMA InGroup ==
    ASSUME StackInv, InGroups, Inner.group <= Len(CallGroups[Inner.workflow]), NEW j \in Undecided
    PROVE  /\ calls # <<>> /\ j \in CallGroups[Inner.workflow][Inner.group] /\ j \in CallJobs
           /\ CallNeeds[j] \subseteq PastJobs(Inner)
           /\ CallNeeds[j] \subseteq JobsOfWorkflow(Inner.workflow)
  <1>1. calls # <<>> /\ Inner.workflow \in Workflows /\ Inner.group \in 1..(Len(CallGroups[Inner.workflow]) + 1)
    BY Top DEF InGroups, Frame
  <1>2. j \in CallGroups[Inner.workflow][Inner.group]
    BY DEF Undecided, Group
  <1>3. Inner.group \in DOMAIN CallGroups[Inner.workflow]
    BY <1>1, Groups
  <1>4. j \in CallJobs
    BY <1>1, <1>2, <1>3, Groups
  <1>5. \A d \in CallNeeds[j] : \E h \in 1..(Inner.group - 1) : d \in CallGroups[Inner.workflow][h]
    BY <1>1, <1>2, <1>3, CallAssumption
  <1>6. \A h \in 1..(Inner.group - 1) : h \in DOMAIN CallGroups[Inner.workflow]
    BY <1>1, Groups
  <1>7. \A h \in 1..(Inner.group - 1) : CallGroups[Inner.workflow][h] \subseteq JobsOfWorkflow(Inner.workflow)
    BY <1>1, <1>6, Groups
  <1> QED BY <1>1, <1>2, <1>4, <1>5, <1>7 DEF PastJobs

LEMMA StackStep ==
    ASSUME StackInv, [CallNext]_callVars
    PROVE  StackInv'
  <1>1. CASE ResolveFails
    BY <1>1, PopCall DEF ResolveFails, ResultValues
  <1>2. CASE Resolve
    <2>1. PICK g : g = [Inner EXCEPT !.phase = "groups"]
      OBVIOUS
    <2>2. calls # <<>> /\ calls' = WithInner(g)
      BY <1>2, <2>1 DEF Resolve
    <2>3. PICK f : f = Inner
      OBVIOUS
    <2>4. Later(f, g)
      BY <2>1, <2>2, <2>3, Top, ResolvedFrame
    <2> QED BY <2>2, <2>3, <2>4, ChangeTop
  <1>3. ASSUME InGroups, Inner.group <= Len(CallGroups[Inner.workflow]), NEW j \in Undecided,
               NEW s \in ResultValues, calls' = WithInner([Inner EXCEPT !.results[j] = s])
        PROVE  StackInv'
    <2>1. PICK g : g = [Inner EXCEPT !.results[j] = s]
      OBVIOUS
    <2>2. PICK f : f = Inner
      OBVIOUS
    <2>3. calls # <<>> /\ j \in CallGroups[f.workflow][f.group] /\ calls' = WithInner(g)
      BY <1>3, <2>1, <2>2, InGroup
    <2>4. Frame(f) /\ Progress(f) /\ f.calling = NoJobCall /\ f.group <= Len(CallGroups[f.workflow])
      BY <1>3, <2>2, <2>3, Top
    <2>5. g = [f EXCEPT !.results[j] = s]
      BY <2>1, <2>2
    <2>6. Later(f, g)
      BY <2>3, <2>4, <2>5, DecidedTop
    <2> QED BY <2>2, <2>3, <2>6, ChangeTop
  <1>4. ASSUME InGroups, Inner.group <= Len(CallGroups[Inner.workflow]), NEW j \in Undecided, CallWorkflow(j)
        PROVE  StackInv'
    <2>1. PICK f : f = Inner
      OBVIOUS
    <2>2. PICK h : h = [f EXCEPT !.calling = j]
      OBVIOUS
    <2>3. PICK inputs : inputs = MapInputs(With[j], Defaults[Uses[j]])
      OBVIOUS
    <2>4. PICK secrets : secrets = MapSecrets(f.secrets, Passed[j])
      OBVIOUS
    <2>5. PICK g : g = Call(Uses[j], inputs, secrets)
      OBVIOUS
    <2>6. /\ calls # <<>> /\ j \in CallGroups[f.workflow][f.group] /\ j \in CallJobs
          /\ Frame(f) /\ Progress(f) /\ f.group <= Len(CallGroups[f.workflow])
      BY <1>4, <2>1, Top, InGroup
    <2>7. Uses[j] \in Workflows
      BY <1>4, <2>6, CallAssumption DEF CallWorkflow
    <2>8. DOMAIN Defaults[Uses[j]] \subseteq DOMAIN inputs
      BY <2>3 DEF MapInputs
    <2>9. Frame(g) /\ Progress(g) /\ g.calling = NoJobCall /\ g.workflow = Uses[j] /\ g.secrets = secrets
      BY <2>5, <2>7, <2>8, NewFrame
    <2>10. /\ Frame(h) /\ Progress(h) /\ h.workflow = f.workflow /\ h.secrets = f.secrets
           /\ h.calling = j /\ h.group = f.group
      BY <2>2, <2>6, CallingFrame
    <2>11. Range(secrets) \cap Range(MainSecrets) \subseteq IF Passed[j].how = "none" THEN {} ELSE Range(f.secrets)
      BY <2>4, <2>6, SecretsGoDown
    <2>12. Waits(h, g)
      BY <2>6, <2>9, <2>10, <2>11 DEF Waits
    <2>13. calls' = Append(WithInner(h), g)
      BY <1>4, <2>1, <2>2, <2>3, <2>4, <2>5 DEF CallWorkflow
    <2> QED BY <2>1, <2>6, <2>9, <2>10, <2>12, <2>13, PushCall
  <1>5. CASE CalledJob
    <2>1. InGroups /\ Inner.group <= Len(CallGroups[Inner.workflow])
      BY <1>5 DEF CalledJob
    <2>2. PICK j \in Undecided : SkipCalledJob(j) \/ RunCalledJob(j) \/ CallWorkflow(j)
      BY <1>5 DEF CalledJob
    <2>3. CASE SkipCalledJob(j)
      BY <1>3, <2>1, <2>3 DEF SkipCalledJob, ResultValues
    <2>4. CASE RunCalledJob(j)
      <3>1. PICK s \in Statuses : calls' = WithInner([Inner EXCEPT !.results[j] = s])
        BY <2>4 DEF RunCalledJob
      <3>2. s \in ResultValues
        BY DEF Statuses, ResultValues
      <3> QED BY <1>3, <2>1, <3>1, <3>2
    <2> QED BY <1>4, <2>1, <2>2, <2>3, <2>4
  <1>6. CASE EndCalledGroup
    <2>1. PICK g : g = [Inner EXCEPT !.success = Succeeded(Inner), !.outputs = OutputsAfter(Inner),
                                     !.group = @ + 1]
      OBVIOUS
    <2>2. calls # <<>> /\ Inner.calling = NoJobCall /\ calls' = WithInner(g)
      BY <1>6, <2>1 DEF EndCalledGroup, InGroups
    <2>3. Later(Inner, g)
      BY <1>6, <2>1, <2>2, NextGroup DEF EndCalledGroup
    <2> QED BY <2>2, <2>3, ChangeTop
  <1>7. CASE ReturnFromCall
    <2>1. PICK s \in ResultValues : Finish(s)
      BY <1>7 DEF ReturnFromCall, ResultValues
    <2> QED BY <1>7, <2>1, PopCall DEF ReturnFromCall, InGroups
  <1>8. CASE UNCHANGED calls
    BY <1>8 DEF StackInv
  <1> QED BY <1>1, <1>2, <1>5, <1>6, <1>7, <1>8 DEF CallNext, CallProgress, CancelCalls, callVars

LEMMA ReturnedStep ==
    ASSUME StackInv, ReturnedInv, [CallNext]_callVars
    PROVE  ReturnedInv'
  <1>1. ASSUME NEW r, Told(r), returned' = Append(returned, r) PROVE ReturnedInv'
    <2>1. PICK s : s = returned /\ s \in Seq(ToSet(s)) /\ \A i \in DOMAIN s : Told(s[i])
      BY DEF ReturnedInv
    <2>2. Extended(s, r, Append(s, r)) /\ returned' = Append(s, r)
      BY <1>1, <2>1, OneMore
    <2>3. DOMAIN s = 1..Len(s) /\ Len(s) \in Nat
      BY <2>1
    <2>4. \A i \in 1..(Len(s) + 1) : i \in DOMAIN s \/ i = Len(s) + 1
      BY <2>3
    <2> QED BY <1>1, <2>1, <2>2, <2>4 DEF Extended, ReturnedInv
  <1>2. CASE ResolveFails
    <2>1. PICK r : r = [workflow |-> Inner.workflow, phase |-> Inner.phase, results |-> Inner.results,
                        status |-> "failure", output |-> OutputOf]
      OBVIOUS
    <2>2. returned' = Append(returned, r) /\ r.phase = "resolve" /\ r.status = "failure"
      BY <1>2, <2>1 DEF ResolveFails, Finish
    <2>3. Told(r)
      BY <2>2 DEF Told
    <2> QED BY <1>1, <2>2, <2>3
  <1>3. CASE ReturnFromCall
    <2>1. PICK f : f = Inner
      OBVIOUS
    <2>2. /\ calls # <<>> /\ f.phase = "groups" /\ f.group > Len(CallGroups[f.workflow])
          /\ Frame(f) /\ Progress(f) /\ f.workflow \in Workflows
      BY <1>3, <2>1, Top DEF ReturnFromCall, InGroups, Frame
    <2>3. PICK r : r = [workflow |-> f.workflow, phase |-> f.phase, results |-> f.results,
                        status |-> IF f.success THEN "success" ELSE "failure", output |-> OutputOf]
      OBVIOUS
    <2>4. returned' = Append(returned, r)
      BY <1>3, <2>1, <2>3 DEF ReturnFromCall, Finish
    <2>5. f.group - 1 = Len(CallGroups[f.workflow])
      BY <2>2, Groups DEF Frame
    <2>6. JobsOfWorkflow(f.workflow) \subseteq PastJobs(f)
      BY <2>2, <2>5, Groups DEF PastJobs
    <2>7. PastJobs(f) \subseteq JobsOfWorkflow(f.workflow)
      BY <2>2, <2>5, Groups DEF PastJobs
    <2>8. DOMAIN f.results = JobsOfWorkflow(f.workflow) /\ f.success \in BOOLEAN
      BY <2>2 DEF Frame, FrameResults
    <2>9. /\ f.success <=> \A j \in DOMAIN f.results : f.results[j] # "failure"
          /\ \A j \in JobsOfWorkflow(f.workflow) : f.results[j] # "none"
      BY <2>2, <2>6, <2>7, <2>8 DEF Progress
    <2>10. Told(r)
      BY <2>2, <2>3, <2>8, <2>9 DEF Told
    <2> QED BY <1>1, <2>4, <2>10
  <1>4. CASE UNCHANGED returned
    BY <1>4 DEF ReturnedInv
  <1>5. CalledJob => UNCHANGED returned
    BY DEF CalledJob, SkipCalledJob, RunCalledJob, CallWorkflow
  <1>6. Resolve \/ EndCalledGroup \/ CancelCalls \/ UNCHANGED callVars => UNCHANGED returned
    BY DEF Resolve, EndCalledGroup, CancelCalls, callVars
  <1> QED BY <1>2, <1>3, <1>4, <1>5, <1>6 DEF CallNext, CallProgress

\* What a job's condition lets it run on: its needs are those of f's results that are decided.
LEMMA StartsOnItsCondition ==
    ASSUME StackInv, calls # <<>>, NEW j \in CallJobs, MayRun(j),
           CallNeeds[j] \subseteq PastJobs(Inner),
           NEW needs, needs = {Inner.results[d] : d \in CallNeeds[j]}
    PROVE  /\ "none" \notin needs
           /\ CallIf[j] \in {"none", "success"} => needs \cap {"failure", "cancelled"} = {}
           /\ CallIf[j] = "failure"   => "failure" \in needs
           /\ CallIf[j] = "cancelled" => "cancelled" \in needs /\ "failure" \notin needs
  <1>1. \A d \in CallNeeds[j] : Inner.results[d] # "none" /\ Inner.outputs[d] = Inner.results[d]
    BY Top DEF Progress
  <1>2. needs = {Inner.outputs[d] : d \in CallNeeds[j]} /\ "none" \notin needs
    BY <1>1
  <1>3. NeedsStatus(j) = IF "failure" \in needs THEN "failure"
                         ELSE IF "cancelled" \in needs THEN "cancelled" ELSE "success"
    <2>1. "failure" \in needs <=> \E d \in CallNeeds[j] : Inner.outputs[d] = "failure"
      BY <1>2
    <2>2. "failure" \notin needs =>
             ("cancelled" \notin needs <=> \A d \in CallNeeds[j] : Inner.outputs[d] \notin {"failure", "cancelled"})
      BY <1>2
    <2>3. "failure" \in needs => ~(\A d \in CallNeeds[j] : Inner.outputs[d] \notin {"failure", "cancelled"})
      BY <1>2
    <2> QED BY <2>1, <2>2, <2>3 DEF NeedsStatus
  <1>4. CallIf[j] \in {"none", "success", "failure", "cancelled"} =>
           NeedsStatus(j) = IF CallIf[j] = "none" THEN "success" ELSE CallIf[j]
    BY DEF MayRun, Allowed
  <1> QED BY <1>2, <1>3, <1>4

LEMMA StartedStep ==
    ASSUME StackInv, StartedInv, [CallNext]_callVars
    PROVE  StartedInv'
  <1>1. ASSUME InGroups, Inner.group <= Len(CallGroups[Inner.workflow]), NEW j \in Undecided,
               MayRun(j), StartsWith(j)
        PROVE  StartedInv'
    <2>1. PICK f : f = Inner
      OBVIOUS
    <2>2. /\ Frame(f) /\ j \in CallJobs /\ CallNeeds[j] \subseteq PastJobs(f) /\ calls # <<>>
          /\ CallNeeds[j] \subseteq JobsOfWorkflow(f.workflow)
      BY <1>1, <2>1, Top, InGroup
    <2>3. PICK given : given = {Inner.results[d] : d \in CallNeeds[j]}
      OBVIOUS
    <2>4. given \subseteq ResultValues
      BY <2>1, <2>2, <2>3 DEF Frame, FrameResults
    <2>5. /\ "none" \notin given
          /\ CallIf[j] \in {"none", "success"} => given \cap {"failure", "cancelled"} = {}
          /\ CallIf[j] = "failure"   => "failure" \in given
          /\ CallIf[j] = "cancelled" => "cancelled" \in given /\ "failure" \notin given
      BY <1>1, <2>1, <2>2, <2>3, StartsOnItsCondition
    <2>6. startedWith' = [startedWith EXCEPT ![j] = given]
      BY <1>1, <2>3 DEF StartsWith
    <2> QED BY <2>2, <2>4, <2>5, <2>6 DEF StartedInv, CalledNeedsHold
  <1>2. CASE CalledJob
    <2>1. InGroups /\ Inner.group <= Len(CallGroups[Inner.workflow])
      BY <1>2 DEF CalledJob
    <2>2. PICK j \in Undecided : SkipCalledJob(j) \/ RunCalledJob(j) \/ CallWorkflow(j)
      BY <1>2 DEF CalledJob
    <2>3. SkipCalledJob(j) => UNCHANGED startedWith
      BY DEF SkipCalledJob
    <2>4. RunCalledJob(j) \/ CallWorkflow(j) => MayRun(j) /\ StartsWith(j)
      BY DEF RunCalledJob, CallWorkflow
    <2>5. UNCHANGED startedWith => StartedInv'
      BY DEF StartedInv, CalledNeedsHold
    <2> QED BY <1>1, <2>1, <2>2, <2>3, <2>4, <2>5
  <1>3. CASE UNCHANGED startedWith
    BY <1>3 DEF StartedInv, CalledNeedsHold
  <1>4. ResolveFails \/ Resolve \/ EndCalledGroup \/ ReturnFromCall \/ CancelCalls \/ UNCHANGED callVars
           => UNCHANGED startedWith
    BY DEF ResolveFails, Resolve, EndCalledGroup, ReturnFromCall, CancelCalls, callVars
  <1> QED BY <1>2, <1>3, <1>4 DEF CallNext, CallProgress
-----------------------------------------------------------------------------
LEMMA CallIInvImplies == CallIInv => CallInv
  <1> SUFFICES ASSUME CallIInv PROVE CallInv
    OBVIOUS
  <1>1. DOMAIN calls = 1..Len(calls) /\ Len(calls) \in Nat
    BY DEF CallIInv, StackInv
  <1>2. CallTypeOK
    <2>1. ASSUME NEW i \in DOMAIN calls
          PROVE  /\ calls[i].workflow \in Workflows
                 /\ calls[i].group \in 1..(Len(CallGroups[calls[i].workflow]) + 1)
                 /\ \A j \in DOMAIN calls[i].results : calls[i].results[j] \in ResultValues
                 /\ DOMAIN Defaults[calls[i].workflow] \subseteq DOMAIN calls[i].inputs
      BY DEF CallIInv, StackInv, Frame, FrameResults
    <2>2. ASSUME NEW i \in DOMAIN calls, i < Len(calls) PROVE Uses[calls[i].calling] = calls[i + 1].workflow
      BY <1>1, <2>2 DEF CallIInv, StackInv, Waits
    <2>3. \A j \in CallJobs : startedWith[j] \subseteq ResultValues
      BY DEF CallIInv, StartedInv
    <2> QED BY <2>1, <2>2, <2>3 DEF CallTypeOK
  <1>3. CallFailsIffJobFails /\ ReturnsWhenDecided
    BY DEF CallIInv, ReturnedInv, Told, CallFailsIffJobFails, ReturnsWhenDecided
  <1>4. SecretsArePassedOn
    <2>1. ASSUME NEW i \in 2..Len(calls) PROVE Waits(calls[i - 1], calls[i])
      <3>1. i - 1 \in DOMAIN calls /\ i - 1 # Len(calls) /\ (i - 1) + 1 = i
        BY <1>1
      <3> QED BY <3>1 DEF CallIInv, StackInv
    <2> QED BY <2>1 DEF SecretsArePassedOn, Waits
  <1> QED BY <1>2, <1>3, <1>4 DEF CallIInv, StartedInv, CallInv

\* However deep workflows call each other, and in a circle too: a job runs on results of its needs
\* that its condition is for, a failure goes up through all calls, a call returns with all jobs decided, and no call
\* holds a secret that one above it did not pass on.
THEOREM CallsKeepTheirPart == CallInit /\ [][CallNext]_callVars => []CallInv
  <1>1. CallIInv /\ [CallNext]_callVars => CallIInv'
    BY StackStep, ReturnedStep, StartedStep DEF CallIInv
  <1> QED BY <1>1, CallInitInv, CallIInvImplies, PTL
=============================================================================
