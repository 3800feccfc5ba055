# ions: specifications and proofs

TLA+ models of ions: the broker the runners talk to, the run of a workflow
plan with the jobs, runners and containers in it, the planner with matrices and
expressions, step reports and log output, watch mode, reusable workflows, and
the stores of caches, artifacts and runners. TLC checks each on small
instances; TLAPS proves, for every value of the constants, the theorems of
section 5. Paths are relative to `src/internal/`.

Run a configuration with `tlc -config X.cfg M`, a proof with `tlapm M.tla`.
`PROJECT.json` lists the runs, the source lines of every definition, a mutated
definition that breaks each property, the hazards and the findings.

## 1. The system

`ions run` parses a workflow, expands its matrices into a graph of job nodes,
plans groups of nodes that may run in parallel, and executes one group after
the other. For each node a goroutine puts a job message into the broker's
queue and starts a process of the official GitHub runner. The runner creates a
session with the broker over HTTP, long-polls for its message, executes the
steps and reports logs, timelines and at last the job's result. The goroutine
gets the result through a channel. Next to the broker, servers on the same
process answer cache, artifact and GitHub API requests of the steps.

| component | state | operations | interacts with |
|---|---|---|---|
| broker, `broker/server.go` | sessions and their `hasJob`, `pendingJobs`, `activeJobs`, `requestToJob`, `completedRequests`, the channel `jobNotify`, one mutex `mu` | `EnqueueJob`, create and delete session, long poll (`claimJob`, `deliverJob`), job request query, completion on three endpoints | orchestrator: `EnqueueJob` and a result channel per job; runners: HTTP |
| broker: step reports | timelines, log lines, recorded requests | record updates, log uploads, feed lines, outputs | runners; step callback of the orchestrator |
| run of a plan, `orchestrator/orchestrator.go` | results per group, job outputs, success flag, contexts, semaphores | `Run`, `executeGroup`, `executeJob`, `skipJob` | planner: plan; broker; runner process; docker services |
| concurrency groups, `orchestrator/concurrency.go` | map from group to its holder's id and cancel function | `Acquire`, release | `executeJob` |
| reusable workflows, `executeReusableWorkflow` | outputs of the called jobs | run the called plan inside one job | run of a plan, resolver |
| watch mode, `orchestrator/watcher.go` | debounce timer, context and number of the current run | file event, timer callback, stop | run of a plan |
| log output, `logstream.go`, `secrets.go`, `progress.go` | masks, stop token, groups, cursor and ticker | print a step line, add a mask, redraw, finish | all goroutines |
| graph and plan, `graph/graph.go`, `plan.go` | local to the calls | `Build`, `Validate`, `TopologicalSort`, `ParallelGroups`, `Plan` | `Run` |
| matrix, `graph/matrix.go` | none | `ExpandMatrix` | `Build` |
| runner process, `runner/process.go` | the global `configMu`, the process, its instance directory, `done` channel | `Configure`, `Start`, `Wait`, `Stop` | `executeJob`, operating system |
| runner installation, `runner/manager.go` | version directories, a configuration file | `EnsureInstalled`, background update, `Install`, `Clean` | GitHub releases |
| cache, `cache/` | index in memory and in a file, blob files | reserve, upload, commit with eviction, lookup | steps over HTTP |
| artifacts, `artifacts/` | map of artifacts, directories | create, upload whole or in blocks, finalize, list, download | steps over HTTP |
| docker services, `docker/` | network and containers of a job | setup, undo of a setup that fails, teardown | `executeJob` |
| expressions and contexts, `expression/`, `context/` | none | evaluate, build contexts | planner, run |
| workflow file, resolver, GitHub stub, command line | check runs of the stub | parse, validate, serve | |

What is hard, and what makes each part correct:

- **Broker.** Every request is a goroutine, and the long poll holds `mu` only
  in parts. A job is correct if it is always in one place, reaches a runner
  whose agent it is meant for, is given to one runner only, and if its result
  reaches the orchestrator once and is its own. Connections are lost, and
  runners repeat reports.
- **Run of a plan.** The main goroutine launches or skips the jobs of a group
  while their goroutines already run; cancellation comes from the user,
  fail-fast, a concurrency group and a timeout. A job must start after what it
  needs and only if its condition allows, must be cancelled only for a cause,
  and the run must end with a true verdict.
- **Concurrency groups.** A holder that was cancelled returns after its
  successor took the group.
- **Planner.** Depth-first search, Kahn's sort and the drop of jobs along
  chains of `needs` must agree with the definition of the plan for every
  graph.
- **Runner process.** Processes share a directory whose configuration is
  protected by a lock that one goroutine takes and a timer releases.
- **Cache and artifacts.** Lookups return pointers after the lock is released;
  names are reserved more than once; files survive the process, counters do
  not; processes share the directory.
- **Watch mode.** A timer callback and the event loop share variables without
  a lock.

`PROJECT.json` has one entry per such hazard, at its line.

## 2. Plan

Three layers, written in this order.

1. The core. `JobDispatch` (abstract), `Broker`, `BrokerProofs`: everything
   waits for the broker. `DagRun` (abstract), `WorkflowRun` with the concurrency
   groups, `WorkflowRunProofs`. `PlanOrder` (what a run may rely on), `JobPlan`
   (reference definition), `Planner`, `PlannerProofs` with `Subsequences` (what is
   left of a sequence when some of its members go).
2. Inside one job. `JobExecution` is `executeJob` with services, runner process
   and configuration lock; its property `ExecutesAsAssumed` is what
   `WorkflowRun` assumes of a job. `StepReports` is what the broker and the
   orchestrator make of a runner's reports. `CalledWorkflow` is a job that calls
   a workflow. `JobProofs` is about `JobExecution` and `CalledWorkflow`,
   `ReportsProofs` about `StepReports` and `LogStream`.
3. Around the jobs. `LogStream`, `Watcher`, `CacheStore`, `ArtifactStore`,
   `RunnerInstall`, `Matrix`, `Expressions`, `Texts`. `AroundProofs`
   is about the three stores and `Watcher`, `LanguageProofs` about `Matrix`,
   `Texts` and `Expressions`.

`Foundations` has what several of these proofs use: facts about numbers that stand
in for induction, functions each of whose values is made from the one before or
from one further on, and what is left of a sequence or put together of several.

`MCAround` instantiates the parts of layer 3 and `CalledWorkflow` in one run:
they share no state, so each behaviour drives one of them.

## 3. The models

| run | module | instance | shows |
|---|---|---|---|
| `broker_safety` | `Broker` | two runners with a job each and a job for any; a lost connection; repeated plan events | `TypeOK`, `ResultIsOwn`, `StatusIsTruthful`; `Broker` implements `JobDispatch` |
| `broker_reports` | `Broker` | two jobs for any runner, all three endpoints, repeated and mixed, late requests | `JobInOnePlace`, `OneJobPerSession` |
| `broker_live` | `Broker` | fair handlers, a channel of capacity one | `ListeningRunnerGetsJob`, `ReportReachesOrchestrator` |
| `run_matrix` | `WorkflowRun` | a matrix with fail-fast and one slot beside another job; jobs that claim one group | `TypeOK`, `SequentialMatrixStops`, `WithinMaxParallel`, `CancelledForCause`, `OneLiveHolder`, `InterruptEndsRun` |
| `run_needs` | `WorkflowRun` | conditions of every kind, a dropped job, an excused failure; timers fire | `WorkflowRun` implements `DagRun`, `RunEnds` |
| `planner_all` | `Planner` | every needs-relation and condition of three jobs, one a matrix of two, and every filter | `PlannerInv`, `PlanIsJobPlan`, `PlanSuitsRun`, `PlanningEnds` |
| `job_execution` | `JobExecution` | two jobs side by side, one with two services and containers left from before, with and without `--reuse-containers`; a teardown that fails | `JobInv`, `RunsOwnJob`, `ExecutesAsAssumed`, `EveryJobReturns` |
| `step_reports` | `StepReports` | a job of two steps, both routes, one late or repeated request; a job nobody registered | `ReportsInv`, `ShownInv`, `FailedStepsReported`, `EveryRequestAnswered` |
| `around` | the others | one part in each behaviour, see `MCAround` | `StreamInv`, `WatchInv`, `CallInv`, `CacheInv`, `ArtifactInv`, `InstallInv`, `MatrixInv`, `ParseInvertsWriting`, `EvaluationAgrees`, `TextInv`, `ChangeIsRun`, `CallsReturnInTheirPart` |

Three more runs, in section 4, end with a counterexample. An invariant named
`...Inv` is the conjunction of a module's type invariant and its named safety
properties, each stated above its definition.

### Broker

One action per critical section of `mu`, or per channel operation, of a
handler; any other handler may run between two of them.

| action | code in `broker/server.go` |
|---|---|
| `EnqueueJob`, `NotifyPollers` | `EnqueueJob`: the append under the lock, then the non-blocking send to `jobNotify` |
| `CreateSession`, `DeleteSession` | the session handlers |
| `StartPoll`, `StartLatePoll` | `handleGetMessage` up to its first unlock, with a session or after it was deleted |
| `ClaimJob`, `ClaimNothing` | `claimJob` |
| `Wake`, `PollEnds` | the `select` of the long poll |
| `DeliverJob`, `WriteMessage` | `deliverJob`: its critical section, then the answer |
| `PlanEvent`, `JobRequest`, `CompleteJob` | completion by plan event, by PATCH of the job request, by `completejob` |
| `SendResult`, `ReceiveResult` | the send to the job's channel and the receive in `executeJob` |
| `LoseClient`, `RunnerFinishes` | environment: the connection is lost; the runner has a result |

A job stands for its envelope, job id and request id, which the message builder
makes unique. `submitted`, `received` and `reported` are history. A runner has
one request outstanding, as the official runner does, and may repeat a report
as often as it likes on each endpoint in `Reports`. `JobDispatch` is what the
broker promises: a job is submitted, at most one runner that may run it gets
it, that runner reports, and the orchestrator receives what was reported.

Bounds. Two sessions are the least at which a wakeup can go to the wrong
runner and a job be taken by another; two polls of one session overlap after a
lost connection, which is why `broker_reports` has a third poll; a third job
makes the queue longer than the number of runners. `NotifyCap` is 1 so that a
full channel happens (100 in the code). `MaxDrops` bounds the connections lost
and the late requests. `broker_safety` reports by plan events only, as current
runners do: the other endpoints break `ResultIsOwn` and `StatusIsTruthful`
(section 4). `JobInOnePlace` and `OneJobPerSession` hold on all endpoints.

Fairness. Handlers are goroutines and Go schedules each that can run: weak
fairness of every handler step. A poll that waits also ends and is repeated
(the runner polls in a loop). Nothing is assumed of jobs finishing: a report is
fair only once the runner decided a result.

### WorkflowRun

| action | code in `orchestrator/` |
|---|---|
| `CancelGroup`, `BeginGroup`, `CollectGroup`, `Finish` | the loop of `Run` over `plan.Groups` |
| `LaunchJob`, `SkipJob` | the loop of `executeGroup`, with `dependencyStatus` and `skipJob` |
| `AcquireSlot` ... `LeaveGroup` | the goroutine `executeGroup` starts: semaphore, `executeJob`, result under `mu`, fail-fast, deferred functions |
| `EnterJob`, `SetupFails`, `StartRunner`, `ResultArrives`, `ContextDone` | `executeJob` |
| `Acquire`, `Released` | `concurrency.go` |
| `CancelRun`, `Expire` | environment: interrupt, timeout |

Contexts are predicates: `CtxDone(n)` holds when the run, the fail-fast context
of the node's job, its concurrency group or its timeout ended. The condition of
a job is one of nine kinds: what `Run` does with a condition depends only on
whether it contains `always()`, needs run-time evaluation, and on its value;
a condition about data may have either value. A result is a choice of the
environment. The value `crashed` stands for the Go runtime's detection of a
concurrent map write: the choice between dying and surviving is the runtime's.
`DagRun` knows only nodes, needs, conditions and outcomes. The refinement maps
a node to the outcome of its most advanced record, and the verdict to Run's
success flag once it has returned.

Bounds. Nothing is bounded but the workflow: every run explores all
interleavings to the end. Three jobs in a matrix with one slot give a sibling
that runs, one that waits and one that failed. Each scenario's plan is computed
by `JobPlan`, so no run depends on a plan written by hand. max-parallel is at
least 1; with 0 a job waits for ever (`orchestrator/orchestrator.go:512`).

Fairness. Weak fairness of the main goroutine and of each node's own steps
(`FairSpec`): Go schedules them, and a goroutine whose context is done gives
up. `AcquireSlot` needs no strong fairness since the slots are taken once per
node. `TimedSpec` adds that timers fire: `executeJob` always sets a timeout
(six hours if the job has none).

### JobExecution

`executeJob` of several jobs at once, step by step: `docker network create` and
each container (`docker/service.go`, `network.go`), the message for the broker,
the instance directory, `Configure` with the lock over all configurations,
`Start` with the timer that releases it, the `select`, `Stop` with its kill, and
the deferred teardown. Each may fail, and the context may end at any moment
(`ContextEnds`). An earlier run may have left a network and containers that run, and
are attached to it, or that have stopped (`Remains`). With `--reuse-containers`
(`reuseContainers`, either way in each behaviour) the teardown takes nothing
down; without, any of its `docker rm` and `network rm` may fail, an error the
deferred call ignores (`TakeDown`, `refused`). The runner (`Runner`) reads the
configuration in its directory, takes the first message in the broker's queue
that bears its name, reports, or dies. `RunsOwnJob` says that no runner ever
takes another's job; `JobInv` that process and directory are gone when a job
that had them returns, and with them the containers and the network, unless
docker refused to remove one of them or `--reuse-containers` keeps them, and
then all of them are there; `ExecutesAsAssumed` maps the steps to the three
phases `WorkflowRun` knows and says under which conditions each may be left.

Bounds. Two jobs compete for the lock, docker commands fail in one function
(`MaxFaults`), any of them, and one name has leftovers. A docker command is one
step, and no container stops by itself. Fairness. Steps of a goroutine are
scheduled, the lock is strongly fair (Go hands a mutex to those who wait for
it), the timer fires, and the timeout of a job ends its context at last.

### StepReports

The requests of a runner (PATCHes of timeline records, log creation, log
lines), each handled in the critical sections of `broker/server.go`. A PATCH
takes the mutex (`LockTimeline`), merges record by record (`MergeRecord`),
releases it, and then calls the step callback record by record (`Notify`); a
post reads its body with the mutex held. `reportFailedSteps` reads the records
the completion result shares with the timeline. A request whose answer is late is sent again
while the first copy may be half handled. `ConfirmedIsShown` and
`StepsShownInOrder` are about what the user sees, `LogsKeepLines` about the
stored logs, `FailedStepsReported` about the end of a failed job. Both routes
for timelines are in the run: the server offers its runners the `distributedtask`
one only, whose handler calls no callback and keeps logs under the plan's id, so
there nothing is shown.

`InOrder` is what is assumed of a runner's requests: a step starts before it
ends, its log is opened once and before lines are posted to it. What
`reportFailedSteps` shows is all there is to show only of a runner that says how a
failed step ended, in its last record and with its log opened before
(`FailuresAreSent`).

Bounds. One late request (`MaxLate`) already interleaves with every later one;
three lines in two uploads exceed `MaxLogLines`, 2 here; `MaxLogs` is as many
logs as the requests, one of them repeated, can open. Fairness: handlers end.

### CalledWorkflow

A stack of calls: inputs over defaults, secrets that are inherited, named or not
passed, groups with their skips, results that go up as one result of the calling
job. Main calls two workflows, one of which calls the other, so a failure, a
skip and an output cross two levels. Its groups are assumed to be a plan:
disjoint, and after what they need. `executeGroup` evaluates the condition of a
called job as it does of any other, so `CallIf` gives each job one of the
conditions of `WorkflowRun` (those settled when planning are left out), and in
the run there is one of each. A need that was skipped at run time counts as a
success. `CalledNeedsHold` says of each kind of condition which results of its
needs a job may have run on. A called workflow is not validated as the main one
is, so one without jobs is a call that succeeds. `CallsReturn` needs calls that
do not go round in a circle; nothing in the code stops such a circle
(`orchestrator/orchestrator.go:1457`).

### Planner, PlanOrder, JobPlan

A state machine over one needs-relation: `Build` (a node needs every node of a
needed job), `Validate` (its depth-first search with colours and path), Kahn's
sort, the levels of `ParallelGroups` (one node per step), `Plan` with dropped
jobs, and the filters of `-job` and `-matrix`.
`JobPlan` defines the same plan without algorithms: the level of a node is one
more than the highest of what it needs, a node is dropped if its static
condition is false or a node it needs is dropped and it has no `always()`.
`PlannerInv` says that exactly the cycles are found and the sort follows the
dependencies, `PlanIsJobPlan` that plan and definition agree.

`PlanOrder` states what the run relies on: a node is in one group, together
with its siblings and after what it depends on, and a node that depends on a
dropped one has `always()`, and no job of a group has a false condition.
`WorkflowRun` assumes it of its plan, TLC evaluates
it on every scenario, and `PlanSuitsRun` says of `Planner` that every plan it
returns has it. Three jobs give cycles of length one, two and three and a chain
of drops through a level. Fairness: of the one sequential process.

### The parts in `around`

| module | code | what could go wrong, and the property that excludes it |
|---|---|---|
| `LogStream` | `logstream.go`, `secrets.go` in `orchestrator/` | chunks cut lines anywhere and commands change the state all jobs share: `LinesReassembled`, `SecretsMasked` (of lines and names of groups; the rest is printed unmasked), `ColorsConsistent` |
| `Watcher` | `orchestrator/watcher.go` | the timer's function runs beside the loop, and both use one WaitGroup, which panics when it is used again before a `Wait` has returned: `OneRunAtATime`, `ReturnLeavesOnlyCancelled`, `ChangeIsRun` |
| `CacheStore` | `cache/` | commit and eviction, restarts and a crash between two of their steps: `WithinMaxSize`, `RestoresIntact`, `SavedIsDurable` |
| `ArtifactStore` | `artifacts/` | parts sent twice or without a range, several files of one upload in one blob, finalize by name, directories of an earlier run: `FetchesIntact`, `FinishedIsListed` |
| `RunnerInstall` | `runner/manager.go` | installation broken off anywhere: `RunsCompleteRunner`, `RunsVerifiedRunner` |
| `Matrix` | `graph/matrix.go`, `Build`, `resolveMatrixExpressions` | exclude and include, each against its meaning stated without the loops: `ProductSurvives`, `IncludesAreThere`, `NodesAreNumbered` |
| `Expressions` | `parser.go`, `evaluator.go`, `coercion.go` in `expression/` | `ParseInvertsWriting` (an expression written with the fewest parentheses is parsed back), `ConditionsObeyDeMorgan`, `ComparisonsAgree` |
| `Texts` | `functions.go`, `interpolation.go` in `expression/` | scanning with look-ahead, against references: `FormatFillsPlaceholders`, `InterpolationSplitsText`, `GlobMatchesReference`, `HashIgnoresOrder` |

`LogStream` keeps in `given` what each pipe will write, so that the lines handed
on can be compared with it, and in `output` which secrets were known when a
line was written.

Bounds. `LogStream`: two jobs, one with two processes, short inputs of lines and
commands for each (the proof is for any). `Watcher`: three changes
(`MaxChanges`), the least with two overlapping timers and one after them, a new
directory and an ignored one. `CacheStore`: three saves, two of one key, that do
not all fit; one restart (`MaxRestarts`). Its index is a set of entries with
ids, as the code appends them with rising ids, and a commit with the old API
fails when its entry has been evicted. `ArtifactStore`: two uploads side by
side, of one name or of two and by either API, one of two files, a directory
left over, one block list sent again. `RunnerInstall`: two versions, one failure
or kill, one archive that changes (the proof is for any). `Matrix`: over a
thousand matrices of two dimensions and a key that is none. `Expressions`: up to
two operators above leaves of every type, with operands of one operator
(`MaxHeight`); expressions are the trees up to a height, so that functions over
them can be defined by recursion and proved about. `Texts`: texts of four to six
characters; white space around an expression, and an index of a placeholder
beyond 64 bits, are left out.

Fairness. Only of `Watcher` (loop, timer, callbacks; runs end since their jobs
have timeouts) and of `CalledWorkflow` (a call goes on). The stores are driven
by steps that may stop at any time and promise safety only.

## 4. Findings

Disagreements between the code and what its comments say, each with a run that
TLC ends with a counterexample.

| run | property | where | what |
|---|---|---|---|
| `broker_completejob` | `MutexReleased` | `broker/server.go:878` | nil dereference with `mu` held: the broker stops answering |
| `run_mapcrash` | `NoMapCrash` | `orchestrator/orchestrator.go:547` | the results map is written without its mutex |
| `job_runnerexit` | `RunnerExitNoticed` | `orchestrator/orchestrator.go:853` | the wait "for result from broker or runner exit" does not end when the runner exits |

The passing runs of the same modules avoid these cases by their instance,
never by a changed model. Statements of the code that its models do not
satisfy; each is a definition in its module, and TLC finds a counterexample
when it is added to the configuration named:

- `ResultIsOwn` in `Broker_safety.cfg` with `"jobrequests"` among `Reports`: a repeated
  PATCH whose request is no longer mapped ends any active job
  (`broker/server.go:620`).
- `SkippedDependencySkips` in `WorkflowRun_needs.cfg`: a job skipped at run time
  counts as a success for what needs it (`orchestrator/orchestrator.go:559`).
- `ClaimCancelsOthers` in `WorkflowRun_matrix.cfg` with `CancelInProgress = {"b"}`
  and no max-parallel: a holder another one pushed out of the map keeps running
  (`orchestrator/concurrency.go:47`).
- `TamperingDetected` in `Around_all.cfg`: "the new checksum is compared against
  the stored one", but the stored one is gone after an installation of another
  version (`runner/manager.go`).
- `EarlierRunsCancelled` in `Around_all.cfg`: "cancels in-flight runs when new
  changes arrive"; two overlapping callbacks start two runs
  (`orchestrator/watcher.go:17`).
- `OutputsDelivered` in `Around_all.cfg`: the value of an output is evaluated
  with its `${{`, an error that is dropped, and in a context without `jobs`
  (`orchestrator/orchestrator.go:1499`).
- `FinalStatesShown` in `Reports_all.cfg`: "print the final state", but a job that
  is cancelled or fails early is never completed on the dashboard
  (`orchestrator/progress.go:128`).
- `SecretsMaskedEverywhere` in `Around_all.cfg`: annotations, debug messages and
  the errors of problem matchers are printed as they are
  (`orchestrator/logstream.go:145`, 154, 163, 169).
- `InterruptReturns` in `Around_all.cfg`: `WatchAndRun`, on its way out, waits for
  its runs (`orchestrator/watcher.go:64`); a callback that starts one just then
  (`orchestrator/watcher.go:108`) makes that `Wait` panic.
- `FilesKeptApart` in `Around_all.cfg`: the files of one upload with the old API
  go into one blob, since `itemPath` is not used (`artifacts/artifacts.go:342`): they
  overwrite each other.
- `NodeIDsAreUnique` in `Around_all.cfg`: "generates a unique node ID", but
  combinations of equal text share one (`graph/graph.go:126`).

The models show more behaviour that a reader might not expect and that no run
is about:

- `completejob` records nothing for the later query of the request
  (`broker/server.go:866`), so a job that failed is reported succeeded.
- `deliverJob` marks the session before it writes the answer
  (`broker/server.go:803`): if the client has gone, the job waits for its
  timeout.
- `null` equals nothing but `null`: "null == anything_else uses numeric coercion"
  (`expression/evaluator.go:183`) is not what the code below it and its test do.
- A condition that reads the needs context without a status function decides
  alone (`orchestrator/orchestrator.go:488`), also after a failed dependency.
- A failure that continue-on-error excuses still cancels its siblings under
  fail-fast (`orchestrator/orchestrator.go:528`), and the cancelled siblings
  are not excused.
- A called job that is cancelled counts as a success of the call, and
  continue-on-error of called jobs is not looked at
  (`orchestrator/orchestrator.go:1483`).
- Services are undone with the context of the job: a job cancelled while they
  start leaves them behind (`docker/service.go:43`), which is why
  `ServicesRemoved` speaks of jobs whose services were set up.
- Errors of the deferred teardown are ignored (`orchestrator/orchestrator.go:744`,
  `docker/service.go:252`): containers and network stay behind. The next setup
  removes only the leftovers attached to the network, which are those that run
  (`docker/network.go:18`); one that has stopped makes every later `docker create`
  of its name fail (`docker/service.go:131`).
- Of several saves of one key and version with the new API, or one left over,
  the finalize of any commits the first entry it finds (`cache/cache.go:228`),
  which may be another's. `RestoresIntact` and `SavedIsDurable` speak of a save
  that is alone (`Alone`), so `CacheInv` does not exclude it.
- A repository whose root is named as an ignored directory (`build`, say) is not
  watched at all (`orchestrator/watcher.go`, `addWatchDirs`).
- Of texts, `'a' == 'A'` is true and `'a' <= 'A'` is false; that `==` agrees with
  `<=` is stated for booleans and numbers only (`ComparisonsAgree`).
- A block list sent again empties the blob (`artifacts/artifacts.go:132`), and
  a finalize by name may mark another artifact of that name.
- An installation that is killed leaves a directory the next start takes for a
  runner (`runner/manager.go:150`).

## 5. Proofs

Proved by TLAPS for every value of the constants: any number of jobs, sessions,
handlers, any workflow and any plan.

`BrokerProofs`, under `BrokerAssumption` (what `Broker` assumes of its
constants):

- `TypeCorrect`. Inductive as it stands.
- `OwnResult`: with no PATCH among the reports, the result the orchestrator
  gets for a job is what that job's runner reported. `ResultIsOwn` is inductive
  with the types: it speaks of what is sent, lies in the channel and was
  received.
- `SessionsTakeOneJob`. `hasJob` is read in `claimJob` and set in
  `deliverJob`, two critical sections with others between them. `SessionInv`
  says why that is enough: a session has one connected poll at most, a session
  whose poll is connected has received nothing yet, and one that received a job
  is in `hasJob`.
- `JobsStayInOnePlace`. `PlacesInv` says for each job that, once submitted, it is
  in exactly one of queue, handler, active jobs and ending, and once in each.

- `BrokerImplementsDispatch`: with no PATCH among the reports, `Broker` refines
  `JobDispatch`. `MessageInv` says that a message is in one handler's hands, is
  written after the job left the queue, and comes before any result of the job;
  `AgentInv` that a handler holds only a job its session's agent may run. With
  `SessionInv` this makes `WriteMessage` to a connected client the abstract
  `Start`; `EnqueueJob`, `RunnerFinishes` and `ReceiveResult` are `Submit`,
  `Report` and `Finish`, and every other step leaves the abstract state alone.
- `FinishedJobsAreToldTruly`: `StatusIsTruthful`, with plan events as the only
  reports (as in the run) and results among those the code tells apart.
  `StatusInv` says that a result on its way to the orchestrator is the one
  recorded for the request.

`WorkflowRunProofs`, under `WorkflowAssumption`, of which the conjunct
`PlanIsOrdered` is what `PlanSuits`, below, proves of the planner:

- `TypeCorrect`, with `GroupInv`: the loop's indexes stay within the plan.
- `MaxParallelHolds`, `CancelledForCauseHolds`, `SequentialMatrixHolds`,
  `OneLiveHolderHolds`: the four safety invariants of the runs.

They rest on one inductive invariant, `RunInv`. `LoopInv` says that a goroutine
belongs to a node the loops have passed, is gone when its group is past, and
writes the results map once; it uses that groups are disjoint and free of
repetitions (`CurrentIsFresh`: the loop never comes to a node twice).
`FailFastInv` says that a done fail-fast context of a group in progress has a
failed sibling: `CollectGroup` cancels these contexts without one, and then
the siblings are past because a plan keeps them in one group
(`SiblingsTogether`). `SlotInv` counts the nodes in a semaphore. On top of
`RunInv`, `FailureInv` (a recorded failure has cancelled the siblings, or its
goroutine still has the slot) gives `SequentialMatrixHolds`, and `HolderInv` (a
live job of a group whose jobs all cancel is the one in the map) gives
`OneLiveHolderHolds`.

- `RunImplementsDag`: `WorkflowRun` refines `DagRun`. `PastInv` says that the
  jobs of past groups have ended and that later jobs are told how they ended;
  after an interrupt they are not told, and then no job is started any more.
  `ArriveInv` says that a job the loop has passed was started or skipped, and
  that one that has returned has a status, so a collected group has only ended
  jobs. `SuccessInv` says what the success flag stands for. With the plan's order
  they make `LaunchJob`, `SkipJob`, `RecordResult`, `CancelGroup` and `Finish`
  the abstract `Begin`, `Skip`, `End`, `GiveUp` and `Conclude`
  (`ConditionsAgree` compares `ShouldRun` with the abstract conditions case by
  case); every other step is not seen.

`PlannerProofs`, under `PlannerAssumption` (the order of nodes has each once, a
job has a node), for any relation of needs, conditions and filters:

- `PlannerCorrect`: `PlannerInv`. `StackInv` says that the stack of the
  depth-first search is a path along the dependencies and what each call has
  looked at; `VisitedInv` that what a visited node needs is visited and that no
  cycle runs through visited nodes, which is why a search that ends without a
  report has excused every cycle; `KahnInv` that the in-degrees count the
  dependencies not yet sorted, so that a queue that runs empty leaves a cycle or
  nothing.
- `PlanSuits`: `PlanSuitsRun`, what `WorkflowRun` assumes of its plan. `LevelInv`
  and `GroupsInv` say that levels rise along the dependencies and that a group is
  a level, `PlanInv` and `DecidedInv` that what is left of the groups after the
  drops and filters is still ordered and that a job in it has its needs or
  `always()`.
- `PlanIsAsDefined`: `PlanIsJobPlan`. The levels and drops the loops compute
  satisfy the equations of `JobPlan`'s recursive functions, and on a graph
  without a cycle two solutions of these equations do not differ: a node on
  which they did would need one on which they do, down to the first in the sorted
  order. In place of induction the proof takes the least such number.

`JobProofs`, under `JobExecutionAssumption` and, as a hypothesis of
the first two theorems, `NamesDiffer` (the nodes of one plan differ in name; a called
job may share one with a job of its caller and is not covered):

- `RunnersWorkForTheirOwn`: `RunsOwnJob`. `OwnInv` follows the name from the
  configuration in a directory to the runner that loads it and to the message
  the broker finds for it.
- `WhatWasSetUpIsTakenDown`: `JobInv`. `ProcessInv` says where in `executeJob` a
  process may be up and a directory be there. `DockerInv` says, job by
  job (`DockerOf`), that its containers are those in its environment, the one
  about to be started and what an earlier run left on its network, and which of
  them are gone at each step; this makes the teardown, which removes what is in
  the environment, complete, unless docker refused it a removal (`refused`). With
  `--reuse-containers` the same invariant says that all are kept.
- `PhasesAsAssumed`: `ExecutesAsAssumed`, the link to `WorkflowRun`, which sees a
  job only as set up, running and returned. `StatusInv` says that nothing is
  returned before the select, so that a failure there is the failure of a setup.

Also there, under `CallAssumption` (the groups of each workflow are
in the order of a plan, and no workflow file has the value of a secret in it),
for calls of any depth, in a circle too:

- `CallsKeepTheirPart`: `CallInv`, with any of the conditions `CallIf` for each
  job. `StackInv` says of each call on the stack that the jobs of the groups it
  is through with have results, that it told these to the later ones, and that
  its success flag speaks of exactly these; and that each call but the last
  waits for the next from a job of its group. So a result that goes down a level
  falls into the right group, and a secret that a call holds has come through
  every call above it.

`ReportsProofs`, under `ReportsAssumption` (any jobs, steps and requests, the
latter in the order `InOrder`), for any number of repeated requests:

- `ReportsKept`: `ReportsInv`. `RequestInv` says that a handler works on a
  request already answered, as its late copy, or on the one the runner waits
  for; `TimelineInv` that the records a handler has passed are in the timeline,
  so a late copy appends nothing. `GivenInv` and `IdInv` say that a log id given
  to a step is given to no other, though the log of a repeated request is lost;
  `LineInv` and `StoredInv` that a line is in its step's log alone, and there
  before its request is answered.
- `ConfirmedShown`: `ShownInv`. `NoticeInv` says that what a handler's loop has
  passed was told to the user, so that all of a request was when it is answered.
  The start of a step is in an earlier record, of the same request or of one
  answered before, and either way told first.
- `FailuresReported`: `FailedStepsReported`, for a runner that says how its failed
  steps ended (`FailuresAreSent`, which the run's scripts satisfy). `AloneInv`:
  while nothing was late, a job has one request at the broker, the one its runner
  waits for. `FinalInv`: the last record of a step, once merged, is in the
  timeline as it was sent. `WholeInv`: a step's log is exactly what was posted of
  it so far. `EndInv`: what `reportFailedSteps` has shown are the records it has
  come to, and no request of the job is at the broker when it is settled.
  `PostedLines` is a recursive function and is treated as those of `LogStream`,
  below.

Also there, under `StreamAssumption` (no secret given is empty, there is a
color), for any bytes, pipes, secrets and reads:

- `StreamKept`: `StreamInv`; annotations, debug messages and errors of problem
  matchers, which are printed unmasked, are not covered. `PipesOK` says of each
  pipe what is kept of the line under way and that the lines handed on, with
  what is kept, read and unread, are the input but for empty lines. `MaskerOK`
  says that the longest secret is tried first; `MaskedHides` that no secret is
  in a text so masked: one that were would begin at a byte of the text, where
  some secret, itself or a longer one, was replaced. `Palette` says that the
  colors given are the first ones as long as there are colors left.

  `Joined`, `Packed`, `LongestFirst` and `Masked` are recursive functions. A
  recursive function is a CHOOSE, so each is first shown to satisfy its
  equation, by building a function that does (`Iterated`) or by taking the least
  number at which there is none; what they compute then follows in the same way.

`AroundProofs`, under `InstallAssumption`, `ArtifactAssumption` and
`CacheAssumption`, about the three stores:

- `CompleteAndVerified`: `InstallInv`. `PartialInv` says that a partial directory
  is being filled or was cut off by a kill, `ChecksumInv` that the stored
  checksum is that of the directory, `PendingInv` that the background look for
  an update writes back what the configuration still says, `TaskInv` that
  nothing runs while an installation is under way.

- `ArtifactsArriveWhole`: `ArtifactInv`: every block that is downloaded is of a
  file of the one upload. Not for uploads that share a name or a block list that
  was sent again, nor for which of its files a block is of or what follows an
  upload in a directory an earlier run left. `OwnerInv` says that an artifact in
  the map is of one upload and bears its name, also when a directory of an
  earlier run has its id; `BlobInv` what its blob holds when its upload says it
  is complete; `TargetInv` that a finalize by name marks an artifact of that
  name, and `CountInv` that as many of a name are marked as were finalized.
- `CacheKeepsItsPromise`: `CacheInv`, where contents and survival are promised
  to a save that is alone only. `EntryInv` says that an entry of the index was
  reserved by a save of its key and version and, if no other save uses these at
  the same time, holds all that save has sent; `UploadInv` that a save under way
  has an id of its own; `HitInv` that a restore reads what its lookup found;
  `DiskInv` that what eviction leaves fits and that the file agrees with the
  index.

Also there, under `WatchAssumption`:

- `WatchSafe`: `WatchInv`: while timers do not overlap, runs do not pile up, and
  only `WatchAndRun`, on its way out, can find its WaitGroup used again.
  `AloneInv` says that while no timer has fired too early one callback is under
  way, and that nothing is running when it is about to start a run: between its
  `Wait` and its start only another callback could start one. `DoneInv` says
  that no run is left running once the context is done, and that the loop goes
  on until then.

`LanguageProofs`, under `MatrixAssumption` (keys and values are given for every
matrix), for any matrix, whatever its expressions evaluate to:

- `MatrixExpands`: `MatrixInv`. The inductive invariant says that the combinations
  are those of `ExpandMatrix` as soon as there are any, and that the nodes made so
  far are the first of them, numbered. That these are the right ones goes along the
  loops: after each dimension the rows are the choices among the dimensions so far,
  each once (`Enumerates`, with `FlattenPlaces` for the two inner loops), exclude
  takes positions away (`At`), and each include entry is then in a combination and
  changes none in a dimension (`HasProduct`, `HasIncludes`).

Also there, under `TextAssumption` (arguments and files are sequences, there is an
argument), for any text:

- `TextsKept`: `TextInv`, one argument for each function. `Format` comes out of an
  escaped text as it was, character by character from its end. `MatchParts` agrees
  with `Matches` for every suffix of pattern and path, from their ends. For
  `ParseInterpolation` the state of the scan says how many quotes there were, so
  that an expression ends outside of them; what is unparsed is the text again. The
  hash sorts the set of the files found, which no order of patterns changes.

Also there, under `ExprAssumption` (no name or literal is a token of another
kind, literals have values, texts numbers):

- `EvaluationKept`: `EvaluationAgrees`. An expression has a height (`Trees`), and
  what is said of one of a height follows for the next: that `Eval` has the value
  its definition asks for (`EvalDefined`), and that this is an error or a value of
  one of the types (`EvalKeeps`). The laws then hold case by case, for an
  expression of any operators (`DeMorgan`, `EqualHasNoSides`, `OrderAgrees`). The
  inductive invariant bounds the height of what has been built.

- `ParsingInvertsWriting`: `ParseInvertsWriting`, for expressions of any height.
  `Parse` is first shown to be what its definition asks for, from the end of the
  tokens down (`ParsingDefined`). A text is well read at a level (`WellRead`) when,
  wherever it stands, and not followed by a token that a tighter level would go on
  with, the loop of that level reaches its node: said of the loop, it holds for the
  left operands of a chain. Each form of expression is well read at its own level,
  an expression well read at a level is so at each looser one, and in parentheses at
  the tightest (`NotWellRead`, `GroupWellRead`, `IndexWellRead`, `CallWellRead`).
  With the height, everything `Written` is well read at the loosest, and the end of
  the tokens goes on with none.

Every invariant the passing runs check is proved in this way. Only model-checked
are the liveness properties: TLAPS has no proof rules for fairness here.

## 6. Not modelled, and why

- The job message builder, contexts and workflow parsing convert data and keep
  no state. `Broker` uses only that job and request ids are unique. What
  goroutines write into the one `Job` that the nodes of a matrix share
  (`orchestrator/orchestrator.go:1813`) is a data race on content no property
  here tells apart.
- The action proxy, the docker configuration, the dind wrapper, the GitHub API
  stub and the command line are input/output with no state several actors
  depend on.
- Of expressions, the lexer, objects and their JSON form, and the text functions
  that are library calls; of progress, the layout and the ticker; of the
  resolver, reading or fetching the workflow file; of the broker, the log of
  requests that only tests read, and `acquirejob`, `renewjob` and message
  deletion, which change no state.
- The official runner and docker are outside the repository; they appear as
  the environment's actions only.
- Two ions processes on one directory (cache index, runner installation), and a
  write of a file that is torn.
