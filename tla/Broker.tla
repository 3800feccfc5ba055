------------------------------- MODULE Broker -------------------------------
(***************************************************************************)
(* The job queue and the job lifecycle of the broker,                      *)
(* src/internal/broker/server.go.                                          *)
(*                                                                         *)
(* The orchestrator enqueues jobs, runner processes long-poll for them,    *)
(* run them and report their completion, and the orchestrator receives the *)
(* result on the channel EnqueueJob returned.  Every HTTP request is a     *)
(* goroutine, so a handler is one action per critical section of s.mu (or  *)
(* per channel operation) and other handlers run between two of them.      *)
(*                                                                         *)
(* Abstractions.  A job stands for its envelope, its JobID and its         *)
(* RequestID, which BuildJobMessage makes unique (jobbuilder.go:41-55).    *)
(* Message ids, timelines, logs, outputs and the request log are left out. *)
(* A runner, which is not part of the repository, may repeat the report of *)
(* a result: it retries a call whose answer it did not get.                *)
(***************************************************************************)
EXTENDS Naturals, FiniteSets, SequencesExt

CONSTANTS Jobs,       \* the jobs the orchestrator may enqueue
          Sessions,   \* the sessions runners may create
          Polls,      \* slots for GET .../messages requests
          Owner,      \* [Polls -> Sessions]: whose request a slot carries
          Agents,     \* agent names
          AgentOf,    \* [Sessions -> Agents]: the agent a session belongs to
          Target,     \* [Jobs -> Agents \cup {NoAgent}]: targetAgent of a job
          NoAgent,    \* the empty agent name
          Results,    \* results a runner may report
          NoResult,   \* no result yet
          NoJob,      \* no envelope
          NotifyCap,  \* capacity of jobNotify (100 in the code)
          MaxDrops,   \* bound: how many polls may lose their client
          Reports     \* the endpoints the runners report completion to

ASSUME BrokerAssumption ==
    /\ Owner \in [Polls -> Sessions]
    /\ AgentOf \in [Sessions -> Agents]
    /\ Target \in [Jobs -> Agents \cup {NoAgent}]
    /\ NoAgent \notin Agents
    /\ NoResult \notin Results
    /\ NoJob \notin Jobs
    /\ NotifyCap \in Nat \ {0}
    /\ MaxDrops \in Nat
    /\ Reports \subseteq {"planevents", "jobrequests", "completejob"}

VARIABLES
    sessions,           \* [Sessions -> "new" | "open" | "closed"]
    hasJob,             \* the sessions whose hasJob field is set
    pendingJobs,        \* s.pendingJobs, first come first
    jobNotify,          \* number of tokens in the channel
    notifying,          \* jobs appended whose token is not sent yet
    submitted,          \* history: the jobs EnqueueJob was called for
    activeJobs,         \* keys of s.activeJobs
    requestToJob,       \* jobs whose request id is a key of s.requestToJob
    completedRequests,  \* [Jobs -> result recorded for the job's request id]
    pc,                 \* [Polls -> where the handler is]
    agentName,          \* [Polls -> the agent name the handler read]
    env,                \* [Polls -> the envelope the handler claimed]
    connected,          \* the polls whose client still waits for an answer
    drops,              \* polls that lost their client so far
    received,           \* [Sessions -> jobs whose message the runner got]
    reported,           \* [Jobs -> the result the job's runner decided]
    sending,            \* [Jobs -> result taken off activeJobs, not sent yet]
    result,             \* [Jobs -> contents of env.result, capacity 1]
    outcome,            \* [Jobs -> what the orchestrator received]
    muLost              \* s.mu was left locked by a handler that panicked

queueVars  == <<pendingJobs, jobNotify, notifying, submitted>>
pollVars   == <<pc, agentName, env, connected, drops>>
jobVars    == <<activeJobs, requestToJob, completedRequests>>
endVars    == <<sending, result, outcome>>
runnerVars == <<sessions, received, reported>>
vars == <<queueVars, pollVars, jobVars, endVars, runnerVars, hasJob, muLost>>

Init ==
    /\ sessions = [s \in Sessions |-> "new"]
    /\ hasJob = {}
    /\ pendingJobs = <<>>
    /\ jobNotify = 0
    /\ notifying = {}
    /\ submitted = {}
    /\ activeJobs = {}
    /\ requestToJob = {}
    /\ completedRequests = [j \in Jobs |-> NoResult]
    /\ pc = [p \in Polls |-> "idle"]
    /\ agentName = [p \in Polls |-> NoAgent]
    /\ env = [p \in Polls |-> NoJob]
    /\ connected = {}
    /\ drops = 0
    /\ received = [s \in Sessions |-> {}]
    /\ reported = [j \in Jobs |-> NoResult]
    /\ sending = [j \in Jobs |-> NoResult]
    /\ result = [j \in Jobs |-> NoResult]
    /\ outcome = [j \in Jobs |-> NoResult]
    /\ muLost = FALSE

-----------------------------------------------------------------------------
(***************************************************************************)
(* The orchestrator.                                                       *)
(***************************************************************************)

\* EnqueueJob: the envelope joins the queue under the lock ...
EnqueueJob(j) ==
    /\ ~muLost
    /\ j \notin submitted
    /\ submitted' = submitted \cup {j}
    /\ pendingJobs' = Append(pendingJobs, j)
    /\ notifying' = notifying \cup {j}
    /\ UNCHANGED <<jobNotify, pollVars, jobVars, endVars, runnerVars, hasJob, muLost>>

\* Mutant of NotifyPollers: the channel has no capacity.
NotifyPollersUncapped(j) ==
    /\ j \in notifying
    /\ notifying' = notifying \ {j}
    /\ jobNotify' = jobNotify + 1
    /\ UNCHANGED <<pendingJobs, submitted, pollVars, jobVars, endVars, runnerVars,
                   hasJob, muLost>>

\* ... and then a token is offered to the pollers, dropped if the channel is full.
NotifyPollers(j) ==
    /\ j \in notifying
    /\ notifying' = notifying \ {j}
    /\ jobNotify' = IF jobNotify < NotifyCap THEN jobNotify + 1 ELSE jobNotify
    /\ UNCHANGED <<pendingJobs, submitted, pollVars, jobVars, endVars, runnerVars,
                   hasJob, muLost>>

\* executeJob receives from the channel EnqueueJob gave it.
ReceiveResult(j) ==
    /\ result[j] # NoResult
    /\ outcome' = [outcome EXCEPT ![j] = result[j]]
    /\ result' = [result EXCEPT ![j] = NoResult]
    /\ UNCHANGED <<queueVars, pollVars, jobVars, runnerVars, sending, hasJob, muLost>>

-----------------------------------------------------------------------------
(***************************************************************************)
(* Sessions.                                                               *)
(***************************************************************************)
CreateSession(s) ==
    /\ ~muLost
    /\ sessions[s] = "new"
    /\ sessions' = [sessions EXCEPT ![s] = "open"]
    /\ UNCHANGED <<queueVars, pollVars, jobVars, endVars, received, reported, hasJob, muLost>>

DeleteSession(s) ==
    /\ ~muLost
    /\ sessions[s] = "open"
    /\ sessions' = [sessions EXCEPT ![s] = "closed"]
    /\ UNCHANGED <<queueVars, pollVars, jobVars, endVars, received, reported, hasJob, muLost>>

-----------------------------------------------------------------------------
(***************************************************************************)
(* handleGetMessage: the long poll.  A handler is at "idle" (no request),  *)
(* "scan" (about to try claimJob), "waiting" (in the select), "claimed"    *)
(* (between claimJob and deliverJob) or "writing" (tracking state updated, *)
(* answer not written yet).                                                *)
(***************************************************************************)

\* A runner has one request outstanding: it polls again once that was answered or
\* the connection was lost, and not after it deleted the session.
Polling(s) == \E p \in Polls : Owner[p] = s /\ p \in connected

\* Mutant of StartPoll: the handler waits for a token before its first claimJob.
StartPollWaiting(p) ==
    LET s == Owner[p] IN
    /\ ~muLost
    /\ pc[p] = "idle"
    /\ sessions[s] = "open"
    /\ ~Polling(s)
    /\ s \notin hasJob
    /\ pc' = [pc EXCEPT ![p] = "waiting"]
    /\ agentName' = [agentName EXCEPT ![p] = AgentOf[s]]
    /\ connected' = connected \cup {p}
    /\ UNCHANGED <<queueVars, jobVars, endVars, runnerVars, env, drops, hasJob, muLost>>

\* The first critical section: a session that has its job gets 202 at once.
StartPoll(p) ==
    LET s == Owner[p] IN
    /\ ~muLost
    /\ pc[p] = "idle"
    /\ sessions[s] = "open"
    /\ ~Polling(s)
    /\ s \notin hasJob
    /\ pc' = [pc EXCEPT ![p] = "scan"]
    /\ agentName' = [agentName EXCEPT ![p] = AgentOf[s]]
    /\ connected' = connected \cup {p}
    /\ UNCHANGED <<queueVars, jobVars, endVars, runnerVars, env, drops, hasJob, muLost>>

\* The same for a request served after its session was deleted: the runner that
\* sent it has gone, the session is nil and the agent name empty.
StartLatePoll(p) ==
    /\ ~muLost
    /\ pc[p] = "idle"
    /\ sessions[Owner[p]] = "closed"
    /\ drops < MaxDrops
    /\ pc' = [pc EXCEPT ![p] = "scan"]
    /\ agentName' = [agentName EXCEPT ![p] = NoAgent]
    /\ drops' = drops + 1
    /\ UNCHANGED <<queueVars, jobVars, endVars, runnerVars, env, connected, hasJob, muLost>>

\* Mutant of Matches: the target is ignored.
MatchesAny(j, a) == Target[j] \in Agents \cup {NoAgent}

Matches(j, a) == Target[j] = NoAgent \/ Target[j] = a

\* i is the position of the first pending job agent a may run.
FirstMatch(i, a) ==
    /\ i \in 1..Len(pendingJobs)
    /\ Matches(pendingJobs[i], a)
    /\ \A k \in 1..(i-1) : ~Matches(pendingJobs[k], a)

\* Mutant of ClaimJob: the envelope stays in the queue.
ClaimJobKeeping(p, i) ==
    /\ ~muLost
    /\ pc[p] = "scan"
    /\ FirstMatch(i, agentName[p])
    /\ env' = [env EXCEPT ![p] = pendingJobs[i]]
    /\ pc' = [pc EXCEPT ![p] = "claimed"]
    /\ UNCHANGED <<queueVars, agentName, connected, drops,
                   jobVars, endVars, runnerVars, hasJob, muLost>>

ClaimJob(p, i) ==
    /\ ~muLost
    /\ pc[p] = "scan"
    /\ FirstMatch(i, agentName[p])
    /\ pendingJobs' = RemoveAt(pendingJobs, i)
    /\ env' = [env EXCEPT ![p] = pendingJobs[i]]
    /\ pc' = [pc EXCEPT ![p] = "claimed"]
    /\ UNCHANGED <<jobNotify, notifying, submitted, agentName, connected, drops,
                   jobVars, endVars, runnerVars, hasJob, muLost>>

ClaimNothing(p) ==
    /\ ~muLost
    /\ pc[p] = "scan"
    /\ \A i \in 1..Len(pendingJobs) : ~Matches(pendingJobs[i], agentName[p])
    /\ pc' = [pc EXCEPT ![p] = "waiting"]
    /\ UNCHANGED <<queueVars, agentName, env, connected, drops,
                   jobVars, endVars, runnerVars, hasJob, muLost>>

\* case <-s.jobNotify: any waiting handler may take the token.
Wake(p) ==
    /\ pc[p] = "waiting"
    /\ jobNotify > 0
    /\ jobNotify' = jobNotify - 1
    /\ pc' = [pc EXCEPT ![p] = "scan"]
    /\ UNCHANGED <<pendingJobs, notifying, submitted, agentName, env, connected, drops,
                   jobVars, endVars, runnerVars, hasJob, muLost>>

\* case <-timer.C and case <-r.Context().Done(): 202, no message.
PollEnds(p) ==
    /\ pc[p] = "waiting"
    /\ pc' = [pc EXCEPT ![p] = "idle"]
    /\ connected' = connected \ {p}
    /\ UNCHANGED <<queueVars, agentName, env, drops,
                   jobVars, endVars, runnerVars, hasJob, muLost>>

\* Mutant of DeliverJob: the session is not marked.
DeliverJobUnmarked(p) ==
    /\ ~muLost
    /\ pc[p] = "claimed"
    /\ activeJobs' = activeJobs \cup {env[p]}
    /\ requestToJob' = requestToJob \cup {env[p]}
    /\ pc' = [pc EXCEPT ![p] = "writing"]
    /\ UNCHANGED <<queueVars, agentName, env, connected, drops,
                   completedRequests, endVars, runnerVars, hasJob, muLost>>

\* deliverJob, its critical section.  The session the handler read is nil exactly
\* when the agent name it read is empty.
DeliverJob(p) ==
    /\ ~muLost
    /\ pc[p] = "claimed"
    /\ activeJobs' = activeJobs \cup {env[p]}
    /\ requestToJob' = requestToJob \cup {env[p]}
    /\ hasJob' = IF agentName[p] # NoAgent THEN hasJob \cup {Owner[p]} ELSE hasJob
    /\ pc' = [pc EXCEPT ![p] = "writing"]
    /\ UNCHANGED <<queueVars, agentName, env, connected, drops,
                   completedRequests, endVars, runnerVars, muLost>>

\* deliverJob, the answer: it reaches the runner if the client is still there.
WriteMessage(p) ==
    /\ pc[p] = "writing"
    /\ received' = IF p \in connected
                   THEN [received EXCEPT ![Owner[p]] = @ \cup {env[p]}]
                   ELSE received
    /\ pc' = [pc EXCEPT ![p] = "idle"]
    /\ env' = [env EXCEPT ![p] = NoJob]
    /\ connected' = connected \ {p}
    /\ UNCHANGED <<queueVars, agentName, drops, jobVars, endVars,
                   sessions, reported, hasJob, muLost>>

\* The client goes away, the handler does not know yet.
LoseClient(p) ==
    /\ p \in connected
    /\ drops < MaxDrops
    /\ connected' = connected \ {p}
    /\ drops' = drops + 1
    /\ UNCHANGED <<queueVars, pc, agentName, env, jobVars, endVars, runnerVars, hasJob, muLost>>

-----------------------------------------------------------------------------
(***************************************************************************)
(* Runners and completion.                                                 *)
(***************************************************************************)

\* The runner of j is done with it.
RunnerFinishes(j, r) ==
    /\ reported[j] = NoResult
    /\ \E s \in Sessions : j \in received[s]
    /\ reported' = [reported EXCEPT ![j] = r]
    /\ UNCHANGED <<queueVars, pollVars, jobVars, endVars, sessions, received, hasJob, muLost>>

\* Mutants of EndJob: the request's result is not recorded; no result is sent.
EndJobUnrecorded(k, q, r) ==
    /\ activeJobs' = activeJobs \ {k}
    /\ requestToJob' = requestToJob \ {k}
    /\ sending' = [sending EXCEPT ![k] = r]
    /\ q \in Jobs /\ UNCHANGED completedRequests

EndJobSilently(k, q, r) ==
    /\ activeJobs' = activeJobs \ {k}
    /\ requestToJob' = requestToJob \ {k}
    /\ completedRequests' = [completedRequests EXCEPT ![q] = r]
    /\ UNCHANGED sending

\* The broker's critical section that ends job k with result r, for request q.
EndJob(k, q, r) ==
    /\ activeJobs' = activeJobs \ {k}
    /\ requestToJob' = requestToJob \ {k}
    /\ completedRequests' = [completedRequests EXCEPT ![q] = r]
    /\ sending' = [sending EXCEPT ![k] = r]

\* Mutant of PlanEvent: the fallback takes any active job.
PlanEventAnyJob(j) ==
    /\ ~muLost
    /\ "planevents" \in Reports
    /\ reported[j] # NoResult
    /\ \E k \in IF j \in activeJobs THEN {j} ELSE activeJobs : EndJob(k, j, reported[j])
    /\ UNCHANGED <<queueVars, pollVars, result, outcome, runnerVars, hasJob, muLost>>

\* planevents JobCompleted for j, by request id or else by job id; a repeated
\* event finds neither and is dropped.
PlanEvent(j) ==
    /\ ~muLost
    /\ "planevents" \in Reports
    /\ reported[j] # NoResult
    /\ j \in activeJobs
    /\ EndJob(j, j, reported[j])
    /\ UNCHANGED <<queueVars, pollVars, result, outcome, runnerVars, hasJob, muLost>>

\* PATCH jobrequests/{j}: by request id, else any active job.
PatchTargets(j) ==
    IF j \in requestToJob /\ j \in activeJobs THEN {j} ELSE activeJobs

JobRequest(j) ==
    /\ ~muLost
    /\ "jobrequests" \in Reports
    /\ reported[j] # NoResult
    /\ \E k \in PatchTargets(j) : EndJob(k, j, reported[j])
    /\ UNCHANGED <<queueVars, pollVars, result, outcome, runnerVars, hasJob, muLost>>

\* completejob: neither requestToJob nor completedRequests is touched, and a job
\* that is not active is dereferenced while s.mu is held.
CompleteJob(j) ==
    /\ ~muLost
    /\ "completejob" \in Reports
    /\ reported[j] # NoResult
    /\ IF j \in activeJobs
       THEN /\ activeJobs' = activeJobs \ {j}
            /\ sending' = [sending EXCEPT ![j] = reported[j]]
            /\ UNCHANGED muLost
       ELSE /\ muLost' = TRUE
            /\ UNCHANGED <<activeJobs, sending>>
    /\ UNCHANGED <<queueVars, pollVars, requestToJob, completedRequests,
                   result, outcome, runnerVars, hasJob>>

\* env.result <- completionResult, after the unlock.
SendResult(j) ==
    /\ sending[j] # NoResult
    /\ result[j] = NoResult
    /\ result' = [result EXCEPT ![j] = sending[j]]
    /\ sending' = [sending EXCEPT ![j] = NoResult]
    /\ UNCHANGED <<queueVars, pollVars, jobVars, outcome, runnerVars, hasJob, muLost>>

\* GET jobrequests/{j}: what a runner is told about request j.
JobRequestStatus(j) ==
    IF j \in requestToJob /\ j \in activeJobs THEN "active"
    ELSE CASE completedRequests[j] = "failed"    -> "failed"
           [] completedRequests[j] = "cancelled" -> "cancelled"
           [] OTHER                              -> "succeeded"
-----------------------------------------------------------------------------
\* claimJob, with and without a match.
Scan(p) ==
    ClaimNothing(p) \/ \E i \in 1..Len(pendingJobs) : ClaimJob(p, i)

Next ==
    \/ \E j \in Jobs : \/ EnqueueJob(j) \/ NotifyPollers(j) \/ ReceiveResult(j)
                       \/ PlanEvent(j) \/ JobRequest(j) \/ CompleteJob(j)
                       \/ SendResult(j)
    \/ \E s \in Sessions : CreateSession(s) \/ DeleteSession(s)
    \/ \E p \in Polls : \/ StartPoll(p) \/ StartLatePoll(p) \/ Scan(p) \/ Wake(p)
                        \/ PollEnds(p) \/ DeliverJob(p) \/ WriteMessage(p)
                        \/ LoseClient(p)
    \/ \E j \in Jobs, r \in Results : RunnerFinishes(j, r)

Spec == Init /\ [][Next]_vars

(***************************************************************************)
(* Handlers are goroutines the Go scheduler runs, the poll's timer fires,  *)
(* a listening runner polls again after a 202, a runner repeats a report   *)
(* until it is answered, and executeJob waits on its channel.  Nothing     *)
(* makes a client create or delete a session or a job finish.              *)
(***************************************************************************)
Fairness ==
    /\ \A j \in Jobs : /\ WF_vars(NotifyPollers(j))
                       /\ WF_vars(PlanEvent(j))
                       /\ WF_vars(SendResult(j))
                       /\ WF_vars(ReceiveResult(j))
    /\ \A p \in Polls : /\ WF_vars(StartPoll(p))
                        /\ WF_vars(Scan(p))
                        /\ WF_vars(PollEnds(p))
                        /\ WF_vars(DeliverJob(p))
                        /\ WF_vars(WriteMessage(p))

FairSpec == Spec /\ Fairness

-----------------------------------------------------------------------------
(***************************************************************************)
(* Properties.                                                             *)
(***************************************************************************)

\* Every part of the broker's state has its type; a handler that claimed a job
\* holds an envelope until it answered.
TypeOK ==
    /\ sessions \in [Sessions -> {"new", "open", "closed"}]
    /\ hasJob \subseteq Sessions
    /\ pendingJobs \in Seq(Jobs)
    /\ jobNotify \in 0..NotifyCap
    /\ notifying \subseteq Jobs
    /\ submitted \subseteq Jobs
    /\ activeJobs \subseteq Jobs
    /\ requestToJob \subseteq Jobs
    /\ completedRequests \in [Jobs -> Results \cup {NoResult}]
    /\ pc \in [Polls -> {"idle", "scan", "waiting", "claimed", "writing"}]
    /\ agentName \in [Polls -> Agents \cup {NoAgent}]
    /\ env \in [Polls -> Jobs \cup {NoJob}]
    /\ \A p \in Polls : pc[p] \in {"claimed", "writing"} => env[p] \in Jobs
    /\ connected \subseteq Polls
    /\ drops \in 0..MaxDrops
    /\ received \in [Sessions -> SUBSET Jobs]
    /\ reported \in [Jobs -> Results \cup {NoResult}]
    /\ sending \in [Jobs -> Results \cup {NoResult}]
    /\ result \in [Jobs -> Results \cup {NoResult}]
    /\ outcome \in [Jobs -> Results \cup {NoResult}]
    /\ muLost \in BOOLEAN

\* Where an envelope is: in the queue, in the hands of a handler between
\* claimJob and deliverJob, active, or on its way to the orchestrator.
Places(j) ==
         {<<"pending", i>> : i \in {k \in 1..Len(pendingJobs) : pendingJobs[k] = j}}
    \cup {<<"claimed", p>> : p \in {q \in Polls : pc[q] = "claimed" /\ env[q] = j}}
    \cup {<<"active", j>>  : k \in activeJobs \cap {j}}
    \cup {<<"ending", f>>  : f \in {g \in {"sending", "result", "outcome"} :
                                \/ g = "sending" /\ sending[j] # NoResult
                                \/ g = "result" /\ result[j] # NoResult
                                \/ g = "outcome" /\ outcome[j] # NoResult}}

\* A job the orchestrator enqueued is in exactly one place: no interleaving of
\* polls, deliveries and repeated completions loses it or makes two of it, so the
\* channel of capacity 1 gets one result and its sender never blocks
\* (claimJob/deliverJob are two critical sections; reports may be repeated).
JobInOnePlace ==
    \A j \in submitted : \E x \in Places(j) : Places(j) = {x}

\* What the orchestrator gets for a job is what that job's runner reported, not
\* the result of another job finishing at the same time (handleJobRequest,
\* planevents, handleCompleteJob).
ResultIsOwn ==
    \A j \in Jobs : {sending[j], result[j], outcome[j]} \subseteq {NoResult, reported[j]}

\* A runner is told of a finished job what the job's result was, so that
\* EnsureDispatchFinished sees it ended (handleGetJobRequest, completedRequests).
StatusIsTruthful ==
    \A j \in Jobs : outcome[j] # NoResult => JobRequestStatus(j) = outcome[j]

\* Each runner process handles exactly one job: a session gets one message even
\* though hasJob is checked before the wait and set after it (handleGetMessage).
OneJobPerSession ==
    \A s \in Sessions : \A j, k \in received[s] : j = k

\* A client that repeats completejob is answered: no handler leaves s.mu locked.
MutexReleased == ~muLost

\* A job a listening runner may run does not stay in the queue: a token of
\* jobNotify taken by a handler it does not concern is made up for by the next
\* poll, unless the session ends or takes another job.
ListeningRunnerGetsJob ==
    \A j \in Jobs, s \in Sessions :
        (/\ \E i \in 1..Len(pendingJobs) : pendingJobs[i] = j
         /\ sessions[s] = "open" /\ Matches(j, AgentOf[s]))
        ~> (\/ \A i \in 1..Len(pendingJobs) : pendingJobs[i] # j
            \/ sessions[s] = "closed"
            \/ s \in hasJob)

\* A report that the runner repeats until it is answered reaches the orchestrator.
ReportReachesOrchestrator ==
    \A j \in Jobs : reported[j] # NoResult ~> outcome[j] = reported[j]

(***************************************************************************)
(* The broker implements JobDispatch: a job is queued until a runner got   *)
(* its message and runs until the orchestrator received its result.        *)
(***************************************************************************)
Stage(j) ==
    IF j \notin submitted THEN "new"
    ELSE IF outcome[j] # NoResult THEN "done"
    ELSE IF \E s \in Sessions : j \in received[s] THEN "running"
    ELSE "queued"

MayRun(s, j) == Target[j] \in {NoAgent, AgentOf[s]}

Dispatch == INSTANCE JobDispatch WITH
    stage <- [j \in Jobs |-> Stage(j)], taken <- received, Accepts <- MayRun

\* Seen from outside, jobs are dispatched as JobDispatch says.
ImplementsDispatch == Dispatch!Spec
=============================================================================
