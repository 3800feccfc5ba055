---------------------------- MODULE StepReports ----------------------------
(***************************************************************************)
(* What a runner reports about the steps of its job and what is shown of   *)
(* it: the timelines and logs of src/internal/broker/server.go, the step   *)
(* callback of the orchestrator, reportFailedSteps and the dashboard.      *)
(*                                                                         *)
(* A runner (external) sends its requests, Script, one after the other:    *)
(* PATCHes of timeline records, log creation, log lines.  When an answer   *)
(* is late it sends the request again, while the first copy may still be   *)
(* on its way or half handled.                                             *)
(*                                                                         *)
(* Abstractions.  A timeline record is [id, state, result, log]; a line is *)
(* its job, step and number.  A late copy of a PATCH only holds records    *)
(* its answered copy has merged, so nothing is appended to a timeline once *)
(* its job has completed: the completion result and the broker share one   *)
(* array, and reportFailedSteps reads what a late copy writes.  The two    *)
(* routes write the same timelines; logs are kept under the timeline's id  *)
(* by the one and under the plan's id by the other.                        *)
(***************************************************************************)
EXTENDS Naturals, FiniteSets, SequencesExt

CONSTANTS ReportJobs,   \* jobs that run
          Registered,   \* those the orchestrator of Run knows: not the jobs of called workflows
          StepIds,
          Unnamed,      \* steps whose records have no name, only a refName
          Script,       \* [ReportJobs -> requests of its runner, see Patch, Open and Post]
          Outcomes,     \* what may become of the steps: [ReportJobs -> [StepIds -> result]]
          ReportRoutes, \* subset of {"v1", "task"}
          MaxLogLines,  \* maxLogLines
          MaxLate,      \* bound: requests a runner sends twice
          MaxLogs,      \* bound: logs of one key
          NoStep

Patch(recs)    == [kind |-> "patch", recs |-> recs, step |-> NoStep, lines |-> <<>>]
Open(s)        == [kind |-> "open", recs |-> <<>>, step |-> s, lines |-> <<>>]
Post(s, lines) == [kind |-> "post", recs |-> <<>>, step |-> s, lines |-> lines]

States   == {"InProgress", "Completed"}
Results  == {"succeeded", "failed"}
Requests == [kind : {"patch", "open", "post"}, recs : Seq(StepIds \X States),
             step : StepIds \cup {NoStep}, lines : Seq(Nat)]

\* A runner starts a step before it completes it, opens the log of a step once and before it
\* posts lines of the step, and only posts have lines.
InOrder(script) ==
    /\ \A k \in DOMAIN script :
          /\ script[k].kind # "patch" => script[k].recs = <<>> /\ script[k].step \in StepIds
          /\ script[k].kind # "post" => script[k].lines = <<>>
    /\ \A k \in DOMAIN script : \A i \in DOMAIN script[k].recs :
          script[k].recs[i][2] = "Completed" =>
              \E m \in 1..k : \E n \in DOMAIN script[m].recs :
                  /\ script[m].recs[n] = <<script[k].recs[i][1], "InProgress">>
                  /\ m < k \/ n < i
    /\ \A k \in DOMAIN script : script[k].kind = "post" =>
          \E m \in 1..(k - 1) : script[m].kind = "open" /\ script[m].step = script[k].step
    /\ \A k, m \in DOMAIN script :
          script[k].kind = "open" /\ script[m].kind = "open" /\ script[k].step = script[m].step
              => k = m

\* Record i of request k completes its step: it is the last of the step, and the log is open by then.
LastOf(script, k, i) ==
    LET s == script[k].recs[i][1] IN
    /\ script[k].recs[i][2] = "Completed"
    /\ \A m \in DOMAIN script :
          /\ \A n \in DOMAIN script[m].recs : script[m].recs[n][1] = s => m < k \/ (m = k /\ n <= i)
          /\ script[m].kind = "open" /\ script[m].step = s => m < k

\* A runner says how a step ended, at least if it failed.
FailuresAreSent ==
    \A j \in ReportJobs, s \in StepIds :
        (\E o \in Outcomes : o[j][s] = "failed") =>
            \E k \in DOMAIN Script[j] : \E i \in DOMAIN Script[j][k].recs :
                Script[j][k].recs[i][1] = s /\ LastOf(Script[j], k, i)

ASSUME ReportsAssumption ==
    /\ Script \in [ReportJobs -> Seq(Requests)]
    /\ \A j \in ReportJobs : InOrder(Script[j])
    /\ Outcomes \subseteq [ReportJobs -> [StepIds -> Results]]
    /\ Registered \subseteq ReportJobs
    /\ ReportRoutes \subseteq {"v1", "task"}
    /\ MaxLogLines \in Nat /\ MaxLogs \in Nat
    /\ NoStep \notin StepIds

VARIABLES
    route,     \* the URLs the runner uses
    outcome,   \* [ReportJobs -> [StepIds -> result the step will have]]
    position,  \* [ReportJobs -> the request in Script the runner is at]
    awaiting,  \* [ReportJobs -> the runner waits for an answer]
    logOf,     \* [ReportJobs -> [StepIds -> log id the runner was given]]
    late,      \* [ReportJobs -> requests sent twice]
    handlers,  \* requests at the broker
    mu,        \* Server.mu is held
    timelines, \* Server.timelines
    logs,      \* Server.logs, by job and kind of key
    logNextID, \* Server.logNextID
    jobEnd,    \* [ReportJobs -> where executeJob is]
    scanned,   \* [ReportJobs -> records reportFailedSteps has looked at]
    shown,     \* [ReportJobs -> what the logger was told]
    progress   \* [ReportJobs -> jobProgress]

runnerVars  == <<route, outcome, position, awaiting, logOf, late>>
serverVars  == <<mu, timelines, logs, logNextID>>
displayVars == <<shown, progress>>
endVars     == <<jobEnd, scanned>>
reportVars  == <<runnerVars, handlers, serverVars, displayVars, endVars>>

LogKeys   == ReportJobs \X ReportRoutes
LogIds    == 0..MaxLogs
NewRecord == [id : StepIds, state : States, result : Results \cup {"none"}, log : LogIds]

ReportsInit ==
    /\ route \in ReportRoutes
    /\ outcome \in Outcomes
    /\ position  = [j \in ReportJobs |-> 1]
    /\ awaiting  = [j \in ReportJobs |-> FALSE]
    /\ logOf     = [j \in ReportJobs |-> [s \in StepIds |-> 0]]
    /\ late      = [j \in ReportJobs |-> 0]
    /\ handlers  = {}
    /\ mu        = FALSE
    /\ timelines = [j \in ReportJobs |-> <<>>]
    /\ logs      = [k \in LogKeys |-> [i \in LogIds |-> <<>>]]
    /\ logNextID = [k \in LogKeys |-> 0]
    /\ jobEnd    = [j \in ReportJobs |-> "running"]
    /\ scanned   = [j \in ReportJobs |-> 0]
    /\ shown     = [j \in ReportJobs |-> <<>>]
    /\ progress  = [j \in ReportJobs |-> [status |-> "running", step |-> NoStep, done |-> 0,
                                          total |-> 0, last |-> <<>>]]
-----------------------------------------------------------------------------
(* The runner.                                                             *)

Request(j) == Script[j][position[j]]

Record(j, s, state) ==
    [id |-> s, state |-> state,
     result |-> IF state = "Completed" THEN outcome[j][s] ELSE "none",
     log |-> logOf[j][s]]

Handler(j, copy) ==
    [job |-> j, at |-> position[j], copy |-> copy, phase |-> "arrived", next |-> 1,
     recs |-> [i \in DOMAIN Request(j).recs |->
                  Record(j, Request(j).recs[i][1], Request(j).recs[i][2])],
     log |-> IF Request(j).kind = "post" THEN logOf[j][Request(j).step] ELSE 0]

SendRequest(j) ==
    /\ jobEnd[j] = "running"
    /\ ~awaiting[j]
    /\ position[j] <= Len(Script[j])
    /\ handlers' = handlers \cup {Handler(j, 1)}
    /\ awaiting' = [awaiting EXCEPT ![j] = TRUE]
    /\ UNCHANGED <<route, outcome, position, logOf, late, serverVars, displayVars, endVars>>

\* The runner has waited long enough for the answer.
SendAgain(j) ==
    /\ jobEnd[j] = "running"
    /\ awaiting[j]
    /\ SumFunction(late) < MaxLate
    /\ \A h \in handlers : h.job = j /\ h.at = position[j] => h.copy = 1
    /\ handlers' = handlers \cup {Handler(j, 2)}
    /\ late' = [late EXCEPT ![j] = @ + 1]
    /\ UNCHANGED <<route, outcome, position, awaiting, logOf, serverVars, displayVars, endVars>>

Moved(h, fields) == handlers' = (handlers \ {h}) \cup {fields}

\* The answer to a copy the runner has given up on reaches nobody.
AnswerRequest(h) ==
    LET j == h.job
        awaited == awaiting[j] /\ h.at = position[j] IN
    /\ h \in handlers
    /\ h.phase = "answer"
    /\ handlers' = handlers \ {h}
    /\ position' = IF awaited THEN [position EXCEPT ![j] = @ + 1] ELSE position
    /\ awaiting' = IF awaited THEN [awaiting EXCEPT ![j] = FALSE] ELSE awaiting
    /\ logOf' = IF awaited /\ Script[h.job][h.at].kind = "open"
                THEN [logOf EXCEPT ![j][Script[h.job][h.at].step] = h.log] ELSE logOf
    /\ UNCHANGED <<route, outcome, late, serverVars, displayVars, endVars>>
-----------------------------------------------------------------------------
(* The broker.                                                             *)

\* Mutant: a record is appended whether or not the timeline has it.
MergedAppend(timeline, rec) == Append(timeline, rec)

\* Records are replaced by id or appended.
Merged(timeline, rec) ==
    IF \E i \in DOMAIN timeline : timeline[i].id = rec.id
    THEN [i \in DOMAIN timeline |-> IF timeline[i].id = rec.id THEN rec ELSE timeline[i]]
    ELSE Append(timeline, rec)

\* The lock is held from the first record to the last.
LockTimeline(h) ==
    /\ h \in handlers
    /\ h.phase = "arrived"
    /\ Script[h.job][h.at].kind = "patch"
    /\ ~mu
    /\ mu' = TRUE
    /\ Moved(h, [h EXCEPT !.phase = "merge"])
    /\ UNCHANGED <<runnerVars, timelines, logs, logNextID, displayVars, endVars>>

MergeRecord(h) ==
    /\ h \in handlers
    /\ h.phase = "merge"
    /\ h.next <= Len(h.recs)
    /\ timelines' = [timelines EXCEPT ![h.job] = Merged(@, h.recs[h.next])]
    /\ Moved(h, [h EXCEPT !.next = @ + 1])
    /\ UNCHANGED <<runnerVars, mu, logs, logNextID, displayVars, endVars>>

\* Only handleUpdateTimeline calls the step callback.
AfterMerge == IF route = "v1" THEN "notify" ELSE "answer"

\* Mutant: the callbacks of a request run in a goroutine of their own.
UnlockTimelineAsync(h) ==
    /\ h \in handlers
    /\ h.phase = "merge"
    /\ h.next > Len(h.recs)
    /\ mu' = FALSE
    /\ handlers' = (handlers \ {h}) \cup {[h EXCEPT !.phase = "answer"],
                                        [h EXCEPT !.phase = AfterMerge, !.copy = 3, !.next = 1]}
    /\ UNCHANGED <<runnerVars, timelines, logs, logNextID, displayVars, endVars>>

UnlockTimeline(h) ==
    /\ h \in handlers
    /\ h.phase = "merge"
    /\ h.next > Len(h.recs)
    /\ mu' = FALSE
    /\ Moved(h, [h EXCEPT !.phase = AfterMerge, !.next = 1])
    /\ UNCHANGED <<runnerVars, timelines, logs, logNextID, displayVars, endVars>>

LogKey(h) == <<h.job, route>>

\* Mutant: the branch that creates a log returns without unlocking.
OpenLogLocked(h) ==
    /\ h \in handlers
    /\ h.phase = "arrived"
    /\ Script[h.job][h.at].kind = "open"
    /\ ~mu
    /\ logNextID[LogKey(h)] < MaxLogs
    /\ mu' = TRUE
    /\ logNextID' = [logNextID EXCEPT ![LogKey(h)] = @ + 1]
    /\ Moved(h, [h EXCEPT !.phase = "answer", !.log = logNextID'[LogKey(h)]])
    /\ UNCHANGED <<runnerVars, timelines, logs, displayVars, endVars>>

OpenLog(h) ==
    /\ h \in handlers
    /\ h.phase = "arrived"
    /\ Script[h.job][h.at].kind = "open"
    /\ ~mu
    /\ logNextID[LogKey(h)] < MaxLogs
    /\ logNextID' = [logNextID EXCEPT ![LogKey(h)] = @ + 1]
    /\ Moved(h, [h EXCEPT !.phase = "answer", !.log = logNextID'[LogKey(h)]])
    /\ UNCHANGED <<runnerVars, mu, timelines, logs, displayVars, endVars>>

\* The body is read with the lock held.
ReadBody(h) ==
    /\ h \in handlers
    /\ h.phase = "arrived"
    /\ Script[h.job][h.at].kind = "post"
    /\ ~mu
    /\ mu' = TRUE
    /\ Moved(h, [h EXCEPT !.phase = "body"])
    /\ UNCHANGED <<runnerVars, timelines, logs, logNextID, displayVars, endVars>>

Posted(j, k) == [i \in DOMAIN Script[j][k].lines |-> <<j, Script[j][k].step, Script[j][k].lines[i]>>]

AppendLines(h) ==
    /\ h \in handlers
    /\ h.phase = "body"
    /\ mu' = FALSE
    /\ logs' = [logs EXCEPT ![LogKey(h)][h.log] = @ \o Posted(h.job, h.at)]
    /\ Moved(h, [h EXCEPT !.phase = "answer"])
    /\ UNCHANGED <<runnerVars, timelines, logNextID, displayVars, endVars>>
-----------------------------------------------------------------------------
(* The orchestrator.                                                       *)

Said(j, what, s, detail) == [shown EXCEPT ![j] = Append(@, [what |-> what, step |-> s, detail |-> detail])]

\* ProgressUI.StepUpdate
StepUpdated(p, rec) ==
    IF rec.state = "InProgress"
    THEN [p EXCEPT !.step = rec.id, !.total = @ + 1]
    ELSE [p EXCEPT !.step = rec.id, !.done = @ + 1]

\* One record in the loop after the unlock: the step callback is called if it has a name.
Notify(h) ==
    /\ h \in handlers
    /\ h.phase = "notify"
    /\ h.next <= Len(h.recs)
    /\ Moved(h, [h EXCEPT !.next = @ + 1])
    /\ LET rec == h.recs[h.next] IN
       IF h.job \in Registered /\ rec.id \notin Unnamed
       THEN /\ shown' = Said(h.job, rec.state, rec.id, <<rec.result>>)
            /\ progress' = [progress EXCEPT ![h.job] = StepUpdated(@, rec)]
       ELSE UNCHANGED displayVars
    /\ UNCHANGED <<runnerVars, serverVars, endVars>>

EndNotify(h) ==
    /\ h \in handlers
    /\ h.phase = "notify"
    /\ h.next > Len(h.recs)
    /\ Moved(h, [h EXCEPT !.phase = "answer"])
    /\ UNCHANGED <<runnerVars, serverVars, displayVars, endVars>>

AnyFailed(j) == \E s \in StepIds : outcome[j][s] = "failed"

\* The job's result arrives when every request was answered.
CompleteReport(j) ==
    /\ jobEnd[j] = "running"
    /\ position[j] > Len(Script[j])
    /\ ~mu
    /\ jobEnd' = [jobEnd EXCEPT ![j] = IF AnyFailed(j) THEN "reporting" ELSE "success"]
    /\ shown' = IF AnyFailed(j) THEN shown ELSE Said(j, "JobCompleted", NoStep, <<"success">>)
    /\ progress' = IF AnyFailed(j) THEN progress
                   ELSE [progress EXCEPT ![j].status = "success", ![j].step = NoStep]
    /\ UNCHANGED <<runnerVars, handlers, serverVars, scanned>>

\* Mutant: one line of the tail is lost.
LastLinesShort(lines) ==
    SubSeq(lines, 2 + (IF Len(lines) > MaxLogLines THEN Len(lines) - MaxLogLines ELSE 0), Len(lines))

LastLines(lines) ==
    SubSeq(lines, 1 + (IF Len(lines) > MaxLogLines THEN Len(lines) - MaxLogLines ELSE 0), Len(lines))

\* Only logs kept under the timeline's id are part of the completion result.
LinesOf(j, rec) ==
    IF rec.log # 0 /\ "v1" \in ReportRoutes THEN logs[<<j, "v1">>][rec.log] ELSE <<>>

\* reportFailedSteps, one record of the timeline.
ReportStep(j) ==
    /\ jobEnd[j] = "reporting"
    /\ scanned[j] < Len(timelines[j])
    /\ LET rec == timelines[j][scanned[j] + 1] IN
          shown' = IF rec.result = "failed"
                   THEN Said(j, "FAILED", rec.id, LastLines(LinesOf(j, rec))) ELSE shown
    /\ scanned' = [scanned EXCEPT ![j] = @ + 1]
    /\ UNCHANGED <<runnerVars, handlers, serverVars, progress, jobEnd>>

FailedLines(j) ==
    FoldLeft(LAMBDA acc, rec : IF rec.result = "failed" THEN acc \o LinesOf(j, rec) ELSE acc,
             <<>>, timelines[j])

\* The dashboard keeps the last five lines; MaxLogLines stands for both bounds.
EndFailed(j) ==
    /\ jobEnd[j] = "reporting"
    /\ scanned[j] = Len(timelines[j])
    /\ jobEnd' = [jobEnd EXCEPT ![j] = "failure"]
    /\ shown' = Said(j, "JobCompleted", NoStep, <<"failure">>)
    /\ progress' = [progress EXCEPT ![j].status = "failure", ![j].step = NoStep,
                                    ![j].last = LastLines(FailedLines(j))]
    /\ UNCHANGED <<runnerVars, handlers, serverVars, scanned>>

\* A job whose context ends, or that fails before its runner starts, leaves the dashboard alone.
EndEarly(j, status) ==
    /\ jobEnd[j] = "running"
    /\ status = "failure" => position[j] = 1 /\ ~awaiting[j]
    /\ jobEnd' = [jobEnd EXCEPT ![j] = status]
    /\ shown' = Said(j, "JobCompleted", NoStep, <<status>>)
    /\ UNCHANGED <<runnerVars, handlers, serverVars, progress, scanned>>

HandlerStep(h) ==
    \/ LockTimeline(h) \/ MergeRecord(h) \/ UnlockTimeline(h) \/ Notify(h) \/ EndNotify(h)
    \/ OpenLog(h) \/ ReadBody(h) \/ AppendLines(h) \/ AnswerRequest(h)

ReportsNext ==
    \/ \E h \in handlers : HandlerStep(h)
    \/ \E j \in ReportJobs :
          \/ SendRequest(j) \/ SendAgain(j)
          \/ CompleteReport(j) \/ ReportStep(j) \/ EndFailed(j)
          \/ \E status \in {"failure", "cancelled"} : EndEarly(j, status)
-----------------------------------------------------------------------------
(* Properties.                                                             *)

\* The values the variables take: a timeline, logs and what is shown of them.
ReportsTypeOK ==
    /\ \A j \in ReportJobs : position[j] \in 1..(Len(Script[j]) + 1)
    /\ awaiting \in [ReportJobs -> BOOLEAN]
    /\ \A j \in ReportJobs : \A i \in DOMAIN timelines[j] : timelines[j][i] \in NewRecord
    /\ logNextID \in [LogKeys -> LogIds]
    /\ \A h \in handlers : h.phase \in {"arrived", "merge", "notify", "body", "answer"}
    /\ mu <=> \E h \in handlers : h.phase \in {"merge", "body"}
    /\ jobEnd \in [ReportJobs -> {"running", "reporting", "success", "failure", "cancelled"}]

Answered(j)   == {k \in DOMAIN Script[j] : k < position[j]}
Updates(j, k) == ToSet(Script[j][k].recs)
SaysIn(seq, what, s) == \E i \in DOMAIN seq : seq[i].what = what /\ seq[i].step = s

\* A timeline has exactly one record of every step the broker has confirmed (the merge by id
\* of handleUpdateTimeline and of the distributedtask handler).
OneRecordPerStep ==
    \A j \in ReportJobs :
        LET ids == [i \in DOMAIN timelines[j] |-> timelines[j][i].id] IN
        /\ IsInjective(ids)
        /\ \A k \in Answered(j) : \A u \in Updates(j, k) : u[1] \in ToSet(ids)

\* What the broker has confirmed to the runner has been shown to the user before: the callbacks
\* run after the unlock, but before the answer.  Only for the route that has callbacks.
ConfirmedIsShown ==
    route = "v1" =>
        \A j \in Registered : \A k \in Answered(j) : \A u \in Updates(j, k) :
            u[1] \notin Unnamed => SaysIn(shown[j], u[2], u[1])

\* A step is never shown to complete before it was shown to start, although callbacks run
\* outside the lock and copies of a request overtake each other.
StepsShownInOrder ==
    \A j \in ReportJobs : \A i \in DOMAIN shown[j] :
        shown[j][i].what = "Completed" =>
            SaysIn(SubSeq(shown[j], 1, i - 1), "InProgress", shown[j][i].step)

\* The log has the lines of request k of job j together, after the lines posted before them.
StoredIn(j, k, log) ==
    \E at \in 0..(Len(log) - Len(Posted(j, k))) :
        /\ SubSeq(log, at + 1, at + Len(Posted(j, k))) = Posted(j, k)
        /\ \A m \in 1..(k - 1) : Script[j][m].step = Script[j][k].step =>
              ToSet(Posted(j, m)) \subseteq ToSet(SubSeq(log, 1, at))

\* A confirmed line is in the log of its step, after the lines confirmed before it, and no log
\* holds lines of two steps or jobs.
LogsKeepLines ==
    \A j \in ReportJobs :
        /\ \A k \in Answered(j) : Script[j][k].kind = "post" =>
              StoredIn(j, k, logs[<<j, route>>][logOf[j][Script[j][k].step]])
        /\ \A i \in LogIds : \A l, m \in ToSet(logs[<<j, route>>][i]) :
              l[1] = j /\ l[1] = m[1] /\ l[2] = m[2]

\* Whatever is sent twice or late, timelines have a record per step and logs the confirmed lines.
ReportsInv == ReportsTypeOK /\ OneRecordPerStep /\ LogsKeepLines

\* What was confirmed to the runner was shown to the user, each step's start before its end.
ShownInv == ConfirmedIsShown /\ StepsShownInOrder

\* What the runner posts of step s.
PostedLines(j, s) ==
    LET posted[k \in 0..Len(Script[j])] ==
            IF k = 0 THEN <<>>
            ELSE IF Script[j][k].kind = "post" /\ Script[j][k].step = s
                 THEN posted[k - 1] \o Script[j][k].lines ELSE posted[k - 1]
    IN  posted[Len(Script[j])]

\* When a job has failed, every failed step was reported with the last lines of its log and no
\* other was.  A runner whose requests were late may have been overtaken by its own copies.
FailedStepsReported ==
    \A j \in ReportJobs :
        jobEnd[j] = "failure" /\ position[j] > Len(Script[j]) /\ late[j] = 0 =>
            \A s \in StepIds :
                LET said   == {i \in DOMAIN shown[j] : shown[j][i].what = "FAILED" /\ shown[j][i].step = s}
                    posted == PostedLines(j, s)
                    tail   == SubSeq(posted, IF Len(posted) > MaxLogLines
                                             THEN Len(posted) - MaxLogLines + 1 ELSE 1, Len(posted))
                IN  IF outcome[j][s] # "failed" THEN said = {}
                    ELSE /\ Cardinality(said) = 1
                         /\ route = "v1" =>
                               \A i \in said : shown[j][i].detail =
                                                [n \in DOMAIN tail |-> <<j, s, tail[n]>>]

\* Every request is answered, although one handler reads a body with the lock held and the
\* branches of handleTimelineLogsInner unlock one by one.
EveryRequestAnswered == \A j \in ReportJobs : awaiting[j] ~> ~awaiting[j]

\* The dashboard ends with the status the job ended with ("print the final state",
\* src/internal/orchestrator/progress.go:128).
FinalStatesShown ==
    \A j \in ReportJobs : jobEnd[j] \in {"success", "failure", "cancelled"} => progress[j].status = jobEnd[j]
=============================================================================
