--------------------------- MODULE CalledWorkflow ---------------------------
(***************************************************************************)
(* A job that calls a workflow: executeReusableWorkflow in                 *)
(* src/internal/orchestrator/orchestrator.go, and what it passes in and    *)
(* out, src/internal/reusable.  A called workflow may call others, so the  *)
(* calls under way form a stack.                                           *)
(*                                                                         *)
(* Abstractions.  The jobs of a group get their results one after the      *)
(* other; how they run at the same time is WorkflowRun's matter.  Once the *)
(* context is done a job that is not over ends cancelled, or failed where  *)
(* it does not look at the context first.                                  *)
(***************************************************************************)
EXTENDS Naturals, SequencesExt

CONSTANTS Workflows,   \* workflow files
          Main,        \* the one a job of the run calls, with "secrets: inherit"
          CallGroups,  \* [Workflows -> the groups of its plan: a sequence of sets of jobs]
          CallNeeds,   \* [CallJobs -> jobs of the same plan; a need the plan skips counts for nothing]
          CallIf,      \* [CallJobs -> CallConditions]
          Uses,        \* [CallJobs -> Workflows \cup {NoWorkflow}]
          OutputForms, \* how output values may be written: subset of {"wrapped", "bare"}
          MainSecrets, \* secrets of the run: a function from names to values
          Passed,      \* [CallJobs -> its "secrets": a record of how and, if "named", names]
          With,        \* [CallJobs -> its "with": a function from inputs to values]
          Defaults,    \* [Workflows -> defaults of its inputs]
          NoWorkflow,
          NoJobCall

CallJobs == UNION {UNION ToSet(CallGroups[w]) : w \in Workflows}
JobsOfWorkflow(w) == UNION ToSet(CallGroups[w])

\* A job's if:, as in WorkflowRun.  One that is true or false when the workflow is planned leaves
\* the job without a condition, or out of the plan.
CallConditions == {"none", "always", "success", "failure", "cancelled", "needs"}

\* The groups are the planner's: a job is in one of them, after what it needs.  No workflow file
\* has the value of a secret in it.
ASSUME CallAssumption ==
    /\ Main \in Workflows
    /\ CallGroups \in [Workflows -> Seq(SUBSET CallJobs)]
    /\ \A w \in Workflows : \A g, h \in DOMAIN CallGroups[w] :
          CallGroups[w][g] \cap CallGroups[w][h] # {} => g = h
    /\ \A w \in Workflows : \A g \in DOMAIN CallGroups[w] : \A j \in CallGroups[w][g] :
          \A d \in CallNeeds[j] : \E h \in 1..(g - 1) : d \in CallGroups[w][h]
    /\ CallIf \in [CallJobs -> CallConditions]
    /\ Uses \in [CallJobs -> Workflows \cup {NoWorkflow}] /\ NoWorkflow \notin Workflows
    /\ NoJobCall \notin CallJobs
    /\ \A j \in CallJobs : Passed[j].how \notin {"none", "inherit"} =>
          Range(Passed[j].names) \cap Range(MainSecrets) = {}

VARIABLES
    calls,      \* calls under way, the innermost last
    returned,   \* results of the calls that are over: records of workflow, phase, jobs, status, output
    form,       \* how the values of outputs are written
    callCtxDone,
    startedWith \* [CallJobs -> statuses of its needs when it started]

callVars == <<calls, returned, form, callCtxDone, startedWith>>

(* What goes in.                                                           *)

\* MapInputs: what the caller gives, and the defaults of the inputs it does not give.
MapInputs(with, defaults) ==
    [n \in DOMAIN with \cup DOMAIN defaults |-> IF n \in DOMAIN with THEN with[n] ELSE defaults[n]]

\* MapSecrets: nothing, everything, or those named; a name the caller has not stays as it is written.
MapSecrets(secretsOf, pass) ==
    CASE pass.how = "none"    -> <<>>
      [] pass.how = "inherit" -> secretsOf
      [] OTHER -> [n \in DOMAIN pass.names |->
                     IF pass.names[n] \in DOMAIN secretsOf THEN secretsOf[pass.names[n]] ELSE pass.names[n]]
-----------------------------------------------------------------------------
(* The calls.                                                              *)

Call(w, inputs, secrets) ==
    [workflow |-> w, phase |-> "resolve", group |-> 1, inputs |-> inputs, secrets |-> secrets,
     results |-> [j \in JobsOfWorkflow(w) |-> "none"],   \* of executeGroup
     outputs |-> [j \in JobsOfWorkflow(w) |-> "none"],   \* calledJobOutputs
     success |-> TRUE, calling |-> NoJobCall]

CallInit ==
    /\ calls = <<Call(Main, Defaults[Main], MainSecrets)>>
    /\ returned = <<>>
    /\ form \in OutputForms
    /\ callCtxDone = FALSE
    /\ startedWith = [j \in CallJobs |-> {}]

Inner      == Last(calls)
Group      == CallGroups[Inner.workflow][Inner.group]
InGroups   == calls # <<>> /\ Inner.phase = "groups" /\ Inner.calling = NoJobCall
WithInner(frame) == [calls EXCEPT ![Len(calls)] = frame]
\* What comes out: EvalExpression does not know "${{", so such a value is an error and the output is
\* left out; without it the context has no "jobs" and the value is empty.
OutputOf == IF form = "wrapped" THEN "absent" ELSE "empty"

\* The innermost call is over; its caller has the result of the job.
Finish(status) ==
    LET outer == SubSeq(calls, 1, Len(calls) - 1) IN
    /\ returned' = Append(returned, [workflow |-> Inner.workflow, phase |-> Inner.phase,
                                     results |-> Inner.results, status |-> status,
                                     output |-> OutputOf])
    /\ calls' = IF outer = <<>> THEN <<>>
                ELSE [outer EXCEPT ![Len(outer)].results[Last(outer).calling] = status,
                                   ![Len(outer)].calling = NoJobCall]

\* The reference is wrong, the file is not found, or the workflow is not valid.
ResolveFails ==
    /\ calls # <<>> /\ Inner.phase = "resolve"
    /\ Finish("failure")
    /\ UNCHANGED <<form, callCtxDone, startedWith>>

Resolve ==
    /\ calls # <<>> /\ Inner.phase = "resolve"
    /\ calls' = WithInner([Inner EXCEPT !.phase = "groups"])
    /\ UNCHANGED <<returned, form, callCtxDone, startedWith>>

\* Jobs of the group that executeGroup has not decided on.
Undecided == {j \in Group : Inner.results[j] = "none"}

\* dependencyStatus
NeedsStatus(j) ==
    CASE \E d \in CallNeeds[j] : Inner.outputs[d] = "failure" -> "failure"
      [] \A d \in CallNeeds[j] : Inner.outputs[d] \notin {"failure", "cancelled"} -> "success"
      [] OTHER -> "cancelled"

\* A condition that reads the needs context has the value data; always() decides for the needs.
Allowed(j, data) ==
    CASE CallIf[j] = "needs"  -> data
      [] CallIf[j] = "always" -> TRUE
      [] CallIf[j] = "none"   -> NeedsStatus(j) = "success"
      [] OTHER                -> NeedsStatus(j) = CallIf[j]

MayRun(j)  == \E data \in BOOLEAN : Allowed(j, data)
MaySkip(j) == \E data \in BOOLEAN : ~Allowed(j, data)

SkipCalledJob(j) ==
    /\ MaySkip(j)
    /\ calls' = WithInner([Inner EXCEPT !.results[j] = "skipped"])
    /\ UNCHANGED <<returned, form, callCtxDone, startedWith>>

Statuses == IF callCtxDone THEN {"cancelled", "failure"} ELSE {"success", "failure"}

StartsWith(j) == startedWith' = [startedWith EXCEPT ![j] = {Inner.results[d] : d \in CallNeeds[j]}]

RunCalledJob(j) ==
    /\ MayRun(j)
    /\ Uses[j] = NoWorkflow
    /\ \E s \in Statuses : calls' = WithInner([Inner EXCEPT !.results[j] = s])
    /\ StartsWith(j)
    /\ UNCHANGED <<returned, form, callCtxDone>>

CallWorkflow(j) ==
    /\ MayRun(j)
    /\ Uses[j] # NoWorkflow
    /\ calls' = Append(WithInner([Inner EXCEPT !.calling = j]),
                       Call(Uses[j], MapInputs(With[j], Defaults[Uses[j]]),
                            MapSecrets(Inner.secrets, Passed[j])))
    /\ StartsWith(j)
    /\ UNCHANGED <<returned, form, callCtxDone>>

CalledJob == InGroups /\ Inner.group <= Len(CallGroups[Inner.workflow])
             /\ \E j \in Undecided : SkipCalledJob(j) \/ RunCalledJob(j) \/ CallWorkflow(j)

Succeeded(frame) == frame.success /\ \A j \in Group : frame.results[j] # "failure"

\* Mutant: the outputs of the group are not kept.
OutputsAfterNot(frame) == frame.outputs

OutputsAfter(frame) == [j \in DOMAIN frame.outputs |-> IF j \in Group THEN frame.results[j] ELSE frame.outputs[j]]

\* Mutant: the group is not left.
EndCalledGroupInPlace ==
    /\ InGroups
    /\ Inner.group <= Len(CallGroups[Inner.workflow])
    /\ Undecided = {}
    /\ calls' = WithInner([Inner EXCEPT !.success = Succeeded(Inner), !.outputs = OutputsAfter(Inner)])
    /\ UNCHANGED <<returned, form, callCtxDone, startedWith>>

EndCalledGroup ==
    /\ InGroups
    /\ Inner.group <= Len(CallGroups[Inner.workflow])
    /\ Undecided = {}
    /\ calls' = WithInner([Inner EXCEPT !.success = Succeeded(Inner), !.outputs = OutputsAfter(Inner),
                                        !.group = @ + 1])
    /\ UNCHANGED <<returned, form, callCtxDone, startedWith>>

ReturnFromCall ==
    /\ InGroups
    /\ Inner.group > Len(CallGroups[Inner.workflow])
    /\ Finish(IF Inner.success THEN "success" ELSE "failure")
    /\ UNCHANGED <<form, callCtxDone, startedWith>>

CancelCalls ==
    /\ ~callCtxDone
    /\ callCtxDone' = TRUE
    /\ UNCHANGED <<calls, returned, form, startedWith>>

CallProgress == ResolveFails \/ Resolve \/ CalledJob \/ EndCalledGroup \/ ReturnFromCall
CallNext     == CallProgress \/ CancelCalls
-----------------------------------------------------------------------------
(* Properties.                                                             *)

ResultValues == {"none", "success", "failure", "cancelled", "skipped"}

\* The values the variables take: a frame per call under way, each waiting for the next.
CallTypeOK ==
    /\ \A i \in DOMAIN calls :
          /\ calls[i].workflow \in Workflows
          /\ calls[i].group \in 1..(Len(CallGroups[calls[i].workflow]) + 1)
          /\ \A j \in DOMAIN calls[i].results : calls[i].results[j] \in ResultValues
          /\ i < Len(calls) => Uses[calls[i].calling] = calls[i + 1].workflow
          /\ DOMAIN Defaults[calls[i].workflow] \subseteq DOMAIN calls[i].inputs
    /\ \A j \in CallJobs : startedWith[j] \subseteq ResultValues

\* No job of a called workflow runs before its needs have results, whether they ran steps or called
\* workflows themselves, and it runs on results its condition is for: without one, or with success(),
\* never after a need that failed or was cancelled; with failure() only after one that failed; with
\* cancelled() after one that was cancelled, when none failed.
CalledNeedsHold ==
    \A j \in CallJobs :
        LET needs == startedWith[j] IN
        /\ "none" \notin needs
        /\ CallIf[j] \in {"none", "success"} => needs \cap {"failure", "cancelled"} = {}
        /\ CallIf[j] = "failure"   => needs = {} \/ "failure" \in needs
        /\ CallIf[j] = "cancelled" => needs = {} \/ ("cancelled" \in needs /\ "failure" \notin needs)

\* A call fails exactly if one of its jobs failed, at whatever depth, or its workflow could not
\* be resolved.
CallFailsIffJobFails ==
    \A i \in DOMAIN returned :
        LET r == returned[i].results IN
        returned[i].status = "failure" <=>
            returned[i].phase = "resolve" \/ \E j \in DOMAIN r : r[j] = "failure"

\* A call returns only when all its jobs, those of the calls below it too, have a result.
ReturnsWhenDecided ==
    \A i \in DOMAIN returned :
        returned[i].phase = "groups" =>
            \A j \in JobsOfWorkflow(returned[i].workflow) : returned[i].results[j] # "none"

\* A call holds a secret of the run only if its own caller does: what one call on the way does not
\* pass on, no call below it has.
SecretsArePassedOn ==
    \A i \in 2..Len(calls) :
        Range(calls[i].secrets) \cap Range(MainSecrets) \subseteq
            IF Passed[calls[i - 1].calling].how = "none" THEN {} ELSE Range(calls[i - 1].secrets)

\* What holds through all depths of calls: needs come first and conditions hold, failures go up, secrets only
\* go down where each caller passes them on (executeReusableWorkflow, MapSecrets).
CallInv ==
    CallTypeOK /\ CalledNeedsHold /\ CallFailsIffJobFails /\ ReturnsWhenDecided /\ SecretsArePassedOn

\* When the calls of "uses" do not go round in a circle, the run's calls all return.
CallsReturn == <>(calls = <<>>)

\* "Output values are expressions like ${{ jobs.build.outputs.version }}. Evaluate them against the
\* called workflow's job results." (src/internal/orchestrator/orchestrator.go:1499): a call that
\* succeeded delivers its output.
OutputsDelivered ==
    \A i \in DOMAIN returned : returned[i].status = "success" => returned[i].output = "delivered"
=============================================================================
