------------------------------- MODULE DagRun -------------------------------
(***************************************************************************)
(* What a run of a workflow promises, without plans, groups, goroutines,   *)
(* semaphores or contexts: a job starts after the jobs it needs have       *)
(* ended, and only if its condition allows it, a job ends once, and the    *)
(* verdict comes last and says whether a job failed that should not have.  *)
(***************************************************************************)
CONSTANTS Nodes,            \* the job instances of the workflow
          Planned,          \* those the run is responsible for
          Dropped,          \* those whose static condition was false
          Needs,            \* [Nodes -> SUBSET Nodes]
          If,               \* [Nodes -> kind of condition]
          ContinueOnError   \* the nodes that may fail

VARIABLES outcome,   \* [Nodes -> what became of the job so far]
          verdict    \* what the caller of the run is told

vars == <<outcome, verdict>>

Ended == {"success", "failure", "cancelled", "skipped"}

Init ==
    /\ outcome = [n \in Nodes |-> IF n \in Dropped THEN "skipped" ELSE "none"]
    /\ verdict = "none"

\* How the jobs that need n see it.
Conclusion(n) ==
    IF outcome[n] = "failure" /\ n \in ContinueOnError THEN "success" ELSE outcome[n]

NeedFailed(n)    == \E d \in Needs[n] : Conclusion(d) = "failure"
NeedCancelled(n) == \E d \in Needs[n] : Conclusion(d) = "cancelled"
NeedDropped(n)   == Needs[n] \cap Dropped # {}

NeedsEnded(n) == \A d \in Needs[n] \cap Planned : outcome[d] \in Ended

\* A condition on the needs context is about data: it may say either.
Allows(n) ==
    CASE If[n] \in {"none", "true"} ->
             ~(NeedFailed(n) \/ NeedCancelled(n) \/ NeedDropped(n))
      [] If[n] = "success"   -> ~(NeedFailed(n) \/ NeedCancelled(n))
      [] If[n] = "failure"   -> NeedFailed(n)
      [] If[n] = "cancelled" -> NeedCancelled(n) /\ ~NeedFailed(n)
      [] OTHER -> TRUE

Forbids(n) == If[n] \in {"needs", "always_needs"} \/ ~Allows(n)

Ready(n) == n \in Planned /\ outcome[n] = "none" /\ NeedsEnded(n)

Begin(n) ==
    /\ Ready(n)
    /\ Allows(n)
    /\ outcome' = [outcome EXCEPT ![n] = "running"]
    /\ UNCHANGED verdict

Skip(n) ==
    /\ Ready(n)
    /\ Forbids(n)
    /\ outcome' = [outcome EXCEPT ![n] = "skipped"]
    /\ UNCHANGED verdict

End(n, o) ==
    /\ outcome[n] = "running"
    /\ outcome' = [outcome EXCEPT ![n] = o]
    /\ UNCHANGED verdict

\* A run that was cancelled gives up jobs it has not started.
GiveUp ==
    /\ outcome' \in [Nodes -> Ended \cup {"none", "running"}]
    /\ \A n \in Nodes :
          outcome'[n] # outcome[n] => Ready(n) /\ outcome'[n] = "cancelled"
    /\ UNCHANGED verdict

HardFailure(n) == outcome[n] = "failure" /\ n \notin ContinueOnError

Conclude ==
    /\ verdict = "none"
    /\ \A n \in Planned : outcome[n] \in Ended
    /\ verdict' = IF \E n \in Planned : HardFailure(n) THEN "failure" ELSE "success"
    /\ UNCHANGED outcome

Next ==
    \/ \E n \in Nodes : Begin(n) \/ Skip(n)
    \/ \E n \in Nodes, o \in {"success", "failure", "cancelled"} : End(n, o)
    \/ GiveUp
    \/ Conclude

Spec == Init /\ [][Next]_vars
=============================================================================
