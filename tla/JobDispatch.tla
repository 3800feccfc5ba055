---------------------------- MODULE JobDispatch ----------------------------
(***************************************************************************)
(* What the broker promises the orchestrator and the runners, without the  *)
(* queue, the long polls, the HTTP handlers or the result channels: a job  *)
(* is submitted once, starts on at most one runner session (one that is    *)
(* allowed to take it and that has taken nothing else), its runner reports *)
(* one result, and that very result is what the submitter gets.            *)
(***************************************************************************)
CONSTANTS Jobs,          \* the jobs the orchestrator may submit
          Sessions,      \* the runner sessions
          Results,       \* what a runner may report of a job
          NoResult,      \* "no result yet"
          Accepts(_, _)  \* Accepts(s, j): session s may run job j

VARIABLES stage,     \* [Jobs -> "new" | "queued" | "running" | "done"]
          taken,     \* [Sessions -> SUBSET Jobs], the jobs a session has started
          reported,  \* what the runner of a job decided
          outcome    \* what the submitter was told

vars == <<stage, taken, reported, outcome>>

Init ==
    /\ stage    = [j \in Jobs |-> "new"]
    /\ taken    = [s \in Sessions |-> {}]
    /\ reported = [j \in Jobs |-> NoResult]
    /\ outcome  = [j \in Jobs |-> NoResult]

Submit(j) ==
    /\ stage[j] = "new"
    /\ stage' = [stage EXCEPT ![j] = "queued"]
    /\ UNCHANGED <<taken, reported, outcome>>

Start(s, j) ==
    /\ stage[j] = "queued"
    /\ Accepts(s, j)
    /\ taken[s] = {}
    /\ stage' = [stage EXCEPT ![j] = "running"]
    /\ taken' = [taken EXCEPT ![s] = {j}]
    /\ UNCHANGED <<reported, outcome>>

Report(j, r) ==
    /\ stage[j] = "running"
    /\ reported[j] = NoResult
    /\ reported' = [reported EXCEPT ![j] = r]
    /\ UNCHANGED <<stage, taken, outcome>>

Finish(j) ==
    /\ stage[j] = "running"
    /\ reported[j] # NoResult
    /\ stage'   = [stage EXCEPT ![j] = "done"]
    /\ outcome' = [outcome EXCEPT ![j] = reported[j]]
    /\ UNCHANGED <<taken, reported>>

Next ==
    \/ \E j \in Jobs : Submit(j) \/ Finish(j)
    \/ \E s \in Sessions, j \in Jobs : Start(s, j)
    \/ \E j \in Jobs, r \in Results : Report(j, r)

Spec == Init /\ [][Next]_vars
=============================================================================
