--------------------------- MODULE MCWorkflowRun ---------------------------
(***************************************************************************)
(* Small workflows for WorkflowRun.  The plan of each is the one JobPlan   *)
(* gives it; nodes are named by their ids.                                 *)
(*   Matrix   the matrix a, which may fail, and the job b side by side,    *)
(*            sharing a concurrency group; c (success()) needs a           *)
(*   Needs    a, then c (no condition, may fail), d (failure()), f         *)
(*            (cancelled()) and k (reads the needs context); then e (no    *)
(*            condition), which needs c, and h (always()), which needs c   *)
(*            and g, a job that was dropped                                *)
(***************************************************************************)
EXTENDS WorkflowRun

\* All nodes without needs, except those of the function given.
NeedsOf(nodes, needs) == [n \in nodes |-> IF n \in DOMAIN needs THEN needs[n] ELSE {}]
Everywhere(jobs, v)   == [j \in jobs |-> v]

MatrixJobOf == ("a1" :> "a") @@ ("a2" :> "a") @@ ("b" :> "b") @@ ("c" :> "c")
MatrixNeeds == NeedsOf(DOMAIN MatrixJobOf, "c" :> {"a1", "a2"})
MatrixIf    == Everywhere({"a", "b"}, "none") @@ ("c" :> "success")
MatrixOne   == ("a" :> 1) @@ Everywhere({"b", "c"}, NoLimit)
MatrixClaim == Everywhere({"a", "b"}, "deploy") @@ ("c" :> NoGroup)
MatrixPlan    == INSTANCE JobPlan WITH
    NodeOrder <- <<"a1", "a2", "b", "c">>,
    DependsOn <- MatrixNeeds,
    If        <- [n \in DOMAIN MatrixJobOf |-> MatrixIf[MatrixJobOf[n]]]
MatrixPlanned == MatrixPlan!PlanGroups
MatrixSkipped == MatrixPlan!PlanSkipped

NeedsJobs  == {"a", "c", "d", "e", "f", "g", "h", "k"}
NeedsJobOf == [n \in NeedsJobs |-> n]
NeedsNeeds == NeedsOf(NeedsJobs, [n \in {"c", "d", "f", "k"} |-> {"a"}] @@ ("e" :> {"c"})
                                 @@ ("h" :> {"c", "g"}))
NeedsIf    == ("d" :> "failure") @@ ("f" :> "cancelled") @@ ("g" :> "false")
              @@ ("h" :> "always_needs") @@ ("k" :> "needs") @@ Everywhere({"a", "c", "e"}, "none")
NeedsMax   == Everywhere(NeedsJobs, NoLimit)
NeedsFree  == Everywhere(NeedsJobs, NoGroup)
NeedsPlan    == INSTANCE JobPlan WITH
    NodeOrder <- <<"a", "c", "d", "e", "f", "g", "h", "k">>,
    DependsOn <- NeedsNeeds,
    If        <- [n \in DOMAIN NeedsJobOf |-> NeedsIf[NeedsJobOf[n]]]
NeedsPlanned == NeedsPlan!PlanGroups
NeedsSkipped == NeedsPlan!PlanSkipped
=============================================================================
