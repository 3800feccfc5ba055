----------------------------- MODULE MCReports ------------------------------
(***************************************************************************)
(* Job j1 of two steps, the second without a name, registered for          *)
(* progress, and j2, a job of a called workflow, which is not.             *)
(***************************************************************************)
EXTENDS StepReports

CONSTANTS s1, s2

MCScript == [j \in ReportJobs |->
    IF j = "j2" THEN << Patch(<< <<s1, "InProgress">> >>) >>
    ELSE << Patch(<< <<s1, "InProgress">> >>), Open(s1), Post(s1, <<1, 2>>), Post(s1, <<3>>),
            Patch(<< <<s1, "Completed">>, <<s2, "InProgress">> >>), Patch(<< <<s2, "Completed">> >>) >>]
MCOutcomes ==
    {[j \in ReportJobs |-> IF j = "j1" THEN f ELSE [s \in StepIds |-> "succeeded"]] :
        f \in {[s \in StepIds |-> "succeeded"], (s1 :> "failed") @@ (s2 :> "succeeded")}}

ASSUME FailuresAreSent

\* The handlers of requests that were received come to their end.
Spec == ReportsInit /\ [][ReportsNext]_reportVars /\ WF_reportVars(\E h \in handlers : HandlerStep(h))
=============================================================================
