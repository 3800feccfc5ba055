------------------------------ MODULE MCBroker ------------------------------
(***************************************************************************)
(* Small instances of Broker.  Two runners "a" and "b"; the assignments of *)
(* sessions to agents, of poll slots to sessions and of jobs to agents are *)
(* written here because a configuration file cannot hold functions.        *)
(***************************************************************************)
EXTENDS Broker

CONSTANTS a, b, sA, sB, p1, p2, p3, j1, j2, j3

\* One session per agent.
MCAgentOf == (sA :> a) @@ (sB :> b)

\* One request slot per session.
MCOwner1 == (p1 :> sA) @@ (p2 :> sB)

\* Session sA may poll again while an abandoned request is still served.
MCOwner2 == (p1 :> sA) @@ (p2 :> sB) @@ (p3 :> sA)

\* As executeJob does it: each job is for its own runner.
MCTargeted == (j1 :> a) @@ (j2 :> b)

\* A third job any runner may take (EnqueueJob without a target).
MCMixed == (j1 :> a) @@ (j2 :> b) @@ (j3 :> NoAgent)

\* Two jobs without a target.
MCFree == (j1 :> NoAgent) @@ (j2 :> NoAgent)
=============================================================================
