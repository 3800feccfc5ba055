--------------------------- MODULE MCJobExecution ---------------------------
(***************************************************************************)
(* Two jobs of one group: one with two services, one without.              *)
(***************************************************************************)
EXTENDS JobExecution, TLC

CONSTANTS a, b

MCName     == (a :> "a") @@ (b :> "b")
MCServices == (a :> {"db", "web"}) @@ (b :> {})
=============================================================================
