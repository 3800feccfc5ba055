----------------------------- MODULE MCPlanner -----------------------------
(***************************************************************************)
(* All workflows with three jobs, one of them a matrix of two nodes, each  *)
(* needing any of the three or a job that does not exist, and filters that *)
(* ask for a job, for a node, for matrix values, for all and for nothing.  *)
(***************************************************************************)
EXTENDS Planner

MatrixJobOf == ("a1" :> "a") @@ ("a2" :> "a") @@ ("b" :> "b") @@ ("c" :> "c")
MatrixOrder == <<"a1", "a2", "b", "c">>
MCMatrixValues == [n \in ToSet(MatrixOrder) |->
    CASE n = "a1" -> {<<"os", "1">>, <<"ver", "1">>}
      [] n = "a2" -> {<<"os", "2">>, <<"ver", "1">>}
      [] OTHER    -> {}]
MCMatrixFilters == {{}, {<<"os", "2">>}, {<<"ver", "1">>}, {<<"os", "1">>, <<"ver", "2">>}}
=============================================================================
