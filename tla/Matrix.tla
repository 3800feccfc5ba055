------------------------------- MODULE Matrix -------------------------------
(***************************************************************************)
(* The job nodes of a matrix: resolveMatrixExpressions in                  *)
(* src/internal/orchestrator/orchestrator.go, ExpandMatrix in              *)
(* src/internal/graph/matrix.go and the first loop of Build in graph.go.   *)
(*                                                                         *)
(* Abstractions.  An expression is what it evaluates to: nothing (it       *)
(* refers to needs or is an error), a value that is no array, or an array. *)
(* Values of different types may have the same text (1 and "1").  The name *)
(* of a node is the function from keys to texts that matrixSuffix writes.  *)
(***************************************************************************)
EXTENDS Naturals, SequencesExt, Subsequences

CONSTANTS Matrices, \* the matrices of workflows: records, see MatrixTypeOK
          KeyOrder, \* the keys, sorted
          TextOf    \* [values -> what fmt.Sprintf writes for them]

VARIABLES
    matrix,  \* job.Strategy.Matrix
    stage,
    combos,  \* what ExpandMatrix returned
    made,    \* the node IDs of the job, jobToNodes
    nodes    \* g.Nodes: [node IDs -> index and total]

matrixVars == <<matrix, stage, combos, made, nodes>>

NoDims == <<>>
Keys   == ToSet(KeyOrder)
Values == DOMAIN TextOf

\* f, and g where f says nothing.
Over(f, g) == [k \in DOMAIN f \cup DOMAIN g |-> IF k \in DOMAIN f THEN f[k] ELSE g[k]]

\* An entry of include or exclude, and a combination.
Entry == UNION {[K -> Values] : K \in SUBSET Keys}

Evaluated(S) == [kind : {"fails", "other", "array"}, items : Seq(S)]

\* What the workflow file says of a matrix, and what its expressions evaluate to.
MatrixShape(m) ==
    /\ DOMAIN m = {"dims", "dimExprs", "include", "exclude", "includeExpr", "excludeExpr", "whole"}
    /\ DOMAIN m.dims \subseteq Keys     /\ m.dims \in [DOMAIN m.dims -> Seq(Values)]
    /\ DOMAIN m.dimExprs \subseteq Keys /\ m.dimExprs \in [DOMAIN m.dimExprs -> Evaluated(Values)]
    /\ m.include \in Seq(Entry)         /\ m.exclude \in Seq(Entry)
    /\ m.includeExpr \in Seq(Evaluated(Entry)) /\ m.excludeExpr \in Seq(Evaluated(Entry))

ASSUME MatrixAssumption ==
    /\ KeyOrder \in Seq(Keys) /\ IsInjective(KeyOrder)
    /\ \A m \in Matrices :
          /\ MatrixShape(m)
          /\ m.whole # <<>> /\ m.whole[1].kind = "object" => MatrixShape(m.whole[1].matrix)

MatrixInit ==
    /\ matrix \in Matrices
    /\ stage = "parsed"
    /\ combos = <<>>
    /\ made = <<>>
    /\ nodes = <<>>
-----------------------------------------------------------------------------
(* resolveMatrixExpressions.                                               *)

IsArray(e) == e.kind = "array"

\* The items of an include: or exclude: that is an expression (a sequence of at most one); a value
\* that is no array has none.
ListOr(expr, list) == IF expr = <<>> \/ Head(expr).kind = "fails" THEN list ELSE Head(expr).items

\* A dimension whose expression is no array stays an expression; one that was a list too is replaced.
ResolveDimensions(m) ==
    LET done == {k \in DOMAIN m.dimExprs : IsArray(m.dimExprs[k])} IN
    [m EXCEPT !.dims = Over([k \in done |-> m.dimExprs[k].items], m.dims),
              !.dimExprs = [k \in DOMAIN m.dimExprs \ done |-> m.dimExprs[k]],
              !.include = ListOr(m.includeExpr, @),
              !.exclude = ListOr(m.excludeExpr, @)]

\* A whole matrix that is an expression is replaced if it is an object.
ResolveMatrix ==
    /\ stage = "parsed"
    /\ stage' = "resolved"
    /\ matrix' = IF matrix.whole = <<>> THEN ResolveDimensions(matrix)
                 ELSE IF matrix.whole[1].kind = "object" THEN matrix.whole[1].matrix ELSE matrix
    /\ UNCHANGED <<combos, made, nodes>>
-----------------------------------------------------------------------------
(* ExpandMatrix.                                                           *)

Same(v, w) == TextOf[v] = TextOf[w]

MatchesOnKeys(combo, entry, keys) ==
    \A k \in keys : k \in DOMAIN combo /\ k \in DOMAIN entry /\ Same(combo[k], entry[k])

\* Each combination with each value of one more dimension.
Expanded(acc, k, vals) ==
    FlattenSeq([i \in DOMAIN acc |-> [n \in DOMAIN vals |-> Over([x \in {k} |-> vals[n]], acc[i])]])

\* One dimension after the other, in the order of their keys.
CartesianProduct(dims) ==
    LET result[n \in 0..Len(KeyOrder)] ==
            IF n = 0 THEN << NoDims >>
            ELSE IF KeyOrder[n] \in DOMAIN dims THEN Expanded(result[n - 1], KeyOrder[n], dims[KeyOrder[n]])
            ELSE result[n - 1]
    IN  result[Len(KeyOrder)]

\* Mutant: one key in common is enough to be excluded.
ExcludedByAny(combo, exclude) ==
    \E i \in DOMAIN exclude : \E k \in DOMAIN exclude[i] : MatchesOnKeys(combo, exclude[i], {k})

Excluded(combo, exclude) ==
    \E i \in DOMAIN exclude : MatchesOnKeys(combo, exclude[i], DOMAIN exclude[i])

\* Merged into every combination with the same values in the dimensions the entry names, if it
\* names one and there is such a combination; added otherwise.
Included(acc, inc, dims) ==
    LET overlap == DOMAIN inc \cap DOMAIN dims
        extra   == [k \in DOMAIN inc \ DOMAIN dims |-> inc[k]]
        hits    == {i \in DOMAIN acc : overlap # {} /\ MatchesOnKeys(acc[i], inc, overlap)}
    IN  IF hits = {} THEN Append(acc, inc)
        ELSE [i \in DOMAIN acc |-> IF i \in hits THEN Over(extra, acc[i]) ELSE acc[i]]

\* The combinations of the dimensions that no entry of exclude matches.
Combinations(m) ==
    LET product == IF m.dims = NoDims THEN <<>> ELSE CartesianProduct(m.dims)
    IN  At(product, {i \in DOMAIN product : ~Excluded(product[i], m.exclude)})

ExpandMatrix(m) ==
    LET result[n \in 0..Len(m.include)] ==
            IF n = 0 THEN Combinations(m) ELSE Included(result[n - 1], m.include[n], m.dims)
    IN  IF m.whole # <<>> THEN <<>> ELSE result[Len(m.include)]

Expand ==
    /\ stage = "resolved"
    /\ stage' = "expanded"
    /\ combos' = ExpandMatrix(matrix)
    /\ UNCHANGED <<matrix, made, nodes>>
-----------------------------------------------------------------------------
(* Build.                                                                  *)

\* matrixNodeID
NodeID(combo) == [k \in DOMAIN combo |-> TextOf[combo[k]]]

AddNode ==
    /\ stage = "expanded"
    /\ Len(made) < Len(combos)
    /\ LET i == Len(made) + 1
           id == NodeID(combos[i])
           node == [index |-> i - 1, total |-> Len(combos), combo |-> combos[i]]
       IN  /\ made' = Append(made, id)
           /\ nodes' = Over([x \in {id} |-> node], nodes)
    /\ UNCHANGED <<matrix, stage, combos>>

\* Without a combination the job is a single node without matrix values.
AddSingleNode ==
    /\ stage = "expanded"
    /\ combos = <<>>
    /\ made = <<>>
    /\ made' = << NoDims >>
    /\ nodes' = [x \in {NoDims} |-> [index |-> 0, total |-> 1, combo |-> NoDims]]
    /\ UNCHANGED <<matrix, stage, combos>>

MatrixNext == ResolveMatrix \/ Expand \/ AddNode \/ AddSingleNode
-----------------------------------------------------------------------------
(* Properties.                                                             *)

Built == stage = "expanded" /\ made # <<>> /\ Len(made) >= Len(combos)

\* The values the variables take.
MatrixTypeOK ==
    /\ stage \in {"parsed", "resolved", "expanded"}
    /\ DOMAIN matrix.dims \subseteq Keys
    /\ \A i \in DOMAIN combos : DOMAIN combos[i] \subseteq Keys
    /\ DOMAIN nodes = ToSet(made)

\* The choices of one value of each dimension that no entry of exclude matches.
DimChoices(m) ==
    {c \in [DOMAIN m.dims -> UNION {DOMAIN m.dims[k] : k \in DOMAIN m.dims}] :
        /\ \A k \in DOMAIN m.dims : c[k] \in DOMAIN m.dims[k]
        /\ ~\E i \in DOMAIN m.exclude :
               \A k \in DOMAIN m.exclude[i] :
                   k \in DOMAIN m.dims /\ TextOf[m.exclude[i][k]] = TextOf[m.dims[k][c[k]]]}

\* These choices are all there, once each, and no include entry changes one in a dimension (rules 1
\* and 2 of ExpandMatrix's comment).
ProductSurvives ==
    stage = "expanded" /\ matrix.dims # NoDims /\ matrix.whole = <<>> =>
        LET number == Cardinality(DimChoices(matrix)) IN
        /\ number <= Len(combos)
        /\ \E choice \in Bijection(1..number, DimChoices(matrix)) :
              \A i \in 1..number, k \in DOMAIN matrix.dims :
                  k \in DOMAIN combos[i] /\ combos[i][k] = matrix.dims[k][choice[i][k]]

\* Every include entry is in a combination, but for values outside the dimensions that a later entry
\* has overwritten (rule 3).
IncludesAreThere ==
    stage = "expanded" /\ matrix.whole = <<>> =>
        \A n \in DOMAIN matrix.include :
            LET inc == matrix.include[n]
                later(k) == {TextOf[matrix.include[m][k]] :
                                m \in {x \in n + 1..Len(matrix.include) : k \in DOMAIN matrix.include[x]}}
            IN  \E i \in DOMAIN combos : \A k \in DOMAIN inc :
                    /\ k \in DOMAIN combos[i]
                    /\ \/ TextOf[combos[i][k]] = TextOf[inc[k]]
                       \/ k \notin DOMAIN matrix.dims /\ TextOf[combos[i][k]] \in later(k)

\* The nodes of a job are numbered 0, 1, ... up to the total they all know, as long as no two
\* combinations have the same name.
NodesAreNumbered ==
    Built /\ IsInjective(made) =>
        {nodes[id].index : id \in DOMAIN nodes} = 0..(Cardinality(DOMAIN nodes) - 1)
        /\ \A id \in DOMAIN nodes : nodes[id].total = Cardinality(DOMAIN nodes)

\* The nodes of a matrix are the ones its dimensions, exclude and include call for, in every
\* combination of these and of expressions that resolve or do not.
MatrixInv == MatrixTypeOK /\ ProductSurvives /\ IncludesAreThere /\ NodesAreNumbered

\* "matrixNodeID generates a unique node ID for a matrix-expanded job" (src/internal/graph/graph.go:126).
NodeIDsAreUnique == IsInjective(made)
=============================================================================
