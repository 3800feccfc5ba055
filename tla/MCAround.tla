------------------------------ MODULE MCAround ------------------------------
(***************************************************************************)
(* The parts of ions around the dispatch and the run of jobs.  They share  *)
(* no state, so each behaviour drives one of them.                         *)
(*   Stream     two jobs, one of them with two processes that write        *)
(*   Watch      a tree of three directories                                *)
(*   Calls      main calls mid and leaf, and mid calls leaf                *)
(*   Cache      s1 saves with the old API, s2 and s3 save the same key     *)
(*              with the new one; not all archives fit                     *)
(*   Artifacts  u1 uploads with the new API, u2 and u3 the same name with  *)
(*              the old one, u2 two files of it; a run has u1 and u2, or   *)
(*              u2 and u3; the directory of id 1 is left over              *)
(*   Runners    two versions                                               *)
(*   Matrix     matrices over two dimensions and a key that is none        *)
(*   Expression expressions of up to two operators over all types          *)
(*   Text       templates, texts with expressions in them, glob patterns   *)
(***************************************************************************)
EXTENDS LogStream, Watcher, CalledWorkflow, CacheStore, ArtifactStore, RunnerInstall,
        Matrix, Expressions, Texts, TLC

CONSTANTS s1, s2, s3, r1, u1, u2, u3, f1,
          Parts
-----------------------------------------------------------------------------
MCPipeJob == [p \in Pipes |-> IF p = "p3" THEN "b" ELSE "a"]
MCInput == [p \in Pipes |->
    CASE p = "p1" -> {<<"::add-mask::", "x", "y">>}
      [] p = "p2" -> {<<"x", "y", "n", "n", "x", "y">>, <<"::error::", "x">>}
      [] p = "p3" -> {<<"::add-matcher::", "f", "n", "y">>, <<"::remove-matcher::", "g", "n", "::add-matcher::", "x">>,
                      <<"::group::", "x">>, <<"::debug::", "x">>, <<"::endgroup::">>}]
MCMatcherFile == [f \in {"f"} |-> [matchers |-> << [owner |-> "g", letter |-> "y"] >>, broken |-> FALSE]]
MCGivenSecrets == << <<"x">> >>

MCCallJobs == {"a", "b", "c", "d", "e", "f", "g", "h", "i", "k"}
MCCallGroups == ("main" :> << {"a", "b"}, {"c"}, {"i"} >>) @@ ("mid" :> << {"d"}, {"e"}, {"f"} >>)
                @@ ("leaf" :> << {"g"}, {"h", "k"} >>)
MCCallNeeds == [j \in MCCallJobs |->
    CASE j = "c" -> {"a", "b"} [] j = "i" -> {"a", "c"} [] j = "e" -> {"d"} [] j = "f" -> {"d", "e"}
      [] j \in {"h", "k"} -> {"g"} [] OTHER -> {}]
MCCallIf == [j \in MCCallJobs |->
    CASE j = "c" -> "failure" [] j = "i" -> "always" [] j = "e" -> "success" [] j = "f" -> "needs"
      [] j = "h" -> "cancelled" [] OTHER -> "none"]
MCUses == [j \in MCCallJobs |->
    CASE j = "a" -> "mid" [] j \in {"b", "e"} -> "leaf" [] OTHER -> NoWorkflow]
MCMainSecrets == ("TOKEN" :> "t") @@ ("KEY" :> "k")
MCPassed == [j \in MCCallJobs |->
    IF j = "a" THEN [how |-> "named", names |-> ("TOKEN" :> "TOKEN") @@ ("OTHER" :> "none such")]
    ELSE [how |-> IF j = "b" THEN "inherit" ELSE "none"]]
MCWith == [j \in MCCallJobs |-> IF j = "a" THEN "level" :> "high" ELSE <<>>]
MCDefaults == [w \in Workflows |-> IF w = "mid" THEN ("level" :> "low") @@ ("mode" :> "fast") ELSE <<>>]

MCApi       == (s1 :> "v1") @@ (s2 :> "v2") @@ (s3 :> "v2")
MCKey       == (s1 :> <<"go", "1">>) @@ (s2 :> <<"go", "2">>) @@ (s3 :> <<"go", "2">>)
MCVersion   == [s \in {s1, s2, s3} |-> "x"]
MCSize      == (s1 :> 2) @@ (s2 :> 1) @@ (s3 :> 1)
MCKeys      == r1 :> << <<"go", "2">>, <<"go">> >>
MCKeyVersion == r1 :> "x"

MCUploadSets == { {u1, u2}, {u2, u3} }
MCProtocol  == (u1 :> "v4") @@ (u2 :> "v3") @@ (u3 :> "v3")
MCFilesOf   == (u1 :> {ZipFile}) @@ (u2 :> {"log", "bin"}) @@ (u3 :> {"log"})
MCName      == (u1 :> "x") @@ (u2 :> "y") @@ (u3 :> "y")

\* The number 1 and the text "1" look the same.
MCTextOf == ("1" :> "1") @@ ("1s" :> "1") @@ ("2" :> "2")
MCDims == { NoDims, "os" :> <<"1", "2">>, ("os" :> <<"1", "2">>) @@ ("ver" :> <<"1s", "2">>),
            ("os" :> <<"1">>) @@ ("ver" :> <<>>), "os" :> <<"1", "1">> }
MCEntries == { "os" :> "1s", ("os" :> "1") @@ ("ver" :> "2"), ("os" :> "2") @@ ("exp" :> "1"),
               "exp" :> "2", ("os" :> "1") @@ ("ver" :> "1") @@ ("exp" :> "2") }
MCLists == UNION {[1..n -> MCEntries] : n \in 0..2}
PlainMatrix(dims, include, exclude) ==
    [dims |-> dims, dimExprs |-> <<>>, include |-> include, exclude |-> exclude,
     includeExpr |-> <<>>, excludeExpr |-> <<>>, whole |-> <<>>]
MCPlain == {PlainMatrix(d, i, e) : d \in MCDims, i \in MCLists, e \in {x \in MCLists : Len(x) <= 1}}
MCValues == {[kind |-> "fails", items |-> <<>>], [kind |-> "other", items |-> <<>>],
             [kind |-> "array", items |-> <<"2">>]}
MCListValues == {[kind |-> "fails", items |-> <<>>], [kind |-> "other", items |-> <<>>],
                 [kind |-> "array", items |-> << ("os" :> "2") @@ ("exp" :> "1") >>]}
Optional(S) == {<<>>} \cup {<<x>> : x \in S}
MCWithExprs ==
    {[m EXCEPT !.dimExprs = "ver" :> v, !.includeExpr = i, !.excludeExpr = e] :
        m \in {PlainMatrix(d, i, <<>>) : d \in MCDims, i \in {<<>>, << "exp" :> "2" >>}},
        v \in MCValues, i \in Optional(MCListValues), e \in Optional(MCListValues)}
MCKeyOrder == <<"exp", "os", "ver">>
MCWhole ==
    {[PlainMatrix(NoDims, <<>>, <<>>) EXCEPT !.whole = <<w>>] :
        w \in {[kind |-> k, matrix |-> PlainMatrix("os" :> <<"1", "2">>, << "os" :> "2" >>, <<>>)] :
                  k \in {"fails", "other", "object"}}}
MCMatrices == MCPlain \cup MCWithExprs \cup MCWhole

\* Leaves of every type; "inf" is a text no number is made of.
MCLeafValue == ("null" :> Null) @@ ("true" :> Bool(TRUE)) @@ ("0" :> Number({0})) @@ ("2" :> Number({2}))
               @@ ("NaN" :> Number({})) @@ ("'2'" :> String("2")) @@ ("'A'" :> String("A"))
               @@ ("''" :> String("")) @@ ("list" :> Array(<<"a", "2">>))
               @@ ("success" :> String("")) @@ ("min" :> String("")) @@ ("contains" :> String(""))
MCLeafTokens == DOMAIN MCLeafValue
MCTexts == {"", "2", "A", "a", "0", "1", "NaN", "true", "false", "json"}
MCTextNumber == [t \in MCTexts |-> CASE t = "" -> {0} [] t = "0" -> {0} [] t = "1" -> {1} [] t = "2" -> {2}
                                     [] OTHER -> {}]
MCNumberText == ({} :> "NaN") @@ ({0} :> "0") @@ ({1} :> "1") @@ ({2} :> "2")
MCFold == [t \in MCTexts |-> CASE t = "A" -> "a" [] t = "NaN" -> "nan" [] OTHER -> t]
MCLower == {MCFold[t] : t \in MCTexts}
MCWithin == {<<t, u>> \in MCLower \X MCLower :
                t = "" \/ t = u \/ <<t, u>> \in {<<"a", "nan">>, <<"a", "false">>}}
MCOperands == {Node(t, <<>>) : t \in {"2", "'A'", "list"}}
              \cup {Node("call", <<Node(f, <<>>)>>) : f \in {"success", "min"}}
MCGrowths == << [operators |-> UNION Range(Levels), operands |-> MCOperands],
                [operators |-> {"||", "&&", "!=", "<="},
                 operands |-> {Node("call", <<Node("success", <<>>)>>)}] >>

MCAlphabet == [p \in Purposes |->
    CASE p = "format"      -> {"{", "}", "0", "1", "x"}
      [] p = "interpolate" -> {"${{", "}", "'", "x"}
      [] p = "glob"        -> {"**", "*", "a", "b"}]
MCMaxText == [p \in Purposes |-> IF p = "interpolate" THEN 6 ELSE 4]
MCArguments == << <<"{">>, <<"x", "}">> >>
MCPaths == << <<"a">>, <<"a", "a", "b">>, <<"a", "b">>, <<"b", "a">>, <<"b">> >>
MCPathOrder == << <<"a">>, <<"a", "a", "b">>, <<"a", "b">>, <<"b">>, <<"b", "a">> >>

VARIABLE part

\* A part that does not move starts in one way only.
Init ==
    /\ part \in Parts
    /\ StreamInit /\ WatchInit /\ CallInit /\ CacheInit /\ ArtifactInit /\ InstallInit
    /\ part # "stream" => unread = [p \in Pipes |-> CHOOSE i \in Input[p] : TRUE]
    /\ part # "calls"  => form = "wrapped"
    /\ part # "artifacts" => uploading[u1] = "create"
    /\ IF part = "matrix" THEN MatrixInit ELSE matrix = PlainMatrix(NoDims, <<>>, <<>>) /\ MatrixInit
    /\ IF part = "expression" THEN ExprInit ELSE growth = 0 /\ expression = Node("null", <<>>)
    /\ IF part = "text" THEN TextInit ELSE purpose = "format" /\ text = <<>>

aroundVars   == <<streamVars, watchVars, callVars>>
keptVars     == <<cacheVars, artifactVars, installVars>>
languageVars == <<matrixVars, exprVars, textVars>>

StreamMove   == part = "stream"     /\ StreamNext   /\ UNCHANGED <<part, watchVars, callVars, keptVars, languageVars>>
WatchMove    == part = "watch"      /\ WatchNext    /\ UNCHANGED <<part, streamVars, callVars, keptVars, languageVars>>
CallMove     == part = "calls"      /\ CallNext     /\ UNCHANGED <<part, streamVars, watchVars, keptVars, languageVars>>
CacheMove    == part = "cache"      /\ CacheNext    /\ UNCHANGED <<part, aroundVars, artifactVars, installVars, languageVars>>
ArtifactMove == part = "artifacts"  /\ ArtifactNext /\ UNCHANGED <<part, aroundVars, cacheVars, installVars, languageVars>>
InstallMove  == part = "runners"    /\ InstallNext  /\ UNCHANGED <<part, aroundVars, cacheVars, artifactVars, languageVars>>
MatrixMove   == part = "matrix"     /\ MatrixNext   /\ UNCHANGED <<part, aroundVars, keptVars, exprVars, textVars>>
ExprMove     == part = "expression" /\ ExprNext     /\ UNCHANGED <<part, aroundVars, keptVars, matrixVars, textVars>>
TextMove     == part = "text"       /\ TextNext     /\ UNCHANGED <<part, aroundVars, keptVars, matrixVars, exprVars>>

Next ==
    \/ StreamMove \/ WatchMove \/ CallMove
    \/ CacheMove \/ ArtifactMove \/ InstallMove
    \/ MatrixMove \/ ExprMove \/ TextMove

vars == <<part, aroundVars, keptVars, languageVars>>

\* The watch loop and its callbacks take their steps, runs end (their jobs
\* have timeouts), and a call goes on.
Fairness ==
    /\ WF_vars(part = "watch" /\ WatchStep /\ UNCHANGED <<part, streamVars, callVars, keptVars, languageVars>>)
    /\ WF_vars(part = "calls" /\ CallProgress /\ UNCHANGED <<part, streamVars, watchVars, keptVars, languageVars>>)

Spec == Init /\ [][Next]_vars /\ Fairness

\* CallsReturn, where calls move: the run's calls all return (executeReusableWorkflow).
CallsReturnInTheirPart == part = "calls" => CallsReturn
=============================================================================
