---------------------------- MODULE Expressions ----------------------------
(***************************************************************************)
(* The expressions of ${{ }}, src/internal/expression: the parser          *)
(* (parser.go), the evaluator (evaluator.go) and the conversions of values *)
(* (coercion.go), as operators.                                            *)
(*                                                                         *)
(* Abstractions.  A token is a string; names and literals are tokens whose *)
(* value LeafValue gives.  A number is a set: {n}, or {} for NaN.  A text  *)
(* is a model string; TextNumber is what strconv makes of it and Fold its  *)
(* lower-case form.  A value is a record of its kind and the part of it    *)
(* that counts.  Objects are left out: their fields are looked up by name. *)
(* A call has no arguments or two.                                         *)
(***************************************************************************)
EXTENDS Integers, SequencesExt

CONSTANTS LeafTokens,  \* names and literals
          NameTokens,  \* the names among them
          Keywords,    \* the literals that may be the name of a field
          LeafValue,   \* [LeafTokens -> values]
          TextNumber,  \* [texts -> numbers]
          NumberText,  \* [numbers -> texts]
          Fold,        \* [texts -> texts]
          Within,      \* pairs of lower-case texts, the first a part of the second
          Operands,    \* expressions an expression is combined with
          Growths,     \* bound: what is put around the first leaf, a sequence of records of
                       \* operators and operands
          MaxHeight    \* bound: height of the operands

VARIABLES expression, growth

exprVars == <<expression, growth>>
-----------------------------------------------------------------------------
(* The nodes of ast.go.                                                    *)

Node(op, of) == [op |-> op, of |-> of]
Leaves(S)    == {Node(t, <<>>) : t \in S}

\* From the loosest to the tightest; all associate to the left.
Levels == << {"||"}, {"&&"}, {"==", "!="}, {"<", "<=", ">", ">="} >>

\* What an operator, an access or a call makes of expressions in S.
MadeOf(S) ==
    [op : {"!", "()"}, of : [1..1 -> S]]
    \cup [op : (UNION ToSet(Levels)) \cup {"[]"}, of : S \X S]
    \cup [op : {"."}, of : S \X Leaves(NameTokens \cup Keywords)]
    \cup [op : {"call"}, of : [1..1 -> Leaves(NameTokens)] \cup (Leaves(NameTokens) \X S \X S)]

\* The properties are about an expression that has grown, an operand, and two operators more.
Tallest == MaxHeight + Len(Growths) + 2

\* The expressions up to a height.
Trees == LET upTo[h \in 0..Tallest] == IF h = 0 THEN Leaves(LeafTokens)
                                       ELSE Leaves(LeafTokens) \cup MadeOf(upTo[h - 1])
         IN  upTo

Expressions == Trees[Tallest]
-----------------------------------------------------------------------------
(* Parsing: whether it succeeded, the node and the position of the first   *)
(* token it did not take.  later has what is parsed further to the right:  *)
(* later[i][level] from position i on at a level.                          *)

Fails        == [ok |-> FALSE, node |-> Node("", <<>>), at |-> 0]
Parsed(n, i) == [ok |-> TRUE, node |-> n, at |-> i]
Tok(ts, i)   == IF i \in DOMAIN ts THEN ts[i] ELSE "EOF"

\* Mutant: an operator of the same level may follow on the right only.
RightLevelSame(level) == level

\* The level the operand to the right of an operator is parsed at.
RightLevel(level) == level + 1

\* The level of a unary expression, at which the operand of ! is parsed as well, and of a postfix one.
NotOperand == 5
Postfix    == 6

ParsePrimary(ts, later, i) ==
    IF Tok(ts, i) \in LeafTokens THEN Parsed(Node(ts[i], <<>>), i + 1)
    ELSE IF Tok(ts, i) = "("
    THEN LET e == later[i + 1][1] IN
         IF e.ok /\ Tok(ts, e.at) = ")" THEN Parsed(Node("()", <<e.node>>), e.at + 1) ELSE Fails
    ELSE Fails

\* An argument more, after a comma.
ParseArg(ts, later, args) ==
    IF ~args.ok \/ Tok(ts, args.at) # "," THEN args
    ELSE LET e == later[args.at + 1][1] IN
         IF e.ok THEN Parsed(Append(args.node, e.node), e.at) ELSE Fails

\* The arguments from position i on, up to the parenthesis.
ParseArgs(ts, later, i) ==
    LET first == later[i][1]
        args[k \in 0..Len(ts)] ==
            IF k > 0 THEN ParseArg(ts, later, args[k - 1])
            ELSE IF first.ok THEN Parsed(<<first.node>>, first.at) ELSE Fails
        all == args[Len(ts)]
    IN  IF Tok(ts, i) = ")" THEN Parsed(<<>>, i + 1)
        ELSE IF all.ok /\ Tok(ts, all.at) = ")" THEN Parsed(all.node, all.at + 1) ELSE Fails

\* What may follow a primary: field, index, call of a name.
ParsePostfix(ts, later, p) ==
    IF ~p.ok THEN p
    ELSE IF Tok(ts, p.at) = "."
    THEN IF Tok(ts, p.at + 1) \in NameTokens \cup Keywords
         THEN Parsed(Node(".", <<p.node, Node(ts[p.at + 1], <<>>)>>), p.at + 2) ELSE Fails
    ELSE IF Tok(ts, p.at) = "["
    THEN LET e == later[p.at + 1][1] IN
         IF e.ok /\ Tok(ts, e.at) = "]" THEN Parsed(Node("[]", <<p.node, e.node>>), e.at + 1) ELSE Fails
    ELSE IF Tok(ts, p.at) = "("
    THEN LET args == ParseArgs(ts, later, p.at + 1) IN
         IF p.node.op \in NameTokens /\ args.ok
         THEN Parsed(Node("call", <<p.node>> \o args.node), args.at) ELSE Fails
    ELSE p

\* What may follow an operand: an operator of the level and another operand.
ParseBinary(ts, later, level, p) ==
    IF ~p.ok \/ Tok(ts, p.at) \notin Levels[level] THEN p
    ELSE LET e == later[p.at + 1][RightLevel(level)] IN
         IF e.ok THEN Parsed(Node(ts[p.at], <<p.node, e.node>>), e.at) ELSE Fails

\* The loops: one more after p as long as there is one.
ParseMore(ts, later, level, p) ==
    LET first == IF level = Postfix THEN {".", "[", "("} ELSE Levels[level]
        more[k \in 0..Len(ts)] ==
            IF k = 0 THEN p
            ELSE IF level = Postfix THEN ParsePostfix(ts, later, more[k - 1])
            ELSE ParseBinary(ts, later, level, more[k - 1])
    IN  IF p.ok /\ Tok(ts, p.at) \in first THEN more[Len(ts)] ELSE p

\* What is parsed from position i on, at each level.
ParseLevel(ts, later, i) ==
    LET at[level \in 1..Postfix] ==
            IF level = Postfix THEN ParseMore(ts, later, Postfix, ParsePrimary(ts, later, i))
            ELSE IF level < NotOperand THEN ParseMore(ts, later, level, at[level + 1])
            ELSE IF Tok(ts, i) # "!" THEN at[Postfix]
            ELSE LET e == later[i + 1][NotOperand] IN
                 IF e.ok THEN Parsed(Node("!", <<e.node>>), e.at) ELSE Fails
    IN  at

Parse(ts) ==
    LET N == Len(ts)
        from[i \in 1..(N + 1)] == ParseLevel(ts, [j \in (i + 1)..(N + 1) |-> from[j]], i)
        p == from[1][1]
    IN  IF p.ok /\ p.at = N + 1 THEN p ELSE Fails
-----------------------------------------------------------------------------
(* Values.                                                                 *)

Null      == [kind |-> "null", of |-> {}]
Bool(b)   == [kind |-> "bool", of |-> {b}]
Number(n) == [kind |-> "number", of |-> n]
String(t) == [kind |-> "string", of |-> {t}]
Array(ts) == [kind |-> "array", of |-> ts]  \* its items are strings
TextOfValue(v) == CHOOSE t \in v.of : TRUE

IsNumber(n) == n \in SUBSET Int /\ \A a, b \in n : a = b
IsValue(v) ==
    CASE v.kind = "null"   -> v.of = {}
      [] v.kind = "bool"   -> v.of \in {{TRUE}, {FALSE}}
      [] v.kind = "number" -> IsNumber(v.of)
      [] v.kind = "string" -> \E t \in DOMAIN TextNumber : v.of = {t}
      [] v.kind = "array"  -> v.of \in Seq(DOMAIN TextNumber)
      [] OTHER -> FALSE

\* Tokens of other kinds, and the kinds of nodes that are no tokens.
Reserved == (UNION ToSet(Levels)) \cup {"!", "(", ")", "[", "]", ".", ",", "EOF", "()", "[]", "call"}

ASSUME ExprAssumption ==
    /\ NameTokens \cup Keywords \subseteq LeafTokens /\ LeafTokens \cap Reserved = {}
    /\ \A t \in LeafTokens : IsValue(LeafValue[t])
    /\ \A t \in DOMAIN TextNumber : IsNumber(TextNumber[t])
    /\ MaxHeight \in Nat /\ Operands \subseteq Trees[MaxHeight]
    /\ Growths \in Seq([operators : SUBSET UNION ToSet(Levels), operands : SUBSET Trees[MaxHeight]])

IsTruthy(v) ==
    CASE v.kind = "null"   -> FALSE
      [] v.kind = "bool"   -> v.of = {TRUE}
      [] v.kind = "number" -> v.of \notin {{}, {0}}
      [] v.kind = "string" -> v.of # {""}
      [] v.kind = "array"  -> TRUE

CoerceToNumber(v) ==
    CASE v.kind = "null"   -> {0}
      [] v.kind = "bool"   -> IF v.of = {TRUE} THEN {1} ELSE {0}
      [] v.kind = "number" -> v.of
      [] v.kind = "string" -> TextNumber[TextOfValue(v)]
      [] v.kind = "array"  -> {}

CoerceToString(v) ==
    CASE v.kind = "null"   -> ""
      [] v.kind = "bool"   -> IF v.of = {TRUE} THEN "true" ELSE "false"
      [] v.kind = "number" -> NumberText[v.of]
      [] v.kind = "string" -> TextOfValue(v)
      [] v.kind = "array"  -> "json"

\* Null equals null only; NaN equals nothing.
EqualCompare(a, b) ==
    IF a.kind = b.kind THEN CASE a.kind = "number" -> a.of = b.of /\ a.of # {}
                              [] a.kind = "string" -> Fold[TextOfValue(a)] = Fold[TextOfValue(b)]
                              [] OTHER -> a.of = b.of
    ELSE IF "null" \in {a.kind, b.kind} THEN FALSE
    ELSE CoerceToNumber(a) = CoerceToNumber(b) /\ CoerceToNumber(a) # {}

Compare(op, a, b) ==
    \E m \in CoerceToNumber(a), n \in CoerceToNumber(b) :
        CASE op = "<" -> m < n [] op = "<=" -> m <= n [] op = ">" -> m > n [] op = ">=" -> m >= n
-----------------------------------------------------------------------------
(* Evaluation.                                                             *)

\* Null for what is out of bounds, for an index that is no number, and for values without items.
IndexAccess(v, index) ==
    IF v.kind = "array" /\ index.kind = "number" /\ \E n \in index.of : n + 1 \in DOMAIN v.of
    THEN String(v.of[(CHOOSE n \in index.of : TRUE) + 1])
    ELSE Null

Error    == [ok |-> FALSE, value |-> Null]
Value(v) == [ok |-> TRUE, value |-> v]

\* One of the items of an array, or a part of a text.
fnContains(search, item) ==
    LET wanted == Fold[CoerceToString(item)] IN
    Value(Bool(IF search.kind = "array" THEN \E i \in DOMAIN search.of : Fold[search.of[i]] = wanted
               ELSE <<wanted, Fold[CoerceToString(search)]>> \in Within))

fnMin(a, b) ==
    LET m == CoerceToNumber(a)  n == CoerceToNumber(b) IN
    Value(Number(IF m = {} \/ n = {} THEN {} ELSE IF Compare("<=", a, b) THEN m ELSE n))
fnMax(a, b) ==
    LET m == CoerceToNumber(a)  n == CoerceToNumber(b) IN
    Value(Number(IF m = {} \/ n = {} THEN {} ELSE IF Compare(">=", a, b) THEN m ELSE n))

StatusFunctions == {"success", "failure", "always", "cancelled"}

\* Status functions take no arguments; a function nobody knows is an error before its arguments are looked at.
CallStatus(name, args, status) ==
    IF args # <<>> THEN Error ELSE Value(Bool(name = "always" \/ name = status))

CallFunction(name, args) ==
    IF name \notin {"contains", "min", "max"} \/ Len(args) # 2 \/ \E i \in DOMAIN args : ~args[i].ok THEN Error
    ELSE CASE name = "contains" -> fnContains(args[1].value, args[2].value)
           [] name = "min" -> fnMin(args[1].value, args[2].value)
           [] name = "max" -> fnMax(args[1].value, args[2].value)

\* Mutant: a truthy left operand decides && as well.
DecidesTruthy(op, left) == IsTruthy(left)

\* The left operand of && and || decides.
Decides(op, left) == IF op = "||" THEN IsTruthy(left) ELSE ~IsTruthy(left)

\* What a node is worth when its parts are worth r.
Worth(n, r, status) ==
    CASE n.of = <<>> -> Value(LeafValue[n.op])
      [] n.op = "()" -> r[1]
      [] n.op = "call" -> IF n.of[1].op \in StatusFunctions
                          THEN CallStatus(n.of[1].op, Tail(n.of), status)
                          ELSE CallFunction(n.of[1].op, Tail(r))
      [] n.op = "!" -> IF r[1].ok THEN Value(Bool(~IsTruthy(r[1].value))) ELSE Error
      [] n.op \in {"&&", "||"} -> IF ~r[1].ok \/ Decides(n.op, r[1].value) THEN r[1] ELSE r[2]
      [] n.op \in {"==", "!=", "<", "<=", ">", ">="} ->
            IF ~r[1].ok \/ ~r[2].ok THEN Error
            ELSE Value(Bool(CASE n.op = "==" -> EqualCompare(r[1].value, r[2].value)
                              [] n.op = "!=" -> ~EqualCompare(r[1].value, r[2].value)
                              [] OTHER -> Compare(n.op, r[1].value, r[2].value)))
      [] n.op = "." -> IF r[1].ok THEN Value(Null) ELSE Error  \* no value here is an object
      [] n.op = "[]" -> IF r[1].ok /\ r[2].ok THEN Value(IndexAccess(r[1].value, r[2].value)) ELSE Error

Eval(n, status) ==
    LET value[m \in Expressions] == Worth(m, [i \in DOMAIN m.of |-> value[m.of[i]]], status)
    IN  value[n]
-----------------------------------------------------------------------------
(* The expressions that are checked: a leaf, with operators put around it. *)

ExprInit == growth = 0 /\ expression \in Leaves(LeafTokens)

ExprNext ==
    /\ growth < Len(Growths)
    /\ growth' = growth + 1
    /\ \/ \E op \in Growths[growth'].operators, x \in Growths[growth'].operands :
             expression' \in {Node(op, <<expression, x>>), Node(op, <<x, expression>>)}
       \/ \E op \in {"!", "()"} : expression' = Node(op, <<expression>>)
       \/ \E x \in Growths[growth'].operands : expression' = Node("[]", <<x, expression>>)
       \/ \E f \in Leaves(NameTokens \cup Keywords) : expression' = Node(".", <<expression, f>>)
       \/ \E f \in Leaves(NameTokens) :
             expression' \in {Node("call", <<f>>), Node("call", <<f, expression, f>>)}
-----------------------------------------------------------------------------
(* Properties.                                                             *)

LevelOf(op) ==
    IF \E l \in 1..4 : op \in Levels[l] THEN CHOOSE l \in 1..4 : op \in Levels[l]
    ELSE IF op = "!" THEN 5 ELSE 6

\* The level a part of an expression is written at.
PartLevel(op, i) ==
    IF op = "!" THEN 5 ELSE IF op = "()" THEN 1 ELSE IF LevelOf(op) < 5 THEN LevelOf(op) + i - 1
    ELSE IF i = 1 THEN 6 ELSE 1

\* A node at each level, when its parts are r: how it is written with as few parentheses as the
\* grammar allows (parser.go:52), and what is to be read in this.
Spelled(n, r) ==
    LET part == [i \in DOMAIN n.of |-> r[i][PartLevel(n.op, i)]]
        text == CASE n.of = <<>> -> <<n.op>>
                  [] n.op = "!"  -> <<"!">> \o part[1].text
                  [] n.op = "()" -> <<"(">> \o part[1].text \o <<")">>
                  [] n.op = "."  -> part[1].text \o <<".", n.of[2].op>>
                  [] n.op = "[]" -> part[1].text \o <<"[">> \o part[2].text \o <<"]">>
                  [] n.op = "call" -> <<n.of[1].op, "(">>
                                      \o (IF Len(n.of) = 1 THEN <<>> ELSE part[2].text \o <<",">> \o part[3].text)
                                      \o <<")">>
                  [] OTHER -> part[1].text \o <<n.op>> \o part[2].text
        node == Node(n.op, [i \in DOMAIN n.of |-> part[i].node])
    IN  [level \in 1..6 |->
            IF level <= LevelOf(n.op) THEN [text |-> text, node |-> node]
            ELSE [text |-> <<"(">> \o text \o <<")">>, node |-> Node("()", <<node>>)]]

Written(n) ==
    LET spelling[m \in Expressions] == Spelled(m, [i \in DOMAIN m.of |-> spelling[m.of[i]]])
    IN  spelling[n][1]

\* Parse reads every expression as the grammar in its comment says: precedence, associativity, and
\* no parenthesis too many or too few.
ParseInvertsWriting ==
    LET w == Written(expression) IN Parse(w.text) = Parsed(w.node, Len(w.text) + 1)

Truth(n, status) == LET r == Eval(n, status) IN IF r.ok THEN {IsTruthy(r.value)} ELSE {}

\* A condition and its two ways of writing it with ! agree (De Morgan), down to the operand that is
\* an error and is reached in both or in neither (evalLogicalOp).  The operands are an expression
\* of one operator and a leaf or call.
ConditionsObeyDeMorgan ==
    growth = 1 =>
        \A x \in Operands, s \in {"success", "failure"} : \A pair \in {<<expression, x>>, <<x, expression>>} :
            LET negated == <<Node("!", <<pair[1]>>), Node("!", <<pair[2]>>)>> IN
            /\ Truth(Node("!", <<Node("&&", pair)>>), s) = Truth(Node("||", negated), s)
            /\ Truth(Node("!", <<Node("||", pair)>>), s) = Truth(Node("&&", negated), s)

\* Whatever the types of two operands are: equality has no sides, < is > the other way round, and
\* operands that are equal as numbers are neither smaller nor greater.
ComparisonsAgree ==
    \A x \in Operands :
        LET v == Eval(expression, "success")
            w == Eval(x, "success")
        IN  v.ok /\ w.ok =>
                /\ EqualCompare(v.value, w.value) = EqualCompare(w.value, v.value)
                /\ Compare("<", v.value, w.value) = Compare(">", w.value, v.value)
                /\ Compare("<=", v.value, w.value) => ~Compare(">", v.value, w.value)
                /\ EqualCompare(v.value, w.value) /\ {v.value.kind, w.value.kind} \subseteq {"bool", "number"} =>
                      Compare("<=", v.value, w.value) /\ Compare(">=", v.value, w.value)

\* Evaluation is coherent over values of all types: conditions can be rewritten with the laws of
\* logic, == has no sides, and < is > turned round; for booleans and numbers == agrees with <= and >=,
\* for texts it does not, as it alone ignores case (evaluator.go).
EvaluationAgrees == ConditionsObeyDeMorgan /\ ComparisonsAgree
=============================================================================
