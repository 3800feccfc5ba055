--------------------------- MODULE LanguageProofs ---------------------------
(***************************************************************************)
(* Proofs about what a workflow file says.  A matrix makes the nodes it is *)
(* for: the choices of a value for each dimension, less what is excluded,  *)
(* with what is included (Matrix), for every matrix.  What the expression  *)
(* language does to texts (Texts), for any alphabet, arguments and files.  *)
(* And how expressions are evaluated and parsed (Expressions), for any     *)
(* names and literals, to any height.                                      *)
(*                                                                         *)
(* Of Texts, Format, MatchParts, ParseInterpolation and the patterns that  *)
(* Matches unfolds go down from the end of the text (Downwards, DownFrom); *)
(* the hash is of the set of the files that are found.                     *)
(*                                                                         *)
(* Of Expressions, Trees, Eval and Written go up with the height of the    *)
(* expression (UpTo), Parse comes from the end of the tokens (DownFrom).   *)
(***************************************************************************)
EXTENDS Matrix, Texts, Expressions, Foundations, TLAPS

-----------------------------------------------------------------------------
(* The combinations of a matrix.                                           *)

\* Entries.
LEMMA InEntry ==
    ASSUME NEW c
    PROVE  /\ c \in Entry => DOMAIN c \subseteq Keys /\ c \in [DOMAIN c -> Values]
           /\ \A K \in SUBSET Keys : c \in [K -> Values] => c \in Entry
BY DEF Entry

LEMMA EntryOver ==
    ASSUME NEW c \in Entry, NEW d \in Entry
    PROVE  Over(d, c) \in Entry
<1>1. /\ DOMAIN c \subseteq Keys /\ c \in [DOMAIN c -> Values]
      /\ DOMAIN d \subseteq Keys /\ d \in [DOMAIN d -> Values]
  BY InEntry
<1> DEFINE K == DOMAIN d \cup DOMAIN c
<1>2. Over(d, c) = [x \in K |-> IF x \in DOMAIN d THEN d[x] ELSE c[x]]
  BY DEF Over
<1>3. Over(d, c) \in [K -> Values] /\ K \in SUBSET Keys
  BY <1>1, <1>2
<1> QED
  BY <1>3, InEntry

\* One value more.
More(k, v, c) == Over([x \in {k} |-> v], c)

LEMMA OneMoreEntry ==
    ASSUME NEW k \in Keys, NEW v \in Values, NEW c \in Entry
    PROVE  More(k, v, c) \in Entry
<1> DEFINE one == [x \in {k} |-> v]
<1>1. one \in [{k} -> Values] /\ {k} \in SUBSET Keys
  OBVIOUS
<1>2. one \in Entry
  BY <1>1, InEntry
<1> QED
  BY <1>2, EntryOver DEF More

\* What the dimensions of a matrix are.
Dims(dims) == DOMAIN dims \subseteq Keys /\ dims \in [DOMAIN dims -> Seq(Values)]

\* The choices of a position in each of the dimensions in K.
Picks(dims, K) == {c \in [K -> Nat] : \A k \in K : c[k] \in DOMAIN dims[k]}

\* The rows are the choices, each once: b tells of which choice a row is.
Enumerates(rows, b, dims, K) ==
    /\ b \in [1..Len(rows) -> Picks(dims, K)]
    /\ \A i, j \in 1..Len(rows) : b[i] = b[j] => i = j
    /\ \A c \in Picks(dims, K) : \E i \in 1..Len(rows) : b[i] = c
    /\ \A i \in 1..Len(rows) : DOMAIN rows[i] = K /\ \A k \in K : rows[i][k] = dims[k][b[i][k]]

LEMMA ChoicesAre ==
    ASSUME NEW dims, NEW K
    PROVE  /\ \A c \in Picks(dims, K) : DOMAIN c = K /\ c \in [K -> Nat] /\ \A k \in K : c[k] \in DOMAIN dims[k]
           /\ \A c \in [K -> Nat] : (\A k \in K : c[k] \in DOMAIN dims[k]) => c \in Picks(dims, K)
BY DEF Picks

LEMMA ExpandedTyped ==
    ASSUME NEW acc \in Seq(Entry), NEW k \in Keys, NEW vals \in Seq(Values)
    PROVE  /\ Expanded(acc, k, vals) \in Seq(Entry)
           /\ \E ss \in Seq(Seq(Entry)) :
                 /\ Expanded(acc, k, vals) = FlattenSeq(ss)
                 /\ Len(ss) = Len(acc)
                 /\ \A i \in 1..Len(acc) : DOMAIN ss[i] = DOMAIN vals
                 /\ \A i \in 1..Len(acc) : \A n \in DOMAIN vals : ss[i][n] = More(k, vals[n], acc[i])
<1> DEFINE row(i) == [n \in DOMAIN vals |-> More(k, vals[n], acc[i])]
           ss == [i \in DOMAIN acc |-> row(i)]
<1>1. /\ DOMAIN acc = 1..Len(acc) /\ Len(acc) \in Nat /\ \A i \in DOMAIN acc : acc[i] \in Entry
      /\ DOMAIN vals = 1..Len(vals) /\ Len(vals) \in Nat /\ \A n \in DOMAIN vals : vals[n] \in Values
  OBVIOUS
<1>2. \A i \in DOMAIN acc : row(i) \in [1..Len(vals) -> Entry]
  BY <1>1, OneMoreEntry
<1>3. \A i \in DOMAIN acc : row(i) \in Seq(Entry)
  BY <1>1, <1>2, SeqDef
<1>4. /\ \A i \in DOMAIN acc : DOMAIN row(i) = DOMAIN vals
      /\ \A i \in DOMAIN acc : \A n \in DOMAIN vals : row(i)[n] = More(k, vals[n], acc[i])
  OBVIOUS
<1>5. Expanded(acc, k, vals) = FlattenSeq(ss)
  BY DEF Expanded, More
<1> HIDE DEF row
<1>6. ss \in [1..Len(acc) -> Seq(Entry)]
  BY <1>1, <1>3
<1>7. ss \in Seq(Seq(Entry))
  BY <1>1, <1>6, SeqDef
<1>8. \A i \in DOMAIN acc : ss[i] = row(i)
  OBVIOUS
<1> HIDE DEF ss
<1>9. Len(ss) = Len(acc)
  BY <1>1, <1>6, <1>7
<1>10. FlattenSeq(ss) \in Seq(Entry)
  BY <1>7, FlattenPlaces
<1>11. Expanded(acc, k, vals) \in Seq(Entry)
  BY <1>5, <1>10
<1>12. /\ \A i \in 1..Len(acc) : DOMAIN ss[i] = DOMAIN vals
       /\ \A i \in 1..Len(acc) : \A n \in DOMAIN vals : ss[i][n] = More(k, vals[n], acc[i])
  BY <1>1, <1>4, <1>8
<1> QED
  BY <1>5, <1>7, <1>9, <1>11, <1>12

\* With one dimension more the rows are the choices in one dimension more.
LEMMA ExpandedEnumerates ==
    ASSUME NEW dims, Dims(dims), NEW K \in SUBSET DOMAIN dims, NEW k \in DOMAIN dims \ K,
           NEW acc \in Seq(Entry), NEW b, Enumerates(acc, b, dims, K)
    PROVE  \E d : Enumerates(Expanded(acc, k, dims[k]), d, dims, K \cup {k})
<1> DEFINE vals == dims[k]
           L == Len(acc)
<1>1. k \in Keys /\ vals \in Seq(Values) /\ k \notin K
  BY DEF Dims
<1>2. PICK ss \in Seq(Seq(Entry)) :
            /\ Expanded(acc, k, vals) = FlattenSeq(ss)
            /\ Len(ss) = L
            /\ \A i \in 1..L : DOMAIN ss[i] = DOMAIN vals
            /\ \A i \in 1..L : \A n \in DOMAIN vals : ss[i][n] = More(k, vals[n], acc[i])
  <2> HIDE DEF vals
  <2> QED
    BY <1>1, ExpandedTyped
<1> DEFINE rows == FlattenSeq(ss)
           M == Len(rows)
<1>3. PICK p : Placing(p, rows, ss, Len(ss))
  BY FlattenPlaces
<1>4. rows \in Seq(Entry)
  BY FlattenPlaces
<1>5. M \in Nat /\ DOMAIN ss = 1..L /\ DOMAIN vals \subseteq Nat
  <2> HIDE DEF rows
  <2> QED
    BY <1>4, <1>2, <1>1
<1>6. \A q \in Pairs(ss) : q[1] \in 1..L /\ q[2] \in DOMAIN vals /\ q[2] \in Nat /\ q = <<q[1], q[2]>>
  BY <1>2, <1>5, PairsAre
<1>7. \A i \in 1..L : \A n \in DOMAIN vals : <<i, n>> \in Pairs(ss)
  BY <1>2, <1>5, PairsAre, Zenon
<1> HIDE DEF rows, vals
<1>8. /\ p \in [1..M -> Pairs(ss)]
      /\ \A x \in 1..M : rows[x] = ss[p[x][1]][p[x][2]]
      /\ \A x, y \in 1..M : p[x] = p[y] => x = y
      /\ \A q \in Pairs(ss) : \E x \in 1..M : p[x] = q
  <2>1. \A q \in Pairs(ss) : q[1] <= Len(ss)
    BY <1>6, <1>2
  <2> QED
    BY <1>3, <2>1 DEF Placing
<1>9. /\ b \in [1..L -> Picks(dims, K)]
      /\ \A i, j \in 1..L : b[i] = b[j] => i = j
      /\ \A c \in Picks(dims, K) : \E i \in 1..L : b[i] = c
      /\ \A i \in 1..L : DOMAIN acc[i] = K /\ \A l \in K : acc[i][l] = dims[l][b[i][l]]
  BY DEF Enumerates
<1> HIDE DEF L, M
<1> DEFINE MoreAt(x) == More(k, p[x][2], b[p[x][1]])
           d == [x \in 1..M |-> MoreAt(x)]
<1>10. \A x \in 1..M : p[x][1] \in 1..L /\ p[x][2] \in DOMAIN vals /\ p[x][2] \in Nat /\ p[x] = <<p[x][1], p[x][2]>>
  BY <1>6, <1>8
<1>11. \A x \in 1..M : b[p[x][1]] \in Picks(dims, K)
  BY <1>9, <1>10
<1>12. \A x \in 1..M : DOMAIN b[p[x][1]] = K /\ \A l \in K : b[p[x][1]][l] \in DOMAIN dims[l] /\ b[p[x][1]][l] \in Nat
  BY <1>11, ChoicesAre
<1>13. \A x \in 1..M : /\ DOMAIN MoreAt(x) = K \cup {k} /\ MoreAt(x)[k] = p[x][2]
                       /\ \A l \in K : MoreAt(x)[l] = b[p[x][1]][l]
                       /\ MoreAt(x) \in [K \cup {k} -> Nat]
  <2> TAKE x \in 1..M
  <2> DEFINE c == b[p[x][1]]
             v == p[x][2]
  <2>1. DOMAIN c = K /\ (\A l \in K : c[l] \in Nat) /\ v \in Nat
    BY <1>10, <1>12
  <2>2. MoreAt(x) = More(k, v, c)
    OBVIOUS
  <2> HIDE DEF c, v, MoreAt
  <2>3. /\ DOMAIN MoreAt(x) = {k} \cup DOMAIN c /\ MoreAt(x)[k] = v
        /\ \A l \in DOMAIN c : l # k => MoreAt(x)[l] = c[l]
        /\ \A S : v \in S /\ c \in [DOMAIN c -> S] => MoreAt(x) \in [{k} \cup DOMAIN c -> S]
    <3>1. /\ DOMAIN More(k, v, c) = {k} \cup DOMAIN c /\ More(k, v, c)[k] = v
          /\ \A l \in DOMAIN c : l # k => More(k, v, c)[l] = c[l]
          /\ \A S : v \in S /\ c \in [DOMAIN c -> S] => More(k, v, c) \in [{k} \cup DOMAIN c -> S]
      BY DEF More, Over
    <3> QED
      BY <2>2, <3>1
  <2>4. c \in [K -> Nat]
    BY <1>11, ChoicesAre DEF c
  <2>5. MoreAt(x) \in [K \cup {k} -> Nat]
    <3>1. c \in [DOMAIN c -> Nat] /\ {k} \cup DOMAIN c = K \cup {k}
      BY <2>1, <2>4
    <3> QED
      BY <2>1, <2>3, <3>1
  <2> QED
    BY <1>1, <2>1, <2>3, <2>5 DEF c, v
<1> HIDE DEF MoreAt
<1>14. \A x \in 1..M : \A l \in K \cup {k} : MoreAt(x)[l] \in DOMAIN dims[l]
  BY <1>10, <1>12, <1>13 DEF vals
<1>15. \A x \in 1..M : MoreAt(x) \in Picks(dims, K \cup {k})
  BY <1>13, <1>14, ChoicesAre
<1>16. d \in [1..M -> Picks(dims, K \cup {k})] /\ \A x \in 1..M : d[x] = MoreAt(x)
  BY <1>15
<1> HIDE DEF d
<1>17. ASSUME NEW x \in 1..M, NEW y \in 1..M, d[x] = d[y]
       PROVE  x = y
  <2>1. MoreAt(x) = MoreAt(y)
    BY <1>16, <1>17
  <2>2. p[x][2] = p[y][2] /\ \A l \in K : b[p[x][1]][l] = b[p[y][1]][l]
    BY <2>1, <1>13
  <2>3. b[p[x][1]] = b[p[y][1]]
    <3> DEFINE u == b[p[x][1]]
               v == b[p[y][1]]
    <3>1. u \in [K -> Nat] /\ v \in [K -> Nat] /\ \A l \in K : u[l] = v[l]
      BY <1>11, <2>2, ChoicesAre
    <3> HIDE DEF u, v
    <3>2. u = v
      BY <3>1
    <3> QED
      BY <3>2 DEF u, v
  <2>4. p[x][1] = p[y][1]
    BY <2>3, <1>9, <1>10
  <2>5. p[x] = p[y]
    BY <2>2, <2>4, <1>10
  <2> QED
    BY <2>5, <1>8
<1>18. ASSUME NEW c \in Picks(dims, K \cup {k})
       PROVE  \E x \in 1..M : d[x] = c
  <2> DEFINE cK == [l \in K |-> c[l]]
  <2>1. c \in [K \cup {k} -> Nat] /\ \A l \in K \cup {k} : c[l] \in DOMAIN dims[l]
    BY ChoicesAre
  <2>2. cK \in [K -> Nat] /\ \A l \in K : cK[l] = c[l] /\ cK[l] \in DOMAIN dims[l]
    BY <2>1
  <2> HIDE DEF cK
  <2>3. cK \in Picks(dims, K)
    BY <2>2, ChoicesAre
  <2>4. PICK i \in 1..L : b[i] = cK
    BY <2>3, <1>9
  <2>5. <<i, c[k]>> \in Pairs(ss)
    BY <2>1, <1>7 DEF vals
  <2>6. PICK x \in 1..M : p[x] = <<i, c[k]>>
    BY <2>5, <1>8
  <2>7. p[x][1] = i /\ p[x][2] = c[k]
    BY <2>6
  <2>8. MoreAt(x) \in [K \cup {k} -> Nat] /\ MoreAt(x)[k] = c[k] /\ \A l \in K : MoreAt(x)[l] = c[l]
    BY <2>7, <2>4, <2>2, <1>13
  <2>9. MoreAt(x) = c
    BY <2>1, <2>8
  <2> QED
    BY <2>9, <1>16
<1>19. ASSUME NEW x \in 1..M
       PROVE  DOMAIN rows[x] = K \cup {k} /\ \A l \in K \cup {k} : rows[x][l] = dims[l][d[x][l]]
  <2> DEFINE i == p[x][1]
             n == p[x][2]
  <2>1. i \in 1..L /\ n \in DOMAIN vals
    BY <1>10
  <2>2. rows[x] = More(k, vals[n], acc[i])
    BY <2>1, <1>2, <1>8
  <2>3. /\ DOMAIN acc[i] = K /\ \A l \in K : acc[i][l] = dims[l][b[i][l]]
    BY <2>1, <1>9
  <2>4. d[x][k] = n /\ \A l \in K : d[x][l] = b[i][l]
    BY <1>13, <1>16
  <2> HIDE DEF i, n
  <2>5. /\ DOMAIN rows[x] = {k} \cup DOMAIN acc[i] /\ rows[x][k] = vals[n]
        /\ \A l \in DOMAIN acc[i] : l # k => rows[x][l] = acc[i][l]
    <3> DEFINE v == vals[n]
               c == acc[i]
    <3> HIDE DEF v, c
    <3>1. /\ DOMAIN More(k, v, c) = {k} \cup DOMAIN c /\ More(k, v, c)[k] = v
          /\ \A l \in DOMAIN c : l # k => More(k, v, c)[l] = c[l]
      BY DEF More, Over
    <3> QED
      BY <2>2, <3>1 DEF v, c
  <2> QED
    BY <2>3, <2>4, <2>5, <1>1 DEF vals
<1>20. Enumerates(rows, d, dims, K \cup {k})
  BY <1>16, <1>17, <1>18, <1>19 DEF Enumerates, M
<1> QED
  BY <1>20, <1>2 DEF rows, vals

-----------------------------------------------------------------------------
(* The product of the dimensions.                                          *)

\* The product over the first n keys is p[n].
Products(p, dims) ==
    /\ p[0] = << NoDims >>
    /\ \A n \in 1..Len(KeyOrder) :
          p[n] = IF KeyOrder[n] \in DOMAIN dims THEN Expanded(p[n - 1], KeyOrder[n], dims[KeyOrder[n]])
                 ELSE p[n - 1]

IsProduct(p, dims) ==
    p = [n \in 0..Len(KeyOrder) |->
            IF n = 0 THEN << NoDims >>
            ELSE IF KeyOrder[n] \in DOMAIN dims THEN Expanded(p[n - 1], KeyOrder[n], dims[KeyOrder[n]])
            ELSE p[n - 1]]

LEMMA KeysAre ==
    /\ Len(KeyOrder) \in Nat /\ DOMAIN KeyOrder = 1..Len(KeyOrder)
    /\ Keys = {KeyOrder[n] : n \in 1..Len(KeyOrder)}
    /\ \A i, j \in 1..Len(KeyOrder) : KeyOrder[i] = KeyOrder[j] => i = j
<1>1. KeyOrder \in Seq(Keys) /\ IsInjective(KeyOrder)
  BY MatrixAssumption
<1>2. Len(KeyOrder) \in Nat /\ DOMAIN KeyOrder = 1..Len(KeyOrder)
  BY <1>1
<1> QED
  BY <1>1, <1>2 DEF IsInjective, Keys, ToSet

LEMMA NoDimsEntry == NoDims \in Entry /\ DOMAIN NoDims = {}
<1>1. DOMAIN NoDims = {} /\ NoDims \in [{} -> Values]
  BY DEF NoDims
<1> QED
  BY <1>1, InEntry

LEMMA ProductsAre ==
    ASSUME NEW p, NEW dims, IsProduct(p, dims)
    PROVE  Products(p, dims)
BY KeysAre DEF IsProduct, Products

LEMMA IsTheProduct ==
    ASSUME NEW S, NEW dims, NEW p \in [0..Len(KeyOrder) -> S], Products(p, dims)
    PROVE  IsProduct(p, dims)
<1> DEFINE N == Len(KeyOrder)
           value(n) == IF n = 0 THEN << NoDims >>
                       ELSE IF KeyOrder[n] \in DOMAIN dims THEN Expanded(p[n - 1], KeyOrder[n], dims[KeyOrder[n]])
                       ELSE p[n - 1]
<1>1. N \in Nat
  BY KeysAre
<1>2. ASSUME NEW n \in 0..N
      PROVE  p[n] = value(n)
  <2>1. CASE n = 0
    BY <2>1 DEF Products
  <2>2. CASE n # 0
    <3>1. n \in 1..N
      BY <1>1, <2>2
    <3>2. p[n] = IF KeyOrder[n] \in DOMAIN dims THEN Expanded(p[n - 1], KeyOrder[n], dims[KeyOrder[n]])
                 ELSE p[n - 1]
      BY <3>1 DEF Products
    <3> QED
      BY <2>2, <3>2
  <2> QED
    BY <2>1, <2>2
<1>3. p = [n \in 0..N |-> value(n)]
  <2> HIDE DEF value, N
  <2>1. p = [n \in 0..N |-> p[n]]
    BY DEF N
  <2> QED
    BY <1>2, <2>1
<1> QED
  BY <1>3 DEF IsProduct

LEMMA ProductDefined ==
    ASSUME NEW dims, Dims(dims)
    PROVE  \E p : Products(p, dims) /\ CartesianProduct(dims) = p[Len(KeyOrder)]
<1> DEFINE N == Len(KeyOrder)
           S == Seq(Entry)
           grown(acc, n) == IF KeyOrder[n] \in DOMAIN dims THEN Expanded(acc, KeyOrder[n], dims[KeyOrder[n]])
                            ELSE acc
           step == [x \in S \X (1..N) |-> grown(x[1], x[2])]
<1>1. N \in Nat /\ << NoDims >> \in S
  BY KeysAre, NoDimsEntry
<1>2. ASSUME NEW acc \in S, NEW n \in 1..N
      PROVE  grown(acc, n) \in S
  <2>1. CASE KeyOrder[n] \in DOMAIN dims
    <3> DEFINE k == KeyOrder[n]
               vals == dims[k]
    <3>1. k \in Keys /\ vals \in Seq(Values)
      BY <2>1 DEF Dims
    <3> HIDE DEF k, vals
    <3>2. Expanded(acc, k, vals) \in S
      BY <3>1, ExpandedTyped
    <3> QED
      BY <2>1, <3>2 DEF k, vals
  <2>2. CASE KeyOrder[n] \notin DOMAIN dims
    BY <2>2
  <2> QED
    BY <2>1, <2>2
<1> HIDE DEF grown, S, N
<1>3. \A x \in S \X (1..N) : x[1] \in S /\ x[2] \in 1..N
  OBVIOUS
<1>4. step \in [S \X (1..N) -> S]
  BY <1>2, <1>3
<1>5. \A acc \in S, n \in 1..N : <<acc, n>> \in S \X (1..N) /\ step[<<acc, n>>] = grown(acc, n)
  OBVIOUS
<1> HIDE DEF step
<1>6. PICK p \in [0..N -> S] : Iterates(p, N, << NoDims >>, step)
  BY <1>1, <1>4, Iterated
<1>7. Products(p, dims)
  <2>1. p[0] = << NoDims >>
    BY <1>6 DEF Iterates
  <2>2. ASSUME NEW n \in 1..N
        PROVE  p[n] = grown(p[n - 1], n)
    <3>1. p[n - 1] \in S
      <4>1. n - 1 \in 0..N
        BY <1>1
      <4> QED
        BY <4>1
    <3>2. p[n] = step[<<p[n - 1], n>>]
      BY <1>6 DEF Iterates
    <3> QED
      BY <3>1, <3>2, <1>5
  <2> QED
    BY <2>1, <2>2 DEF Products, grown, N
<1>8. IsProduct(p, dims)
  BY <1>7, IsTheProduct DEF N
<1> DEFINE P == CHOOSE q : IsProduct(q, dims)
<1>9. IsProduct(P, dims)
  BY <1>8
<1>10. CartesianProduct(dims) = P[Len(KeyOrder)]
  BY DEF CartesianProduct, IsProduct
<1> QED
  BY <1>9, <1>10, ProductsAre

\* The keys of the dimensions among the first n.
FirstKeys(dims, n) == {KeyOrder[i] : i \in 1..n} \cap DOMAIN dims

\* cartesianProduct has the choices of one value of each dimension, each once.
LEMMA ProductEnumerates ==
    ASSUME NEW dims, Dims(dims)
    PROVE  /\ CartesianProduct(dims) \in Seq(Entry)
           /\ \E b : Enumerates(CartesianProduct(dims), b, dims, DOMAIN dims)
<1> DEFINE N == Len(KeyOrder)
           K(n) == FirstKeys(dims, n)
<1>1. PICK p : Products(p, dims) /\ CartesianProduct(dims) = p[N]
  BY ProductDefined
<1> DEFINE Done(n) == p[n] \in Seq(Entry) /\ \E b : Enumerates(p[n], b, dims, K(n))
           T == {n \in 0..N : Done(n)}
<1>2. N \in Nat
  BY KeysAre
<1>3. Done(0)
  <2> DEFINE none == [k \in {} |-> 0]
             b == [i \in 1..1 |-> none]
  <2>1. p[0] = << NoDims >> /\ p[0] \in Seq(Entry) /\ Len(p[0]) = 1 /\ p[0][1] = NoDims
    BY <1>1, NoDimsEntry DEF Products
  <2>2. K(0) = {}
    BY DEF FirstKeys
  <2>3. none \in [{} -> Nat] /\ \A c \in [{} -> Nat] : c = none
    OBVIOUS
  <2> HIDE DEF none
  <2>4. none \in Picks(dims, {}) /\ \A c \in Picks(dims, {}) : c = none
    BY <2>3 DEF Picks
  <2>5. b \in [1..1 -> Picks(dims, {})] /\ b[1] = none /\ \A i \in 1..1 : i = 1
    BY <2>4
  <2> HIDE DEF b
  <2>6. Enumerates(p[0], b, dims, {})
    BY <2>1, <2>4, <2>5, NoDimsEntry DEF Enumerates
  <2> QED
    BY <2>1, <2>2, <2>6
<1>4. ASSUME NEW n \in 1..N, Done(n - 1)
      PROVE  Done(n)
  <2> DEFINE k == KeyOrder[n]
             M == n - 1
  <2>1. /\ p[n] = IF k \in DOMAIN dims THEN Expanded(p[M], k, dims[k]) ELSE p[M]
    BY <1>1 DEF Products
  <2>2. PICK b : Enumerates(p[M], b, dims, K(M))
    BY <1>4
  <2>3. p[M] \in Seq(Entry)
    BY <1>4
  <2>4. /\ k \in DOMAIN dims => K(n) = K(M) \cup {k} /\ k \notin K(M)
        /\ k \notin DOMAIN dims => K(n) = K(M)
    <3>1. \A i \in 1..n : i = n \/ i \in 1..M
      BY <1>2
    <3>2. \A i \in 1..M : i \in 1..n /\ i \in 1..N /\ i # n
      BY <1>2
    <3>3. {KeyOrder[i] : i \in 1..n} = {KeyOrder[i] : i \in 1..M} \cup {k}
      BY <3>1, <3>2
    <3>4. k \notin {KeyOrder[i] : i \in 1..M}
      BY <3>2, KeysAre
    <3> QED
      BY <3>3, <3>4 DEF FirstKeys
  <2> HIDE DEF M, K
  <2>5. CASE k \in DOMAIN dims
    <3>1. K(M) \in SUBSET DOMAIN dims /\ k \in DOMAIN dims \ K(M)
      BY <2>4, <2>5 DEF K, FirstKeys
    <3> HIDE DEF k
    <3>2. \E d : Enumerates(Expanded(p[M], k, dims[k]), d, dims, K(M) \cup {k})
      BY <2>2, <2>3, <3>1, ExpandedEnumerates
    <3> DEFINE vals == dims[k]
    <3>3. k \in Keys /\ vals \in Seq(Values)
      BY <3>1 DEF Dims
    <3> HIDE DEF vals
    <3>4. Expanded(p[M], k, vals) \in Seq(Entry)
      BY <2>3, <3>3, ExpandedTyped
    <3> QED
      BY <2>1, <2>4, <2>5, <3>2, <3>4 DEF k, vals
  <2>6. CASE k \notin DOMAIN dims
    <3>1. p[n] = p[M] /\ K(n) = K(M)
      BY <2>1, <2>4, <2>6
    <3> QED
      BY <2>2, <2>3, <3>1
  <2> QED
    BY <2>5, <2>6
<1> HIDE DEF Done
<1>5. Done(N)
  <2>1. 0 \in T /\ \A n \in 1..N : n - 1 \in T => n \in T
    BY <1>2, <1>3, <1>4
  <2> HIDE DEF T, N
  <2>2. \A n \in 0..N : n \in T
    BY <1>2, <2>1, UpTo
  <2>3. N \in T
    BY <1>2, <2>2
  <2> QED
    BY <2>3 DEF T
<1>6. K(N) = DOMAIN dims
  BY KeysAre DEF Dims, FirstKeys
<1> QED
  BY <1>1, <1>5, <1>6 DEF Done

-----------------------------------------------------------------------------
(* What ExpandMatrix returns.                                              *)

LEMMA ShapeOf ==
    ASSUME NEW m, MatrixShape(m)
    PROVE  /\ Dims(m.dims)
           /\ m.include \in Seq(Entry) /\ m.exclude \in Seq(Entry)
BY DEF MatrixShape, Dims

\* Some entry of exclude has the values of choice c.
Taken(m, c) ==
    \E i \in DOMAIN m.exclude :
        \A k \in DOMAIN m.exclude[i] :
            k \in DOMAIN m.dims /\ TextOf[m.exclude[i][k]] = TextOf[m.dims[k][c[k]]]

LEMMA DimChoicesAre ==
    ASSUME NEW m, Dims(m.dims)
    PROVE  \A c : c \in DimChoices(m) <=> c \in Picks(m.dims, DOMAIN m.dims) /\ ~Taken(m, c)
<1> DEFINE D == DOMAIN m.dims
           U == UNION {DOMAIN m.dims[k] : k \in D}
           C == Picks(m.dims, D)
           Fits(c) == \A k \in D : c[k] \in DOMAIN m.dims[k]
<1>1. \A k \in D : DOMAIN m.dims[k] \in SUBSET Nat
  BY DEF Dims
<1>2. \A c : c \in C <=> c \in [D -> Nat] /\ Fits(c)
  BY DEF Picks
<1>3. \A c : c \in DimChoices(m) <=> c \in [D -> U] /\ Fits(c) /\ ~Taken(m, c)
  BY DEF DimChoices, Taken
<1> HIDE DEF C
<1>4. ASSUME NEW c
      PROVE  c \in [D -> Nat] /\ Fits(c) <=> c \in [D -> U] /\ Fits(c)
  <2>1. Fits(c) => \A k \in D : c[k] \in U /\ c[k] \in Nat
    BY <1>1
  <2> HIDE DEF U, Fits
  <2> QED
    BY <2>1
<1> HIDE DEF U, Fits, D
<1>5. \A c : c \in DimChoices(m) <=> c \in C /\ ~Taken(m, c)
  BY <1>2, <1>3, <1>4
<1> QED
  BY <1>5 DEF C, D

\* The first combinations are the choices of the dimensions.
HasProduct(acc, m) ==
    LET number == Cardinality(DimChoices(m)) IN
    /\ number \in Nat
    /\ number <= Len(acc)
    /\ \E choice \in Bijection(1..number, DimChoices(m)) :
          \A i \in 1..number, k \in DOMAIN m.dims :
              k \in DOMAIN acc[i] /\ acc[i][k] = m.dims[k][choice[i][k]]

LEMMA CombinationsHold ==
    ASSUME NEW m, MatrixShape(m)
    PROVE  /\ Combinations(m) \in Seq(Entry)
           /\ m.dims # NoDims => HasProduct(Combinations(m), m)
<1> DEFINE dims == m.dims
           D == DOMAIN dims
           product == IF dims = NoDims THEN <<>> ELSE CartesianProduct(dims)
           T == {i \in DOMAIN product : ~Excluded(product[i], m.exclude)}
           kept == At(product, T)
           n == Cardinality(T)
<1>1. Dims(dims) /\ m.exclude \in Seq(Entry)
  BY ShapeOf
<1> HIDE DEF dims
<1>2. product \in Seq(Entry)
  BY <1>1, ProductEnumerates
<1>3. Combinations(m) = kept
  BY DEF Combinations, dims
<1>4. DOMAIN product = 1..Len(product) /\ Len(product) \in Nat /\ T \in SUBSET DOMAIN product
  BY <1>2
<1> HIDE DEF product, T
<1>5. /\ kept \in Seq(Entry) /\ DOMAIN kept = 1..n /\ Len(kept) = n /\ n \in Nat
      /\ \A k \in 1..n : Nth(T, k) \in T /\ kept[k] = product[Nth(T, k)]
  BY <1>2, <1>4, AtKeeps
<1>6. \A x \in T : \E k \in 1..n : Nth(T, k) = x
  <2>1. IsFiniteSet(1..Len(product))
    BY <1>4, FS_Interval
  <2>2. IsFiniteSet(T) /\ T \in SUBSET Nat
    BY <2>1, <1>4, FS_Subset
  <2> QED
    BY <2>2, NthCounts
<1>7. \A k, l \in 1..n : Nth(T, k) = Nth(T, l) => k = l
  <2>1. \A k, l \in 1..n : k < l => Nth(T, k) < Nth(T, l)
    BY <1>2, <1>4, <1>5, AtKeeps
  <2>2. \A k \in 1..n : Nth(T, k) \in Nat
    BY <1>4, <1>5
  <2> QED
    BY <2>1, <2>2, <1>5
<1> HIDE DEF kept, n
<1>8. ASSUME dims # NoDims
      PROVE  HasProduct(kept, m)
  <2>1. product = CartesianProduct(dims)
    BY <1>8 DEF product
  <2>2. PICK b : Enumerates(product, b, dims, D)
    BY <1>1, <2>1, ProductEnumerates
  <2> DEFINE choice == [k \in 1..n |-> b[Nth(T, k)]]
             C == DimChoices(m)
  <2>3. /\ \A i \in DOMAIN product : b[i] \in Picks(dims, D)
        /\ \A i, j \in DOMAIN product : b[i] = b[j] => i = j
        /\ \A c \in Picks(dims, D) : \E i \in DOMAIN product : b[i] = c
        /\ \A i \in DOMAIN product : DOMAIN product[i] = D /\ \A k \in D : product[i][k] = dims[k][b[i][k]]
    BY <2>2, <1>4 DEF Enumerates
  <2>4. ASSUME NEW i \in DOMAIN product
        PROVE  Excluded(product[i], m.exclude) <=> Taken(m, b[i])
    <3>1. DOMAIN product[i] = D /\ \A k \in D : product[i][k] = dims[k][b[i][k]]
      BY <2>3
    <3>2. \A e \in DOMAIN m.exclude :
              MatchesOnKeys(product[i], m.exclude[e], DOMAIN m.exclude[e])
              <=> \A k \in DOMAIN m.exclude[e] :
                     k \in D /\ TextOf[m.exclude[e][k]] = TextOf[dims[k][b[i][k]]]
      BY <3>1 DEF MatchesOnKeys, Same
    <3> QED
      BY <3>2 DEF Excluded, Taken, dims
  <2>5. \A i \in T : i \in DOMAIN product /\ b[i] \in C
    BY <1>1, <1>4, <2>3, <2>4, DimChoicesAre DEF T, dims
  <2>6. \A c \in C : \E i \in T : b[i] = c
    BY <2>3, <2>4, <1>1, DimChoicesAre DEF T, dims
  <2> HIDE DEF C
  <2>7. choice \in [1..n -> C]
    BY <2>5, <1>5
  <2>8. \A k, l \in 1..n : choice[k] = choice[l] => k = l
    BY <2>3, <2>5, <1>5, <1>7
  <2>9. \A c \in C : \E k \in 1..n : choice[k] = c
    BY <2>6, <1>6
  <2>10. choice \in Bijection(1..n, C)
    <3> HIDE DEF choice
    <3> QED
      <4>1. choice \in Injection(1..n, C)
        BY <2>7, <2>8 DEF Injection, IsInjective
      <4>2. choice \in Surjection(1..n, C)
        BY <2>7, <2>9 DEF Surjection
      <4> QED
        BY <4>1, <4>2 DEF Bijection
  <2>11. n = Cardinality(C)
    <3>1. ExistsBijection(1..n, C)
      BY <2>10 DEF ExistsBijection
    <3>2. IsFiniteSet(1..n) /\ Cardinality(1..n) = n
      BY <1>5, FS_Interval
    <3> QED
      BY <3>1, <3>2, FS_Bijection
  <2>12. ASSUME NEW i \in 1..n, NEW k \in D
         PROVE  k \in DOMAIN kept[i] /\ kept[i][k] = dims[k][choice[i][k]]
    <3>1. Nth(T, i) \in T /\ kept[i] = product[Nth(T, i)] /\ choice[i] = b[Nth(T, i)]
      BY <1>5
    <3> QED
      BY <3>1, <2>3, <1>4
  <2> HIDE DEF choice
  <2>13. n \in Nat /\ n <= Len(kept)
    BY <1>5
  <2> QED
    BY <2>10, <2>11, <2>12, <2>13 DEF HasProduct, C, dims
<1> QED
  BY <1>3, <1>5, <1>8 DEF dims

\* An entry of include leaves the values of the dimensions alone, and is there afterwards.
LEMMA IncludedKeeps ==
    ASSUME NEW acc \in Seq(Entry), NEW inc \in Entry, NEW dims
    PROVE  LET r == Included(acc, inc, dims) IN
           /\ r \in Seq(Entry) /\ Len(acc) <= Len(r)
           /\ \A i \in 1..Len(acc) : \A k \in DOMAIN acc[i] :
                 /\ k \in DOMAIN r[i]
                 /\ \/ r[i][k] = acc[i][k]
                    \/ k \notin DOMAIN dims /\ k \in DOMAIN inc /\ r[i][k] = inc[k]
           /\ \E i \in 1..Len(r) : \A k \in DOMAIN inc : k \in DOMAIN r[i] /\ TextOf[r[i][k]] = TextOf[inc[k]]
<1> DEFINE overlap == DOMAIN inc \cap DOMAIN dims
           E == DOMAIN inc \ DOMAIN dims
           extra == [k \in E |-> inc[k]]
           L == Len(acc)
           hits == {i \in DOMAIN acc : overlap # {} /\ MatchesOnKeys(acc[i], inc, overlap)}
           merged == [i \in DOMAIN acc |-> IF i \in hits THEN Over(extra, acc[i]) ELSE acc[i]]
           r == Included(acc, inc, dims)
<1>1. DOMAIN acc = 1..L /\ L \in Nat /\ \A i \in 1..L : acc[i] \in Entry
  OBVIOUS
<1>2. r = IF hits = {} THEN Append(acc, inc) ELSE merged
  BY DEF Included
<1>3. extra \in Entry
  <2>1. DOMAIN inc \subseteq Keys /\ inc \in [DOMAIN inc -> Values]
    BY InEntry
  <2>2. E \in SUBSET Keys /\ extra \in [E -> Values]
    BY <2>1
  <2> HIDE DEF extra, E
  <2> QED
    BY <2>2, InEntry
<1>4. DOMAIN extra = E /\ \A k \in E : extra[k] = inc[k]
  OBVIOUS
<1>5. ASSUME NEW x \in Entry
      PROVE  /\ DOMAIN Over(extra, x) = E \cup DOMAIN x
             /\ \A k \in E : Over(extra, x)[k] = inc[k]
             /\ \A k \in DOMAIN x : k \notin E => Over(extra, x)[k] = x[k]
  <2> HIDE DEF extra, E
  <2> QED
    BY <1>4 DEF Over
<1>6. \A i \in 1..L : merged[i] = IF i \in hits THEN Over(extra, acc[i]) ELSE acc[i]
  BY <1>1
<1>7. CASE hits = {}
  <2>1. r = Append(acc, inc)
    BY <1>2, <1>7
  <2>2. r \in Seq(Entry) /\ Len(r) = L + 1 /\ r[L + 1] = inc /\ \A i \in 1..L : r[i] = acc[i]
    BY <2>1
  <2> HIDE DEF r
  <2>3. L + 1 \in 1..Len(r) /\ \A k \in DOMAIN inc : k \in DOMAIN r[L + 1] /\ TextOf[r[L + 1][k]] = TextOf[inc[k]]
    BY <2>2, <1>1
  <2> QED
    BY <2>2, <2>3, <1>1 DEF r
<1>8. CASE hits # {}
  <2>1. r = merged
    BY <1>2, <1>8
  <2>2. \A i \in 1..L : merged[i] \in Entry
    <3> HIDE DEF extra, merged
    <3> QED
      BY <1>1, <1>3, <1>6, EntryOver
  <2>3. DOMAIN merged = 1..L
    BY <1>1
  <2>4. merged \in [1..L -> Entry]
    <3>1. merged = [i \in 1..L |-> merged[i]]
      BY <2>3
    <3> HIDE DEF merged
    <3> QED
      BY <2>2, <3>1
  <2>5. merged \in Seq(Entry) /\ Len(merged) = L
    <3> HIDE DEF merged
    <3>1. merged \in Seq(Entry)
      BY <1>1, <2>4, SeqDef
    <3> QED
      BY <1>1, <2>3, <3>1
  <2> HIDE DEF merged
  <2>6. ASSUME NEW i \in 1..L, NEW k \in DOMAIN acc[i]
        PROVE  /\ k \in DOMAIN merged[i]
               /\ \/ merged[i][k] = acc[i][k]
                  \/ k \notin DOMAIN dims /\ k \in DOMAIN inc /\ merged[i][k] = inc[k]
    <3>1. CASE i \in hits
      <4>1. merged[i] = Over(extra, acc[i]) /\ acc[i] \in Entry
        BY <3>1, <1>1, <1>6
      <4> HIDE DEF extra, hits
      <4>2. k \in DOMAIN Over(extra, acc[i])
        BY <4>1, <1>5
      <4>3. CASE k \in E
        BY <4>1, <4>2, <4>3, <1>5
      <4>4. CASE k \notin E
        BY <4>1, <4>2, <4>4, <1>5
      <4> QED
        BY <4>3, <4>4
    <3>2. CASE i \notin hits
      BY <3>2, <1>6
    <3> QED
      BY <3>1, <3>2
  <2>7. PICK i \in hits : TRUE
    BY <1>8
  <2>8. /\ i \in 1..L /\ acc[i] \in Entry
        /\ \A k \in overlap : k \in DOMAIN acc[i] /\ TextOf[acc[i][k]] = TextOf[inc[k]]
    BY <1>1 DEF MatchesOnKeys, Same
  <2>9. merged[i] = Over(extra, acc[i])
    BY <2>8, <1>6
  <2>10. ASSUME NEW k \in DOMAIN inc
         PROVE  k \in DOMAIN merged[i] /\ TextOf[merged[i][k]] = TextOf[inc[k]]
    <3>1. (k \in overlap /\ k \notin E) \/ k \in E
      OBVIOUS
    <3>2. CASE k \in E
      <4>1. k \in DOMAIN Over(extra, acc[i]) /\ Over(extra, acc[i])[k] = inc[k]
        <5> HIDE DEF extra, E
        <5> QED
          BY <3>2, <2>8, <1>5
      <4> QED
        BY <4>1, <2>9
    <3>3. CASE k \in overlap /\ k \notin E
      <4>1. k \in DOMAIN acc[i] /\ TextOf[acc[i][k]] = TextOf[inc[k]]
        BY <3>3, <2>8
      <4>2. k \in DOMAIN Over(extra, acc[i]) /\ Over(extra, acc[i])[k] = acc[i][k]
        <5> HIDE DEF extra, E, overlap
        <5> QED
          BY <3>3, <4>1, <2>8, <1>5
      <4> QED
        BY <4>1, <4>2, <2>9
    <3> QED
      BY <3>1, <3>2, <3>3
  <2>11. Len(r) = L /\ i \in 1..Len(r)
    BY <2>1, <2>5, <2>8
  <2> HIDE DEF r
  <2> QED
    BY <2>1, <2>5, <2>6, <2>10, <2>11, <1>1 DEF r
<1> QED
  BY <1>7, <1>8

\* The first n entries of include are in a combination, but for what a later one of them changed.
HasIncludes(acc, n, m) ==
    \A x \in 1..n :
        \E i \in 1..Len(acc) : \A k \in DOMAIN m.include[x] :
            /\ k \in DOMAIN acc[i]
            /\ \/ TextOf[acc[i][k]] = TextOf[m.include[x][k]]
               \/ /\ k \notin DOMAIN m.dims
                  /\ \E y \in (x + 1)..n : k \in DOMAIN m.include[y] /\ TextOf[acc[i][k]] = TextOf[m.include[y][k]]

\* What is known after n entries.
Holds(acc, n, m) ==
    /\ acc \in Seq(Entry)
    /\ m.dims # NoDims => HasProduct(acc, m)
    /\ HasIncludes(acc, n, m)

LEMMA IncludedHolds ==
    ASSUME NEW m, MatrixShape(m), NEW n \in 1..Len(m.include), NEW acc, Holds(acc, n - 1, m)
    PROVE  Holds(Included(acc, m.include[n], m.dims), n, m)
<1> DEFINE inc == m.include[n]
           r == Included(acc, inc, m.dims)
           L == Len(acc)
           D == DOMAIN m.dims
<1>1. m.include \in Seq(Entry) /\ inc \in Entry /\ Len(m.include) \in Nat /\ n \in Nat
  BY ShapeOf
<1>2. acc \in Seq(Entry) /\ L \in Nat
  BY DEF Holds
<1> HIDE DEF inc
<1>3. /\ r \in Seq(Entry) /\ L <= Len(r)
      /\ \A i \in 1..L : \A k \in DOMAIN acc[i] :
            /\ k \in DOMAIN r[i]
            /\ \/ r[i][k] = acc[i][k]
               \/ k \notin D /\ k \in DOMAIN inc /\ r[i][k] = inc[k]
      /\ \E i \in 1..Len(r) : \A k \in DOMAIN inc : k \in DOMAIN r[i] /\ TextOf[r[i][k]] = TextOf[inc[k]]
  BY <1>1, <1>2, IncludedKeeps
<1> HIDE DEF r
<1>4. Len(r) \in Nat
  BY <1>3
<1>5. ASSUME m.dims # NoDims
      PROVE  HasProduct(r, m)
  <2> DEFINE C == DimChoices(m)
             number == Cardinality(C)
  <2>1. HasProduct(acc, m)
    BY <1>5 DEF Holds
  <2>2. number \in Nat /\ number <= L
    BY <2>1 DEF HasProduct
  <2>3. PICK choice \in Bijection(1..number, C) :
              \A i \in 1..number, k \in D : k \in DOMAIN acc[i] /\ acc[i][k] = m.dims[k][choice[i][k]]
    BY <2>1 DEF HasProduct
  <2> HIDE DEF C, number
  <2>4. number <= Len(r) /\ \A i \in 1..number : i \in 1..L
    BY <2>2, <1>2, <1>3, <1>4
  <2>5. \A i \in 1..number, k \in D : k \in DOMAIN r[i] /\ r[i][k] = m.dims[k][choice[i][k]]
    BY <2>3, <2>4, <1>3
  <2> QED
    BY <2>2, <2>3, <2>4, <2>5 DEF HasProduct, C, number
<1>6. ASSUME NEW x \in 1..n
      PROVE  \E i \in 1..Len(r) : \A k \in DOMAIN m.include[x] :
                /\ k \in DOMAIN r[i]
                /\ \/ TextOf[r[i][k]] = TextOf[m.include[x][k]]
                   \/ /\ k \notin D
                      /\ \E y \in (x + 1)..n : k \in DOMAIN m.include[y] /\ TextOf[r[i][k]] = TextOf[m.include[y][k]]
  <2>1. CASE x = n
    <3>1. PICK i \in 1..Len(r) : \A k \in DOMAIN inc : k \in DOMAIN r[i] /\ TextOf[r[i][k]] = TextOf[inc[k]]
      BY <1>3
    <3> QED
      BY <2>1, <3>1 DEF inc
  <2>2. CASE x # n
    <3>1. x \in 1..(n - 1) /\ n \in (x + 1)..n
      BY <2>2, <1>1
    <3>2. PICK i \in 1..L : \A k \in DOMAIN m.include[x] :
              /\ k \in DOMAIN acc[i]
              /\ \/ TextOf[acc[i][k]] = TextOf[m.include[x][k]]
                 \/ /\ k \notin D
                    /\ \E y \in (x + 1)..(n - 1) :
                          k \in DOMAIN m.include[y] /\ TextOf[acc[i][k]] = TextOf[m.include[y][k]]
      BY <3>1 DEF Holds, HasIncludes
    <3>3. i \in 1..Len(r)
      BY <1>2, <1>3, <1>4
    <3>4. ASSUME NEW k \in DOMAIN m.include[x]
          PROVE  /\ k \in DOMAIN r[i]
                 /\ \/ TextOf[r[i][k]] = TextOf[m.include[x][k]]
                    \/ /\ k \notin D
                       /\ \E y \in (x + 1)..n : k \in DOMAIN m.include[y] /\ TextOf[r[i][k]] = TextOf[m.include[y][k]]
      <4>1. k \in DOMAIN acc[i]
        BY <3>2
      <4>2. k \in DOMAIN r[i] /\ (r[i][k] = acc[i][k] \/ (k \notin D /\ k \in DOMAIN inc /\ r[i][k] = inc[k]))
        BY <4>1, <1>3
      <4>3. CASE k \notin D /\ k \in DOMAIN inc /\ r[i][k] = inc[k]
        BY <4>2, <4>3, <3>1 DEF inc
      <4>4. CASE r[i][k] = acc[i][k]
        <5>1. CASE TextOf[acc[i][k]] = TextOf[m.include[x][k]]
          BY <4>2, <4>4, <5>1
        <5>2. CASE /\ k \notin D
                   /\ \E y \in (x + 1)..(n - 1) :
                         k \in DOMAIN m.include[y] /\ TextOf[acc[i][k]] = TextOf[m.include[y][k]]
          <6>1. PICK y \in (x + 1)..(n - 1) :
                    k \in DOMAIN m.include[y] /\ TextOf[acc[i][k]] = TextOf[m.include[y][k]]
            BY <5>2
          <6>2. y \in (x + 1)..n
            BY <1>1
          <6> QED
            BY <4>2, <4>4, <5>2, <6>1, <6>2
        <5> QED
          BY <3>2, <5>1, <5>2
      <4> QED
        BY <4>2, <4>3, <4>4
    <3> QED
      BY <3>3, <3>4
  <2> QED
    BY <2>1, <2>2
<1> QED
  BY <1>3, <1>5, <1>6 DEF Holds, HasIncludes, r, inc

IsExpanded(g, m) ==
    g = [n \in 0..Len(m.include) |->
            IF n = 0 THEN Combinations(m) ELSE Included(g[n - 1], m.include[n], m.dims)]

Results(g, m) ==
    /\ g[0] = Combinations(m)
    /\ \A n \in 1..Len(m.include) : g[n] = Included(g[n - 1], m.include[n], m.dims)

LEMMA ResultDefined ==
    ASSUME NEW m, MatrixShape(m), m.whole = <<>>
    PROVE  \E g : Results(g, m) /\ ExpandMatrix(m) = g[Len(m.include)]
<1> DEFINE N == Len(m.include)
           S == Seq(Entry)
           grown(acc, n) == Included(acc, m.include[n], m.dims)
           step == [x \in S \X (1..N) |-> grown(x[1], x[2])]
<1>1. N \in Nat /\ Combinations(m) \in S /\ \A n \in 1..N : m.include[n] \in Entry
  BY ShapeOf, CombinationsHold
<1>2. \A acc \in S, n \in 1..N : grown(acc, n) \in S
  BY <1>1, IncludedKeeps
<1> HIDE DEF grown, S, N
<1>3. \A x \in S \X (1..N) : x[1] \in S /\ x[2] \in 1..N
  OBVIOUS
<1>4. step \in [S \X (1..N) -> S]
  BY <1>2, <1>3
<1>5. \A acc \in S, n \in 1..N : <<acc, n>> \in S \X (1..N) /\ step[<<acc, n>>] = grown(acc, n)
  OBVIOUS
<1> HIDE DEF step
<1>6. PICK p \in [0..N -> S] : Iterates(p, N, Combinations(m), step)
  BY <1>1, <1>4, Iterated
<1>7. p[0] = Combinations(m)
  BY <1>6 DEF Iterates
<1>8. ASSUME NEW n \in 1..N
      PROVE  p[n] = grown(p[n - 1], n)
  <2>1. p[n - 1] \in S
    <3>1. n - 1 \in 0..N
      BY <1>1
    <3> QED
      BY <3>1
  <2>2. p[n] = step[<<p[n - 1], n>>]
    BY <1>6 DEF Iterates
  <2> QED
    BY <2>1, <2>2, <1>5
<1>9. IsExpanded(p, m)
  <2> DEFINE value(n) == IF n = 0 THEN Combinations(m) ELSE grown(p[n - 1], n)
  <2>1. ASSUME NEW n \in 0..N
        PROVE  p[n] = value(n)
    <3>1. n # 0 => n \in 1..N
      BY <1>1
    <3> QED
      BY <3>1, <1>7, <1>8
  <2> HIDE DEF value
  <2>2. p = [n \in 0..N |-> value(n)]
    <3>1. p = [n \in 0..N |-> p[n]]
      OBVIOUS
    <3> QED
      BY <2>1, <3>1
  <2> QED
    BY <2>2 DEF IsExpanded, value, grown, N
<1> DEFINE G == CHOOSE q : IsExpanded(q, m)
<1>10. IsExpanded(G, m)
  BY <1>9
<1>11. ExpandMatrix(m) = G[Len(m.include)]
  BY DEF ExpandMatrix, IsExpanded
<1> HIDE DEF G
<1>12. Results(G, m)
  BY <1>1, <1>10 DEF IsExpanded, Results, N
<1> QED
  BY <1>11, <1>12

\* ExpandMatrix: the choices come first and survive, and every include entry is there.
LEMMA ExpandHolds ==
    ASSUME NEW m, MatrixShape(m)
    PROVE  /\ ExpandMatrix(m) \in Seq(Entry)
           /\ m.whole = <<>> => Holds(ExpandMatrix(m), Len(m.include), m)
<1>1. CASE m.whole # <<>>
  BY <1>1 DEF ExpandMatrix
<1>2. CASE m.whole = <<>>
  <2> DEFINE N == Len(m.include)
  <2>1. PICK g : Results(g, m) /\ ExpandMatrix(m) = g[N]
    BY <1>2, ResultDefined
  <2> DEFINE T == {n \in 0..N : Holds(g[n], n, m)}
  <2>2. N \in Nat
    BY ShapeOf
  <2>3. 0 \in T
    <3>1. Holds(Combinations(m), 0, m)
      BY CombinationsHold DEF Holds, HasIncludes
    <3> QED
      BY <2>1, <2>2, <3>1 DEF Results
  <2>4. ASSUME NEW n \in 1..N, n - 1 \in T
        PROVE  n \in T
    <3>1. Holds(g[n - 1], n - 1, m) /\ g[n] = Included(g[n - 1], m.include[n], m.dims)
      BY <2>1, <2>4 DEF Results
    <3>2. Holds(Included(g[n - 1], m.include[n], m.dims), n, m)
      BY <3>1, IncludedHolds
    <3> QED
      BY <3>1, <3>2, <2>2
  <2> HIDE DEF T, N
  <2>5. \A n \in 0..N : n \in T
    BY <2>2, <2>3, <2>4, UpTo
  <2>6. N \in T
    BY <2>2, <2>5
  <2>7. Holds(ExpandMatrix(m), N, m)
    BY <2>1, <2>6 DEF T
  <2> QED
    BY <2>7 DEF Holds, N
<1> QED
  BY <1>1, <1>2

-----------------------------------------------------------------------------
(* The steps.                                                              *)

\* The nodes are the combinations taken so far, numbered; a job without one has a node as well.
MadeInv ==
    /\ combos # <<>> => /\ Len(made) \in 0..Len(combos)
                        /\ made = [i \in 1..Len(made) |-> NodeID(combos[i])]
    /\ combos = <<>> => made \in {<<>>, << NoDims >>}

NodesInv ==
    /\ DOMAIN nodes = ToSet(made)
    /\ \A id \in DOMAIN nodes : \E i \in 1..Len(made) :
          /\ made[i] = id /\ nodes[id].index = i - 1
          /\ nodes[id].total = IF combos = <<>> THEN 1 ELSE Len(combos)

MatrixIInv ==
    /\ stage \in {"parsed", "resolved", "expanded"}
    /\ MatrixShape(matrix)
    /\ stage = "parsed" => matrix \in Matrices
    /\ combos = IF stage = "expanded" THEN ExpandMatrix(matrix) ELSE <<>>
    /\ stage # "expanded" => made = <<>>
    /\ MadeInv /\ NodesInv

LEMMA MatrixStarts == MatrixInit => MatrixIInv
<1> SUFFICES ASSUME MatrixInit
             PROVE  MatrixIInv
  OBVIOUS
<1>1. MatrixShape(matrix) /\ matrix \in Matrices
  BY MatrixAssumption DEF MatrixInit
<1>2. DOMAIN nodes = ToSet(made) /\ DOMAIN nodes = {}
  BY DEF MatrixInit, ToSet
<1> QED
  BY <1>1, <1>2 DEF MatrixInit, MatrixIInv, MadeInv, NodesInv

\* What an expression leaves of include and exclude.
LEMMA ListOrTyped ==
    ASSUME NEW S, NEW expr \in Seq(Evaluated(S)), NEW list \in Seq(S)
    PROVE  ListOr(expr, list) \in Seq(S)
<1>1. CASE expr = <<>>
  BY <1>1 DEF ListOr
<1>2. CASE expr # <<>>
  <2>1. Head(expr) \in Evaluated(S)
    BY <1>2
  <2>2. Head(expr).items \in Seq(S)
    BY <2>1 DEF Evaluated
  <2> QED
    BY <2>2 DEF ListOr
<1> QED
  BY <1>1, <1>2

LEMMA ResolvedShape ==
    ASSUME NEW m, MatrixShape(m)
    PROVE  MatrixShape(ResolveDimensions(m))
<1> DEFINE done == {k \in DOMAIN m.dimExprs : IsArray(m.dimExprs[k])}
           lists == [k \in done |-> m.dimExprs[k].items]
           dims == Over(lists, m.dims)
           exprs == [k \in DOMAIN m.dimExprs \ done |-> m.dimExprs[k]]
           include == ListOr(m.includeExpr, m.include)
           exclude == ListOr(m.excludeExpr, m.exclude)
           r == ResolveDimensions(m)
<1>1. /\ DOMAIN m = {"dims", "dimExprs", "include", "exclude", "includeExpr", "excludeExpr", "whole"}
      /\ DOMAIN m.dims \subseteq Keys     /\ m.dims \in [DOMAIN m.dims -> Seq(Values)]
      /\ DOMAIN m.dimExprs \subseteq Keys /\ m.dimExprs \in [DOMAIN m.dimExprs -> Evaluated(Values)]
      /\ m.include \in Seq(Entry)         /\ m.exclude \in Seq(Entry)
      /\ m.includeExpr \in Seq(Evaluated(Entry)) /\ m.excludeExpr \in Seq(Evaluated(Entry))
  BY DEF MatrixShape
<1>2. r = [m EXCEPT !.dims = dims, !.dimExprs = exprs, !.include = include, !.exclude = exclude]
  BY DEF ResolveDimensions
<1>3. include \in Seq(Entry) /\ exclude \in Seq(Entry)
  BY <1>1, ListOrTyped
<1>4. DOMAIN exprs \subseteq Keys /\ exprs \in [DOMAIN exprs -> Evaluated(Values)]
  BY <1>1
<1>5. lists \in [done -> Seq(Values)]
  <2>1. \A k \in done : m.dimExprs[k] \in Evaluated(Values)
    BY <1>1
  <2>2. \A k \in done : m.dimExprs[k].items \in Seq(Values)
    BY <2>1 DEF Evaluated
  <2> QED
    BY <2>2
<1>6. DOMAIN lists = done /\ done \subseteq Keys
  BY <1>1
<1> HIDE DEF lists, done
<1>7. DOMAIN dims \subseteq Keys /\ dims \in [DOMAIN dims -> Seq(Values)]
  <2> DEFINE K == done \cup DOMAIN m.dims
  <2>1. dims = [k \in K |-> IF k \in done THEN lists[k] ELSE m.dims[k]]
    BY <1>6 DEF Over
  <2>2. dims \in [K -> Seq(Values)] /\ DOMAIN dims = K
    BY <1>1, <1>5, <2>1
  <2> QED
    BY <1>1, <1>6, <2>2
<1> HIDE DEF dims, exprs, include, exclude, r
<1>8. /\ DOMAIN r = DOMAIN m
      /\ r.dims = dims /\ r.dimExprs = exprs /\ r.include = include /\ r.exclude = exclude
      /\ r.includeExpr = m.includeExpr /\ r.excludeExpr = m.excludeExpr
  BY <1>1, <1>2
<1>9. MatrixShape(r)
  BY <1>1, <1>3, <1>4, <1>7, <1>8 DEF MatrixShape
<1> QED
  BY <1>9 DEF r

LEMMA ResolveKeeps ==
    ASSUME MatrixIInv, ResolveMatrix
    PROVE  MatrixIInv'
<1>1. /\ matrix \in Matrices /\ MatrixShape(matrix) /\ stage' = "resolved" /\ stage = "parsed"
      /\ combos' = combos /\ made' = made /\ nodes' = nodes /\ combos = <<>> /\ made = <<>>
  BY DEF MatrixIInv, ResolveMatrix
<1>2. MatrixShape(matrix')
  <2>1. CASE matrix.whole = <<>>
    BY <1>1, <2>1, ResolvedShape DEF ResolveMatrix
  <2>2. CASE matrix.whole # <<>> /\ matrix.whole[1].kind = "object"
    BY <1>1, <2>2, MatrixAssumption DEF ResolveMatrix
  <2>3. CASE matrix.whole # <<>> /\ matrix.whole[1].kind # "object"
    BY <1>1, <2>3 DEF ResolveMatrix
  <2> QED
    BY <2>1, <2>2, <2>3
<1>3. MadeInv' /\ NodesInv'
  BY <1>1 DEF MatrixIInv, MadeInv, NodesInv, ToSet
<1>4. MatrixShape(matrix)'
  BY <1>2 DEF MatrixShape
<1> QED
  BY <1>1, <1>3, <1>4 DEF MatrixIInv

LEMMA ExpandKeeps ==
    ASSUME MatrixIInv, Expand
    PROVE  MatrixIInv'
<1>1. /\ MatrixShape(matrix) /\ stage' = "expanded" /\ stage = "resolved"
      /\ matrix' = matrix /\ combos' = ExpandMatrix(matrix) /\ made' = made /\ nodes' = nodes /\ made = <<>>
  BY DEF MatrixIInv, Expand
<1>2. ExpandMatrix(matrix) \in Seq(Entry)
  BY <1>1, ExpandHolds
<1>3. Len(combos') \in Nat /\ Len(made) = 0 /\ ToSet(made) = {} /\ 1..0 = {}
  BY <1>1, <1>2 DEF ToSet
<1>4. made = [i \in 1..Len(made) |-> NodeID(combos'[i])]
  BY <1>1, <1>3
<1>5. NodesInv'
  BY <1>1, <1>3 DEF MatrixIInv, NodesInv
<1>6. MadeInv'
  BY <1>1, <1>3, <1>4 DEF MadeInv, NodeID
<1>7. MatrixShape(matrix)' /\ ExpandMatrix(matrix)' = ExpandMatrix(matrix)
  BY <1>1
<1> QED
  BY <1>1, <1>5, <1>6, <1>7 DEF MatrixIInv

LEMMA CombosTyped ==
    ASSUME MatrixIInv
    PROVE  combos \in Seq(Entry) /\ Len(combos) \in Nat /\ (combos # <<>> => Len(combos) # 0)
<1>1. combos \in Seq(Entry)
  BY ExpandHolds DEF MatrixIInv
<1> QED
  BY <1>1

LEMMA AddKeeps ==
    ASSUME MatrixIInv, AddNode
    PROVE  MatrixIInv'
<1> DEFINE L == Len(made)
           i == L + 1
           id == NodeID(combos[i])
           node == [index |-> i - 1, total |-> Len(combos), combo |-> combos[i]]
           one == [x \in {id} |-> node]
           S == {NodeID(combos[j]) : j \in 1..Len(combos)}
<1>1. /\ stage = "expanded" /\ L < Len(combos) /\ matrix' = matrix /\ stage' = stage /\ combos' = combos
      /\ made' = Append(made, id) /\ nodes' = Over(one, nodes)
  BY DEF AddNode
<1>2. combos \in Seq(Entry) /\ Len(combos) \in Nat
  BY CombosTyped
<1>3. L \in Nat /\ combos # <<>>
  <2>1. made = <<>> => L = 0
    OBVIOUS
  <2>2. made = << NoDims >> => L = 1
    OBVIOUS
  <2>3. MadeInv
    BY DEF MatrixIInv
  <2>4. CASE combos = <<>>
    <3>1. Len(combos) = 0 /\ (L = 0 \/ L = 1)
      BY <2>1, <2>2, <2>3, <2>4 DEF MadeInv
    <3> QED
      BY <3>1, <1>1
  <2>5. CASE combos # <<>>
    <3>1. L \in 0..Len(combos)
      BY <2>3, <2>5 DEF MadeInv
    <3> QED
      BY <2>5, <3>1, <1>2
  <2> QED
    BY <2>4, <2>5
<1>4. made = [j \in 1..L |-> NodeID(combos[j])] /\ L \in 0..Len(combos)
  BY <1>3 DEF MatrixIInv, MadeInv
<1>5. i \in 1..Len(combos)
  BY <1>1, <1>2, <1>3
<1>6. made \in Seq(S) /\ id \in S
  <2>1. \A j \in 1..L : NodeID(combos[j]) \in S
    BY <1>2, <1>4
  <2> HIDE DEF S, L
  <2>2. made \in [1..L -> S]
    BY <1>4, <2>1
  <2>3. made \in Seq(S)
    BY <2>2, <1>3, SeqDef
  <2>4. id \in S
    BY <1>5 DEF S
  <2> QED
    BY <2>3, <2>4
<1> HIDE DEF S, node, id
<1>7. /\ Len(made') = i /\ made' \in Seq(S) /\ DOMAIN made' = 1..i /\ made'[i] = id
      /\ \A j \in 1..L : made'[j] = made[j] /\ j \in 1..i
      /\ \A j \in 1..i : j \in 1..L \/ j = i
  <2>1. made' = Append(made, id)
    BY <1>1
  <2> QED
    BY <2>1, <1>6
<1>8. made' = [j \in 1..i |-> NodeID(combos[j])]
  <2>1. \A j \in 1..i : made'[j] = NodeID(combos[j])
    BY <1>4, <1>7 DEF id
  <2>2. made' = [j \in 1..i |-> made'[j]]
    BY <1>7
  <2> HIDE DEF i
  <2> QED
    BY <2>1, <2>2
<1>9. MadeInv'
  <2>1. i \in 0..Len(combos)
    BY <1>5, <1>2
  <2> QED
    BY <2>1, <1>1, <1>3, <1>7, <1>8 DEF MadeInv, NodeID
<1>10. /\ DOMAIN nodes = ToSet(made)
       /\ \A x \in DOMAIN nodes : \E j \in 1..L :
             made[j] = x /\ nodes[x].index = j - 1 /\ nodes[x].total = Len(combos)
  BY <1>3 DEF MatrixIInv, NodesInv
<1>11. /\ DOMAIN nodes' = {id} \cup DOMAIN nodes
       /\ nodes'[id] = node
       /\ \A x \in DOMAIN nodes : x # id => nodes'[x] = nodes[x]
  BY <1>1 DEF Over
<1>12. DOMAIN nodes' = ToSet(made')
  <2>1. ToSet(made) = {made[j] : j \in 1..L}
    BY <1>4 DEF ToSet
  <2>2. ToSet(made') = {made'[j] : j \in 1..i}
    BY <1>7 DEF ToSet
  <2>3. i \in 1..i
    BY <1>3
  <2> HIDE DEF i, L
  <2> QED
    BY <2>1, <2>2, <2>3, <1>7, <1>10, <1>11
<1>13. ASSUME NEW x \in DOMAIN nodes'
       PROVE  \E j \in 1..i : made'[j] = x /\ nodes'[x].index = j - 1 /\ nodes'[x].total = Len(combos)
  <2>1. CASE x = id
    <3>1. node.index = i - 1 /\ node.total = Len(combos) /\ i \in 1..i
      BY <1>3 DEF node
    <3> HIDE DEF i
    <3> QED
      BY <2>1, <3>1, <1>7, <1>11
  <2>2. CASE x # id
    <3>1. x \in DOMAIN nodes /\ nodes'[x] = nodes[x]
      BY <2>2, <1>11
    <3>2. PICK j \in 1..L : made[j] = x /\ nodes[x].index = j - 1 /\ nodes[x].total = Len(combos)
      BY <3>1, <1>10
    <3> QED
      BY <3>1, <3>2, <1>7
  <2> QED
    BY <2>1, <2>2
<1>14. NodesInv'
  <2> HIDE DEF i
  <2> QED
    BY <1>1, <1>3, <1>7, <1>12, <1>13 DEF NodesInv
<1>15. MatrixShape(matrix)' /\ ExpandMatrix(matrix)' = ExpandMatrix(matrix) /\ MatrixShape(matrix)
  BY <1>1 DEF MatrixIInv
<1> QED
  BY <1>1, <1>9, <1>14, <1>15 DEF MatrixIInv

LEMMA AddSingleKeeps ==
    ASSUME MatrixIInv, AddSingleNode
    PROVE  MatrixIInv'
<1>1. /\ stage = "expanded" /\ combos = <<>> /\ matrix' = matrix /\ stage' = stage /\ combos' = combos
      /\ made' = << NoDims >> /\ nodes' = [x \in {NoDims} |-> [index |-> 0, total |-> 1, combo |-> NoDims]]
  BY DEF AddSingleNode
<1>2. Len(made') = 1 /\ made'[1] = NoDims /\ ToSet(made') = {NoDims} /\ 1 \in 1..1
  BY <1>1 DEF ToSet
<1>3. MadeInv'
  BY <1>1 DEF MadeInv
<1>4. DOMAIN nodes' = {NoDims} /\ nodes'[NoDims].index = 1 - 1 /\ nodes'[NoDims].total = 1
  BY <1>1
<1>5. NodesInv'
  BY <1>1, <1>2, <1>4 DEF NodesInv
<1>6. MatrixShape(matrix)' /\ ExpandMatrix(matrix)' = ExpandMatrix(matrix) /\ MatrixShape(matrix)
  BY <1>1 DEF MatrixIInv
<1> QED
  BY <1>1, <1>3, <1>5, <1>6 DEF MatrixIInv

LEMMA MatrixStutters ==
    ASSUME MatrixIInv, UNCHANGED matrixVars
    PROVE  MatrixIInv'
<1>1. /\ matrix' = matrix /\ stage' = stage /\ combos' = combos /\ made' = made /\ nodes' = nodes
  BY DEF matrixVars
<1>2. MatrixShape(matrix)' = MatrixShape(matrix) /\ ExpandMatrix(matrix)' = ExpandMatrix(matrix)
  BY <1>1
<1> QED
  BY <1>1, <1>2 DEF MatrixIInv, MadeInv, NodesInv

LEMMA NumberedNodes ==
    ASSUME MatrixIInv
    PROVE  NodesAreNumbered
<1> SUFFICES ASSUME Built, IsInjective(made)
             PROVE  /\ {nodes[id].index : id \in DOMAIN nodes} = 0..(Cardinality(DOMAIN nodes) - 1)
                    /\ \A id \in DOMAIN nodes : nodes[id].total = Cardinality(DOMAIN nodes)
  BY DEF NodesAreNumbered
<1> DEFINE L == Len(made)
<1>1. combos \in Seq(Entry) /\ Len(combos) \in Nat /\ (combos # <<>> => Len(combos) # 0)
  BY CombosTyped
<1>2. L \in Nat /\ L = (IF combos = <<>> THEN 1 ELSE Len(combos)) /\ DOMAIN made = 1..L
  <2>1. CASE combos = <<>>
    <3>1. made = << NoDims >>
      BY <2>1 DEF MatrixIInv, MadeInv, Built
    <3> QED
      BY <2>1, <3>1
  <2>2. CASE combos # <<>>
    <3>1. L \in 0..Len(combos) /\ made = [i \in 1..L |-> NodeID(combos[i])] /\ L >= Len(combos)
      BY <2>2 DEF MatrixIInv, MadeInv, Built
    <3>2. L = Len(combos)
      BY <3>1, <1>1
    <3>3. DOMAIN made = 1..L
      <4> HIDE DEF L
      <4> QED
        BY <3>1
    <3> QED
      BY <2>2, <3>2, <3>3, <1>1
  <2> QED
    BY <2>1, <2>2
<1>3. /\ DOMAIN nodes = ToSet(made)
      /\ \A id \in DOMAIN nodes : \E i \in 1..L : made[i] = id /\ nodes[id].index = i - 1 /\ nodes[id].total = L
  BY <1>2 DEF MatrixIInv, NodesInv
<1> HIDE DEF L
<1>4. \A i, j \in 1..L : made[i] = made[j] => i = j
  BY <1>2 DEF IsInjective
<1>5. \A i \in 1..L : made[i] \in DOMAIN nodes
  BY <1>2, <1>3 DEF ToSet
<1>6. \A i \in 1..L : nodes[made[i]].index = i - 1
  BY <1>3, <1>4, <1>5
<1>7. Cardinality(DOMAIN nodes) = L
  <2> DEFINE f == [i \in 1..L |-> made[i]]
             Q == DOMAIN nodes
  <2>1. f \in [1..L -> Q] /\ (\A i, j \in 1..L : f[i] = f[j] => i = j) /\ \A q \in Q : \E i \in 1..L : f[i] = q
    BY <1>3, <1>4, <1>5
  <2> HIDE DEF f, Q
  <2>2. f \in Injection(1..L, Q)
    BY <2>1 DEF Injection, IsInjective
  <2>3. f \in Surjection(1..L, Q)
    BY <2>1 DEF Surjection
  <2>4. ExistsBijection(1..L, Q)
    BY <2>2, <2>3 DEF Bijection, ExistsBijection
  <2>5. IsFiniteSet(1..L) /\ Cardinality(1..L) = L
    BY <1>2, FS_Interval
  <2>6. Cardinality(Q) = L
    BY <2>4, <2>5, FS_Bijection
  <2> QED
    BY <2>6 DEF Q
<1>8. {nodes[id].index : id \in DOMAIN nodes} = 0..(L - 1)
  <2>1. ASSUME NEW id \in DOMAIN nodes
        PROVE  nodes[id].index \in 0..(L - 1)
    BY <1>2, <1>3
  <2>2. ASSUME NEW x \in 0..(L - 1)
        PROVE  \E id \in DOMAIN nodes : nodes[id].index = x
    <3>1. x + 1 \in 1..L /\ x + 1 - 1 = x
      BY <1>2
    <3> DEFINE y == x + 1
    <3>2. made[y] \in DOMAIN nodes /\ nodes[made[y]].index = x
      <4>1. y \in 1..L /\ y - 1 = x
        BY <3>1
      <4> HIDE DEF y
      <4> QED
        BY <4>1, <1>5, <1>6
    <3> QED
      BY <3>2
  <2> QED
    BY <2>1, <2>2
<1> QED
  BY <1>3, <1>7, <1>8

LEMMA MatrixHolds ==
    ASSUME MatrixIInv
    PROVE  MatrixInv
<1>1. combos \in Seq(Entry)
  BY CombosTyped
<1>2. MatrixShape(matrix) /\ stage \in {"parsed", "resolved", "expanded"} /\ DOMAIN nodes = ToSet(made)
  BY DEF MatrixIInv, NodesInv
<1>3. MatrixTypeOK
  <2>1. DOMAIN matrix.dims \subseteq Keys
    BY <1>2 DEF MatrixShape
  <2>2. \A i \in DOMAIN combos : DOMAIN combos[i] \subseteq Keys
    <3>1. \A i \in DOMAIN combos : combos[i] \in Entry
      BY <1>1
    <3> QED
      BY <3>1, InEntry
  <2> QED
    BY <2>1, <2>2, <1>2 DEF MatrixTypeOK
<1>4. stage = "expanded" /\ matrix.whole = <<>> => Holds(combos, Len(matrix.include), matrix)
  BY <1>2, ExpandHolds DEF MatrixIInv
<1>5. ProductSurvives
  BY <1>4 DEF ProductSurvives, Holds, HasProduct
<1>6. IncludesAreThere
  <2> SUFFICES ASSUME stage = "expanded", matrix.whole = <<>>, NEW n \in DOMAIN matrix.include
               PROVE  LET inc == matrix.include[n]
                          later(k) == {TextOf[matrix.include[m][k]] :
                                m \in {x \in n + 1..Len(matrix.include) : k \in DOMAIN matrix.include[x]}}
                      IN  \E i \in DOMAIN combos : \A k \in DOMAIN inc :
                              /\ k \in DOMAIN combos[i]
                              /\ \/ TextOf[combos[i][k]] = TextOf[inc[k]]
                                 \/ k \notin DOMAIN matrix.dims /\ TextOf[combos[i][k]] \in later(k)
    BY DEF IncludesAreThere
  <2> DEFINE N == Len(matrix.include)
             inc == matrix.include[n]
  <2>1. n \in 1..N /\ DOMAIN combos = 1..Len(combos)
    BY <1>1, <1>2, ShapeOf
  <2>2. PICK i \in 1..Len(combos) : \A k \in DOMAIN inc :
            /\ k \in DOMAIN combos[i]
            /\ \/ TextOf[combos[i][k]] = TextOf[inc[k]]
               \/ /\ k \notin DOMAIN matrix.dims
                  /\ \E y \in (n + 1)..N :
                        k \in DOMAIN matrix.include[y] /\ TextOf[combos[i][k]] = TextOf[matrix.include[y][k]]
    BY <1>4, <2>1 DEF Holds, HasIncludes
  <2> QED
    BY <2>1, <2>2
<1> QED
  BY <1>3, <1>5, <1>6, NumberedNodes DEF MatrixInv

\* Whatever a matrix says and its expressions evaluate to: the combinations are the choices of its
\* dimensions that exclude leaves, in which include changes no dimension, every include entry is in
\* one, and the nodes are numbered (ExpandMatrix and Build).
THEOREM MatrixExpands == MatrixInit /\ [][MatrixNext]_matrixVars => []MatrixInv
<1>1. MatrixIInv /\ [MatrixNext]_matrixVars => MatrixIInv'
  BY ResolveKeeps, ExpandKeeps, AddKeeps, AddSingleKeeps, MatrixStutters DEF MatrixNext
<1> QED
  BY <1>1, MatrixStarts, MatrixHolds, PTL

\* Concatenation is associative, stated so that the set of sequences stays opaque.
Associates(Q) == \A a, b, c \in Q : (a \o b) \o c = a \o (b \o c)

LEMMA SeqAssociates == \A S : Associates(Seq(S))
<1> SUFFICES ASSUME NEW S, NEW a \in Seq(S), NEW b \in Seq(S), NEW c \in Seq(S)
             PROVE  (a \o b) \o c = a \o (b \o c)
  BY DEF Associates
<1> QED
  BY ConcatAssociative

\* The same, of four texts, with concatenation opaque too.
Chained(a, b) == a \o b

LEMMA Regrouped ==
    ASSUME NEW Q, Associates(Q), NEW a \in Q, NEW b \in Q, NEW c \in Q, NEW d \in Q, Chained(b, c) \in Q
    PROVE  Chained(Chained(Chained(a, b), c), d) = Chained(a, Chained(Chained(b, c), d))
<1>1. \A x, y, z \in Q : Chained(Chained(x, y), z) = Chained(x, Chained(y, z))
  BY Zenon DEF Chained, Associates
<1> QED
  BY <1>1

-----------------------------------------------------------------------------
(* The texts of expressions.                                               *)

Letters == Alphabet["format"] \cup {"{", "0", "}"} \cup UNION {ToSet(Arguments[i]) : i \in DOMAIN Arguments}

LEMMA LettersHave ==
    Alphabet["format"] \subseteq Letters /\ "{" \in Letters /\ "0" \in Letters /\ "}" \in Letters
BY Zenon DEF Letters

LEMMA ArgumentsAre == Arguments \in Seq(Seq(Letters)) /\ Len(Arguments) \in Nat /\ Len(Arguments) # 0
<1> DEFINE A == UNION {ToSet(Arguments[i]) : i \in DOMAIN Arguments}
<1>1. Arguments \in Seq(Seq(A)) /\ Arguments # <<>>
  BY TextAssumption
<1>2. A \subseteq Letters
  BY Zenon DEF Letters
<1> HIDE DEF A
<1>3. Seq(A) \subseteq Seq(Letters)
  <2>1. \A s \in Seq(A) : s \in [1..Len(s) -> Letters] /\ Len(s) \in Nat
    BY <1>2
  <2> QED
    BY <2>1, SeqDef
<1>4. Arguments \in Seq(Seq(Letters))
  <2>1. Arguments \in [1..Len(Arguments) -> Seq(Letters)] /\ Len(Arguments) \in Nat
    BY <1>1, <1>3
  <2> QED
    BY <2>1, SeqDef
<1>5. Len(Arguments) \in Nat /\ Len(Arguments) # 0
  <2>1. Arguments # <<>>
    BY <1>1
  <2> QED
    BY <2>1, <1>4, EmptySeq, LenProperties
<1> QED
  BY <1>4, <1>5

\* Where the digits end.
LEMMA DigitsEndAt ==
    ASSUME NEW S, NEW s \in Seq(S), NEW i \in 1..(Len(s) + 1)
    PROVE  /\ DigitsEnd(s, i) \in i..(Len(s) + 1)
           /\ Char(s, DigitsEnd(s, i)) \notin ToSet(Digits)
           /\ \A j \in i..(Len(s) + 1) : j < DigitsEnd(s, i) => Char(s, j) \in ToSet(Digits)
<1> DEFINE N == Len(s)
           T == {j \in i..(N + 1) : Char(s, j) \notin ToSet(Digits)}
<1>1. N \in Nat /\ DOMAIN s = 1..N
  OBVIOUS
<1>2. N + 1 \in T
  <2>1. Char(s, N + 1) = "end"
    <3>1. N + 1 \notin DOMAIN s
      BY <1>1
    <3> QED
      BY <3>1 DEF Char
  <2>2. "end" \notin ToSet(Digits)
    BY DEF ToSet, Digits
  <2> QED
    BY <1>1, <2>1, <2>2
<1>3. T \in SUBSET Nat /\ T # {}
  BY <1>1, <1>2
<1>4. DigitsEnd(s, i) = Min(T)
  BY DEF DigitsEnd
<1> HIDE DEF T, N
<1>5. Min(T) \in T /\ \A y \in T : Min(T) <= y
  BY <1>3, MinOfSet
<1> DEFINE m == Min(T)
<1> HIDE DEF m
<1>6. m \in i..(N + 1) /\ Char(s, m) \notin ToSet(Digits)
  BY <1>5 DEF T, m
<1>7. ASSUME NEW j \in i..(N + 1), j < m
      PROVE  Char(s, j) \in ToSet(Digits)
  <2>1. SUFFICES ASSUME Char(s, j) \notin ToSet(Digits)
                 PROVE  FALSE
    OBVIOUS
  <2>2. j \in T
    BY <2>1 DEF T
  <2>3. m <= j
    BY <2>2, <1>5 DEF m
  <2> QED
    BY <2>3, <1>6, <1>7, <1>1
<1> QED
  BY <1>4, <1>6, <1>7 DEF m, N

\* The digit at the k-th place from i on.
DigitAt(s, i, k) == CHOOSE d \in 0..9 : Digits[d + 1] = s[i + k - 1]

IsIndex(g, s, i, j) == g = [k \in 0..(j - i) |-> IF k = 0 THEN 0 ELSE 10 * g[k - 1] + DigitAt(s, i, k)]

LEMMA WorthOf ==
    ASSUME NEW s, NEW i, NEW k, s[i + k - 1] \in ToSet(Digits)
    PROVE  DigitAt(s, i, k) \in 0..9 /\ (s[i + k - 1] = "0" => DigitAt(s, i, k) = 0)
<1> DEFINE c == s[i + k - 1]
<1>1. PICK n \in DOMAIN Digits : c = Digits[n]
  BY DEF ToSet
<1>2. DOMAIN Digits = 1..10
  BY DEF Digits
<1>3. n - 1 \in 0..9 /\ Digits[(n - 1) + 1] = c
  BY <1>1, <1>2
<1> HIDE DEF c
<1>4. (CHOOSE d \in 0..9 : Digits[d + 1] = c) \in 0..9 /\ Digits[(CHOOSE d \in 0..9 : Digits[d + 1] = c) + 1] = c
  BY <1>3
<1>5. \A d \in 0..9 : Digits[d + 1] = "0" => d = 0
  BY DEF Digits
<1> QED
  BY <1>4, <1>5 DEF DigitAt, c

LEMMA IndexNat ==
    ASSUME NEW s, NEW i \in Nat, NEW j \in Nat, i <= j,
           \A k \in 1..(j - i) : s[i + k - 1] \in ToSet(Digits)
    PROVE  Index(s, i, j) \in Nat /\ (j = i + 1 /\ s[i] = "0" => Index(s, i, j) = 0)
<1> DEFINE N == j - i
           next(v, k) == 10 * v + DigitAt(s, i, k)
           step == [x \in Nat \X (1..N) |-> next(x[1], x[2])]
<1>1. N \in Nat /\ \A k \in 1..N : DigitAt(s, i, k) \in Nat
  BY WorthOf
<1> HIDE DEF N
<1>2. \A v \in Nat, k \in 1..N : next(v, k) \in Nat
  BY <1>1
<1> HIDE DEF next
<1>3. step \in [Nat \X (1..N) -> Nat] /\ \A v \in Nat, k \in 1..N : step[<<v, k>>] = next(v, k)
  BY <1>2
<1> HIDE DEF step
<1>4. PICK f \in [0..N -> Nat] : Iterates(f, N, 0, step)
  BY <1>1, <1>3, Iterated
<1>5. ASSUME NEW k \in 0..N
      PROVE  f[k] = IF k = 0 THEN 0 ELSE next(f[k - 1], k)
  <2>1. CASE k = 0
    BY <1>4, <2>1 DEF Iterates
  <2>2. CASE k # 0
    <3>1. k \in 1..N /\ k - 1 \in 0..N
      BY <1>1, <2>2
    <3>2. f[k] = step[<<f[k - 1], k>>] /\ f[k - 1] \in Nat
      BY <1>4, <3>1 DEF Iterates
    <3> QED
      BY <2>2, <3>1, <3>2, <1>3
  <2> QED
    BY <2>1, <2>2
<1>6. f = [k \in 0..N |-> IF k = 0 THEN 0 ELSE next(f[k - 1], k)]
  <2> DEFINE value(k) == IF k = 0 THEN 0 ELSE next(f[k - 1], k)
  <2>1. \A k \in 0..N : f[k] = value(k)
    BY <1>5
  <2> HIDE DEF value
  <2>2. f = [k \in 0..N |-> value(k)]
    <3>1. f = [k \in 0..N |-> f[k]]
      OBVIOUS
    <3> QED
      BY <2>1, <3>1
  <2> QED
    BY <2>2 DEF value
<1> DEFINE G == CHOOSE g : IsIndex(g, s, i, j)
<1>7. IsIndex(G, s, i, j)
  <2>1. IsIndex(f, s, i, j)
    BY <1>6 DEF IsIndex, next, N
  <2> QED
    BY <2>1
<1>8. Index(s, i, j) = G[N]
  BY DEF Index, IsIndex, DigitAt, N
<1> HIDE DEF G
<1>9. \A k \in 0..N : G[k] = IF k = 0 THEN 0 ELSE next(G[k - 1], k)
  BY <1>7 DEF IsIndex, next, N
<1> DEFINE T == {k \in 0..N : G[k] \in Nat}
<1>10. 0 \in T /\ \A k \in 1..N : k - 1 \in T => k \in T
  <2>1. 0 \in T
    BY <1>1, <1>9
  <2>2. ASSUME NEW k \in 1..N, k - 1 \in T
        PROVE  k \in T
    <3>1. k \in 0..N /\ k # 0 /\ G[k - 1] \in Nat
      BY <1>1, <2>2
    <3>2. G[k] = next(G[k - 1], k)
      BY <3>1, <1>9
    <3> QED
      BY <3>1, <3>2, <1>2
  <2> QED
    BY <2>1, <2>2
<1> HIDE DEF T
<1>11. N \in T
  <2>1. \A k \in 0..N : k \in T
    BY <1>1, <1>10, UpTo
  <2> QED
    BY <2>1, <1>1
<1>12. ASSUME j = i + 1, s[i] = "0"
       PROVE  G[N] = 0
  <2>1. N = 1
    BY <1>12 DEF N
  <2>2. G[0] = 0 /\ G[1] = next(G[0], 1)
    <3>1. 0 \in 0..N /\ 1 \in 0..N /\ 1 # 0 /\ 1 - 1 = 0
      BY <2>1
    <3> QED
      BY <3>1, <1>9
  <2>3. i + 1 - 1 = i /\ 1 \in 1..(j - i)
    BY <1>12
  <2>4. DigitAt(s, i, 1) = 0
    BY <2>3, <1>12, WorthOf
  <2> QED
    BY <2>1, <2>2, <2>4 DEF next
<1> QED
  BY <1>8, <1>11, <1>12 DEF T

\* What format() writes at a place of s, and where it goes on.
FormatHead(s, i) ==
    IF EscapeAt(s, i) THEN <<s[i]>>
    ELSE IF PlaceholderAt(s, i) THEN Replacement(s, i, DigitsEnd(s, i + 1)) ELSE <<s[i]>>

FormatNext(s, i) ==
    IF EscapeAt(s, i) THEN i + 2 ELSE IF PlaceholderAt(s, i) THEN DigitsEnd(s, i + 1) + 1 ELSE i + 1

LEMMA FormatSteps ==
    ASSUME NEW s \in Seq(Letters), NEW i \in 1..Len(s)
    PROVE  FormatNext(s, i) \in (i + 1)..(Len(s) + 1) /\ FormatHead(s, i) \in Seq(Letters)
<1>1. Len(s) \in Nat /\ DOMAIN s = 1..Len(s) /\ s[i] \in Letters /\ <<s[i]>> \in Seq(Letters)
  OBVIOUS
<1>2. ASSUME EscapeAt(s, i)
      PROVE  i + 2 \in (i + 1)..(Len(s) + 1)
  <2>1. Char(s, i + 1) # "end"
    BY <1>2, Zenon DEF EscapeAt
  <2>2. i + 1 \in DOMAIN s
    BY <2>1 DEF Char
  <2> QED
    BY <2>2, <1>1
<1>3. ASSUME PlaceholderAt(s, i)
      PROVE  /\ DigitsEnd(s, i + 1) + 1 \in (i + 1)..(Len(s) + 1)
             /\ Replacement(s, i, DigitsEnd(s, i + 1)) \in Seq(Letters)
  <2> DEFINE j == DigitsEnd(s, i + 1)
             n == Index(s, i + 1, j)
  <2>1. i + 1 \in 1..(Len(s) + 1)
    BY <1>1
  <2>2. j \in (i + 1)..(Len(s) + 1) /\ \A k \in (i + 1)..(Len(s) + 1) : k < j => Char(s, k) \in ToSet(Digits)
    BY <2>1, DigitsEndAt
  <2>3. Char(s, j) = "}"
    BY <1>3, Zenon DEF PlaceholderAt
  <2> HIDE DEF j
  <2>4. j \in DOMAIN s
    BY <2>3, Zenon DEF Char
  <2>5. j \in Nat /\ j <= Len(s) /\ i + 1 <= j
    BY <2>2, <2>4, <1>1
  <2>6. ASSUME NEW k \in 1..(j - (i + 1))
        PROVE  s[(i + 1) + k - 1] \in ToSet(Digits)
    <3> DEFINE y == (i + 1) + k - 1
    <3>1. y \in (i + 1)..(Len(s) + 1) /\ y < j /\ y \in DOMAIN s
      BY <2>5, <1>1
    <3> HIDE DEF y
    <3>2. Char(s, y) \in ToSet(Digits)
      BY <3>1, <2>2
    <3> QED
      BY <3>1, <3>2 DEF Char, y
  <2>7. n \in Nat
    <3>1. i + 1 \in Nat
      BY <1>1
    <3> QED
      BY <3>1, <2>5, <2>6, IndexNat
  <2> HIDE DEF n
  <2>8. n < Len(Arguments) => Arguments[n + 1] \in Seq(Letters)
    <3> DEFINE L == Len(Arguments)
    <3>0. L \in Nat
      BY ArgumentsAre
    <3> HIDE DEF L
    <3>1. n < L => n + 1 \in 1..L
      BY <2>7, <3>0
    <3> QED
      BY <3>1, ArgumentsAre, ElementOfSeq DEF L
  <2>9. SubSeq(s, i, j) \in Seq(Letters)
    <3>1. \A k \in i..j : s[k] \in Letters
      BY <2>5, <1>1
    <3>2. i \in Int /\ j \in Int
      BY <2>5
    <3> QED
      BY <3>1, <3>2, SubSeqProperties
  <2>10. Replacement(s, i, j) \in Seq(Letters)
    BY <2>8, <2>9 DEF Replacement, n
  <2> QED
    BY <2>5, <2>10, <1>1 DEF j
<1> QED
  BY <1>1, <1>2, <1>3 DEF FormatHead, FormatNext

IsFormat(f, s) ==
    f = [i \in 1..(Len(s) + 1) |->
            IF i > Len(s) THEN <<>>
            ELSE IF EscapeAt(s, i) THEN <<s[i]>> \o f[i + 2]
            ELSE IF PlaceholderAt(s, i)
            THEN Replacement(s, i, DigitsEnd(s, i + 1)) \o f[DigitsEnd(s, i + 1) + 1]
            ELSE <<s[i]>> \o f[i + 1]]

\* Format is what it writes from the first place on.
LEMMA FormatDefined ==
    ASSUME NEW s \in Seq(Letters)
    PROVE  \E f \in [1..(Len(s) + 1) -> Seq(Letters)] :
              /\ Format(s) = f[1] /\ f[Len(s) + 1] = <<>>
              /\ \A i \in 1..Len(s) : f[i] = FormatHead(s, i) \o f[FormatNext(s, i)]
<1> DEFINE N == Len(s)
           Q == Seq(Letters)
           next == [i \in 1..N |-> FormatNext(s, i)]
           step == [x \in (1..N) \X Q |-> FormatHead(s, x[1]) \o x[2]]
<1>1. N \in Nat /\ <<>> \in Q
  BY LenProperties, EmptySeq
<1>2. \A i \in 1..N : FormatNext(s, i) \in (i + 1)..(N + 1) /\ FormatHead(s, i) \in Q
  BY FormatSteps
<1>3. \A a, b \in Q : a \o b \in Q
  BY ConcatProperties
<1> HIDE DEF N, Q
<1>4. next \in [1..N -> 1..(N + 1)] /\ \A i \in 1..N : i < next[i] /\ next[i] = FormatNext(s, i)
  BY <1>1, <1>2
<1>5. step \in [(1..N) \X Q -> Q] /\ \A i \in 1..N, a \in Q : step[<<i, a>>] = FormatHead(s, i) \o a
  BY <1>2, <1>3
<1> HIDE DEF next, step
<1>6. PICK f \in [1..(N + 1) -> Q] : GoesDown(f, N, <<>>, next, step)
  BY <1>1, <1>4, <1>5, Downwards
<1>7. f[N + 1] = <<>> /\ \A i \in 1..N : f[i] = FormatHead(s, i) \o f[FormatNext(s, i)]
  <2>1. \A i \in 1..N : FormatNext(s, i) \in 1..(N + 1) /\ next[i] = FormatNext(s, i)
    BY <1>2, <1>1, <1>4
  <2>2. \A i \in 1..N : f[i] = step[<<i, f[next[i]]>>]
    BY <1>6 DEF GoesDown
  <2> QED
    BY <2>1, <2>2, <1>5, <1>6 DEF GoesDown
<1> DEFINE value(g, i) == IF i > N THEN <<>>
                          ELSE IF EscapeAt(s, i) THEN <<s[i]>> \o g[i + 2]
                          ELSE IF PlaceholderAt(s, i)
                          THEN Replacement(s, i, DigitsEnd(s, i + 1)) \o g[DigitsEnd(s, i + 1) + 1]
                          ELSE <<s[i]>> \o g[i + 1]
<1>8. \A g : \A i \in 1..N : value(g, i) = FormatHead(s, i) \o g[FormatNext(s, i)]
  <2>1. ASSUME NEW g, NEW i \in 1..N
        PROVE  value(g, i) = FormatHead(s, i) \o g[FormatNext(s, i)]
    <3>1. ~(i > N)
      BY <1>1
    <3>2. CASE EscapeAt(s, i)
      BY <3>1, <3>2 DEF FormatHead, FormatNext
    <3>3. CASE ~EscapeAt(s, i) /\ PlaceholderAt(s, i)
      BY <3>1, <3>3 DEF FormatHead, FormatNext
    <3>4. CASE ~EscapeAt(s, i) /\ ~PlaceholderAt(s, i)
      BY <3>1, <3>4 DEF FormatHead, FormatNext
    <3> QED
      BY <3>2, <3>3, <3>4
  <2> QED
    BY <2>1
<1>9. \A g : value(g, N + 1) = <<>>
  BY <1>1
<1>10. \A g : IsFormat(g, s) <=> g = [i \in 1..(N + 1) |-> value(g, i)]
  BY DEF IsFormat, N
<1> HIDE DEF value
<1>11. IsFormat(f, s)
  <2>1. \A i \in 1..(N + 1) : f[i] = value(f, i)
    <3>1. \A i \in 1..(N + 1) : i = N + 1 \/ i \in 1..N
      BY <1>1
    <3> QED
      BY <3>1, <1>7, <1>8, <1>9
  <2>2. f = [i \in 1..(N + 1) |-> f[i]]
    OBVIOUS
  <2>3. f = [i \in 1..(N + 1) |-> value(f, i)]
    BY <2>1, <2>2
  <2> QED
    BY <2>3, <1>10
<1> DEFINE G == CHOOSE g : IsFormat(g, s)
<1>12. IsFormat(G, s)
  BY <1>11
<1>13. Format(s) = G[1]
  BY DEF Format, IsFormat
<1> HIDE DEF G
<1>14. G = [i \in 1..(N + 1) |-> value(G, i)]
  BY <1>12, <1>10
<1>15. G[N + 1] = <<>> /\ \A i \in 1..N : G[i] = FormatHead(s, i) \o G[FormatNext(s, i)]
  <2>1. N + 1 \in 1..(N + 1) /\ \A i \in 1..N : i \in 1..(N + 1)
    BY <1>1
  <2>2. \A i \in 1..(N + 1) : G[i] = value(G, i)
    BY <1>14
  <2> QED
    BY <2>1, <2>2, <1>8, <1>9
<1>16. G \in [1..(N + 1) -> Q]
  <2> DEFINE M == N + 1
             T == {i \in 1..M : G[i] \in Q}
  <2>1. M \in Nat
    BY <1>1
  <2>2. ASSUME NEW n \in 1..M, \A m \in (n + 1)..M : m \in T
        PROVE  n \in T
    <3>1. CASE n = M
      BY <3>1, <1>15, <1>1
    <3>2. CASE n # M
      <4>1. n \in 1..N
        BY <3>2, <1>1
      <4>2. FormatNext(s, n) \in (n + 1)..M
        BY <4>1, <1>2
      <4>3. G[FormatNext(s, n)] \in Q
        BY <4>2, <2>2
      <4> HIDE DEF M
      <4> QED
        BY <4>1, <4>3, <1>2, <1>3, <1>15
    <3> QED
      BY <3>1, <3>2
  <2> HIDE DEF T, M
  <2>3. \A n \in 1..M : n \in T
    BY <2>1, <2>2, DownFrom
  <2>4. \A n \in 1..M : G[n] \in Q
    BY <2>3 DEF T
  <2>5. G = [i \in 1..M |-> value(G, i)]
    BY <1>14 DEF M
  <2> QED
    BY <2>4, <2>5 DEF M
<1> QED
  BY <1>13, <1>15, <1>16 DEF N, Q

\* A text without placeholders comes out of format() as it was before it was escaped.
LEMMA ThreeParts ==
    \A a, b, c \in Seq(Letters) : (a \o b) \o c = a \o (b \o c)
<1> DEFINE Q == Seq(Letters)
<1>1. Associates(Q)
  BY SeqAssociates
<1> HIDE DEF Q
<1>2. \A a, b, c \in Q : (a \o b) \o c = a \o (b \o c)
  BY <1>1 DEF Associates
<1> QED
  BY <1>2 DEF Q

LEMMA TwoParts ==
    \A a, b \in Seq(Letters) :
        /\ a \o b \in Seq(Letters) /\ Len(a \o b) = Len(a) + Len(b)
        /\ Len(a) \in Nat /\ Len(b) \in Nat
        /\ \A i \in 1..(Len(a) + Len(b)) : (a \o b)[i] = IF i <= Len(a) THEN a[i] ELSE b[i - Len(a)]
<1> SUFFICES ASSUME NEW a \in Seq(Letters), NEW b \in Seq(Letters)
             PROVE  /\ a \o b \in Seq(Letters) /\ Len(a \o b) = Len(a) + Len(b)
                    /\ Len(a) \in Nat /\ Len(b) \in Nat
                    /\ \A i \in 1..(Len(a) + Len(b)) :
                          (a \o b)[i] = IF i <= Len(a) THEN a[i] ELSE b[i - Len(a)]
  OBVIOUS
<1> QED
  BY ConcatProperties, LenProperties

LEMMA ThreeOf ==
    ASSUME NEW a \in Letters, NEW b \in Letters, NEW c \in Letters
    PROVE  /\ <<a, b, c>> \in Seq(Letters) /\ Len(<<a, b, c>>) = 3
           /\ <<a, b, c>>[1] = a /\ <<a, b, c>>[2] = b /\ <<a, b, c>>[3] = c
OBVIOUS

LEMMA OneOrTwo ==
    ASSUME NEW c
    PROVE  Len(<<c>>) = 1 /\ <<c>>[1] = c /\ Len(<<c, c>>) = 2 /\ <<c, c>>[1] = c /\ <<c, c>>[2] = c
OBVIOUS

LEMMA EscapedComesOut ==
    ASSUME NEW t \in Seq(Letters), NEW w \in Seq(Letters), NEW o \in Nat,
           o + Len(Escaped(t)) <= Len(w),
           \A x \in 1..Len(Escaped(t)) : w[o + x] = Escaped(t)[x],
           NEW f \in [1..(Len(w) + 1) -> Seq(Letters)],
           \A i \in 1..Len(w) : f[i] = FormatHead(w, i) \o f[FormatNext(w, i)]
    PROVE  Escaped(t) \in Seq(Letters) /\ f[o + 1] = t \o f[o + Len(Escaped(t)) + 1]
<1> DEFINE N == Len(t)
           W == Len(w)
           D == [i \in DOMAIN t |-> IF t[i] \in {"{", "}"} THEN <<t[i], t[i]>> ELSE <<t[i]>>]
           E == FlattenSeq(D)
           Q == Seq(Letters)
<1>1. N \in Nat /\ W \in Nat /\ DOMAIN t = 1..N /\ DOMAIN w = 1..W /\ \A i \in 1..N : t[i] \in Letters
  BY LenProperties, ElementOfSeq
<1>2. \A i \in 1..N : D[i] = IF t[i] \in {"{", "}"} THEN <<t[i], t[i]>> ELSE <<t[i]>>
  BY <1>1
<1>3. D \in [1..N -> Q]
  <2>1. \A c \in Letters : <<c, c>> \in Q /\ <<c>> \in Q
    OBVIOUS
  <2> QED
    BY <2>1, <1>1, Zenon
<1>4. D \in Seq(Q) /\ Len(D) = N
  <2> HIDE DEF D, Q, N
  <2> QED
    BY <1>1, <1>3
<1>5. Escaped(t) = E
  BY Zenon DEF Escaped
<1> HIDE DEF D
<1>6. E \in Q /\ \E P \in [0..Len(D) -> Nat] :
                 /\ P[0] = 0 /\ P[Len(D)] = Len(E)
                 /\ \A n \in 1..Len(D) : P[n] = P[n - 1] + Len(D[n])
                 /\ \A n \in 1..Len(D) : \A x \in 1..Len(D[n]) :
                       P[n - 1] + x \in 1..Len(E) /\ E[P[n - 1] + x] = D[n][x]
  BY <1>4, FlattenAt
<1> HIDE DEF E, N
<1>7. PICK P \in [0..N -> Nat] :
                 /\ P[0] = 0 /\ P[N] = Len(E)
                 /\ \A n \in 1..N : P[n] = P[n - 1] + Len(D[n])
                 /\ \A n \in 1..N : \A x \in 1..Len(D[n]) :
                       P[n - 1] + x \in 1..Len(E) /\ E[P[n - 1] + x] = D[n][x]
  BY <1>4, <1>6
<1> DEFINE L == Len(E)
           at(n) == o + P[n] + 1
<1>8. L \in Nat /\ o + L <= W /\ \A x \in 1..L : w[o + x] = E[x]
  BY <1>5, <1>6
<1> HIDE DEF L, W, Q
<1>9. ASSUME NEW n \in 1..N
      PROVE  f[at(n - 1)] = <<t[n]>> \o f[at(n)]
  <2> DEFINE p == P[n - 1]
             a == at(n - 1)
             k == Len(D[n])
  <2>1. n - 1 \in 0..N /\ n \in 0..N
    BY <1>1
  <2>2. p \in Nat /\ P[n] = p + k
    BY <2>1, <1>7
  <2>3. \A x \in 1..k : p + x \in 1..L /\ E[p + x] = D[n][x]
    BY <1>7 DEF L
  <2>4. /\ t[n] \in {"{", "}"} => k = 2 /\ D[n][1] = t[n] /\ D[n][2] = t[n]
        /\ t[n] \notin {"{", "}"} => k = 1 /\ D[n][1] = t[n]
    <3>1. CASE t[n] \in {"{", "}"}
      <4>1. D[n] = <<t[n], t[n]>>
        BY <1>2, <3>1, Zenon
      <4> QED
        BY <4>1, <3>1, OneOrTwo, Zenon
    <3>2. CASE t[n] \notin {"{", "}"}
      <4>1. D[n] = <<t[n]>>
        BY <1>2, <3>2, Zenon
      <4> QED
        BY <4>1, <3>2, OneOrTwo, Zenon
    <3> QED
      BY <3>1, <3>2, Zenon
  <2>5. k \in {1, 2}
    BY <2>4, Zenon
  <2> HIDE DEF p, k
  <2>6. a = o + p + 1
    BY DEF p
  <2>7. a \in 1..W /\ w[a] = t[n]
    <3>1. p + 1 \in 1..L /\ E[p + 1] = t[n]
      <4>1. 1 \in 1..k
        BY <2>5
      <4>2. D[n][1] = t[n]
        BY <2>4, Zenon
      <4> QED
        BY <4>1, <4>2, <2>3
    <3> DEFINE y == p + 1
    <3>2. y \in 1..L /\ E[y] = t[n] /\ a = o + y
      BY <3>1, <2>2, <2>6
    <3> HIDE DEF y, a
    <3>3. a \in 1..W
      BY <3>2, <1>8, <1>1
    <3>4. w[o + y] = E[y]
      BY <3>2, <1>8
    <3> QED
      BY <3>2, <3>3, <3>4
  <2>8. at(n) = a + k
    BY <2>2, <2>5, <2>6
  <2> HIDE DEF a
  <2>9. f[a] = FormatHead(w, a) \o f[FormatNext(w, a)]
    BY <2>7 DEF W
  <2>10. CASE t[n] \in {"{", "}"}
    <3>1. k = 2 /\ p + 2 \in 1..L /\ E[p + 2] = t[n]
      <4>1. D[n][2] = t[n] /\ k = 2
        BY <2>4, <2>10, Zenon
      <4>2. 2 \in 1..k
        BY <4>1
      <4> QED
        BY <4>1, <4>2, <2>3
    <3>2. a + 1 \in 1..W /\ w[a + 1] = t[n]
      <4> DEFINE y == p + 2
      <4>1. y \in 1..L /\ E[y] = t[n] /\ a + 1 = o + y
        BY <3>1, <2>2, <2>6
      <4> HIDE DEF y
      <4>2. a + 1 \in 1..W
        BY <4>1, <1>8, <1>1
      <4>3. w[o + y] = E[y]
        BY <4>1, <1>8
      <4> QED
        BY <4>1, <4>2, <4>3
    <3>3. Char(w, a) = t[n] /\ Char(w, a + 1) = t[n]
      BY <3>2, <2>7, <1>1 DEF Char
    <3>4. EscapeAt(w, a)
      BY <3>3, <2>10, Zenon DEF EscapeAt
    <3>5. FormatHead(w, a) = <<t[n]>> /\ FormatNext(w, a) = a + 2
      BY <3>4, <2>7 DEF FormatHead, FormatNext
    <3> QED
      BY <3>1, <3>5, <2>8, <2>9 DEF a
  <2>11. CASE t[n] \notin {"{", "}"}
    <3>1. Char(w, a) = t[n]
      BY <2>7, <1>1 DEF Char
    <3>2. ~EscapeAt(w, a) /\ ~PlaceholderAt(w, a)
      BY <3>1, <2>11, Zenon DEF EscapeAt, PlaceholderAt
    <3>3. FormatHead(w, a) = <<t[n]>> /\ FormatNext(w, a) = a + 1
      BY <3>2, <2>7 DEF FormatHead, FormatNext
    <3> QED
      BY <3>3, <2>4, <2>8, <2>9, <2>11, Zenon DEF a
  <2> QED
    BY <2>10, <2>11, Zenon
<1>10. \A n \in 0..N : P[n] <= L /\ P[n] \in Nat
  <2> DEFINE M == N + 1
             T == {m \in 1..M : P[m - 1] <= L}
  <2>1. ASSUME NEW m \in 1..M, \A x \in (m + 1)..M : x \in T
        PROVE  m \in T
    <3>1. CASE m = M
      BY <3>1, <1>1, <1>7, <1>8 DEF L
    <3>2. CASE m # M
      <4>0. N \in Nat
        BY <1>1
      <4>1. m \in 1..N /\ m + 1 \in (m + 1)..M /\ (m + 1) - 1 = m /\ m - 1 \in 0..N /\ m \in 0..N
        BY <3>2, <4>0
      <4>2. P[m] <= L
        BY <4>1, <2>1
      <4>3. P[m] = P[m - 1] + Len(D[m]) /\ Len(D[m]) \in {1, 2}
        <5>1. D[m] = <<t[m], t[m]>> \/ D[m] = <<t[m]>>
          BY <4>1, <1>2, Zenon
        <5>2. Len(D[m]) \in {1, 2}
          BY <5>1, OneOrTwo, Zenon
        <5>3. P[m] = P[m - 1] + Len(D[m])
          BY <4>1, <1>7
        <5> QED
          BY <5>2, <5>3
      <4>4. P[m] \in Nat /\ P[m - 1] \in Nat
        BY <4>1, <1>7
      <4>5. P[m - 1] <= L
        BY <4>2, <4>3, <4>4, <1>8
      <4> QED
        BY <4>5
    <3> QED
      BY <3>1, <3>2
  <2>2. M \in Nat
    BY <1>1
  <2> HIDE DEF T, M
  <2>3. \A m \in 1..M : m \in T
    BY <2>1, <2>2, DownFrom
  <2>4. \A n \in 0..N : n + 1 \in 1..M /\ (n + 1) - 1 = n
    BY <1>1 DEF M
  <2>5. \A n \in 0..N : P[(n + 1) - 1] <= L
    BY <2>3, <2>4 DEF T
  <2> QED
    BY <2>4, <2>5, <1>7
<1>11. \A n \in 0..N : at(n) \in 1..(W + 1) /\ f[at(n)] \in Q
  <2>1. \A n \in 0..N : at(n) \in 1..(W + 1)
    BY <1>10, <1>8, <1>1
  <2> HIDE DEF at
  <2> QED
    BY <2>1 DEF W, Q
<1> HIDE DEF at
<1>12. f[at(0)] = t \o f[at(N)]
  <2> DEFINE M == N + 1
             T == {m \in 1..M : f[at(m - 1)] = SubSeq(t, m, N) \o f[at(N)]}
  <2>1. f[at(N)] \in Q /\ N \in 0..N
    BY <1>11, <1>1
  <2>2. ASSUME NEW m \in 1..M, \A x \in (m + 1)..M : x \in T
        PROVE  m \in T
    <3>1. CASE m = M
      <4>1. SubSeq(t, m, N) = <<>> /\ m - 1 = N
        BY <3>1, <1>1, SubSeqEmpty
      <4>2. <<>> \o f[at(N)] = f[at(N)]
        BY <2>1, ConcatEmptySeq DEF Q
      <4> QED
        BY <4>1, <4>2
    <3>2. CASE m # M
      <4>1. m \in 1..N /\ m + 1 \in (m + 1)..M /\ (m + 1) - 1 = m
        BY <3>2, <1>1
      <4>2. f[at(m)] = SubSeq(t, m + 1, N) \o f[at(N)]
        BY <4>1, <2>2
      <4>3. f[at(m - 1)] = <<t[m]>> \o f[at(m)]
        BY <4>1, <1>9
      <4>4. SubSeq(t, m, N) = <<t[m]>> \o SubSeq(t, m + 1, N)
        <5>1. m \in 1..Len(t) /\ N \in m..Len(t)
          BY <4>1, <1>1 DEF N
        <5> QED
          BY <5>1, SubSeqRecursiveFirst
      <4>5. <<t[m]>> \in Q /\ SubSeq(t, m + 1, N) \in Q
        <5>1. t[m] \in Letters /\ \A i \in (m + 1)..N : t[i] \in Letters
          BY <4>1, <1>1
        <5>2. m + 1 \in Int /\ N \in Int
          BY <1>1
        <5> QED
          BY <5>1, <5>2, SubSeqProperties DEF Q
      <4>6. (<<t[m]>> \o SubSeq(t, m + 1, N)) \o f[at(N)] = <<t[m]>> \o (SubSeq(t, m + 1, N) \o f[at(N)])
        BY <4>5, <2>1, ThreeParts, Zenon DEF Q
      <4> QED
        BY <4>2, <4>3, <4>4, <4>6
    <3> QED
      BY <3>1, <3>2
  <2>3. M \in Nat /\ 1 \in 1..M
    BY <1>1
  <2> HIDE DEF T, M
  <2>4. 1 \in T
    BY <2>2, <2>3, DownFrom
  <2>5. f[at(1 - 1)] = SubSeq(t, 1, N) \o f[at(N)]
    BY <2>4 DEF T
  <2>6. SubSeq(t, 1, N) = t /\ 1 - 1 = 0
    BY SubSeqFull DEF N
  <2> QED
    BY <2>5, <2>6
<1>13. at(0) = o + 1 /\ at(N) = o + Len(Escaped(t)) + 1
  BY <1>5, <1>7, <1>8 DEF at
<1> QED
  BY <1>5, <1>6, <1>12, <1>13 DEF Q

LEMMA ZeroDigit == "0" \in ToSet(Digits) /\ "}" \notin ToSet(Digits)
<1>1. "0" = Digits[1] /\ 1 \in DOMAIN Digits
  BY DEF Digits
<1>2. DOMAIN Digits = 1..10 /\ \A n \in 1..10 : n \in {1, 2, 3, 4, 5, 6, 7, 8, 9, 10}
  BY DEF Digits
<1>3. \A n \in {1, 2, 3, 4, 5, 6, 7, 8, 9, 10} : Digits[n] # "}"
  <2>1. /\ Digits[1] = "0" /\ Digits[2] = "1" /\ Digits[3] = "2" /\ Digits[4] = "3" /\ Digits[5] = "4"
        /\ Digits[6] = "5" /\ Digits[7] = "6" /\ Digits[8] = "7" /\ Digits[9] = "8" /\ Digits[10] = "9"
    BY DEF Digits
  <2> QED
    BY <2>1, Zenon
<1> QED
  BY <1>1, <1>2, <1>3, Zenon DEF ToSet

\* A placeholder between two escaped texts is filled in.
LEMMA FormatHolds ==
    ASSUME NEW t \in Seq(Letters)
    PROVE  Format(Escaped(t) \o <<"{", "0", "}">> \o Escaped(t)) = t \o Arguments[1] \o t
<1> DEFINE Q == Seq(Letters)
           E == Escaped(t)
           H == <<"{", "0", "}">>
           L == Len(E)
           w == E \o H \o E
           W == Len(w)
<1>1. H \in Q /\ Len(H) = 3 /\ H[1] = "{" /\ H[2] = "0" /\ H[3] = "}"
  BY LettersHave, ThreeOf, Zenon
<1>2. E \in Q
  <2> DEFINE D == [i \in DOMAIN t |-> IF t[i] \in {"{", "}"} THEN <<t[i], t[i]>> ELSE <<t[i]>>]
  <2>1. \A c \in Letters : <<c, c>> \in Q /\ <<c>> \in Q
    OBVIOUS
  <2>2. D \in [1..Len(t) -> Q] /\ Len(t) \in Nat
    <3>1. DOMAIN t = 1..Len(t) /\ Len(t) \in Nat /\ \A i \in 1..Len(t) : t[i] \in Letters
      BY LenProperties, ElementOfSeq
    <3> QED
      BY <2>1, <3>1, Zenon
  <2> HIDE DEF D
  <2>3. D \in Seq(Q)
    <3> HIDE DEF Q
    <3> QED
      BY <2>2
  <2>4. FlattenSeq(D) \in Q
    BY <2>3, FlattenAt
  <2> QED
    BY <2>4, Zenon DEF Escaped, D
<1> HIDE DEF E, H
<1>3. /\ w \in Q /\ L \in Nat /\ W = L + 3 + L
      /\ \A x \in 1..L : w[x] = E[x] /\ w[L + 3 + x] = E[x]
      /\ w[L + 1] = "{" /\ w[L + 2] = "0" /\ w[L + 3] = "}"
  <2> DEFINE u == E \o H
  <2>1. u \in Q /\ Len(u) = L + 3 /\ L \in Nat
    BY <1>1, <1>2, TwoParts, Zenon
  <2>2. \A x \in 1..(L + 3) : u[x] = IF x <= L THEN E[x] ELSE H[x - L]
    BY <1>1, <1>2, TwoParts, Zenon
  <2> HIDE DEF u
  <2>3. w = u \o E
    BY DEF u
  <2>4. w \in Q /\ W = L + 3 + L
    <3>1. u \o E \in Q /\ Len(u \o E) = Len(u) + L
      BY <2>1, <1>2, TwoParts
    <3> QED
      BY <3>1, <2>1, <2>3
  <2>5. \A x \in 1..(L + 3 + L) : w[x] = IF x <= L + 3 THEN u[x] ELSE E[x - (L + 3)]
    <3>1. \A x \in 1..(Len(u) + Len(E)) : (u \o E)[x] = IF x <= Len(u) THEN u[x] ELSE E[x - Len(u)]
      BY <2>1, <1>2, TwoParts
    <3> QED
      BY <3>1, <2>1, <2>3
  <2> HIDE DEF w, L
  <2>6. ASSUME NEW x \in 1..L
        PROVE  w[x] = E[x] /\ w[L + 3 + x] = E[x]
    <3>1. x \in 1..(L + 3 + L) /\ x \in 1..(L + 3) /\ x <= L + 3 /\ x <= L
      BY <2>1
    <3>2. w[x] = u[x] /\ u[x] = E[x]
      BY <3>1, <2>5, <2>2
    <3> DEFINE y == L + 3 + x
    <3>3. y \in 1..(L + 3 + L) /\ ~(y <= L + 3) /\ y - (L + 3) = x
      BY <2>1
    <3> HIDE DEF y
    <3>4. w[y] = E[x]
      BY <3>3, <2>5
    <3> QED
      BY <3>2, <3>4 DEF y
  <2>7. \A k \in 1..3 : w[L + k] = H[k]
    <3> SUFFICES ASSUME NEW k \in 1..3
                 PROVE  w[L + k] = H[k]
      OBVIOUS
    <3> DEFINE y == L + k
    <3>1. y \in 1..(L + 3 + L) /\ y \in 1..(L + 3) /\ y <= L + 3 /\ ~(y <= L) /\ y - L = k
      BY <2>1
    <3> HIDE DEF y
    <3>2. w[y] = H[k]
      BY <3>1, <2>5, <2>2
    <3> QED
      BY <3>2 DEF y
  <2>8. w[L + 1] = "{" /\ w[L + 2] = "0" /\ w[L + 3] = "}"
    <3>1. 1 \in 1..3 /\ 2 \in 1..3 /\ 3 \in 1..3
      OBVIOUS
    <3>2. w[L + 1] = H[1] /\ w[L + 2] = H[2] /\ w[L + 3] = H[3]
      BY <2>7, <3>1
    <3> QED
      BY <3>2, <1>1, Zenon
  <2> QED
    BY <2>1, <2>4, <2>6, <2>8, Zenon DEF L
<1> HIDE DEF w, L, W
<1>4. PICK f \in [1..(W + 1) -> Q] :
         /\ Format(w) = f[1] /\ f[W + 1] = <<>>
         /\ \A i \in 1..W : f[i] = FormatHead(w, i) \o f[FormatNext(w, i)]
  BY <1>3, FormatDefined, Zenon DEF W
<1>5. \A o \in {0, L + 3} : f[o + 1] = t \o f[o + L + 1]
  <2> SUFFICES ASSUME NEW o \in {0, L + 3}
               PROVE  f[o + 1] = t \o f[o + L + 1]
    OBVIOUS
  <2>1. o \in Nat /\ o + L <= W /\ \A x \in 1..L : w[o + x] = E[x]
    <3>1. CASE o = 0
      <4>1. \A x \in 1..L : 0 + x = x
        OBVIOUS
      <4>2. L \in Nat /\ W = L + 3 + L
        BY <1>3, Zenon
      <4>3. \A x \in 1..L : w[x] = E[x]
        BY <1>3, Zenon
      <4> QED
        BY <3>1, <4>1, <4>2, <4>3
    <3>2. CASE o = L + 3
      <4>1. L \in Nat /\ W = L + 3 + L
        BY <1>3, Zenon
      <4>2. \A x \in 1..L : w[L + 3 + x] = E[x]
        BY <1>3, Zenon
      <4> QED
        BY <3>2, <4>1, <4>2
    <3> QED
      BY <3>1, <3>2
  <2>2. o + Len(Escaped(t)) <= Len(w) /\ \A x \in 1..Len(Escaped(t)) : w[o + x] = Escaped(t)[x]
    BY <2>1 DEF L, E, W
  <2>3. f[o + 1] = t \o f[o + Len(Escaped(t)) + 1]
    BY <1>3, <1>4, <2>1, <2>2, EscapedComesOut, Zenon DEF W
  <2> QED
    BY <2>3 DEF L, E
<1>6. f[L + 1] = Arguments[1] \o f[L + 4]
  <2> DEFINE a == L + 1
  <2>1. a \in 1..W /\ DOMAIN w = 1..W /\ a + 1 \in 1..W /\ a + 2 \in 1..W /\ W \in Nat
    <3>1. DOMAIN w = 1..W
      BY <1>3, LenProperties, Zenon DEF W
    <3>2. L \in Nat /\ W = L + 3 + L
      BY <1>3, Zenon
    <3> QED
      BY <3>1, <3>2
  <2>2. w[a] = "{" /\ w[a + 1] = "0" /\ w[a + 2] = "}"
    <3>0. L \in Nat
      BY <1>3, Zenon
    <3>1. a + 1 = L + 2 /\ a + 2 = L + 3
      BY <3>0
    <3>2. w[L + 1] = "{" /\ w[L + 2] = "0" /\ w[L + 3] = "}"
      BY <1>3, Zenon
    <3> QED
      BY <3>1, <3>2, Zenon
  <2>3. L + 4 = a + 3 /\ a \in Nat
    <3>1. L \in Nat
      BY <1>3, Zenon
    <3> QED
      BY <3>1
  <2> HIDE DEF a
  <2>4. Char(w, a) = "{" /\ Char(w, a + 1) = "0" /\ Char(w, a + 2) = "}"
    BY <2>1, <2>2, Zenon DEF Char
  <2>5. ~EscapeAt(w, a)
    BY <2>4, Zenon DEF EscapeAt
  <2> DEFINE j == DigitsEnd(w, a + 1)
  <2>6. /\ j \in (a + 1)..(W + 1) /\ Char(w, j) \notin ToSet(Digits)
        /\ \A k \in (a + 1)..(W + 1) : k < j => Char(w, k) \in ToSet(Digits)
    <3>1. a + 1 \in 1..(W + 1)
      BY <2>1
    <3> QED
      BY <1>3, <3>1, DigitsEndAt, Zenon DEF W
  <2>7. j = a + 2
    <3>1. "0" \in ToSet(Digits) /\ "}" \notin ToSet(Digits)
      BY ZeroDigit, Zenon
    <3>2. j # a + 1
      BY <3>1, <2>4, <2>6, Zenon
    <3>3. ~(a + 2 < j)
      <4>1. a + 2 \in (a + 1)..(W + 1)
        BY <2>1
      <4> QED
        BY <4>1, <3>1, <2>4, <2>6, Zenon
    <3> HIDE DEF j
    <3>4. j \in Nat /\ a + 1 <= j
      BY <2>1, <2>3, <2>6
    <3> QED
      BY <3>2, <3>3, <3>4, <2>3
  <2>8. PlaceholderAt(w, a)
    <3>1. j > a + 1
      BY <2>3, <2>7
    <3> QED
      BY <3>1, <2>4, <2>7, Zenon DEF PlaceholderAt
  <2>9. Index(w, a + 1, j) = 0
    <3>1. \A k \in 1..((a + 2) - (a + 1)) : w[(a + 1) + k - 1] \in ToSet(Digits)
      <4>1. \A k \in 1..((a + 2) - (a + 1)) : (a + 1) + k - 1 = a + 1
        BY <2>3
      <4>2. "0" \in ToSet(Digits)
        BY ZeroDigit, Zenon
      <4> QED
        BY <4>1, <4>2, <2>2, Zenon
    <3>2. a + 1 \in Nat /\ a + 2 \in Nat /\ a + 1 <= a + 2 /\ a + 2 = (a + 1) + 1
      BY <2>3
    <3>3. Index(w, a + 1, a + 2) = 0
      BY <3>1, <3>2, <2>2, IndexNat, Zenon
    <3> QED
      BY <3>3, <2>7
  <2> HIDE DEF j
  <2>10. Replacement(w, a, j) = Arguments[1]
    <3> DEFINE n == Len(Arguments)
    <3>0. n \in Nat /\ n # 0
      BY ArgumentsAre
    <3> HIDE DEF n
    <3>1. 0 < n /\ 0 + 1 = 1
      BY <3>0
    <3> QED
      BY <2>9, <3>1 DEF Replacement, n
  <2>11. FormatHead(w, a) = Arguments[1] /\ FormatNext(w, a) = a + 3
    <3>1. j + 1 = a + 3
      BY <2>3, <2>7
    <3> QED
      BY <2>5, <2>8, <2>10, <3>1 DEF FormatHead, FormatNext, j
  <2>12. f[a] = FormatHead(w, a) \o f[FormatNext(w, a)]
    BY <2>1, <1>4
  <2> QED
    BY <2>3, <2>11, <2>12 DEF a
<1>7. f[1] = t \o f[L + 1] /\ f[L + 4] = t \o <<>>
  <2>0. L \in Nat /\ W = L + 3 + L
    BY <1>3, Zenon
  <2>1. 0 + 1 = 1 /\ 0 + L + 1 = L + 1 /\ (L + 3) + 1 = L + 4 /\ (L + 3) + L + 1 = W + 1
    BY <2>0
  <2>2. f[0 + 1] = t \o f[0 + L + 1] /\ f[(L + 3) + 1] = t \o f[(L + 3) + L + 1]
    BY <1>5
  <2> QED
    BY <2>1, <2>2, <1>4
<1>8. t \o <<>> = t
  BY ConcatEmptySeq
<1>9. Arguments[1] \in Seq(Letters)
  <2> DEFINE n == Len(Arguments)
  <2>0. n \in Nat /\ n # 0
    BY ArgumentsAre
  <2> HIDE DEF n
  <2>1. 1 \in 1..n
    BY <2>0
  <2> QED
    BY <2>1, ArgumentsAre, ElementOfSeq DEF n
<1>10. f[1] = t \o (Arguments[1] \o t)
  BY <1>6, <1>7, <1>8
<1>11. t \o (Arguments[1] \o t) = (t \o Arguments[1]) \o t
  BY <1>9, ThreeParts
<1> QED
  BY <1>4, <1>10, <1>11, Zenon DEF w, E, H

\* The elements of a subsequence, and of two sequences together.
LEMMA OnlyHas ==
    ASSUME NEW S, NEW s \in Seq(S), NEW T
    PROVE  Only(s, T) \in Seq(S) /\ ToSet(Only(s, T)) = ToSet(s) \cap T
<1> DEFINE D == {i \in DOMAIN s : s[i] \in T}
<1>1. D \in SUBSET DOMAIN s /\ Only(s, T) = At(s, D)
  BY DEF Only
<1>2. At(s, D) \in Seq(S) /\ ToSet(At(s, D)) = {s[i] : i \in D}
  <2> HIDE DEF D
  <2> QED
    BY <1>1, AtKeeps
<1>3. {s[i] : i \in D} = ToSet(s) \cap T
  BY DEF ToSet
<1> QED
  BY <1>1, <1>2, <1>3

LEMMA ConcatHas ==
    ASSUME NEW S, NEW a \in Seq(S), NEW b \in Seq(S)
    PROVE  a \o b \in Seq(S) /\ ToSet(a \o b) = ToSet(a) \cup ToSet(b)
<1> DEFINE u == a \o b
           K == Len(a)
           M == Len(b)
<1>1. /\ u \in Seq(S) /\ Len(u) = K + M /\ K \in Nat /\ M \in Nat
      /\ DOMAIN a = 1..K /\ DOMAIN b = 1..M
      /\ \A i \in 1..(K + M) : u[i] = IF i <= K THEN a[i] ELSE b[i - K]
  BY ConcatProperties, LenProperties
<1>2. DOMAIN u = 1..(K + M)
  BY <1>1, LenProperties
<1> HIDE DEF u, K, M
<1>3. \A i \in 1..K : i \in 1..(K + M) /\ u[i] = a[i]
  BY <1>1
<1>4. \A i \in 1..M : K + i \in 1..(K + M) /\ u[K + i] = b[i]
  <2> SUFFICES ASSUME NEW i \in 1..M
               PROVE  K + i \in 1..(K + M) /\ u[K + i] = b[i]
    OBVIOUS
  <2> DEFINE y == K + i
  <2>1. y \in 1..(K + M) /\ ~(y <= K) /\ y - K = i
    BY <1>1
  <2> HIDE DEF y
  <2>2. u[y] = b[i]
    BY <2>1, <1>1
  <2> QED
    BY <2>1, <2>2 DEF y
<1>5. ASSUME NEW i \in 1..(K + M)
      PROVE  u[i] \in ToSet(a) \cup ToSet(b)
  <2>1. CASE i <= K
    <3>1. i \in 1..K /\ u[i] = a[i]
      BY <2>1, <1>1
    <3> QED
      BY <3>1, <1>1 DEF ToSet
  <2>2. CASE ~(i <= K)
    <3>1. i - K \in 1..M /\ u[i] = b[i - K]
      BY <2>2, <1>1
    <3> QED
      BY <3>1, <1>1 DEF ToSet
  <2> QED
    BY <2>1, <2>2
<1>6. ToSet(u) \subseteq ToSet(a) \cup ToSet(b)
  <2>1. \A x \in ToSet(u) : \E i \in 1..(K + M) : x = u[i]
    BY <1>2 DEF ToSet
  <2> QED
    BY <2>1, <1>5
<1>7. ToSet(a) \subseteq ToSet(u)
  BY <1>1, <1>2, <1>3 DEF ToSet
<1>8. ToSet(b) \subseteq ToSet(u)
  <2> SUFFICES ASSUME NEW i \in 1..M
               PROVE  b[i] \in ToSet(u)
    BY <1>1 DEF ToSet
  <2> DEFINE y == K + i
  <2>1. y \in 1..(K + M) /\ u[y] = b[i]
    BY <1>4
  <2> HIDE DEF y
  <2> QED
    BY <2>1, <1>2 DEF ToSet
<1> QED
  BY <1>1, <1>6, <1>7, <1>8 DEF u

LEMMA GlobbedAre ==
    ASSUME NEW pattern
    PROVE  Globbed(pattern) \in Seq(ToSet(Paths))
<1> DEFINE T == {i \in DOMAIN Paths : MatchParts(pattern, Paths[i])}
<1>1. Paths \in Seq(ToSet(Paths))
  <2> DEFINE A == UNION {ToSet(Paths[i]) : i \in DOMAIN Paths}
  <2>1. Paths \in Seq(Seq(A))
    BY TextAssumption
  <2> HIDE DEF A
  <2>2. Len(Paths) \in Nat /\ DOMAIN Paths = 1..Len(Paths) /\ Paths \in [1..Len(Paths) -> Seq(A)]
    BY <2>1, LenProperties
  <2>3. Paths \in [1..Len(Paths) -> ToSet(Paths)]
    BY <2>2 DEF ToSet
  <2> QED
    BY <2>2, <2>3, SeqDef
<1>2. T \in SUBSET DOMAIN Paths /\ Globbed(pattern) = At(Paths, T)
  BY DEF Globbed
<1> HIDE DEF T
<1> QED
  BY <1>1, <1>2, AtKeeps

IsFound(f, patterns) ==
    f = [n \in 0..Len(patterns) |->
            IF n = 0 THEN <<>>
            ELSE f[n - 1] \o Only(Globbed(patterns[n]), ToSet(Paths) \ ToSet(f[n - 1]))]

\* Whatever the order of the patterns, the files of all of them are found.
LEMMA FoundHolds ==
    ASSUME NEW patterns, Len(patterns) \in Nat
    PROVE  ToSet(Found(patterns)) = UNION {ToSet(Globbed(patterns[n])) : n \in 1..Len(patterns)}
<1> DEFINE N == Len(patterns)
           A == ToSet(Paths)
           Q == Seq(A)
           next(v, n) == v \o Only(Globbed(patterns[n]), A \ ToSet(v))
           step == [x \in Q \X (1..N) |-> next(x[1], x[2])]
           files(n) == UNION {ToSet(Globbed(patterns[m])) : m \in 1..n}
<1>1. N \in Nat /\ <<>> \in Q
  BY EmptySeq
<1>2. ASSUME NEW v \in Q, NEW n
      PROVE  next(v, n) \in Q /\ ToSet(next(v, n)) = ToSet(v) \cup ToSet(Globbed(patterns[n]))
  <2> DEFINE g == Globbed(patterns[n])
             o == Only(g, A \ ToSet(v))
  <2>1. g \in Q
    BY GlobbedAre
  <2>2. ToSet(g) \subseteq A /\ ToSet(v) \subseteq A
    <3>1. \A s \in Seq(A) : \A i \in DOMAIN s : s[i] \in A
      OBVIOUS
    <3> HIDE DEF g
    <3> QED
      BY <3>1, <2>1 DEF ToSet
  <2> HIDE DEF g
  <2>3. o \in Q /\ ToSet(o) = ToSet(g) \cap (A \ ToSet(v))
    BY <2>1, OnlyHas
  <2> HIDE DEF o
  <2>4. v \o o \in Q /\ ToSet(v \o o) = ToSet(v) \cup ToSet(o)
    BY <2>3, ConcatHas
  <2>5. ToSet(v) \cup ToSet(o) = ToSet(v) \cup ToSet(g)
    BY <2>2, <2>3
  <2> QED
    BY <2>4, <2>5 DEF g, o
<1> HIDE DEF Q, next, N
<1>3. step \in [Q \X (1..N) -> Q] /\ \A v \in Q, n \in 1..N : step[<<v, n>>] = next(v, n)
  BY <1>2
<1> HIDE DEF step
<1>4. PICK f \in [0..N -> Q] : Iterates(f, N, <<>>, step)
  BY <1>1, <1>3, Iterated
<1> DEFINE value(g, n) == IF n = 0 THEN <<>> ELSE next(g[n - 1], n)
<1>5. \A n \in 0..N : f[n] = value(f, n)
  <2> SUFFICES ASSUME NEW n \in 0..N
               PROVE  f[n] = value(f, n)
    OBVIOUS
  <2>1. CASE n = 0
    BY <1>4, <2>1 DEF Iterates
  <2>2. CASE n # 0
    <3>1. n \in 1..N /\ n - 1 \in 0..N
      BY <1>1, <2>2
    <3>2. f[n] = step[<<f[n - 1], n>>] /\ f[n - 1] \in Q
      BY <1>4, <3>1 DEF Iterates
    <3> QED
      BY <2>2, <3>1, <3>2, <1>3
  <2> QED
    BY <2>1, <2>2
<1>6. \A g : IsFound(g, patterns) <=> g = [n \in 0..N |-> value(g, n)]
  BY DEF IsFound, N, next
<1> HIDE DEF value
<1>7. IsFound(f, patterns)
  <2>1. f = [n \in 0..N |-> f[n]]
    OBVIOUS
  <2>2. f = [n \in 0..N |-> value(f, n)]
    BY <2>1, <1>5
  <2> QED
    BY <2>2, <1>6
<1> DEFINE G == CHOOSE g : IsFound(g, patterns)
<1>8. IsFound(G, patterns)
  BY <1>7
<1>9. Found(patterns) = G[N]
  BY DEF Found, IsFound, N
<1> HIDE DEF G
<1>10. \A n \in 0..N : G[n] = value(G, n)
  <2>1. G = [n \in 0..N |-> value(G, n)]
    BY <1>8, <1>6
  <2> QED
    BY <2>1
<1> DEFINE T == {n \in 0..N : G[n] \in Q /\ ToSet(G[n]) = files(n)}
<1>11. 0 \in T
  <2>1. G[0] = <<>>
    <3>1. 0 \in 0..N
      BY <1>1
    <3> QED
      BY <3>1, <1>10 DEF value
  <2>2. ToSet(<<>>) = {} /\ files(0) = {}
    BY DEF ToSet
  <2> HIDE DEF files
  <2>3. G[0] \in Q /\ ToSet(G[0]) = files(0)
    BY <2>1, <2>2, <1>1, Zenon
  <2> QED
    BY <2>3, <1>1
<1>12. ASSUME NEW n \in 1..N, n - 1 \in T
       PROVE  n \in T
  <2>1. n \in 0..N /\ n # 0 /\ n - 1 \in 0..N
    BY <1>1
  <2>2. G[n] = next(G[n - 1], n)
    BY <2>1, <1>10 DEF value
  <2>3. G[n] \in Q /\ ToSet(G[n]) = files(n - 1) \cup ToSet(Globbed(patterns[n]))
    BY <2>2, <1>2, <1>12
  <2>4. files(n - 1) \cup ToSet(Globbed(patterns[n])) = files(n)
    <3>1. \A m : m \in 1..n <=> m \in 1..(n - 1) \/ m = n
      BY <1>1
    <3> HIDE DEF N
    <3> QED
      BY <3>1
  <2> HIDE DEF files
  <2> QED
    BY <2>1, <2>3, <2>4
<1> HIDE DEF T, files
<1>13. N \in T
  <2>1. \A n \in 0..N : n \in T
    BY <1>1, <1>11, <1>12, UpTo
  <2> QED
    BY <2>1, <1>1
<1>14. ToSet(G[N]) = files(N)
  BY <1>13 DEF T
<1> QED
  BY <1>9, <1>14 DEF files, N

LEMMA HashHolds == HashIgnoresOrder
<1> SUFFICES ASSUME NEW seg
             PROVE  HashFiles(<<text, <<"**", seg>>>>) = HashFiles(<<<<"**", seg>>, text, <<"**", seg>>>>)
  BY DEF HashIgnoresOrder
<1> DEFINE other == <<"**", seg>>
           a == <<text, other>>
           b == <<other, text, other>>
           both == ToSet(Globbed(text)) \cup ToSet(Globbed(other))
<1> HIDE DEF other
<1>1. Len(a) = 2 /\ a[1] = text /\ a[2] = other
  OBVIOUS
<1>2. Len(b) = 3 /\ b[1] = other /\ b[2] = text /\ b[3] = other
  OBVIOUS
<1> HIDE DEF a, b
<1>3. ToSet(Found(a)) = both
  <2>1. ToSet(Found(a)) = UNION {ToSet(Globbed(a[n])) : n \in 1..Len(a)}
    BY <1>1, FoundHolds
  <2>2. \A n : n \in 1..2 <=> n = 1 \/ n = 2
    OBVIOUS
  <2> QED
    BY <2>1, <2>2, <1>1
<1>4. ToSet(Found(b)) = both
  <2>1. ToSet(Found(b)) = UNION {ToSet(Globbed(b[n])) : n \in 1..Len(b)}
    BY <1>2, FoundHolds
  <2>2. \A n : n \in 1..3 <=> n = 1 \/ n = 2 \/ n = 3
    OBVIOUS
  <2> QED
    BY <2>1, <2>2, <1>2
<1> QED
  BY <1>3, <1>4 DEF HashFiles, other, a, b
-----------------------------------------------------------------------------
(* Glob patterns.                                                           *)

\* The segments of "**" that follow each other end at the same place.
LEMMA StarsEnd ==
    ASSUME NEW S, NEW s \in Seq(S), NEW i \in 1..Len(s), s[i] = "**"
    PROVE  /\ AfterStars(s, i) \in (i + 1)..(Len(s) + 1)
           /\ IF i + 1 \in DOMAIN s /\ s[i + 1] = "**" THEN AfterStars(s, i + 1) = AfterStars(s, i)
              ELSE AfterStars(s, i) = i + 1
<1> DEFINE N == Len(s)
           T(k) == {m \in k..(N + 1) : Char(s, m) # "**"}
<1>1. N \in Nat /\ DOMAIN s = 1..N /\ i \in 1..N
  BY LenProperties
<1>2. \A k : AfterStars(s, k) = Min(T(k))
  BY DEF AfterStars
<1>3. Char(s, i) = "**" /\ Char(s, N + 1) # "**"
  BY <1>1 DEF Char
<1> HIDE DEF N
<1>4. T(i) = T(i + 1)
  <2>1. \A m : m \in i..(N + 1) <=> m = i \/ m \in (i + 1)..(N + 1)
    BY <1>1
  <2> QED
    BY <2>1, <1>3
<1>5. T(i) \in SUBSET Nat /\ N + 1 \in T(i)
  BY <1>1, <1>3
<1> HIDE DEF T
<1>6. Min(T(i)) \in T(i + 1) /\ \A y \in T(i) : Min(T(i)) <= y
  <2>1. T(i) # {}
    BY <1>5
  <2> QED
    BY <1>4, <1>5, <2>1, MinOfSet
<1>7. Min(T(i)) \in (i + 1)..(N + 1)
  BY <1>6 DEF T
<1>8. ASSUME ~(i + 1 \in DOMAIN s /\ s[i + 1] = "**")
      PROVE  Min(T(i)) = i + 1
  <2>1. Char(s, i + 1) # "**"
    BY <1>8 DEF Char
  <2>2. i + 1 \in (i + 1)..(N + 1)
    BY <1>1
  <2>3. i + 1 \in T(i)
    BY <2>1, <2>2, <1>4 DEF T
  <2> QED
    BY <2>3, <1>6, <1>7, <1>1
<1> QED
  BY <1>2, <1>4, <1>7, <1>8 DEF N

IsMatch(f, pattern, path) ==
    f = [i \in 1..(Len(pattern) + 1) |->
            [j \in 1..(Len(path) + 1) |->
                IF i > Len(pattern) THEN j > Len(path)
                ELSE IF pattern[i] = "**"
                THEN \E k \in j..(Len(path) + 1) : f[AfterStars(pattern, i)][k]
                ELSE j <= Len(path) /\ SegmentMatches(pattern[i], path[j]) /\ f[i + 1][j + 1]]]

MatchNext(pattern, i) == IF pattern[i] = "**" THEN AfterStars(pattern, i) ELSE i + 1

\* Whether path matches from j on, v being how it matches what follows in the pattern.
MatchStep(pattern, path, i, v, j) ==
    IF pattern[i] = "**" THEN \E k \in j..(Len(path) + 1) : v[k]
    ELSE j <= Len(path) /\ SegmentMatches(pattern[i], path[j]) /\ v[j + 1]

LEMMA MatchDefined ==
    ASSUME NEW S, NEW pattern \in Seq(S), NEW R, NEW path \in Seq(R)
    PROVE  \E f \in [1..(Len(pattern) + 1) -> [1..(Len(path) + 1) -> BOOLEAN]] :
              /\ MatchParts(pattern, path) = f[1][1]
              /\ \A j \in 1..(Len(path) + 1) : f[Len(pattern) + 1][j] <=> j = Len(path) + 1
              /\ \A i \in 1..Len(pattern) : \A j \in 1..(Len(path) + 1) :
                    f[i][j] <=> MatchStep(pattern, path, i, f[MatchNext(pattern, i)], j)
<1> DEFINE N == Len(pattern)
           L == Len(path)
           J == 1..(L + 1)
           B == [J -> BOOLEAN]
           base == [j \in J |-> j > L]
           row(i, v) == [j \in J |-> MatchStep(pattern, path, i, v, j)]
           next == [i \in 1..N |-> MatchNext(pattern, i)]
           step == [x \in (1..N) \X B |-> row(x[1], x[2])]
<1>1. N \in Nat /\ L \in Nat
  BY LenProperties
<1>2. base \in B
  OBVIOUS
<1>3. \A i \in 1..N, v \in B : row(i, v) \in B
  BY DEF MatchStep, SegmentMatches
<1>4. \A i \in 1..N : MatchNext(pattern, i) \in (i + 1)..(N + 1)
  <2> SUFFICES ASSUME NEW i \in 1..N
               PROVE  MatchNext(pattern, i) \in (i + 1)..(N + 1)
    OBVIOUS
  <2>1. CASE pattern[i] = "**"
    BY <2>1, StarsEnd DEF MatchNext
  <2>2. CASE pattern[i] # "**"
    BY <2>2, <1>1 DEF MatchNext
  <2> QED
    BY <2>1, <2>2
<1> HIDE DEF N, L, B, row
<1>5. next \in [1..N -> 1..(N + 1)] /\ \A i \in 1..N : i < next[i] /\ next[i] = MatchNext(pattern, i)
  BY <1>1, <1>4
<1>6. step \in [(1..N) \X B -> B] /\ \A i \in 1..N, v \in B : step[<<i, v>>] = row(i, v)
  BY <1>3
<1> HIDE DEF base, next, step
<1>7. PICK f \in [1..(N + 1) -> B] : GoesDown(f, N, base, next, step)
  BY <1>1, <1>2, <1>5, <1>6, Downwards
<1>8. f[N + 1] = base /\ \A i \in 1..N : f[i] = row(i, f[MatchNext(pattern, i)])
  <2>1. \A i \in 1..N : MatchNext(pattern, i) \in 1..(N + 1) /\ next[i] = MatchNext(pattern, i)
    BY <1>4, <1>1, <1>5
  <2>2. \A i \in 1..N : f[i] = step[<<i, f[next[i]]>>]
    BY <1>7 DEF GoesDown
  <2> QED
    BY <2>1, <2>2, <1>6, <1>7 DEF GoesDown
<1> DEFINE value(g, i) ==
              [j \in J |->
                IF i > N THEN j > L
                ELSE IF pattern[i] = "**" THEN \E k \in j..(L + 1) : g[AfterStars(pattern, i)][k]
                ELSE j <= L /\ SegmentMatches(pattern[i], path[j]) /\ g[i + 1][j + 1]]
<1>9. ASSUME NEW g, NEW i \in 1..N
      PROVE  value(g, i) = row(i, g[MatchNext(pattern, i)])
  <2>1. ~(i > N)
    BY <1>1
  <2>2. CASE pattern[i] = "**"
    BY <2>1, <2>2 DEF row, MatchStep, MatchNext, L
  <2>3. CASE pattern[i] # "**"
    BY <2>1, <2>3 DEF row, MatchStep, MatchNext, L
  <2> QED
    BY <2>2, <2>3
<1>10. \A g : value(g, N + 1) = base
  <2>1. N + 1 > N
    BY <1>1
  <2> QED
    BY <2>1 DEF base
<1>11. \A g : IsMatch(g, pattern, path) <=> g = [i \in 1..(N + 1) |-> value(g, i)]
  BY DEF IsMatch, N, L
<1> HIDE DEF value, J
<1>12. IsMatch(f, pattern, path)
  <2>1. \A i \in 1..(N + 1) : f[i] = value(f, i)
    <3>1. \A i \in 1..(N + 1) : i = N + 1 \/ i \in 1..N
      BY <1>1
    <3> QED
      BY <3>1, <1>8, <1>9, <1>10
  <2>2. f = [i \in 1..(N + 1) |-> f[i]]
    OBVIOUS
  <2>3. f = [i \in 1..(N + 1) |-> value(f, i)]
    BY <2>1, <2>2
  <2> QED
    BY <2>3, <1>11
<1> DEFINE G == CHOOSE g : IsMatch(g, pattern, path)
<1>13. IsMatch(G, pattern, path)
  BY <1>12
<1>14. MatchParts(pattern, path) = G[1][1]
  BY DEF MatchParts, IsMatch
<1> HIDE DEF G
<1>15. G[N + 1] = base /\ \A i \in 1..N : G[i] = row(i, G[MatchNext(pattern, i)])
  <2>1. N + 1 \in 1..(N + 1) /\ \A i \in 1..N : i \in 1..(N + 1)
    BY <1>1
  <2>2. \A i \in 1..(N + 1) : G[i] = value(G, i)
    <3>1. G = [i \in 1..(N + 1) |-> value(G, i)]
      BY <1>13, <1>11
    <3> QED
      BY <3>1
  <2> QED
    BY <2>1, <2>2, <1>9, <1>10
<1>16. G \in [1..(N + 1) -> B]
  <2> DEFINE M == N + 1
             T == {i \in 1..M : G[i] \in B}
  <2>1. M \in Nat
    BY <1>1
  <2>2. ASSUME NEW n \in 1..M, \A m \in (n + 1)..M : m \in T
        PROVE  n \in T
    <3>1. CASE n = M
      BY <3>1, <1>15, <1>2
    <3>2. CASE n # M
      <4>1. n \in 1..N
        BY <3>2, <1>1
      <4>2. MatchNext(pattern, n) \in (n + 1)..M
        BY <4>1, <1>4
      <4>3. G[MatchNext(pattern, n)] \in B
        BY <4>2, <2>2
      <4> HIDE DEF M
      <4> QED
        BY <4>1, <4>3, <1>3, <1>15
    <3> QED
      BY <3>1, <3>2
  <2> HIDE DEF T, M
  <2>3. \A n \in 1..M : n \in T
    BY <2>1, <2>2, DownFrom
  <2>4. \A n \in 1..M : G[n] \in B
    BY <2>3 DEF T
  <2>5. G = [i \in 1..M |-> value(G, i)]
    BY <1>13, <1>11 DEF M
  <2> QED
    BY <2>4, <2>5 DEF M
<1>17. \A j \in J : G[N + 1][j] <=> j = L + 1
  <2>1. \A j \in J : base[j] <=> j = L + 1
    <3>1. \A j \in J : j > L <=> j = L + 1
      BY <1>1 DEF J
    <3>2. \A j \in J : base[j] <=> j > L
      BY DEF base
    <3> QED
      BY <3>1, <3>2
  <2> QED
    BY <2>1, <1>15
<1>18. \A i \in 1..N : \A j \in J : G[i][j] <=> MatchStep(pattern, path, i, G[MatchNext(pattern, i)], j)
  BY <1>15 DEF row
<1> QED
  BY <1>14, <1>16, <1>17, <1>18 DEF N, L, J, B

\* The i-th segment of the pattern takes what there is from j to k.
Fits(pattern, path, i, j, k) ==
    IF pattern[i] = "**" THEN j <= k ELSE k = j + 1 /\ SegmentMatches(pattern[i], path[j])

CutFrom(pattern, path, i, j, cut) ==
    /\ cut \in [i..(Len(pattern) + 1) -> 1..(Len(path) + 1)]
    /\ cut[i] = j /\ cut[Len(pattern) + 1] = Len(path) + 1
    /\ \A m \in i..Len(pattern) : Fits(pattern, path, m, cut[m], cut[m + 1])

Cuts(pattern, path, i, j) == \E cut : CutFrom(pattern, path, i, j, cut)

LEMMA CutsMore ==
    ASSUME NEW S, NEW pattern \in Seq(S), NEW R, NEW path \in Seq(R),
           NEW i \in 1..Len(pattern), NEW j \in 1..(Len(path) + 1)
    PROVE  Cuts(pattern, path, i, j) <=>
              \E k \in 1..(Len(path) + 1) : Fits(pattern, path, i, j, k) /\ Cuts(pattern, path, i + 1, k)
<1> DEFINE N == Len(pattern)
           M == N + 1
           J == 1..(Len(path) + 1)
           e == Len(path) + 1
<1>1. N \in Nat /\ i \in 1..N /\ i + 1 \in 1..M /\ M \in Nat /\ i # i + 1 /\ i # M
  BY LenProperties
<1>2. /\ \A m : m \in i..M <=> m = i \/ m \in (i + 1)..M
      /\ \A m : m \in i..N <=> m = i \/ m \in (i + 1)..N
      /\ \A m \in (i + 1)..N : m \in (i + 1)..M /\ m + 1 \in (i + 1)..M /\ m # i /\ m + 1 # i
      /\ M \in (i + 1)..M /\ i + 1 \in (i + 1)..M /\ i \notin (i + 1)..M
  BY <1>1
<1>3. \A a, b, c : CutFrom(pattern, path, a, b, c) <=>
         /\ c \in [a..M -> J] /\ c[a] = b /\ c[M] = e
         /\ \A m \in a..N : Fits(pattern, path, m, c[m], c[m + 1])
  BY DEF CutFrom
<1> HIDE DEF M, N, J, e
<1>4. ASSUME Cuts(pattern, path, i, j)
      PROVE  \E k \in J : Fits(pattern, path, i, j, k) /\ Cuts(pattern, path, i + 1, k)
  <2>1. PICK cut : CutFrom(pattern, path, i, j, cut)
    BY <1>4 DEF Cuts
  <2>2. /\ cut \in [i..M -> J] /\ cut[i] = j /\ cut[M] = e
        /\ \A m \in i..N : Fits(pattern, path, m, cut[m], cut[m + 1])
    BY <2>1, <1>3
  <2> DEFINE c == [m \in (i + 1)..M |-> cut[m]]
             k == cut[i + 1]
  <2>3. c \in [(i + 1)..M -> J] /\ k \in J
    BY <2>2, <1>2
  <2>4. \A m \in (i + 1)..M : c[m] = cut[m]
    OBVIOUS
  <2> HIDE DEF c, k
  <2>5. c[i + 1] = k /\ c[M] = e
    BY <2>2, <2>4, <1>2 DEF k
  <2>6. \A m \in (i + 1)..N : Fits(pattern, path, m, c[m], c[m + 1])
    BY <2>2, <2>4, <1>2
  <2>7. CutFrom(pattern, path, i + 1, k, c)
    BY <2>3, <2>5, <2>6, <1>3
  <2>8. Fits(pattern, path, i, j, k)
    BY <2>2, <1>2 DEF k
  <2> QED
    BY <2>3, <2>7, <2>8 DEF Cuts
<1>5. ASSUME NEW k \in J, Fits(pattern, path, i, j, k), Cuts(pattern, path, i + 1, k)
      PROVE  Cuts(pattern, path, i, j)
  <2>1. PICK cut : CutFrom(pattern, path, i + 1, k, cut)
    BY <1>5 DEF Cuts
  <2>2. /\ cut \in [(i + 1)..M -> J] /\ cut[i + 1] = k /\ cut[M] = e
        /\ \A m \in (i + 1)..N : Fits(pattern, path, m, cut[m], cut[m + 1])
    BY <2>1, <1>3
  <2> DEFINE c == [m \in i..M |-> IF m = i THEN j ELSE cut[m]]
  <2>3. j \in J
    BY DEF J
  <2>4. c \in [i..M -> J]
    BY <2>2, <2>3, <1>2
  <2>5. c[i] = j /\ \A m \in (i + 1)..M : c[m] = cut[m]
    BY <1>2
  <2> HIDE DEF c
  <2>6. c[M] = e /\ c[i + 1] = k
    BY <2>2, <2>5, <1>2
  <2>7. \A m \in i..N : Fits(pattern, path, m, c[m], c[m + 1])
    <3>1. Fits(pattern, path, i, c[i], c[i + 1])
      BY <1>5, <2>5, <2>6
    <3>2. \A m \in (i + 1)..N : Fits(pattern, path, m, c[m], c[m + 1])
      BY <2>2, <2>5, <1>2
    <3> QED
      BY <3>1, <3>2, <1>2
  <2>8. CutFrom(pattern, path, i, j, c)
    BY <2>4, <2>5, <2>6, <2>7, <1>3
  <2> QED
    BY <2>8 DEF Cuts
<1> QED
  BY <1>4, <1>5 DEF J

\* MatchParts finds every way to cut the path.
LEMMA MatchHolds ==
    ASSUME NEW S, NEW pattern \in Seq(S), NEW R, NEW path \in Seq(R)
    PROVE  MatchParts(pattern, path) = Matches(pattern, path)
<1> DEFINE N == Len(pattern)
           L == Len(path)
           J == 1..(L + 1)
           M == N + 1
<1>1. N \in Nat /\ L \in Nat /\ DOMAIN pattern = 1..N /\ M \in Nat
  BY LenProperties
<1>2. PICK f \in [1..M -> [J -> BOOLEAN]] :
         /\ MatchParts(pattern, path) = f[1][1]
         /\ \A j \in J : f[M][j] <=> j = L + 1
         /\ \A i \in 1..N : \A j \in J :
               f[i][j] <=> MatchStep(pattern, path, i, f[MatchNext(pattern, i)], j)
  BY MatchDefined
<1> HIDE DEF N, L, J, M
<1>3. \A j, k \in J : j \in Nat /\ (k \in j..(L + 1) <=> j <= k)
  BY <1>1 DEF J
<1>4. ASSUME NEW i \in 1..N, NEW j \in J
      PROVE  f[i][j] <=> \E k \in J : Fits(pattern, path, i, j, k) /\ f[i + 1][k]
  <2>1. CASE pattern[i] # "**"
    <3>1. f[i][j] <=> j <= L /\ SegmentMatches(pattern[i], path[j]) /\ f[i + 1][j + 1]
      BY <1>2, <2>1 DEF MatchStep, MatchNext, L
    <3>2. j <= L <=> j + 1 \in J
      BY <1>1 DEF J
    <3> QED
      BY <3>1, <3>2, <2>1 DEF Fits
  <2>2. CASE pattern[i] = "**"
    <3> DEFINE a == AfterStars(pattern, i)
    <3>0. \A x \in 1..N : pattern[x] = "**" =>
             \A y \in J : f[x][y] <=> \E k \in J : y <= k /\ f[AfterStars(pattern, x)][k]
      <4> SUFFICES ASSUME NEW x \in 1..N, pattern[x] = "**", NEW y \in J
                   PROVE  f[x][y] <=> \E k \in J : y <= k /\ f[AfterStars(pattern, x)][k]
        OBVIOUS
      <4>1. f[x][y] <=> \E k \in y..(L + 1) : f[AfterStars(pattern, x)][k]
        BY <1>2 DEF MatchStep, MatchNext, L
      <4>2. \A k \in y..(L + 1) : k \in J
        BY <1>1 DEF J
      <4> QED
        BY <4>1, <4>2, <1>3
    <3>1. f[i][j] <=> \E k \in J : j <= k /\ f[a][k]
      BY <3>0, <2>2
    <3>2. IF i + 1 \in DOMAIN pattern /\ pattern[i + 1] = "**" THEN AfterStars(pattern, i + 1) = a
          ELSE a = i + 1
      BY <2>2, StarsEnd DEF N
    <3> HIDE DEF a
    <3>3. CASE i + 1 \in 1..N /\ pattern[i + 1] = "**"
      <4>1. \A k \in J : f[i + 1][k] <=> \E l \in J : k <= l /\ f[a][l]
        <5>1. AfterStars(pattern, i + 1) = a
          BY <3>2, <3>3, <1>1
        <5> QED
          BY <3>0, <3>3, <5>1
      <4>2. ASSUME NEW k \in J, j <= k, f[a][k]
            PROVE  f[i + 1][k]
        BY <4>1, <4>2, <1>3
      <4>3. ASSUME NEW k \in J, j <= k, NEW l \in J, k <= l, f[a][l]
            PROVE  j <= l
        BY <4>3, <1>3
      <4> QED
        BY <3>1, <4>1, <4>2, <4>3, <2>2 DEF Fits
    <3>4. CASE ~(i + 1 \in 1..N /\ pattern[i + 1] = "**")
      BY <3>1, <3>2, <3>4, <1>1, <2>2 DEF Fits
    <3> QED
      BY <3>3, <3>4
  <2> QED
    BY <2>1, <2>2
<1>5. \A j \in J : Cuts(pattern, path, M, j) <=> j = L + 1
  <2>1. M..M = {M} /\ M..N = {}
    BY <1>1 DEF M
  <2>2. \A j, c : CutFrom(pattern, path, M, j, c) <=>
           /\ c \in [M..M -> J] /\ c[M] = j /\ c[M] = L + 1
           /\ \A m \in M..N : Fits(pattern, path, m, c[m], c[m + 1])
    BY DEF CutFrom, M, N, L, J
  <2>3. ASSUME NEW j \in J, Cuts(pattern, path, M, j)
        PROVE  j = L + 1
    BY <2>2, <2>3 DEF Cuts
  <2>4. Cuts(pattern, path, M, L + 1)
    <3> DEFINE c == [m \in {M} |-> L + 1]
    <3>1. c \in [{M} -> J] /\ c[M] = L + 1
      BY <1>1 DEF J
    <3> HIDE DEF c
    <3> QED
      BY <3>1, <2>1, <2>2 DEF Cuts
  <2> QED
    BY <2>3, <2>4
<1> DEFINE T == {i \in 1..M : \A j \in J : f[i][j] <=> Cuts(pattern, path, i, j)}
<1>6. ASSUME NEW i \in 1..M, \A m \in (i + 1)..M : m \in T
      PROVE  i \in T
  <2>1. CASE i = M
    BY <2>1, <1>2, <1>5
  <2>2. CASE i # M
    <3>1. i \in 1..N /\ i + 1 \in (i + 1)..M
      BY <2>2, <1>1 DEF M
    <3>2. \A k \in J : f[i + 1][k] <=> Cuts(pattern, path, i + 1, k)
      BY <3>1, <1>6
    <3>3. \A j \in J : Cuts(pattern, path, i, j) <=>
             \E k \in J : Fits(pattern, path, i, j, k) /\ Cuts(pattern, path, i + 1, k)
      BY <3>1, CutsMore DEF J, L, N
    <3>4. \A j \in J : f[i][j] <=> Cuts(pattern, path, i, j)
      BY <3>1, <3>2, <3>3, <1>4
    <3> QED
      BY <3>4
  <2> QED
    BY <2>1, <2>2
<1> HIDE DEF T
<1>7. 1 \in T
  <2>1. 1 \in 1..M
    BY <1>1 DEF M
  <2> QED
    BY <2>1, <1>1, <1>6, DownFrom
<1>8. f[1][1] <=> Cuts(pattern, path, 1, 1)
  <2>1. 1 \in J
    BY <1>1 DEF J
  <2> QED
    BY <2>1, <1>7 DEF T
<1>9. Cuts(pattern, path, 1, 1) <=> Matches(pattern, path)
  <2>2. \A cut : CutFrom(pattern, path, 1, 1, cut) <=>
           /\ cut \in [1..M -> J] /\ cut[1] = 1 /\ cut[M] = L + 1
           /\ \A i \in 1..N : Fits(pattern, path, i, cut[i], cut[i + 1])
    BY DEF CutFrom, M, N, L, J
  <2>3. Matches(pattern, path) <=>
           \E cut \in [1..M -> J] :
              /\ cut[1] = 1 /\ cut[M] = L + 1
              /\ \A i \in 1..N : Fits(pattern, path, i, cut[i], cut[i + 1])
    <3>1. \A cut : \A i \in 1..N :
             Fits(pattern, path, i, cut[i], cut[i + 1]) <=>
                IF pattern[i] = "**" THEN cut[i] <= cut[i + 1]
                ELSE cut[i + 1] = cut[i] + 1 /\ SegmentMatches(pattern[i], path[cut[i]])
      BY DEF Fits
    <3>2. Matches(pattern, path) <=>
             \E cut \in [1..M -> J] :
                /\ cut[1] = 1 /\ cut[M] = L + 1
                /\ \A i \in 1..N :
                      IF pattern[i] = "**" THEN cut[i] <= cut[i + 1]
                      ELSE cut[i + 1] = cut[i] + 1 /\ SegmentMatches(pattern[i], path[cut[i]])
      BY <1>1 DEF Matches, M, N, L, J
    <3> QED
      BY <3>1, <3>2
  <2> QED
    BY <2>2, <2>3 DEF Cuts
<1>10. MatchParts(pattern, path) \in BOOLEAN /\ Matches(pattern, path) \in BOOLEAN
  <2>1. f[1] \in [J -> BOOLEAN] /\ 1 \in J
    BY <1>1 DEF J, M
  <2>2. f[1][1] \in BOOLEAN
    BY <2>1
  <2> QED
    BY <2>2, <1>2 DEF Matches
<1> QED
  BY <1>2, <1>8, <1>9, <1>10
-----------------------------------------------------------------------------
(* Interpolation.                                                          *)

\* One more sequence in front.
LEMMA FlattenPrepend ==
    ASSUME NEW S, NEW x \in Seq(S), NEW ss \in Seq(Seq(S))
    PROVE  /\ <<x>> \o ss \in Seq(Seq(S))
           /\ FlattenSeq(ss) \in Seq(S) /\ FlattenSeq(<<>>) = <<>>
           /\ FlattenSeq(<<x>> \o ss) = x \o FlattenSeq(ss)
<1> DEFINE N == Len(ss)
           Q == Seq(S)
           tt == <<x>> \o ss
<1>1. /\ N \in Nat /\ tt \in Seq(Q) /\ Len(tt) = N + 1 /\ tt[1] = x
      /\ \A n \in 1..N : tt[n + 1] = ss[n] /\ ss[n] \in Q
  <2> DEFINE one == <<x>>
  <2>1. one \in Seq(Q) /\ Len(one) = 1 /\ one[1] = x
    OBVIOUS
  <2>2. N \in Nat /\ ss \in Seq(Q) /\ \A n \in 1..N : ss[n] \in Q
    BY LenProperties, ElementOfSeq
  <2> HIDE DEF one, Q
  <2>3. /\ one \o ss \in Seq(Q) /\ Len(one \o ss) = Len(one) + Len(ss)
        /\ \A i \in 1..(Len(one) + Len(ss)) : (one \o ss)[i] = IF i <= Len(one) THEN one[i] ELSE ss[i - Len(one)]
    BY <2>1, <2>2, ConcatProperties
  <2> HIDE DEF N
  <2> DEFINE t == one \o ss
  <2>4. t \in Seq(Q) /\ Len(t) = 1 + N /\ \A i \in 1..(1 + N) : t[i] = IF i <= 1 THEN one[i] ELSE ss[i - 1]
    BY <2>1, <2>3 DEF N
  <2> HIDE DEF t
  <2>5. t[1] = x
    <3>1. 1 \in 1..(1 + N)
      BY <2>2
    <3> QED
      BY <3>1, <2>1, <2>4
  <2>6. ASSUME NEW n \in 1..N
        PROVE  t[n + 1] = ss[n]
    <3> DEFINE y == n + 1
    <3>1. y \in 1..(1 + N) /\ ~(y <= 1) /\ y - 1 = n
      BY <2>2
    <3> HIDE DEF y
    <3> QED
      BY <3>1, <2>4 DEF y
  <2> QED
    BY <2>2, <2>4, <2>5, <2>6 DEF t, one
<1>2. PICK f \in [0..N -> Q] : Flattens(f, ss) /\ FlattenSeq(ss) = f[N]
  BY FlattenDefined
<1> DEFINE M == N + 1
<1>3. PICK g \in [0..M -> Q] : Flattens(g, tt) /\ FlattenSeq(tt) = g[M]
  <2>1. tt \in Seq(Seq(S)) /\ Len(tt) = M
    BY <1>1
  <2> HIDE DEF tt, M
  <2> QED
    BY <2>1, FlattenDefined
<1> HIDE DEF tt
<1>4. f[0] = <<>> /\ \A n \in 1..N : f[n] = f[n - 1] \o ss[n]
  BY <1>2 DEF Flattens
<1>5. g[0] = <<>> /\ \A n \in 1..M : g[n] = g[n - 1] \o tt[n]
  BY <1>1, <1>3 DEF Flattens
<1>6. \A a, b, c \in Q : (a \o b) \o c = a \o (b \o c)
  <2>1. Associates(Q)
    BY SeqAssociates
  <2> HIDE DEF Q
  <2> QED
    BY <2>1 DEF Associates
<1>7. x \o <<>> = x /\ <<>> \o x = x
  BY ConcatEmptySeq
<1> HIDE DEF N, Q
<1> DEFINE T == {n \in 0..N : g[n + 1] = x \o f[n]}
<1>8. 0 \in T
  <2>1. 1 \in 1..M /\ 1 - 1 = 0 /\ 0 + 1 = 1
    BY <1>1
  <2>2. g[1] = g[1 - 1] \o tt[1]
    BY <2>1, <1>5
  <2>3. g[0 + 1] = x \o f[0]
    <3>1. g[1] = <<>> \o x
      BY <2>1, <2>2, <1>1, <1>5, Zenon
    <3>2. g[1] = x \o f[0]
      BY <3>1, <1>4, <1>7, Zenon
    <3> QED
      BY <3>2, <2>1, Zenon
  <2> QED
    BY <2>3, <1>1
<1>9. ASSUME NEW n \in 1..N, n - 1 \in T
      PROVE  n \in T
  <2>1. n \in 0..N /\ n - 1 \in 0..N /\ n + 1 \in 1..M /\ (n + 1) - 1 = n /\ (n - 1) + 1 = n
    BY <1>1
  <2>2. g[n] = x \o f[n - 1]
    BY <1>9, <2>1
  <2>3. g[n + 1] = g[n] \o ss[n]
    <3>1. g[n + 1] = g[(n + 1) - 1] \o tt[n + 1]
      BY <2>1, <1>5
    <3> QED
      BY <3>1, <2>1, <1>1
  <2>4. f[n] = f[n - 1] \o ss[n] /\ f[n - 1] \in Q /\ ss[n] \in Q /\ x \in Q
    BY <2>1, <1>1, <1>2, <1>4 DEF Q
  <2>5. g[n + 1] = x \o f[n]
    <3>1. (x \o f[n - 1]) \o ss[n] = x \o (f[n - 1] \o ss[n])
      BY <2>4, <1>6, Zenon
    <3> QED
      BY <2>2, <2>3, <2>4, <3>1, Zenon
  <2> QED
    BY <2>1, <2>5
<1> HIDE DEF T
<1>10. N \in T
  <2>1. \A n \in 0..N : n \in T
    BY <1>1, <1>8, <1>9, UpTo
  <2> QED
    BY <2>1, <1>1
<1>11. FlattenSeq(ss) \in Q
  <2>1. N \in 0..N
    BY <1>1
  <2> QED
    BY <2>1, <1>2
<1>12. FlattenSeq(<<>>) = <<>>
  BY DEF FlattenSeq
<1> QED
  BY <1>1, <1>2, <1>3, <1>10, <1>11, <1>12 DEF T, tt, Q

\* The quotes up to a place.
QuotesTo(s, n) == {i \in 1..n : s[i] = "'"}

LEMMA QuotesMore ==
    ASSUME NEW s
    PROVE  /\ Cardinality(QuotesTo(s, 0)) = 0
           /\ \A n \in Nat : IsFiniteSet(QuotesTo(s, n)) /\ Cardinality(QuotesTo(s, n)) \in Nat
           /\ \A n \in Nat \ {0} :
                 Cardinality(QuotesTo(s, n)) = Cardinality(QuotesTo(s, n - 1)) + (IF s[n] = "'" THEN 1 ELSE 0)
<1>1. \A n \in Nat : IsFiniteSet(QuotesTo(s, n)) /\ Cardinality(QuotesTo(s, n)) \in Nat
  <2> SUFFICES ASSUME NEW n \in Nat
               PROVE  IsFiniteSet(QuotesTo(s, n)) /\ Cardinality(QuotesTo(s, n)) \in Nat
    OBVIOUS
  <2>1. IsFiniteSet(1..n)
    BY FS_Interval
  <2>2. QuotesTo(s, n) \in SUBSET (1..n)
    BY DEF QuotesTo
  <2> QED
    BY <2>1, <2>2, FS_Subset, FS_CardinalityType
<1>2. Cardinality(QuotesTo(s, 0)) = 0
  <2>1. QuotesTo(s, 0) = {}
    BY DEF QuotesTo
  <2> QED
    BY <2>1, FS_EmptySet
<1>3. ASSUME NEW n \in Nat \ {0}
      PROVE  Cardinality(QuotesTo(s, n)) = Cardinality(QuotesTo(s, n - 1)) + (IF s[n] = "'" THEN 1 ELSE 0)
  <2>1. /\ n \notin 1..(n - 1) /\ n - 1 \in Nat
        /\ \A i : i \in 1..n <=> i \in 1..(n - 1) \/ i = n
    OBVIOUS
  <2>2. n \notin QuotesTo(s, n - 1)
    BY <2>1 DEF QuotesTo
  <2>3. CASE s[n] = "'"
    <3>1. QuotesTo(s, n) = QuotesTo(s, n - 1) \cup {n}
      BY <2>1, <2>3 DEF QuotesTo
    <3> QED
      BY <3>1, <2>1, <2>2, <2>3, <1>1, FS_AddElement
  <2>4. CASE s[n] # "'"
    <3>1. QuotesTo(s, n) = QuotesTo(s, n - 1)
      BY <2>1, <2>4 DEF QuotesTo
    <3> QED
      BY <3>1, <2>1, <2>4, <1>1
  <2> QED
    BY <2>3, <2>4
<1> QED
  BY <1>1, <1>2, <1>3

IsScan(f, s) ==
    f = [i \in 1..(Len(s) + 1) |->
            IF i = 1 THEN "open"
            ELSE IF s[i - 1] # "'" THEN f[i - 1]
            ELSE IF f[i - 1] = "quoted" THEN IF Char(s, i) = "'" THEN "skipped" ELSE "open"
            ELSE "quoted"]

\* The search is in a quoted text exactly where the quotes before it are odd in number.
LEMMA ScanHolds ==
    ASSUME NEW S, NEW s \in Seq(S)
    PROVE  \A i \in 1..(Len(s) + 1) : Scan(s)[i] = "quoted" <=> Cardinality(QuotesTo(s, i - 1)) % 2 = 1
<1> DEFINE N == Len(s)
           K == {"open", "quoted", "skipped"}
           next(v, n) == IF s[n] # "'" THEN v
                         ELSE IF v = "quoted" THEN IF Char(s, n + 1) = "'" THEN "skipped" ELSE "open"
                         ELSE "quoted"
           step == [x \in K \X (1..N) |-> next(x[1], x[2])]
<1>1. N \in Nat
  BY LenProperties
<1>2. "open" \in K /\ \A v \in K, n \in 1..N : next(v, n) \in K
  OBVIOUS
<1>3. \A v, n : next(v, n) = "quoted" <=> (IF s[n] = "'" THEN v # "quoted" ELSE v = "quoted")
  OBVIOUS
<1> HIDE DEF K, next, N
<1>4. step \in [K \X (1..N) -> K] /\ \A v \in K, n \in 1..N : step[<<v, n>>] = next(v, n)
  BY <1>2
<1> HIDE DEF step
<1>5. PICK f \in [0..N -> K] : Iterates(f, N, "open", step)
  BY <1>1, <1>2, <1>4, Iterated
<1>6. f[0] = "open" /\ \A n \in 1..N : f[n] = next(f[n - 1], n)
  <2>1. \A n \in 1..N : n - 1 \in 0..N
    BY <1>1
  <2> QED
    BY <2>1, <1>4, <1>5 DEF Iterates
<1> DEFINE h == [i \in 1..(N + 1) |-> f[i - 1]]
           value(g, i) == IF i = 1 THEN "open" ELSE next(g[i - 1], i - 1)
<1>7. \A g : IsScan(g, s) <=> g = [i \in 1..(N + 1) |-> value(g, i)]
  <2>1. \A i \in 1..(N + 1) : (i - 1) + 1 = i
    BY <1>1
  <2> QED
    BY <2>1 DEF IsScan, next, N
<1>8. IsScan(h, s)
  <2>1. ASSUME NEW i \in 1..(N + 1)
        PROVE  h[i] = value(h, i)
    <3>1. CASE i = 1
      BY <3>1, <1>1, <1>6
    <3>2. CASE i # 1
      <4>1. i - 1 \in 1..N /\ i - 1 \in 1..(N + 1)
        BY <3>2, <1>1
      <4>2. h[i] = f[i - 1] /\ h[i - 1] = f[(i - 1) - 1]
        BY <4>1
      <4>3. f[i - 1] = next(f[(i - 1) - 1], i - 1)
        BY <4>1, <1>6
      <4> QED
        BY <3>2, <4>2, <4>3
    <3> QED
      BY <3>1, <3>2
  <2> HIDE DEF value
  <2>2. h = [i \in 1..(N + 1) |-> value(h, i)]
    <3>1. h = [i \in 1..(N + 1) |-> h[i]]
      OBVIOUS
    <3> HIDE DEF h
    <3> QED
      BY <2>1, <3>1
  <2> HIDE DEF h
  <2> QED
    BY <2>2, <1>7
<1> DEFINE G == CHOOSE g : IsScan(g, s)
<1>9. IsScan(G, s)
  <2> HIDE DEF h
  <2> QED
    BY <1>8
<1>10. Scan(s) = G
  BY DEF Scan, IsScan
<1> HIDE DEF G, h
<1>11. \A i \in 1..(N + 1) : G[i] = value(G, i)
  <2> HIDE DEF value
  <2>1. G = [i \in 1..(N + 1) |-> value(G, i)]
    BY <1>7, <1>9
  <2> QED
    BY <2>1
<1> DEFINE odd(n) == Cardinality(QuotesTo(s, n)) % 2 = 1
           T == {n \in 0..N : G[n + 1] = "quoted" <=> odd(n)}
<1>12. 0 \in T
  <2>1. G[0 + 1] = "open"
    <3>1. 1 \in 1..(N + 1)
      BY <1>1
    <3> QED
      BY <3>1, <1>11
  <2>2. ~odd(0)
    <3>1. Cardinality(QuotesTo(s, 0)) = 0
      BY QuotesMore
    <3> QED
      BY <3>1
  <2> HIDE DEF odd
  <2> QED
    BY <2>1, <2>2, <1>1
<1>13. ASSUME NEW n \in 1..N, n - 1 \in T
       PROVE  n \in T
  <2>1. n \in 0..N /\ n - 1 \in 0..N /\ n + 1 \in 1..(N + 1) /\ n + 1 # 1 /\ (n + 1) - 1 = n /\ (n - 1) + 1 = n
        /\ n \in Nat \ {0} /\ n - 1 \in Nat
    BY <1>1
  <2>2. G[n] = "quoted" <=> odd(n - 1)
    BY <1>13, <2>1
  <2>3. G[n + 1] = next(G[n], n)
    BY <2>1, <1>11
  <2>4. odd(n) <=> (IF s[n] = "'" THEN ~odd(n - 1) ELSE odd(n - 1))
    <3> DEFINE a == Cardinality(QuotesTo(s, n))
               b == Cardinality(QuotesTo(s, n - 1))
    <3>1. a = b + (IF s[n] = "'" THEN 1 ELSE 0) /\ b \in Nat
      BY <2>1, QuotesMore
    <3> HIDE DEF a, b
    <3>2. a % 2 = 1 <=> (IF s[n] = "'" THEN ~(b % 2 = 1) ELSE b % 2 = 1)
      BY <3>1
    <3> QED
      BY <3>2 DEF a, b
  <2> HIDE DEF odd
  <2>5. G[n + 1] = "quoted" <=> odd(n)
    BY <2>2, <2>3, <2>4, <1>3
  <2> QED
    BY <2>1, <2>5
<1> HIDE DEF T
<1>14. \A n \in 0..N : n \in T
  BY <1>1, <1>12, <1>13, UpTo
<1>15. ASSUME NEW i \in 1..(N + 1)
       PROVE  G[i] = "quoted" <=> odd(i - 1)
  <2>1. i - 1 \in 0..N /\ (i - 1) + 1 = i
    BY <1>1
  <2> HIDE DEF odd
  <2> QED
    BY <2>1, <1>14 DEF T
<1> QED
  BY <1>10, <1>15 DEF N

\* The braces that are found close the expression, and no quoted text is open before them.
LEMMA ClosingHolds ==
    ASSUME NEW S, NEW s \in Seq(S)
    PROVE  LET e == ClosingBraces(s) IN
           /\ e \in Nat
           /\ e # 0 => /\ e \in 1..Len(s) /\ e + 1 \in 1..Len(s) /\ s[e] = "}" /\ s[e + 1] = "}"
                       /\ Quotes(SubSeq(s, 1, e - 1)) % 2 = 0
<1> DEFINE N == Len(s)
           e == ClosingBraces(s)
           hits == {i \in DOMAIN s : Scan(s)[i] = "open" /\ s[i] = "}" /\ Char(s, i + 1) = "}"}
<1>1. N \in Nat /\ DOMAIN s = 1..N
  BY LenProperties
<1>2. e = IF hits = {} THEN 0 ELSE Min(hits)
  BY DEF ClosingBraces
<1> HIDE DEF N
<1>3. hits \in SUBSET Nat /\ hits \in SUBSET DOMAIN s
  <2>1. hits \in SUBSET DOMAIN s
    BY Zenon
  <2> HIDE DEF hits
  <2> QED
    BY <2>1, <1>1
<1> HIDE DEF e, hits
<1>4. e # 0 => e \in hits
  BY <1>2, <1>3, MinOfSet
<1>5. e \in Nat
  BY <1>2, <1>3, <1>4
<1>6. ASSUME e # 0
      PROVE  /\ e \in 1..N /\ e + 1 \in 1..N /\ s[e] = "}" /\ s[e + 1] = "}"
             /\ Quotes(SubSeq(s, 1, e - 1)) % 2 = 0
  <2>1. e \in DOMAIN s /\ Scan(s)[e] = "open" /\ s[e] = "}" /\ Char(s, e + 1) = "}"
    BY <1>4, <1>6, Zenon DEF hits
  <2>2. e + 1 \in DOMAIN s /\ s[e + 1] = "}"
    BY <2>1, Zenon DEF Char
  <2>3. e \in 1..(N + 1) /\ e \in 1..N /\ e - 1 \in Nat /\ e - 1 <= N
    <3>1. e \in 1..N /\ N \in Nat
      BY <2>1, <1>1, Zenon
    <3> QED
      BY <3>1
  <2> DEFINE c == Cardinality(QuotesTo(s, e - 1))
             u == SubSeq(s, 1, e - 1)
  <2>4. ~(c % 2 = 1)
    <3>1. Scan(s)[e] # "quoted"
      BY <2>1, Zenon
    <3> QED
      BY <3>1, <2>3, ScanHolds DEF N
  <2>5. c \in Nat
    BY <2>3, QuotesMore
  <2>6. Quotes(u) = c
    <3>1. \A i \in 1..(e - 1) : s[i] \in S
      <4>1. \A i \in 1..(e - 1) : i \in 1..Len(s)
        BY <2>3, <1>1 DEF N
      <4> QED
        BY <4>1, ElementOfSeq
    <3>2. u \in Seq(S) /\ Len(u) = (IF 1 <= e - 1 THEN (e - 1) - 1 + 1 ELSE 0)
          /\ \A i \in 1..((e - 1) - 1 + 1) : u[i] = s[1 + i - 1]
      <4>1. 1 \in Int /\ e - 1 \in Int
        BY <2>3
      <4> QED
        BY <3>1, <4>1, SubSeqProperties
    <3> HIDE DEF u
    <3>3. Len(u) = e - 1 /\ (e - 1) - 1 + 1 = e - 1
      BY <3>2, <2>3
    <3>4. DOMAIN u = 1..(e - 1)
      BY <3>2, <3>3, LenProperties
    <3>5. \A i \in 1..(e - 1) : u[i] = s[i]
      <4>1. \A i \in 1..(e - 1) : 1 + i - 1 = i
        OBVIOUS
      <4> QED
        BY <4>1, <3>2, <3>3
    <3>6. {i \in DOMAIN u : u[i] = "'"} = QuotesTo(s, e - 1)
      BY <3>4, <3>5 DEF QuotesTo
    <3> QED
      BY <3>6 DEF Quotes
  <2> HIDE DEF c, u
  <2>7. Quotes(u) % 2 = 0
    BY <2>4, <2>5, <2>6
  <2> QED
    BY <2>1, <2>2, <2>3, <2>7, <1>1, Zenon DEF u
<1> QED
  BY <1>5, <1>6, Zenon DEF e, N

Part(C)  == [isExpr : BOOLEAN, of : Seq(C)]
Parses(C) == [ok : BOOLEAN, parts : Seq(Part(C))]

PartText(p) == IF p.isExpr THEN <<"${{">> \o p.of \o <<"}", "}">> ELSE p.of
PartGood(p) == IF p.isExpr THEN Quotes(p.of) % 2 = 0 ELSE "${{" \notin ToSet(p.of)

Open(s, i) == Min(Opens(s, i))
End(s, i)  == ClosingBraces(Rest(s, Open(s, i) + 1))

ParseNext(s, i) == IF Opens(s, i) = {} \/ End(s, i) = 0 THEN Len(s) + 1 ELSE Open(s, i) + End(s, i) + 2

\* What is parsed from i on, later being what comes after the next expression.
ParseStep(s, i, later) ==
    IF Opens(s, i) = {} THEN [ok |-> TRUE, parts |-> << Literal(Rest(s, i)) >>]
    ELSE IF End(s, i) = 0 THEN [ok |-> FALSE, parts |-> <<>>]
    ELSE IF later.ok
    THEN [ok |-> TRUE, parts |-> PartsAt(s, i, Open(s, i), Open(s, i) + End(s, i)) \o later.parts]
    ELSE later

\* Where an expression opens and where it ends.
LEMMA OpenAndEnd ==
    ASSUME NEW C, NEW s \in Seq(C), NEW i \in 1..Len(s), Opens(s, i) # {}
    PROVE  LET o == Open(s, i)
               e == End(s, i)
               r == Rest(s, o + 1)
           IN  /\ o \in i..Len(s) /\ s[o] = "${{" /\ \A k \in i..(o - 1) : s[k] # "${{"
               /\ r \in Seq(C) /\ e \in Nat
               /\ e # 0 => /\ o + e + 1 \in (o + 2)..Len(s) /\ s[o + e] = "}" /\ s[o + e + 1] = "}"
                           /\ Quotes(SubSeq(s, o + 1, (o + e) - 1)) % 2 = 0
<1> DEFINE N == Len(s)
           o == Open(s, i)
           e == End(s, i)
           r == Rest(s, o + 1)
           T == Opens(s, i)
<1>1. N \in Nat /\ i \in 1..N /\ \A k \in 1..N : s[k] \in C
  BY LenProperties, ElementOfSeq
<1>2. T = {k \in i..N : s[k] = "${{"}
  BY Zenon DEF Opens
<1>3. e = ClosingBraces(r)
  BY DEF End
<1>4. o = Min(T)
  BY DEF Open
<1> HIDE DEF N, o, e, T
<1>5. T \in SUBSET Nat /\ T # {}
  <2>1. \A k \in i..N : k \in Nat
    BY <1>1
  <2> QED
    BY <2>1, <1>2, Zenon DEF T
<1>6. o \in T /\ \A y \in T : o <= y
  BY <1>4, <1>5, MinOfSet
<1>7. o \in i..N /\ s[o] = "${{"
  BY <1>2, <1>6, Zenon
<1>0. N \in Nat /\ i \in Nat /\ i <= N /\ 1 <= i /\ o \in Nat /\ i <= o /\ o <= N
  <2>1. N \in Nat /\ i \in 1..N
    BY <1>1
  <2>2. o \in i..N
    BY <1>7, Zenon
  <2> QED
    BY <2>1, <2>2
<1>8. ASSUME NEW k \in i..(o - 1)
      PROVE  s[k] # "${{"
  <2>1. k \in i..N /\ ~(o <= k)
    BY <1>0
  <2> QED
    BY <2>1, <1>2, <1>6, Zenon
<1>9. /\ r \in Seq(C) /\ Len(r) = N - o
      /\ \A k \in 1..(N - o) : r[k] = s[o + k]
  <2> DEFINE m == o + 1
  <2>1. m \in Int /\ N \in Int /\ \A k \in m..N : s[k] \in C
    <3>1. m \in Int /\ N \in Int /\ \A k \in m..N : k \in 1..N
      BY <1>0
    <3> QED
      BY <3>1, <1>1
  <2>2. /\ N - m + 1 = N - o /\ (m <= N => N - m + 1 = N - o) /\ (~(m <= N) => N - o = 0)
        /\ \A k \in 1..(N - o) : m + k - 1 = o + k
    BY <1>0
  <2>3. r = SubSeq(s, m, N)
    BY DEF Rest, N
  <2> HIDE DEF m, r
  <2>4. /\ SubSeq(s, m, N) \in Seq(C)
        /\ Len(SubSeq(s, m, N)) = IF m <= N THEN N - m + 1 ELSE 0
        /\ \A k \in 1..(N - m + 1) : SubSeq(s, m, N)[k] = s[m + k - 1]
    BY <2>1, SubSeqProperties
  <2> QED
    BY <2>2, <2>3, <2>4
<1> HIDE DEF r
<1>10. /\ e \in Nat
       /\ e # 0 => /\ e \in 1..Len(r) /\ e + 1 \in 1..Len(r) /\ r[e] = "}" /\ r[e + 1] = "}"
                   /\ Quotes(SubSeq(r, 1, e - 1)) % 2 = 0
  BY <1>3, <1>9, ClosingHolds, Zenon
<1>11. ASSUME e # 0
       PROVE  /\ o + e + 1 \in (o + 2)..N /\ s[o + e] = "}" /\ s[o + e + 1] = "}"
              /\ Quotes(SubSeq(s, o + 1, (o + e) - 1)) % 2 = 0
  <2>1. e \in 1..(N - o) /\ e + 1 \in 1..(N - o) /\ r[e] = "}" /\ r[e + 1] = "}"
    BY <1>9, <1>10, <1>11, Zenon
  <2>0. e \in Nat /\ 1 <= e /\ e + 1 <= N - o
    <3>1. e \in 1..(N - o) /\ e + 1 \in 1..(N - o)
      BY <2>1, Zenon
    <3> QED
      BY <3>1, <1>0
  <2>2. o + e + 1 \in (o + 2)..N /\ o + (e + 1) = o + e + 1
    BY <2>0, <1>0
  <2>3. s[o + e] = "}" /\ s[o + e + 1] = "}"
    <3>1. r[e] = s[o + e] /\ r[e + 1] = s[o + (e + 1)]
      BY <2>1, <1>9, Zenon
    <3> QED
      BY <3>1, <2>1, <2>2, Zenon
  <2>4. SubSeq(r, 1, e - 1) = SubSeq(s, o + 1, (o + e) - 1)
    <3> DEFINE a == SubSeq(r, 1, e - 1)
               b == SubSeq(s, o + 1, (o + e) - 1)
               n == e - 1
               m == o + 1
               l == (o + e) - 1
    <3>1. /\ n \in Nat /\ n <= N - o /\ n - 1 + 1 = n /\ (IF 1 <= n THEN n - 1 + 1 ELSE 0) = n
          /\ \A k \in 1..n : k \in 1..(N - o) /\ 1 + k - 1 = k
      BY <2>0, <1>0
    <3>2. /\ m \in Int /\ l \in Int /\ l - m + 1 = n /\ (IF m <= l THEN l - m + 1 ELSE 0) = n
          /\ \A k \in m..l : k \in 1..N
          /\ \A k \in 1..n : m + k - 1 = o + k
      BY <2>0, <1>0
    <3> HIDE DEF n, m, l
    <3>3. a \in Seq(C) /\ Len(a) = n /\ \A k \in 1..n : a[k] = r[k]
      <4>1. \A k \in 1..n : r[k] \in C
        <5>1. \A k \in 1..n : k \in 1..Len(r)
          BY <3>1, <1>9
        <5> QED
          BY <5>1, <1>9, ElementOfSeq
      <4>2. 1 \in Int /\ n \in Int
        BY <3>1
      <4>3. a = SubSeq(r, 1, n)
        BY DEF n
      <4> HIDE DEF a
      <4>4. /\ SubSeq(r, 1, n) \in Seq(C)
            /\ Len(SubSeq(r, 1, n)) = IF 1 <= n THEN n - 1 + 1 ELSE 0
            /\ \A k \in 1..(n - 1 + 1) : SubSeq(r, 1, n)[k] = r[1 + k - 1]
        BY <4>1, <4>2, SubSeqProperties
      <4> QED
        BY <4>3, <4>4, <3>1
    <3>4. b \in Seq(C) /\ Len(b) = n /\ \A k \in 1..n : b[k] = s[o + k]
      <4>1. \A k \in m..l : s[k] \in C
        BY <3>2, <1>1
      <4>2. b = SubSeq(s, m, l)
        BY DEF m, l
      <4> HIDE DEF b
      <4>3. /\ SubSeq(s, m, l) \in Seq(C)
            /\ Len(SubSeq(s, m, l)) = IF m <= l THEN l - m + 1 ELSE 0
            /\ \A k \in 1..(l - m + 1) : SubSeq(s, m, l)[k] = s[m + k - 1]
        BY <4>1, <3>2, SubSeqProperties
      <4> QED
        BY <4>2, <4>3, <3>2
    <3> HIDE DEF a, b
    <3>5. \A k \in 1..Len(a) : a[k] = b[k]
      BY <3>1, <3>3, <3>4, <1>9
    <3>6. a = b
      BY <3>3, <3>4, <3>5, SeqEqual
    <3> QED
      BY <3>6 DEF a, b
  <2> QED
    BY <2>2, <2>3, <2>4, <1>10, <1>11, Zenon
<1> QED
  BY <1>7, <1>8, <1>9, <1>10, <1>11, Zenon DEF N, o, e, r

LEMMA SubSeqOf ==
    ASSUME NEW C, NEW s \in Seq(C), NEW i \in Nat \ {0}, NEW j \in Int, j <= Len(s)
    PROVE  SubSeq(s, i, j) \in Seq(C)
<1>1. \A k \in i..j : k \in 1..Len(s)
  BY LenProperties
<1>2. \A k \in i..j : s[k] \in C
  BY <1>1, ElementOfSeq
<1> QED
  BY <1>2, SubSeqProperties

LEMMA ParseSteps ==
    ASSUME NEW C, NEW s \in Seq(C), NEW i \in 1..Len(s), NEW later \in Parses(C)
    PROVE  /\ ParseNext(s, i) \in (i + 1)..(Len(s) + 1)
           /\ ParseStep(s, i, later) \in Parses(C)
<1> DEFINE N == Len(s)
           o == Open(s, i)
           e == End(s, i)
<1>1. N \in Nat /\ i \in Nat /\ 1 <= i /\ i <= N
  <2>1. N \in Nat
    BY LenProperties
  <2> QED
    BY <2>1
<1>2. ASSUME NEW t \in Seq(C), NEW b \in BOOLEAN
      PROVE  [isExpr |-> b, of |-> t] \in Part(C)
  BY DEF Part
<1>3. ASSUME NEW p \in Seq(Part(C)), NEW b \in BOOLEAN
      PROVE  [ok |-> b, parts |-> p] \in Parses(C)
  BY DEF Parses
<1>4. later.ok \in BOOLEAN /\ later.parts \in Seq(Part(C))
  BY DEF Parses
<1>5. CASE Opens(s, i) = {}
  <2>1. Rest(s, i) \in Seq(C)
    <3>1. i \in Nat \ {0} /\ N \in Int /\ N <= Len(s)
      BY <1>1
    <3> QED
      BY <3>1, SubSeqOf DEF Rest
  <2>2. Literal(Rest(s, i)) \in Part(C)
    BY <2>1, <1>2 DEF Literal
  <2>3. << Literal(Rest(s, i)) >> \in Seq(Part(C))
    BY <2>2
  <2>4. ParseStep(s, i, later) \in Parses(C)
    BY <2>3, <1>3, <1>5 DEF ParseStep
  <2>5. ParseNext(s, i) = N + 1
    BY <1>5 DEF ParseNext
  <2> QED
    BY <2>4, <2>5, <1>1
<1>6. CASE Opens(s, i) # {}
  <2>1. /\ o \in i..N /\ e \in Nat
        /\ e # 0 => o + e + 1 \in (o + 2)..N
    BY <1>6, OpenAndEnd, Zenon
  <2>2. CASE e = 0
    <3>1. ParseNext(s, i) = N + 1
      BY <2>2 DEF ParseNext
    <3>2. <<>> \in Seq(Part(C))
      BY EmptySeq
    <3>3. ParseStep(s, i, later) = [ok |-> FALSE, parts |-> <<>>]
      BY <2>2, <1>6 DEF ParseStep
    <3> QED
      <4>1. [ok |-> FALSE, parts |-> <<>>] \in Parses(C)
        BY <3>2, <1>3
      <4>2. N + 1 \in (i + 1)..(N + 1)
        BY <1>1
      <4> QED
        BY <3>1, <3>3, <4>1, <4>2
  <2>3. CASE e # 0
    <3>1. ParseNext(s, i) = o + e + 2
      BY <2>3, <1>6 DEF ParseNext
    <3> DEFINE a == SubSeq(s, i, o - 1)
               b == SubSeq(s, o + 1, (o + e) - 1)
               h == IF o > i THEN << Literal(a) >> ELSE <<>>
    <3>2. a \in Seq(C) /\ b \in Seq(C)
      <4> HIDE DEF o, e
      <4>1. o \in Nat /\ i <= o /\ o <= N /\ o + e + 1 <= N /\ e \in Nat
        BY <2>1, <2>3, <1>1
      <4>2. i \in Nat \ {0} /\ o - 1 \in Int /\ o - 1 <= N /\ o + 1 \in Nat \ {0} /\ (o + e) - 1 \in Int
            /\ (o + e) - 1 <= N
        BY <4>1, <1>1
      <4> QED
        BY <4>2, SubSeqOf
    <3>3. PartsAt(s, i, o, o + e) = h \o << Expr(b) >>
      BY DEF PartsAt
    <3> HIDE DEF a, b
    <3>4. Literal(a) \in Part(C) /\ Expr(b) \in Part(C)
      BY <3>2, <1>2 DEF Literal, Expr
    <3>5. h \in Seq(Part(C)) /\ << Expr(b) >> \in Seq(Part(C))
      BY <3>4
    <3> HIDE DEF h
    <3>6. PartsAt(s, i, o, o + e) \o later.parts \in Seq(Part(C))
      BY <3>3, <3>5, <1>4, ConcatProperties
    <3>7. ParseStep(s, i, later) =
             IF later.ok THEN [ok |-> TRUE, parts |-> PartsAt(s, i, o, o + e) \o later.parts] ELSE later
      BY <2>3, <1>6 DEF ParseStep
    <3>8. ParseStep(s, i, later) \in Parses(C)
      BY <3>6, <3>7, <1>3
    <3>9. o + e + 2 \in (i + 1)..(N + 1)
      <4> HIDE DEF o, e
      <4> QED
        BY <2>1, <2>3, <1>1
    <3> QED
      BY <3>1, <3>8, <3>9
  <2> QED
    BY <2>2, <2>3
<1> QED
  BY <1>5, <1>6

IsParse(f, s) ==
    f = [i \in 1..(Len(s) + 1) |->
            IF i > Len(s) THEN [ok |-> TRUE, parts |-> <<>>]
            ELSE IF Opens(s, i) = {} THEN [ok |-> TRUE, parts |-> << Literal(Rest(s, i)) >>]
            ELSE IF End(s, i) = 0 THEN [ok |-> FALSE, parts |-> <<>>]
            ELSE LET later == f[Open(s, i) + End(s, i) + 2] IN
                 IF later.ok
                 THEN [ok |-> TRUE, parts |-> PartsAt(s, i, Open(s, i), Open(s, i) + End(s, i)) \o later.parts]
                 ELSE later]

LEMMA ParseDefined ==
    ASSUME NEW C, NEW s \in Seq(C)
    PROVE  \E f \in [1..(Len(s) + 1) -> Parses(C)] :
              /\ ParseInterpolation(s) = f[1]
              /\ f[Len(s) + 1] = [ok |-> TRUE, parts |-> <<>>]
              /\ \A i \in 1..Len(s) : f[i] = ParseStep(s, i, f[ParseNext(s, i)])
<1> DEFINE N == Len(s)
           Q == Parses(C)
           base == [ok |-> TRUE, parts |-> <<>>]
           next == [i \in 1..N |-> ParseNext(s, i)]
           step == [x \in (1..N) \X Q |-> ParseStep(s, x[1], x[2])]
<1>1. N \in Nat
  BY LenProperties
<1>2. base \in Q
  BY EmptySeq DEF Parses
<1>3. \A i \in 1..N : ParseNext(s, i) \in (i + 1)..(N + 1)
  BY <1>2, ParseSteps
<1>4. \A i \in 1..N, v \in Q : ParseStep(s, i, v) \in Q
  BY ParseSteps
<1> HIDE DEF N, Q
<1>5. next \in [1..N -> 1..(N + 1)] /\ \A i \in 1..N : i < next[i] /\ next[i] = ParseNext(s, i)
  BY <1>1, <1>3
<1>6. step \in [(1..N) \X Q -> Q] /\ \A i \in 1..N, v \in Q : step[<<i, v>>] = ParseStep(s, i, v)
  BY <1>4
<1> HIDE DEF base, next, step
<1>7. PICK f \in [1..(N + 1) -> Q] : GoesDown(f, N, base, next, step)
  BY <1>1, <1>2, <1>5, <1>6, Downwards
<1>8. f[N + 1] = base /\ \A i \in 1..N : f[i] = ParseStep(s, i, f[ParseNext(s, i)])
  <2>1. \A i \in 1..N : ParseNext(s, i) \in 1..(N + 1) /\ next[i] = ParseNext(s, i)
    BY <1>3, <1>1, <1>5
  <2>2. \A i \in 1..N : f[i] = step[<<i, f[next[i]]>>]
    BY <1>7 DEF GoesDown
  <2> QED
    BY <2>1, <2>2, <1>6, <1>7 DEF GoesDown
<1> DEFINE value(g, i) ==
              IF i > N THEN [ok |-> TRUE, parts |-> <<>>]
              ELSE IF Opens(s, i) = {} THEN [ok |-> TRUE, parts |-> << Literal(Rest(s, i)) >>]
              ELSE IF End(s, i) = 0 THEN [ok |-> FALSE, parts |-> <<>>]
              ELSE IF g[Open(s, i) + End(s, i) + 2].ok
              THEN [ok |-> TRUE, parts |-> PartsAt(s, i, Open(s, i), Open(s, i) + End(s, i))
                                              \o g[Open(s, i) + End(s, i) + 2].parts]
              ELSE g[Open(s, i) + End(s, i) + 2]
<1>9. ASSUME NEW g, NEW i \in 1..N
      PROVE  value(g, i) = ParseStep(s, i, g[ParseNext(s, i)])
  <2>1. ~(i > N)
    BY <1>1
  <2>2. CASE Opens(s, i) = {}
    BY <2>1, <2>2 DEF ParseStep, ParseNext
  <2>3. CASE Opens(s, i) # {} /\ End(s, i) = 0
    BY <2>1, <2>3 DEF ParseStep, ParseNext
  <2>4. CASE Opens(s, i) # {} /\ End(s, i) # 0
    BY <2>1, <2>4 DEF ParseStep, ParseNext
  <2> QED
    BY <2>2, <2>3, <2>4
<1>10. \A g : value(g, N + 1) = base
  <2>1. N + 1 > N
    BY <1>1
  <2> QED
    BY <2>1 DEF base
<1>11. \A g : IsParse(g, s) <=> g = [i \in 1..(N + 1) |-> value(g, i)]
  BY DEF IsParse, N
<1> HIDE DEF value
<1>12. IsParse(f, s)
  <2>1. \A i \in 1..(N + 1) : f[i] = value(f, i)
    <3>1. \A i \in 1..(N + 1) : i = N + 1 \/ i \in 1..N
      BY <1>1
    <3> QED
      BY <3>1, <1>8, <1>9, <1>10
  <2>2. f = [i \in 1..(N + 1) |-> f[i]]
    OBVIOUS
  <2>3. f = [i \in 1..(N + 1) |-> value(f, i)]
    BY <2>1, <2>2
  <2> QED
    BY <2>3, <1>11
<1> DEFINE G == CHOOSE g : IsParse(g, s)
<1>13. IsParse(G, s)
  BY <1>12
<1>14. ParseInterpolation(s) = G[1]
  BY DEF ParseInterpolation, IsParse, Open, End
<1> HIDE DEF G
<1>15. G[N + 1] = base /\ \A i \in 1..N : G[i] = ParseStep(s, i, G[ParseNext(s, i)])
  <2>1. N + 1 \in 1..(N + 1) /\ \A i \in 1..N : i \in 1..(N + 1)
    BY <1>1
  <2>2. \A i \in 1..(N + 1) : G[i] = value(G, i)
    <3>1. G = [i \in 1..(N + 1) |-> value(G, i)]
      BY <1>13, <1>11
    <3> QED
      BY <3>1
  <2> QED
    BY <2>1, <2>2, <1>9, <1>10
<1>16. G \in [1..(N + 1) -> Q]
  <2> DEFINE M == N + 1
             T == {i \in 1..M : G[i] \in Q}
  <2>1. M \in Nat
    BY <1>1
  <2>2. ASSUME NEW n \in 1..M, \A m \in (n + 1)..M : m \in T
        PROVE  n \in T
    <3>1. CASE n = M
      BY <3>1, <1>15, <1>2
    <3>2. CASE n # M
      <4>1. n \in 1..N
        BY <3>2, <1>1
      <4>2. ParseNext(s, n) \in (n + 1)..M
        BY <4>1, <1>3
      <4>3. G[ParseNext(s, n)] \in Q
        BY <4>2, <2>2
      <4> HIDE DEF M
      <4> QED
        BY <4>1, <4>3, <1>4, <1>15
    <3> QED
      BY <3>1, <3>2
  <2> HIDE DEF T, M
  <2>3. \A n \in 1..M : n \in T
    BY <2>1, <2>2, DownFrom
  <2>4. \A n \in 1..M : G[n] \in Q
    BY <2>3 DEF T
  <2>5. G = [i \in 1..M |-> value(G, i)]
    BY <1>13, <1>11 DEF M
  <2> QED
    BY <2>4, <2>5 DEF M
<1> QED
  BY <1>14, <1>15, <1>16 DEF N, Q, base

LEMMA AloneOrTwice ==
    ASSUME NEW C, NEW c \in C
    PROVE  <<c>> \in Seq(C) /\ <<c, c>> \in Seq(C) /\ Len(<<c>>) = 1 /\ <<c>>[1] = c
OBVIOUS

LEMMA OneAndOne ==
    ASSUME NEW C, NEW x \in C, NEW y \in C
    PROVE  <<x>> \o <<y>> = <<x, y>>
<1> DEFINE a == <<x>>
           b == <<y>>
           u == <<x, y>>
<1>1. a \in Seq(C) /\ b \in Seq(C) /\ Len(a) = 1 /\ Len(b) = 1 /\ a[1] = x /\ b[1] = y
  OBVIOUS
<1>2. u \in Seq(C) /\ Len(u) = 2 /\ u[1] = x /\ u[2] = y
  OBVIOUS
<1> HIDE DEF a, b, u
<1>3. a \o b \in Seq(C) /\ Len(a \o b) = 2 /\ (a \o b)[1] = x /\ (a \o b)[2] = y
  <2>1. /\ a \o b \in Seq(C) /\ Len(a \o b) = Len(a) + Len(b)
        /\ \A i \in 1..(Len(a) + Len(b)) : (a \o b)[i] = IF i <= Len(a) THEN a[i] ELSE b[i - Len(a)]
    BY <1>1, ConcatProperties
  <2>2. Len(a) + Len(b) = 2 /\ 1 \in 1..2 /\ 2 \in 1..2 /\ 2 - 1 = 1
    BY <1>1
  <2>3. (a \o b)[1] = a[1] /\ (a \o b)[2] = b[1]
    BY <2>1, <2>2, <1>1
  <2> QED
    BY <2>1, <2>2, <2>3, <1>1, Zenon
<1>4. \A i \in 1..Len(a \o b) : (a \o b)[i] = u[i]
  BY <1>2, <1>3
<1>5. a \o b = u
  BY <1>2, <1>3, <1>4, SeqEqual
<1> QED
  BY <1>5 DEF a, b, u

\* One more part in front.
HasBraces(C) == "${{" \in C /\ "}" \in C

LEMMA UnparsedMore ==
    ASSUME NEW C, HasBraces(C), NEW p \in Part(C), NEW ps \in Seq(Part(C))
    PROVE  /\ <<p>> \o ps \in Seq(Part(C)) /\ PartText(p) \in Seq(C) /\ Unparsed(ps) \in Seq(C)
           /\ Unparsed(<<p>> \o ps) = PartText(p) \o Unparsed(ps)
           /\ PartGood(p) /\ (\A x \in DOMAIN ps : PartGood(ps[x]))
                 => \A x \in DOMAIN (<<p>> \o ps) : PartGood((<<p>> \o ps)[x])
<1> DEFINE P == Part(C)
           Q == Seq(C)
           texts(r) == [i \in DOMAIN r |-> PartText(r[i])]
           one == <<p>>
           all == one \o ps
           N == Len(ps)
<1>1. \A q \in P : PartText(q) \in Q
  <2> SUFFICES ASSUME NEW q \in P
               PROVE  PartText(q) \in Q
    OBVIOUS
  <2>1. q.isExpr \in BOOLEAN /\ q.of \in Q
    BY DEF Part
  <2>2. <<"${{">> \in Q /\ <<"}", "}">> \in Q
    BY AloneOrTwice, Zenon DEF HasBraces
  <2>3. <<"${{">> \o q.of \o <<"}", "}">> \in Q
    <3>1. \A a, b \in Q : a \o b \in Q
      BY ConcatProperties
    <3> HIDE DEF Q
    <3>2. <<"${{">> \o q.of \in Q
      BY <3>1, <2>1, <2>2, Zenon
    <3> QED
      BY <3>1, <3>2, <2>2, Zenon
  <2> QED
    BY <2>1, <2>3, Zenon DEF PartText
<1>2. one \in Seq(P) /\ Len(one) = 1 /\ one[1] = p
  BY AloneOrTwice
<1>0. N \in Nat
  BY LenProperties
<1>3. N \in Nat /\ DOMAIN ps = 1..N /\ ps \in Seq(P) /\ \A i \in 1..N : ps[i] \in P
  BY LenProperties, ElementOfSeq
<1> HIDE DEF one, P
<1>4. /\ all \in Seq(P) /\ Len(all) = 1 + N
      /\ \A i \in 1..(1 + N) : all[i] = IF i <= 1 THEN p ELSE ps[i - 1]
  <2>1. /\ one \o ps \in Seq(P) /\ Len(one \o ps) = Len(one) + Len(ps)
        /\ \A i \in 1..(Len(one) + Len(ps)) : (one \o ps)[i] = IF i <= Len(one) THEN one[i] ELSE ps[i - Len(one)]
    BY <1>2, <1>3, ConcatProperties
  <2> HIDE DEF all
  <2> HIDE DEF N
  <2>2. \A i \in 1..(1 + N) : i <= 1 => i = 1
    BY <1>0
  <2>3. /\ all \in Seq(P) /\ Len(all) = 1 + N
        /\ \A i \in 1..(1 + N) : all[i] = IF i <= 1 THEN one[i] ELSE ps[i - 1]
    BY <2>1, <1>2 DEF all, N
  <2> QED
    BY <2>2, <2>3, <1>2
<1>5. DOMAIN all = 1..(1 + N)
  BY <1>4, LenProperties
<1> HIDE DEF all, N, Q
<1>6. \A r : Unparsed(r) = FlattenSeq(texts(r))
  BY DEF Unparsed, PartText
<1>7. \A r \in Seq(P) : texts(r) \in Seq(Q) /\ Len(texts(r)) = Len(r)
  <2> SUFFICES ASSUME NEW r \in Seq(P)
               PROVE  texts(r) \in Seq(Q) /\ Len(texts(r)) = Len(r)
    OBVIOUS
  <2>1. DOMAIN r = 1..Len(r) /\ Len(r) \in Nat /\ \A i \in 1..Len(r) : r[i] \in P
    BY LenProperties, ElementOfSeq
  <2> DEFINE t == texts(r)
             n == Len(r)
  <2>2. t \in [1..n -> Q] /\ n \in Nat
    BY <2>1, <1>1
  <2> HIDE DEF t, n
  <2>3. t \in Seq(Q) /\ Len(t) = n
    BY <2>2
  <2> HIDE DEF texts
  <2> QED
    BY <2>3 DEF t, n
<1>8. texts(all) = << PartText(p) >> \o texts(ps)
  <2> DEFINE u == << PartText(p) >>
             v == texts(ps)
  <2>1. u \in Seq(Q) /\ Len(u) = 1 /\ u[1] = PartText(p)
    <3>1. PartText(p) \in Q
      BY <1>1 DEF P
    <3> QED
      BY <3>1, AloneOrTwice
  <2>2. v \in Seq(Q) /\ Len(v) = N /\ \A i \in 1..N : v[i] = PartText(ps[i])
    <3>1. \A i \in 1..N : v[i] = PartText(ps[i])
      BY <1>3
    <3> HIDE DEF v
    <3> QED
      BY <3>1, <1>3, <1>7 DEF N, v
  <2>3. texts(all) \in Seq(Q) /\ Len(texts(all)) = 1 + N /\ \A i \in 1..(1 + N) : texts(all)[i] = PartText(all[i])
    <3>1. \A i \in 1..(1 + N) : texts(all)[i] = PartText(all[i])
      BY <1>5
    <3> HIDE DEF texts
    <3> QED
      BY <3>1, <1>4, <1>7
  <2> HIDE DEF u, v, texts
  <2>4. /\ u \o v \in Seq(Q) /\ Len(u \o v) = 1 + N
        /\ \A i \in 1..(1 + N) : (u \o v)[i] = IF i <= 1 THEN u[i] ELSE v[i - 1]
    <3>1. /\ u \o v \in Seq(Q) /\ Len(u \o v) = Len(u) + Len(v)
          /\ \A i \in 1..(Len(u) + Len(v)) : (u \o v)[i] = IF i <= Len(u) THEN u[i] ELSE v[i - Len(u)]
      BY <2>1, <2>2, ConcatProperties
    <3> QED
      BY <3>1, <2>1, <2>2
  <2>5. ASSUME NEW i \in 1..(1 + N)
        PROVE  texts(all)[i] = (u \o v)[i]
    <3>1. CASE i <= 1
      <4>1. i = 1
        BY <3>1, <1>0
      <4>2. all[i] = p
        BY <3>1, <1>4
      <4> QED
        BY <3>1, <4>1, <4>2, <2>1, <2>3, <2>4
    <3>2. CASE ~(i <= 1)
      <4>1. i - 1 \in 1..N
        BY <3>2, <1>0
      <4>2. all[i] = ps[i - 1]
        BY <3>2, <1>4
      <4> QED
        BY <3>2, <4>1, <4>2, <2>2, <2>3, <2>4
    <3> QED
      BY <3>1, <3>2
  <2>6. texts(all) = u \o v
    BY <2>3, <2>4, <2>5, SeqEqual
  <2> QED
    BY <2>6 DEF u, v
<1>9. Unparsed(all) = PartText(p) \o Unparsed(ps) /\ Unparsed(ps) \in Q
  <2>1. PartText(p) \in Seq(C) /\ texts(ps) \in Seq(Seq(C))
    BY <1>1, <1>3, <1>7 DEF P, Q
  <2> HIDE DEF texts
  <2>2. FlattenSeq(<< PartText(p) >> \o texts(ps)) = PartText(p) \o FlattenSeq(texts(ps))
        /\ FlattenSeq(texts(ps)) \in Seq(C)
    BY <2>1, FlattenPrepend
  <2> QED
    BY <2>2, <1>6, <1>8 DEF Q
<1>10. ASSUME PartGood(p), \A x \in DOMAIN ps : PartGood(ps[x])
       PROVE  \A x \in DOMAIN all : PartGood(all[x])
  <2> SUFFICES ASSUME NEW x \in 1..(1 + N)
               PROVE  PartGood(all[x])
    BY <1>5
  <2>1. CASE x <= 1
    BY <2>1, <1>4, <1>10
  <2>2. CASE ~(x <= 1)
    <3>1. x - 1 \in 1..N
      BY <2>2, <1>0
    <3> QED
      BY <2>2, <3>1, <1>3, <1>4, <1>10
  <2> QED
    BY <2>1, <2>2
<1> QED
  BY <1>1, <1>4, <1>9, <1>10 DEF all, one, P, Q

LEMMA UnparsedNone == Unparsed(<<>>) = <<>>
<1>1. [i \in DOMAIN <<>> |-> IF <<>>[i].isExpr THEN <<"${{">> \o <<>>[i].of \o <<"}", "}">> ELSE <<>>[i].of] = <<>>
  OBVIOUS
<1>2. FlattenSeq(<<>>) = <<>>
  BY DEF FlattenSeq
<1> QED
  BY <1>1, <1>2 DEF Unparsed

\* An expression with its braces, and with the literal before it, is what the text has there.
LEMMA PartsAtText ==
    ASSUME NEW C, HasBraces(C), NEW s \in Seq(C), NEW i \in 1..Len(s), Opens(s, i) # {}, End(s, i) # 0,
           NEW ps \in Seq(Part(C)), \A x \in DOMAIN ps : PartGood(ps[x]),
           Unparsed(ps) = SubSeq(s, Open(s, i) + End(s, i) + 2, Len(s))
    PROVE  LET parts == PartsAt(s, i, Open(s, i), Open(s, i) + End(s, i)) \o ps IN
           Unparsed(parts) = SubSeq(s, i, Len(s)) /\ \A x \in DOMAIN parts : PartGood(parts[x])
<1> DEFINE N == Len(s)
           Q == Seq(C)
           o == Open(s, i)
           e == End(s, i)
           a == SubSeq(s, i, o - 1)
           b == SubSeq(s, o + 1, (o + e) - 1)
           parts == PartsAt(s, i, o, o + e) \o ps
           good(r) == \A x \in DOMAIN r : PartGood(r[x])
<1>1. /\ o \in i..N /\ s[o] = "${{" /\ \A k \in i..(o - 1) : s[k] # "${{"
      /\ e \in Nat /\ o + e + 1 \in (o + 2)..N /\ s[o + e] = "}" /\ s[o + e + 1] = "}"
      /\ Quotes(b) % 2 = 0
  BY OpenAndEnd, Zenon
<1>2. N \in Nat /\ i \in 1..N
  BY LenProperties
<1> HIDE DEF N, o, e
<1>3. /\ N \in Nat /\ i \in Nat /\ o \in Nat /\ e \in Nat
      /\ 1 <= i /\ i <= o /\ 1 <= e /\ o + e + 1 <= N
  <2>1. o \in i..N /\ o + e + 1 \in (o + 2)..N /\ e \in Nat
    BY <1>1, Zenon
  <2> QED
    BY <2>1, <1>2
<1>4. a \in Q /\ b \in Q
  <2>1. i \in Nat \ {0} /\ o - 1 \in Int /\ o - 1 <= N /\ o + 1 \in Nat \ {0} /\ (o + e) - 1 \in Int
        /\ (o + e) - 1 <= N
    BY <1>3
  <2> QED
    BY <2>1, SubSeqOf DEF N
<1> DEFINE lit == Literal(a)
           expr == Expr(b)
           opening == <<"${{">>
           closing == <<"}", "}">>
           rest == SubSeq(s, o + e + 2, N)
<1>5. lit \in Part(C) /\ expr \in Part(C)
  BY <1>4 DEF Literal, Expr, Part
<1>6. PartText(lit) = a /\ PartText(expr) = opening \o b \o closing
  BY Zenon DEF PartText, Literal, Expr
<1>7. PartGood(lit)
  <2>1. \A k \in DOMAIN a : a[k] # "${{"
    <3>1. Len(a) = o - i /\ \A k \in 1..(o - i) : a[k] = s[i + k - 1]
      <4>1. \A k \in i..(o - 1) : s[k] \in C
        <5>1. \A k \in i..(o - 1) : k \in 1..Len(s)
          BY <1>3 DEF N
        <5> QED
          BY <5>1, ElementOfSeq
      <4> DEFINE m == o - 1
      <4>2. i \in Int /\ m \in Int /\ m - i + 1 = o - i /\ (IF i <= m THEN m - i + 1 ELSE 0) = o - i
        BY <1>3
      <4> HIDE DEF m
      <4>3. /\ Len(SubSeq(s, i, m)) = IF i <= m THEN m - i + 1 ELSE 0
            /\ \A k \in 1..(m - i + 1) : SubSeq(s, i, m)[k] = s[i + k - 1]
        BY <4>1, <4>2, SubSeqProperties DEF m
      <4> QED
        BY <4>2, <4>3 DEF m
    <3>2. DOMAIN a = 1..(o - i)
      BY <3>1, <1>4, LenProperties
    <3>3. \A k \in 1..(o - i) : i + k - 1 \in i..(o - 1)
      BY <1>3
    <3>4. \A k \in 1..(o - i) : s[i + k - 1] # "${{"
      BY <3>3, <1>1, Zenon
    <3> QED
      BY <3>1, <3>2, <3>4, Zenon
  <2> HIDE DEF a
  <2>2. "${{" \notin ToSet(a)
    BY <2>1, Zenon DEF ToSet
  <2> QED
    BY <2>2, Zenon DEF PartGood, Literal
<1>8. PartGood(expr)
  <2>1. Quotes(b) % 2 = 0
    BY <1>1, Zenon
  <2>2. expr.isExpr /\ expr.of = b
    BY DEF Expr
  <2> HIDE DEF expr, b
  <2> QED
    BY <2>1, <2>2, Zenon DEF PartGood
<1>9. opening \in Q /\ closing \in Q /\ <<s[o]>> = opening /\ <<s[o + e], s[o + e + 1]>> = closing
  <2>1. opening \in Q /\ closing \in Q
    BY AloneOrTwice, Zenon DEF HasBraces
  <2> QED
    BY <2>1, <1>1, Zenon
<1>10. rest \in Q
  <2>1. o + e + 2 \in Nat \ {0} /\ N \in Int /\ N <= N
    BY <1>3
  <2> QED
    BY <2>1, SubSeqOf DEF N
<1> HIDE DEF a, b, lit, expr, opening, closing
<1>11. SubSeq(s, o, N) = opening \o (b \o (closing \o rest))
  <2> DEFINE k == o + e
             u == SubSeq(s, k, N)
  <2>1. SubSeq(s, o, N) = <<s[o]>> \o SubSeq(s, o + 1, N)
    <3>1. o \in 1..N /\ N \in o..N
      BY <1>3
    <3> QED
      BY <3>1, SubSeqRecursiveFirst DEF N
  <2>2. SubSeq(s, o + 1, N) = b \o u
    <3>1. o + 1 \in 1..(N + 1) /\ k - 1 \in ((o + 1) - 1)..N /\ N \in (k - 1)..N /\ (k - 1) + 1 = k
      BY <1>3
    <3> DEFINE l == k - 1
    <3>2. b = SubSeq(s, o + 1, l)
      BY DEF b
    <3> HIDE DEF k
    <3>3. SubSeq(s, o + 1, l) \o SubSeq(s, l + 1, N) = SubSeq(s, o + 1, N)
      BY <3>1, ConcatAdjacentSubSeq DEF N
    <3> QED
      BY <3>1, <3>2, <3>3
  <2>3. u = <<s[k]>> \o SubSeq(s, k + 1, N)
    <3>1. k \in 1..N /\ N \in k..N
      BY <1>3
    <3> QED
      BY <3>1, SubSeqRecursiveFirst DEF N
  <2>4. SubSeq(s, k + 1, N) = <<s[k + 1]>> \o SubSeq(s, (k + 1) + 1, N)
    <3>1. k + 1 \in 1..N /\ N \in (k + 1)..N
      BY <1>3
    <3> QED
      BY <3>1, SubSeqRecursiveFirst DEF N
  <2>5. (k + 1) + 1 = o + e + 2
    BY <1>3
  <2>6. u = closing \o rest
    <3>1. s[k] \in C /\ s[k + 1] \in C
      <4>1. k \in 1..N /\ k + 1 \in 1..N
        BY <1>3
      <4> QED
        BY <4>1, ElementOfSeq DEF N
    <3> DEFINE x == s[k]
               y == s[k + 1]
    <3>2. x \in C /\ y \in C /\ closing = <<x, y>> /\ u = <<x>> \o (<<y>> \o rest)
      BY <3>1, <2>3, <2>4, <2>5, <1>9, Zenon
    <3> HIDE DEF x, y, rest, u, closing
    <3>3. <<x>> \o (<<y>> \o rest) = <<x, y>> \o rest
      <4>1. <<x>> \in Q /\ <<y>> \in Q /\ rest \in Q
        BY <3>2, <1>10, AloneOrTwice
      <4>2. (<<x>> \o <<y>>) \o rest = <<x>> \o (<<y>> \o rest)
        BY <4>1, ConcatAssociative
      <4>3. <<x>> \o <<y>> = <<x, y>>
        BY <3>2, OneAndOne
      <4> QED
        BY <4>2, <4>3, Zenon
    <3> QED
      BY <3>2, <3>3, Zenon
  <2> QED
    BY <2>1, <2>2, <2>6, <1>9, Zenon
<1>12. Unparsed(ps) = rest
  BY DEF rest, o, e, N
<1> DEFINE more == << expr >> \o ps
<1>13. /\ more \in Seq(Part(C)) /\ Unparsed(more) = SubSeq(s, o, N) /\ good(more)
  <2>1. /\ more \in Seq(Part(C)) /\ Unparsed(more) = PartText(expr) \o Unparsed(ps) /\ good(more)
    BY <1>5, <1>8, UnparsedMore
  <2> HIDE DEF rest
  <2>2. ((opening \o b) \o closing) \o rest = opening \o (b \o (closing \o rest))
    <3>1. \A x, y \in Q : x \o y \in Q
      BY ConcatProperties
    <3>2. Associates(Q)
      BY SeqAssociates
    <3>0. opening \in Q /\ b \in Q /\ closing \in Q /\ rest \in Q
      BY <1>4, <1>9, <1>10
    <3> HIDE DEF Q
    <3>3. opening \o b \in Q /\ closing \o rest \in Q
      BY <3>0, <3>1
    <3> DEFINE k == opening \o b
               l == closing \o rest
    <3> HIDE DEF k, l
    <3>6. k \in Q /\ l \in Q
      BY <3>3 DEF k, l
    <3>4. (k \o closing) \o rest = k \o (closing \o rest)
      <4>1. k \in Q /\ closing \in Q /\ rest \in Q
        BY <3>0, <3>6
      <4> QED
        BY <4>1, <3>2, Zenon DEF Associates
    <3>5. (opening \o b) \o l = opening \o (b \o l)
      <4>1. opening \in Q /\ b \in Q /\ l \in Q
        BY <3>0, <3>6
      <4> QED
        BY <4>1, <3>2, Zenon DEF Associates
    <3> QED
      BY <3>4, <3>5, Zenon DEF k, l
  <2>3. PartText(expr) \o Unparsed(ps) = SubSeq(s, o, N)
    BY <1>6, <1>11, <1>12, <2>2, Zenon
  <2> HIDE DEF more, good
  <2> QED
    BY <2>1, <2>3, Zenon
<1>14. CASE o > i
  <2>1. parts = (<< lit >> \o << expr >>) \o ps
    BY <1>14 DEF PartsAt, lit, expr, a, b
  <2>2. (<< lit >> \o << expr >>) \o ps = << lit >> \o more
    <3>1. << lit >> \in Seq(Part(C)) /\ << expr >> \in Seq(Part(C))
      BY <1>5, AloneOrTwice
    <3> QED
      BY <3>1, ConcatAssociative
  <2> HIDE DEF more
  <2>3. Unparsed(<< lit >> \o more) = PartText(lit) \o Unparsed(more) /\ good(<< lit >> \o more)
    BY <1>5, <1>7, <1>13, UnparsedMore
  <2>4. a \o SubSeq(s, o, N) = SubSeq(s, i, N)
    <3> DEFINE l == o - 1
    <3>1. i \in 1..(N + 1) /\ l \in (i - 1)..N /\ N \in l..N /\ l + 1 = o
      BY <1>3
    <3>2. a = SubSeq(s, i, l)
      BY DEF a
    <3> HIDE DEF l
    <3>3. SubSeq(s, i, l) \o SubSeq(s, l + 1, N) = SubSeq(s, i, N)
      BY <3>1, ConcatAdjacentSubSeq DEF N
    <3> QED
      BY <3>1, <3>2, <3>3
  <2>5. parts = << lit >> \o more
    BY <2>1, <2>2, Zenon
  <2> HIDE DEF parts, good
  <2>6. Unparsed(parts) = SubSeq(s, i, N) /\ good(parts)
    BY <2>3, <2>4, <2>5, <1>6, <1>13, Zenon
  <2> QED
    BY <2>6, Zenon DEF parts, good, N, o, e
<1>15. CASE ~(o > i)
  <2>1. o = i
    BY <1>3, <1>15
  <2>2. PartsAt(s, i, o, o + e) = <<>> \o << expr >>
    BY <1>15 DEF PartsAt, expr, b
  <2>3. << expr >> \in Seq(Part(C))
    BY <1>5, AloneOrTwice
  <2>4. <<>> \o << expr >> = << expr >>
    BY <2>3, ConcatEmptySeq
  <2>5. parts = more
    BY <2>2, <2>4, Zenon
  <2> HIDE DEF parts, more, good
  <2>6. Unparsed(parts) = SubSeq(s, i, N) /\ good(parts)
    BY <2>1, <2>5, <1>13, Zenon
  <2> QED
    BY <2>6, Zenon DEF parts, good, N, o, e
<1> QED
  BY <1>14, <1>15

\* No expression opens in the rest of a text if none opens from there on.
LEMMA RestWithout ==
    ASSUME NEW C, NEW s \in Seq(C), NEW i \in 1..Len(s), Opens(s, i) = {}
    PROVE  "${{" \notin ToSet(Rest(s, i))
<1> DEFINE N == Len(s)
           r == SubSeq(s, i, N)
           n == N - i + 1
<1>1. N \in Nat /\ i \in 1..N
  BY LenProperties
<1>2. \A k \in i..N : s[k] # "${{"
  BY Zenon DEF Opens
<1>3. Len(r) = n /\ r \in Seq(C) /\ \A k \in 1..n : r[k] = s[i + k - 1]
  <2>1. \A k \in i..N : s[k] \in C
    <3>1. \A k \in i..N : k \in 1..Len(s)
      BY <1>1
    <3> QED
      BY <3>1, ElementOfSeq
  <2>2. i \in Int /\ N \in Int /\ i <= N
    BY <1>1
  <2> HIDE DEF N
  <2>3. /\ SubSeq(s, i, N) \in Seq(C)
        /\ Len(SubSeq(s, i, N)) = IF i <= N THEN N - i + 1 ELSE 0
        /\ \A k \in 1..(N - i + 1) : SubSeq(s, i, N)[k] = s[i + k - 1]
    BY <2>1, <2>2, SubSeqProperties
  <2> QED
    BY <2>2, <2>3
<1>4. DOMAIN r = 1..n
  BY <1>3, LenProperties
<1>5. \A k \in 1..n : i + k - 1 \in i..N
  BY <1>1
<1> HIDE DEF r, n, N
<1>6. \A k \in DOMAIN r : r[k] # "${{"
  BY <1>2, <1>3, <1>4, <1>5, Zenon
<1>7. Rest(s, i) = r
  BY DEF Rest, r, N
<1> QED
  BY <1>6, <1>7, Zenon DEF ToSet

\* If every expression has an end, the parts are the text again and each of them is as it should be.
LEMMA ParseHolds ==
    ASSUME NEW C, HasBraces(C), NEW s \in Seq(C)
    PROVE  LET p == ParseInterpolation(s) IN
           p.ok => Unparsed(p.parts) = s /\ \A x \in DOMAIN p.parts : PartGood(p.parts[x])
<1> DEFINE N == Len(s)
           M == N + 1
<1>1. N \in Nat /\ M \in Nat
  BY LenProperties
<1>2. PICK f \in [1..M -> Parses(C)] :
         /\ ParseInterpolation(s) = f[1] /\ f[M] = [ok |-> TRUE, parts |-> <<>>]
         /\ \A i \in 1..N : f[i] = ParseStep(s, i, f[ParseNext(s, i)])
  BY ParseDefined
<1> DEFINE good(r) == \A x \in DOMAIN r : PartGood(r[x])
           T == {i \in 1..M : f[i].ok => Unparsed(f[i].parts) = SubSeq(s, i, N) /\ good(f[i].parts)}
<1>3. ASSUME NEW i \in 1..M, \A m \in (i + 1)..M : m \in T
      PROVE  i \in T
  <2>1. CASE i = M
    <3>1. f[i].parts = <<>>
      BY <2>1, <1>2
    <3>2. SubSeq(s, i, N) = <<>>
      BY <2>1, <1>1, SubSeqEmpty
    <3>3. DOMAIN <<>> = {}
      OBVIOUS
    <3>4. good(<<>>)
      BY <3>3
    <3> HIDE DEF good
    <3> QED
      BY <3>1, <3>2, <3>4, UnparsedNone
  <2>2. CASE i # M
    <3>1. i \in 1..N
      BY <2>2, <1>1
    <3> DEFINE j == ParseNext(s, i)
               later == f[j]
    <3>2. /\ \A v \in Parses(C) : ParseNext(s, i) \in (i + 1)..(N + 1)
          /\ f[i] = ParseStep(s, i, later)
      BY <3>1, <1>2, ParseSteps
    <3>3. j \in (i + 1)..M /\ later \in Parses(C)
      <4>1. f[M] \in Parses(C)
        BY <1>1, <1>2
      <4>2. j \in (i + 1)..M
        BY <3>2, <4>1
      <4>3. \A k \in (i + 1)..M : k \in 1..M
        BY <3>1
      <4> QED
        BY <4>2, <4>3, <1>2
    <3>4. later.ok => Unparsed(later.parts) = SubSeq(s, j, N) /\ good(later.parts)
      BY <3>3, <1>3
    <3> DEFINE o == Open(s, i)
               e == End(s, i)
    <3>5. CASE Opens(s, i) = {}
      <4>1. f[i].parts = << Literal(Rest(s, i)) >>
        BY <3>2, <3>5 DEF ParseStep
      <4> DEFINE lit == Literal(Rest(s, i))
      <4>2. Rest(s, i) = SubSeq(s, i, N) /\ Rest(s, i) \in Seq(C)
        <5>1. i \in Nat \ {0} /\ N \in Int /\ N <= Len(s)
          BY <3>1, <1>1
        <5> QED
          BY <5>1, SubSeqOf DEF Rest
      <4>3. lit \in Part(C) /\ PartText(lit) = Rest(s, i)
        BY <4>2 DEF Part, Literal, PartText
      <4>4. PartGood(lit)
        <5>1. "${{" \notin ToSet(Rest(s, i))
          BY <3>1, <3>5, RestWithout, Zenon
        <5> QED
          BY <5>1, Zenon DEF PartGood, Literal
      <4> HIDE DEF lit
      <4>5. << lit >> \o <<>> = << lit >> /\ <<>> \in Seq(Part(C))
        <5>1. << lit >> \in Seq(Part(C))
          BY <4>3, AloneOrTwice
        <5> QED
          BY <5>1, ConcatEmptySeq, EmptySeq
      <4>6. Unparsed(<< lit >> \o <<>>) = PartText(lit) \o Unparsed(<<>>) /\ good(<< lit >> \o <<>>)
        <5>1. \A x \in DOMAIN <<>> : PartGood(<<>>[x])
          OBVIOUS
        <5> QED
          BY <5>1, <4>3, <4>4, <4>5, UnparsedMore
      <4>7. PartText(lit) \o <<>> = PartText(lit)
        <5>1. PartText(lit) \in Seq(C)
          BY <4>2, <4>3
        <5> QED
          BY <5>1, ConcatEmptySeq
      <4> HIDE DEF good
      <4>8. Unparsed(f[i].parts) = SubSeq(s, i, N) /\ good(f[i].parts)
        BY <4>1, <4>2, <4>3, <4>5, <4>6, <4>7, UnparsedNone, Zenon DEF lit
      <4> QED
        BY <4>8
    <3>6. CASE Opens(s, i) # {} /\ e = 0
      <4>1. f[i].ok = FALSE
        BY <3>2, <3>6 DEF ParseStep
      <4> QED
        BY <4>1
    <3>7. CASE Opens(s, i) # {} /\ e # 0
      <4>1. SUFFICES ASSUME f[i].ok
                     PROVE  Unparsed(f[i].parts) = SubSeq(s, i, N) /\ good(f[i].parts)
        OBVIOUS
      <4>2. f[i] = IF later.ok THEN [ok |-> TRUE, parts |-> PartsAt(s, i, o, o + e) \o later.parts] ELSE later
        BY <3>2, <3>7 DEF ParseStep
      <4>3. later.ok /\ f[i].parts = PartsAt(s, i, o, o + e) \o later.parts
        <5>1. later.ok
          <6>1. SUFFICES ASSUME ~later.ok PROVE FALSE
            OBVIOUS
          <6>2. f[i] = later
            BY <6>1, <4>2, Zenon
          <6> QED
            BY <6>1, <6>2, <4>1, Zenon
        <5>2. f[i] = [ok |-> TRUE, parts |-> PartsAt(s, i, o, o + e) \o later.parts]
          BY <5>1, <4>2, Zenon
        <5> DEFINE q == PartsAt(s, i, o, o + e) \o later.parts
        <5>3. f[i] = [ok |-> TRUE, parts |-> q]
          BY <5>2
        <5> HIDE DEF q
        <5>4. f[i].parts = q
          BY <5>3
        <5> QED
          BY <5>1, <5>4, Zenon DEF q
      <4>4. j = o + e + 2
        BY <3>7 DEF ParseNext
      <4> DEFINE ps == later.parts
      <4>5. ps \in Seq(Part(C)) /\ good(ps) /\ Unparsed(ps) = SubSeq(s, o + e + 2, N)
        BY <3>3, <3>4, <4>3, <4>4 DEF Parses
      <4> HIDE DEF ps, j
      <4>6. /\ Unparsed(PartsAt(s, i, o, o + e) \o ps) = SubSeq(s, i, N)
            /\ good(PartsAt(s, i, o, o + e) \o ps)
        BY <3>1, <3>7, <4>5, PartsAtText
      <4> HIDE DEF good
      <4> QED
        BY <4>3, <4>6, Zenon DEF ps
    <3> QED
      BY <3>5, <3>6, <3>7
  <2> QED
    BY <2>1, <2>2
<1> HIDE DEF T
<1>4. 1 \in T
  <2> HIDE DEF M
  <2>1. 1 \in 1..M
    BY <1>1 DEF M
  <2> QED
    BY <2>1, <1>1, <1>3, DownFrom
<1>5. SubSeq(s, 1, N) = s
  BY SubSeqFull
<1>6. f[1].ok => Unparsed(f[1].parts) = s /\ good(f[1].parts)
  BY <1>4, <1>5 DEF T
<1> HIDE DEF good
<1> QED
  BY <1>2, <1>6, Zenon DEF good

LEMMA InterpolationHolds ==
    ASSUME NEW C, HasBraces(C), text \in Seq(C)
    PROVE  InterpolationSplitsText
<1> DEFINE p == ParseInterpolation(text)
<1>1. p.ok => Unparsed(p.parts) = text /\ \A x \in DOMAIN p.parts : PartGood(p.parts[x])
  BY ParseHolds
<1> HIDE DEF p
<1> QED
  BY <1>1, Zenon DEF InterpolationSplitsText, PartGood, p
-----------------------------------------------------------------------------
(* The theorem.                                                            *)

TextIInv == purpose \in Purposes /\ text \in Seq(Alphabet[purpose])

LEMMA TextStarts == TextInit => TextIInv
BY EmptySeq DEF TextInit, TextIInv

LEMMA TextSteps == TextIInv /\ [TextNext]_textVars => TextIInv'
<1> SUFFICES ASSUME TextIInv, [TextNext]_textVars
             PROVE  TextIInv'
  OBVIOUS
<1>1. CASE TextNext
  <2>1. PICK c \in Alphabet[purpose] : text' = Append(text, c)
    BY <1>1 DEF TextNext
  <2>2. purpose' = purpose /\ text \in Seq(Alphabet[purpose]) /\ purpose \in Purposes
    BY <1>1 DEF TextNext, TextIInv
  <2> DEFINE A == Alphabet[purpose]
  <2>3. Append(text, c) \in Seq(A)
    BY <2>2, AppendProperties
  <2> QED
    BY <2>1, <2>2, <2>3 DEF TextIInv
<1>2. CASE UNCHANGED textVars
  BY <1>2 DEF TextIInv, textVars
<1> QED
  BY <1>1, <1>2

LEMMA TextHolds == TextIInv => TextInv
<1> SUFFICES ASSUME TextIInv
             PROVE  TextInv
  OBVIOUS
<1>1. text \in Seq(Alphabet[purpose])
  BY DEF TextIInv
<1>2. ASSUME NEW C, Alphabet[purpose] \subseteq C
      PROVE  text \in Seq(C)
  BY <1>1, <1>2, SeqMonotonic
<1>3. FormatFillsPlaceholders
  <2>1. SUFFICES ASSUME purpose = "format"
                 PROVE  Format(Escaped(text) \o <<"{", "0", "}">> \o Escaped(text)) = text \o Arguments[1] \o text
    BY Zenon DEF FormatFillsPlaceholders
  <2>2. text \in Seq(Letters)
    BY <1>2, <2>1, LettersHave, Zenon
  <2> QED
    BY <2>2, FormatHolds, Zenon
<1>4. InterpolationSplitsText
  <2> DEFINE C == Alphabet[purpose] \cup {"${{", "}"}
  <2>1. HasBraces(C) /\ Alphabet[purpose] \subseteq C
    BY Zenon DEF HasBraces
  <2> HIDE DEF C
  <2>2. text \in Seq(C)
    BY <1>2, <2>1
  <2> QED
    BY <2>1, <2>2, InterpolationHolds
<1>5. GlobMatchesReference
  <2> DEFINE A == UNION {ToSet(Paths[i]) : i \in DOMAIN Paths}
  <2>1. Paths \in Seq(Seq(A))
    BY TextAssumption
  <2> HIDE DEF A
  <2>2. \A i \in DOMAIN Paths : Paths[i] \in Seq(A)
    BY <2>1, LenProperties, ElementOfSeq
  <2> SUFFICES ASSUME NEW i \in DOMAIN Paths
               PROVE  MatchParts(text, Paths[i]) = Matches(text, Paths[i])
    BY DEF GlobMatchesReference
  <2>3. Paths[i] \in Seq(A)
    BY <2>2
  <2> DEFINE B == Alphabet[purpose]
             path == Paths[i]
  <2> HIDE DEF B, path
  <2>4. text \in Seq(B) /\ path \in Seq(A)
    BY <1>1, <2>3 DEF B, path
  <2>5. MatchParts(text, path) = Matches(text, path)
    BY <2>4, MatchHolds
  <2> QED
    BY <2>5 DEF path
<1> QED
  BY <1>3, <1>4, <1>5, HashHolds DEF TextInv

\* format, the split of a text into literals and expressions, the glob patterns and hashFiles do what
\* they promise for every text, whatever the alphabet, the arguments and the files.
THEOREM TextsKept == TextInit /\ [][TextNext]_textVars => []TextInv
<1>1. TextIInv /\ [TextNext]_textVars => TextIInv'
  BY TextSteps
<1> QED
  BY <1>1, TextStarts, TextHolds, PTL


-----------------------------------------------------------------------------
(* The expressions up to a height.                                         *)

\* f has the expressions up to each height up to n.
HasTrees(f, n) ==
    /\ f[0] = Leaves(LeafTokens)
    /\ \A h \in 1..n : f[h] = Leaves(LeafTokens) \cup MadeOf(f[h - 1])

LEMMA HeightsAre == MaxHeight \in Nat /\ Len(Growths) \in Nat /\ Tallest \in Nat /\ Tallest = MaxHeight + Len(Growths) + 2
<1> DEFINE Q == Seq([operators : SUBSET UNION ToSet(Levels), operands : SUBSET Trees[MaxHeight]])
<1>1. Growths \in Q /\ MaxHeight \in Nat
  BY ExprAssumption
<1>2. Len(Growths) \in Nat
  BY <1>1
<1> QED
  BY <1>1, <1>2 DEF Tallest

\* The definition by recursion has a meaning.
LEMMA TreesDefined == HasTrees(Trees, Tallest)
<1> DEFINE N == Tallest
           T == {n \in 0..N : \E f : HasTrees(f, n)}
<1>n. N \in Nat
  BY HeightsAre
<1> HIDE DEF N
<1>1. 0 \in T
  <2> DEFINE f == [h \in 0..N |-> Leaves(LeafTokens)]
  <2>1. 0 \in 0..N /\ 1..0 = {}
    BY <1>n
  <2>2. HasTrees(f, 0)
    BY <2>1 DEF HasTrees
  <2> QED
    BY <2>1, <2>2
<1>2. ASSUME NEW n \in 1..N, n - 1 \in T
      PROVE  n \in T
  <2>1. PICK f : HasTrees(f, n - 1)
    BY <1>2
  <2> DEFINE g == [h \in 0..N |-> IF h = n THEN Leaves(LeafTokens) \cup MadeOf(f[n - 1]) ELSE f[h]]
  <2>2. n \in 0..N /\ n # 0 /\ 0 \in 0..N /\ n - 1 \in 0..N /\ n - 1 # n
    BY <1>2, <1>n
  <2>3. g[0] = Leaves(LeafTokens)
    BY <2>1, <2>2 DEF HasTrees
  <2>4. ASSUME NEW h \in 1..n
        PROVE  g[h] = Leaves(LeafTokens) \cup MadeOf(g[h - 1])
    <3>1. h \in 0..N /\ h - 1 \in 0..N /\ h - 1 # n
      BY <2>2, <2>4, <1>n
    <3>2. g[h - 1] = f[h - 1]
      BY <3>1
    <3>3. CASE h = n
      BY <3>1, <3>2, <3>3
    <3>4. CASE h # n
      <4>1. h \in 1..(n - 1)
        BY <2>2, <3>4
      <4>2. f[h] = Leaves(LeafTokens) \cup MadeOf(f[h - 1])
        BY <2>1, <4>1 DEF HasTrees
      <4> QED
        BY <3>1, <3>2, <3>4, <4>2
    <3> QED
      BY <3>3, <3>4
  <2> HIDE DEF g
  <2>5. HasTrees(g, n)
    BY <2>3, <2>4 DEF HasTrees
  <2> QED
    BY <2>2, <2>5
<1> HIDE DEF T
<1>3. \A n \in 0..N : n \in T
  BY <1>n, <1>1, <1>2, UpTo
<1>4. PICK f : HasTrees(f, N)
  BY <1>3, <1>n DEF T
<1> DEFINE IsTrees(g) == g = [h \in 0..N |-> IF h = 0 THEN Leaves(LeafTokens)
                                             ELSE Leaves(LeafTokens) \cup MadeOf(g[h - 1])]
           g == [h \in 0..N |-> f[h]]
<1>5. IsTrees(g)
  <2>1. ASSUME NEW h \in 0..N
        PROVE  f[h] = IF h = 0 THEN Leaves(LeafTokens) ELSE Leaves(LeafTokens) \cup MadeOf(g[h - 1])
    <3>1. CASE h = 0
      BY <1>4, <3>1 DEF HasTrees
    <3>2. CASE h # 0
      <4>1. h \in 1..N /\ h - 1 \in 0..N
        BY <1>n, <2>1, <3>2
      <4>2. f[h] = Leaves(LeafTokens) \cup MadeOf(f[h - 1]) /\ g[h - 1] = f[h - 1]
        BY <1>4, <4>1 DEF HasTrees
      <4> QED
        BY <3>2, <4>2
    <3> QED
      BY <3>1, <3>2
  <2> QED
    BY <2>1
<1> HIDE DEF g
<1>6. Trees = CHOOSE x : IsTrees(x)
  BY DEF Trees, N
<1>7. IsTrees(Trees)
  BY <1>5, <1>6
<1>8. \A h \in 0..N : Trees[h] = IF h = 0 THEN Leaves(LeafTokens)
                                 ELSE Leaves(LeafTokens) \cup MadeOf(Trees[h - 1])
  BY <1>7
<1>9. ASSUME NEW h \in 1..N
      PROVE  Trees[h] = Leaves(LeafTokens) \cup MadeOf(Trees[h - 1])
  <2>1. h \in 0..N /\ h # 0
    BY <1>n, <1>9
  <2> QED
    BY <2>1, <1>8
<1>10. Trees[0] = Leaves(LeafTokens)
  <2>1. 0 \in 0..N
    BY <1>n
  <2> QED
    BY <2>1, <1>8
<1> QED
  BY <1>9, <1>10 DEF HasTrees, N

Nodes(S) == Leaves(LeafTokens) \cup MadeOf(S)

LEMMA TreesAre ==
    /\ Trees[0] = Leaves(LeafTokens)
    /\ \A h \in 0..Tallest : h # 0 => h - 1 \in 0..Tallest /\ Trees[h] = Nodes(Trees[h - 1])
    /\ \A h \in 0..Tallest : Leaves(LeafTokens) \subseteq Trees[h]
BY TreesDefined, HeightsAre DEF HasTrees, Nodes

LEMMA MadeOfMore ==
    ASSUME NEW S, NEW R, S \subseteq R
    PROVE  Nodes(S) \subseteq Nodes(R)
<1>1. [op : {"!", "()"}, of : [1..1 -> S]] \subseteq [op : {"!", "()"}, of : [1..1 -> R]]
  OBVIOUS
<1>2. [op : (UNION ToSet(Levels)) \cup {"[]"}, of : S \X S] \subseteq [op : (UNION ToSet(Levels)) \cup {"[]"}, of : R \X R]
  OBVIOUS
<1>3. [op : {"."}, of : S \X Leaves(NameTokens \cup Keywords)]
          \subseteq [op : {"."}, of : R \X Leaves(NameTokens \cup Keywords)]
  OBVIOUS
<1>4. [op : {"call"}, of : [1..1 -> Leaves(NameTokens)] \cup (Leaves(NameTokens) \X S \X S)]
          \subseteq [op : {"call"}, of : [1..1 -> Leaves(NameTokens)] \cup (Leaves(NameTokens) \X R \X R)]
  OBVIOUS
<1> QED
  BY <1>1, <1>2, <1>3, <1>4 DEF MadeOf, Nodes

LEMMA TreesGrow ==
    \A h, k \in 0..Tallest : h <= k => Trees[h] \subseteq Trees[k]
<1> DEFINE N == Tallest
           T == {n \in 0..N : n # 0 => Trees[n - 1] \subseteq Trees[n]}
<1>n. N \in Nat
  BY HeightsAre
<1>t. /\ Trees[0] = Leaves(LeafTokens)
      /\ \A h \in 0..N : h # 0 => h - 1 \in 0..N /\ Trees[h] = Nodes(Trees[h - 1])
      /\ \A h \in 0..N : Leaves(LeafTokens) \subseteq Trees[h]
  BY TreesAre
<1> HIDE DEF N
<1>1. 0 \in T
  BY <1>n
<1>2. ASSUME NEW n \in 1..N, n - 1 \in T
      PROVE  n \in T
  <2>1. n \in 0..N /\ n # 0 /\ n - 1 \in 0..N
    BY <1>2, <1>n
  <2>2. CASE n - 1 = 0
    BY <2>1, <2>2, <1>t
  <2>3. CASE n - 1 # 0
    <3>1. Trees[(n - 1) - 1] \subseteq Trees[n - 1]
      BY <1>2, <2>3
    <3>2. Trees[n] = Nodes(Trees[n - 1]) /\ Trees[n - 1] = Nodes(Trees[(n - 1) - 1])
      BY <2>1, <2>3, <1>t
    <3> QED
      BY <2>1, <3>1, <3>2, MadeOfMore
  <2> QED
    BY <2>2, <2>3
<1> HIDE DEF T
<1>3. \A n \in 0..N : n \in T
  BY <1>n, <1>1, <1>2, UpTo
<1>4. \A n \in 0..N : n # 0 => Trees[n - 1] \subseteq Trees[n]
  BY <1>3 DEF T
<1>5. ASSUME NEW h \in 0..N
      PROVE  \A k \in 0..N : h <= k => Trees[h] \subseteq Trees[k]
  <2> DEFINE U == {k \in 0..N : h <= k => Trees[h] \subseteq Trees[k]}
  <2>1. 0 \in U
    BY <1>5, <1>n
  <2>2. ASSUME NEW k \in 1..N, k - 1 \in U
        PROVE  k \in U
    <3>1. k \in 0..N /\ k # 0 /\ k - 1 \in 0..N
      BY <2>2, <1>n
    <3>2. Trees[k - 1] \subseteq Trees[k]
      BY <3>1, <1>4
    <3>3. CASE h <= k - 1
      BY <3>1, <3>2, <3>3, <2>2
    <3>4. CASE h > k - 1
      BY <3>1, <3>4, <1>5
    <3> QED
      BY <3>1, <3>3, <3>4, <1>5
  <2> HIDE DEF U
  <2>3. \A k \in 0..N : k \in U
    BY <1>n, <2>1, <2>2, UpTo
  <2> QED
    BY <2>3 DEF U
<1> QED
  BY <1>5 DEF N

\* The parts of an expression are expressions, and not so high.
PartsIn(m, S) == \A i \in DOMAIN m.of : m.of[i] \in S

LEMMA PartsOf ==
    ASSUME NEW S, Leaves(LeafTokens) \subseteq S, NEW m \in Nodes(S)
    PROVE  PartsIn(m, S)
<1>l. Leaves(NameTokens \cup Keywords) \subseteq S /\ Leaves(NameTokens) \subseteq S
  BY ExprAssumption DEF Leaves
<1>1. CASE m \in Leaves(LeafTokens)
  BY <1>1 DEF Leaves, Node, PartsIn
<1>2. CASE m \in [op : {"!", "()"}, of : [1..1 -> S]]
  BY <1>2 DEF PartsIn
<1>3. CASE m \in [op : (UNION ToSet(Levels)) \cup {"[]"}, of : S \X S]
  BY <1>3 DEF PartsIn
<1>4. CASE m \in [op : {"."}, of : S \X Leaves(NameTokens \cup Keywords)]
  <2>1. m.of \in S \X Leaves(NameTokens \cup Keywords)
    BY <1>4
  <2>2. DOMAIN m.of = 1..2 /\ m.of[1] \in S /\ m.of[2] \in S
    BY <2>1, <1>l
  <2> QED
    BY <2>2 DEF PartsIn
<1>5. CASE m \in [op : {"call"}, of : [1..1 -> Leaves(NameTokens)] \cup (Leaves(NameTokens) \X S \X S)]
  BY <1>5, <1>l DEF PartsIn
<1> QED
  BY <1>1, <1>2, <1>3, <1>4, <1>5 DEF Nodes, MadeOf

LEMMA PartsBelow ==
    ASSUME NEW h \in 0..Tallest, NEW m \in Trees[h]
    PROVE  IF h = 0 THEN m.of = <<>> /\ DOMAIN m.of = {} ELSE h - 1 \in 0..Tallest /\ PartsIn(m, Trees[h - 1])
<1>1. CASE h = 0
  BY <1>1, TreesAre DEF Leaves, Node
<1>2. CASE h # 0
  BY <1>2, TreesAre, PartsOf
<1> QED
  BY <1>1, <1>2

LEMMA TreesAreExpressions ==
    /\ \A h \in 0..Tallest : Trees[h] \subseteq Expressions
    /\ \A m \in Expressions : PartsIn(m, Expressions)
<1>1. \A h \in 0..Tallest : Trees[h] \subseteq Expressions
  BY HeightsAre, TreesGrow DEF Expressions
<1>2. ASSUME NEW m \in Expressions
      PROVE  PartsIn(m, Expressions)
  BY <1>1, <1>2, HeightsAre, PartsBelow DEF Expressions, PartsIn
<1> QED
  BY <1>1, <1>2

-----------------------------------------------------------------------------
(* What an expression is worth.                                            *)

WorthParts(f, m, status) == Worth(m, [i \in DOMAIN m.of |-> f[m.of[i]]], status)

LEMMA EvalDefined ==
    ASSUME NEW status
    PROVE  \E f : /\ \A m \in Expressions : f[m] = WorthParts(f, m, status)
                  /\ \A m \in Expressions : Eval(m, status) = f[m]
<1> DEFINE N == Tallest
           T == {n \in 0..N : \E f : \A m \in Trees[n] : f[m] = WorthParts(f, m, status)}
<1>n. N \in Nat
  BY HeightsAre
<1>t. \A h \in 0..N : Trees[h] \subseteq Expressions
  BY TreesAreExpressions
<1>1. 0 \in T
  <2> DEFINE f == [m \in Expressions |-> Worth(m, [i \in {} |-> {}], status)]
  <2>1. ASSUME NEW m \in Trees[0]
        PROVE  f[m] = WorthParts(f, m, status)
    <3>1. DOMAIN m.of = {} /\ m \in Expressions
      BY <2>1, <1>n, <1>t, PartsBelow
    <3>2. [i \in DOMAIN m.of |-> f[m.of[i]]] = [i \in {} |-> {}]
      BY <3>1
    <3> QED
      BY <3>1, <3>2 DEF WorthParts
  <2> HIDE DEF f
  <2> QED
    BY <1>n, <2>1
<1>2. ASSUME NEW n \in 1..N, n - 1 \in T
      PROVE  n \in T
  <2>1. PICK f : \A m \in Trees[n - 1] : f[m] = WorthParts(f, m, status)
    BY <1>2
  <2> DEFINE g == [m \in Expressions |-> WorthParts(f, m, status)]
  <2>2. n \in 0..N /\ n # 0 /\ n - 1 \in 0..N
    BY <1>2, <1>n
  <2>3. \A m \in Trees[n - 1] : g[m] = f[m]
    BY <2>1, <2>2, <1>t
  <2>4. ASSUME NEW m \in Trees[n]
        PROVE  g[m] = WorthParts(g, m, status)
    <3>1. m \in Expressions /\ PartsIn(m, Trees[n - 1])
      BY <2>2, <2>4, <1>t, PartsBelow
    <3>2. \A i \in DOMAIN m.of : g[m.of[i]] = f[m.of[i]]
      BY <3>1, <2>3 DEF PartsIn
    <3>3. g[m] = WorthParts(f, m, status)
      BY <3>1
    <3> HIDE DEF g
    <3>4. [i \in DOMAIN m.of |-> g[m.of[i]]] = [i \in DOMAIN m.of |-> f[m.of[i]]]
      BY <3>2
    <3> QED
      BY <3>3, <3>4 DEF WorthParts
  <2> HIDE DEF g
  <2> QED
    BY <2>2, <2>4
<1> HIDE DEF T, N
<1>3. \A n \in 0..N : n \in T
  BY <1>n, <1>1, <1>2, UpTo
<1>4. PICK f : \A m \in Trees[N] : f[m] = WorthParts(f, m, status)
  BY <1>3, <1>n DEF T
<1> DEFINE IsWorth(g) == g = [m \in Expressions |-> Worth(m, [i \in DOMAIN m.of |-> g[m.of[i]]], status)]
           g == [m \in Expressions |-> f[m]]
<1>5. IsWorth(g)
  <2>1. ASSUME NEW m \in Expressions
        PROVE  f[m] = Worth(m, [i \in DOMAIN m.of |-> g[m.of[i]]], status)
    <3>1. PartsIn(m, Expressions)
      BY <2>1, TreesAreExpressions
    <3>2. \A i \in DOMAIN m.of : g[m.of[i]] = f[m.of[i]]
      BY <3>1 DEF PartsIn
    <3>3. f[m] = WorthParts(f, m, status)
      BY <1>4, <2>1 DEF N, Expressions
    <3> HIDE DEF g
    <3>4. [i \in DOMAIN m.of |-> g[m.of[i]]] = [i \in DOMAIN m.of |-> f[m.of[i]]]
      BY <3>2
    <3> QED
      BY <3>3, <3>4 DEF WorthParts
  <2> QED
    BY <2>1
<1> HIDE DEF g
<1> DEFINE v == CHOOSE x : IsWorth(x)
<1>6. IsWorth(v)
  BY <1>5
<1>7. ASSUME NEW m \in Expressions
      PROVE  Eval(m, status) = v[m]
  BY DEF Eval
<1> HIDE DEF v
<1>8. \A m \in Expressions : v[m] = WorthParts(v, m, status)
  BY <1>6 DEF WorthParts
<1> QED
  BY <1>7, <1>8

LEMMA EvalIs ==
    ASSUME NEW status, NEW m \in Expressions
    PROVE  /\ PartsIn(m, Expressions)
           /\ Eval(m, status) = Worth(m, [i \in DOMAIN m.of |-> Eval(m.of[i], status)], status)
<1>1. PICK f : /\ \A n \in Expressions : f[n] = WorthParts(f, n, status)
               /\ \A n \in Expressions : Eval(n, status) = f[n]
  BY EvalDefined
<1>2. PartsIn(m, Expressions)
  BY TreesAreExpressions
<1>3. \A i \in DOMAIN m.of : Eval(m.of[i], status) = f[m.of[i]]
  BY <1>1, <1>2 DEF PartsIn
<1>4. Eval(m, status) = WorthParts(f, m, status)
  BY <1>1
<1>5. [i \in DOMAIN m.of |-> Eval(m.of[i], status)] = [i \in DOMAIN m.of |-> f[m.of[i]]]
  BY <1>3
<1> QED
  BY <1>2, <1>4, <1>5 DEF WorthParts

-----------------------------------------------------------------------------
(* Values.                                                                 *)

LEMMA KindsAre ==
    ASSUME NEW v, IsValue(v)
    PROVE  \/ v.kind = "null" /\ v.of = {}
           \/ v.kind = "bool" /\ v.of \in {{TRUE}, {FALSE}}
           \/ v.kind = "number" /\ IsNumber(v.of)
           \/ v.kind = "string" /\ \E t \in DOMAIN TextNumber : v.of = {t} /\ TextOfValue(v) = t
           \/ v.kind = "array" /\ v.of \in Seq(DOMAIN TextNumber)
BY DEF IsValue, TextOfValue

LEMMA MadeValues ==
    /\ IsValue(Null)
    /\ \A b \in BOOLEAN : IsValue(Bool(b)) /\ IsTruthy(Bool(b)) = b
    /\ \A n : IsNumber(n) => IsValue(Number(n))
    /\ \A t \in DOMAIN TextNumber : IsValue(String(t))
BY DEF IsValue, Null, Bool, Number, String, IsTruthy

LEMMA TruthyIs ==
    ASSUME NEW v, IsValue(v)
    PROVE  IsTruthy(v) \in BOOLEAN
BY Zenon DEF IsValue, IsTruthy

LEMMA NumberOf ==
    ASSUME NEW v, IsValue(v)
    PROVE  IsNumber(CoerceToNumber(v))
<1>1. CASE v.kind = "string"
  BY <1>1, KindsAre, ExprAssumption DEF CoerceToNumber
<1>2. CASE v.kind = "number"
  BY <1>2, KindsAre DEF CoerceToNumber
<1>3. CASE v.kind \in {"null", "bool", "array"}
  <2>1. CoerceToNumber(v) \in {{}, {0}, {1}}
    BY <1>3 DEF CoerceToNumber
  <2> QED
    BY <2>1 DEF IsNumber
<1> QED
  BY <1>1, <1>2, <1>3, KindsAre

LEMMA CompareIs == \A op, a, b : Compare(op, a, b) \in BOOLEAN
BY DEF Compare

LEMMA EqualIs == \A a, b : EqualCompare(a, b) \in BOOLEAN
BY DEF EqualCompare

\* A result is an error or a value.
IsResult(r) ==
    \/ r = Error
    \/ r.ok = TRUE /\ IsValue(r.value) /\ r = Value(r.value)

LEMMA ResultsAre ==
    /\ IsResult(Error) /\ ~Error.ok
    /\ \A v : IsValue(v) => IsResult(Value(v)) /\ Value(v).ok /\ Value(v).value = v
<1>0. Error.ok = FALSE
  BY DEF Error
<1>1. IsResult(Error)
  BY Zenon DEF IsResult
<1>2. ASSUME NEW v, IsValue(v)
      PROVE  IsResult(Value(v)) /\ Value(v).ok /\ Value(v).value = v
  <2>1. Value(v).ok = TRUE /\ Value(v).value = v
    BY DEF Value
  <2> QED
    BY <1>2, <2>1 DEF IsResult
<1> QED
  BY <1>0, <1>1, <1>2

LEMMA IndexKeeps ==
    ASSUME NEW v, IsValue(v), NEW w, IsValue(w)
    PROVE  IsValue(IndexAccess(v, w))
<1>1. CASE v.kind = "array" /\ w.kind = "number" /\ \E n \in w.of : n + 1 \in DOMAIN v.of
  <2>1. PICK n \in w.of : n + 1 \in DOMAIN v.of
    BY <1>1
  <2>2. (CHOOSE x \in w.of : TRUE) = n
    BY <1>1, <2>1, KindsAre DEF IsNumber
  <2>3. v.of[n + 1] \in DOMAIN TextNumber
    <3>1. v.of \in Seq(DOMAIN TextNumber)
      BY <1>1, KindsAre
    <3> QED
      BY <3>1, <2>1
  <2> QED
    BY <1>1, <2>2, <2>3, MadeValues DEF IndexAccess
<1>2. CASE ~(v.kind = "array" /\ w.kind = "number" /\ \E n \in w.of : n + 1 \in DOMAIN v.of)
  BY <1>2, MadeValues DEF IndexAccess
<1> QED
  BY <1>1, <1>2

LEMMA FunctionsKeep ==
    ASSUME NEW v, IsValue(v), NEW w, IsValue(w)
    PROVE  IsResult(fnContains(v, w)) /\ IsResult(fnMin(v, w)) /\ IsResult(fnMax(v, w))
<1>1. IsResult(fnContains(v, w))
  <2> DEFINE p == \E i \in DOMAIN v.of : Fold[v.of[i]] = Fold[CoerceToString(w)]
             q == <<Fold[CoerceToString(w)], Fold[CoerceToString(v)]>> \in Within
             b == IF v.kind = "array" THEN p ELSE q
  <2>0. fnContains(v, w) = Value(Bool(b))
    BY DEF fnContains
  <2>1. p \in BOOLEAN /\ q \in BOOLEAN
    OBVIOUS
  <2> HIDE DEF p, q
  <2>2. b \in BOOLEAN
    BY <2>1
  <2> HIDE DEF b
  <2> QED
    BY <2>0, <2>2, MadeValues, ResultsAre
<1>2. IsNumber(CoerceToNumber(v)) /\ IsNumber(CoerceToNumber(w)) /\ IsNumber({})
  BY NumberOf DEF IsNumber
<1>3. IsResult(fnMin(v, w))
  BY <1>2, MadeValues, ResultsAre DEF fnMin
<1>4. IsResult(fnMax(v, w))
  BY <1>2, MadeValues, ResultsAre DEF fnMax
<1> QED
  BY <1>1, <1>3, <1>4

\* What is known of the parts of a node in MadeOf(S), one case for each form of it.
OneOf(m, S)  == m.of \in [1..1 -> S]
TwoOf(m, S, R)  == m.of \in S \X R /\ DOMAIN m.of = 1..2 /\ m.of[1] \in S /\ m.of[2] \in R

LEMMA LevelsAre ==
    /\ UNION ToSet(Levels) = {"||", "&&", "==", "!=", "<", "<=", ">", ">="}
    /\ DOMAIN Levels = 1..4
    /\ Levels[1] = {"||"} /\ Levels[2] = {"&&"} /\ Levels[3] = {"==", "!="} /\ Levels[4] = {"<", "<=", ">", ">="}
<1>1. /\ DOMAIN Levels = 1..4
      /\ Levels[1] = {"||"} /\ Levels[2] = {"&&"} /\ Levels[3] = {"==", "!="} /\ Levels[4] = {"<", "<=", ">", ">="}
  BY DEF Levels
<1>2. ToSet(Levels) = {Levels[1], Levels[2], Levels[3], Levels[4]}
  <2>1. 1..4 = {1, 2, 3, 4}
    OBVIOUS
  <2>2. ToSet(Levels) = {Levels[i] : i \in {1, 2, 3, 4}}
    BY <1>1, <2>1 DEF ToSet
  <2> QED
    BY <2>2, Zenon
<1>3. UNION ToSet(Levels) = Levels[1] \cup Levels[2] \cup Levels[3] \cup Levels[4]
  BY <1>2, Zenon
<1> HIDE DEF Levels
<1> QED
  BY <1>1, <1>3

\* The forms of an expression.
LEMMA FormsAre ==
    ASSUME NEW S, NEW m \in Nodes(S)
    PROVE  /\ m = Node(m.op, m.of)
           /\ \/ m.op \in LeafTokens /\ m.of = <<>> /\ DOMAIN m.of = {}
              \/ m.op \in {"!", "()"} /\ DOMAIN m.of = {1} /\ m.of # <<>>
              \/ m.op \in (UNION ToSet(Levels)) \cup {"[]", "."} /\ DOMAIN m.of = {1, 2} /\ m.of # <<>>
              \/ m.op = "call" /\ DOMAIN m.of = {1} /\ m.of # <<>> /\ m.of = <<m.of[1]>> /\ m.of[1].op \in NameTokens
              \/ m.op = "call" /\ DOMAIN m.of = {1, 2, 3} /\ m.of # <<>> /\ m.of = <<m.of[1], m.of[2], m.of[3]>>
                 /\ m.of[1].op \in NameTokens
<1>1. CASE m \in Leaves(LeafTokens)
  BY <1>1 DEF Leaves, Node
<1>2. CASE m \in [op : {"!", "()"}, of : [1..1 -> S]]
  BY <1>2 DEF Node
<1>3. CASE m \in [op : (UNION ToSet(Levels)) \cup {"[]"}, of : S \X S]
  BY <1>3 DEF Node
<1>4. CASE m \in [op : {"."}, of : S \X Leaves(NameTokens \cup Keywords)]
  <2>1. m = Node(".", m.of) /\ m.op = "."
    BY <1>4 DEF Node
  <2>2. m.of \in S \X Leaves(NameTokens \cup Keywords)
    BY <1>4
  <2>3. DOMAIN m.of = {1, 2} /\ m.of # <<>>
    BY <2>2
  <2>4. m.op \in (UNION ToSet(Levels)) \cup {"[]", "."}
    <3>1. m.op = "."
      BY <2>1
    <3> QED
      BY <3>1
  <2> QED
    BY <2>1, <2>3, <2>4
<1>5. CASE m \in [op : {"call"}, of : [1..1 -> Leaves(NameTokens)] \cup (Leaves(NameTokens) \X S \X S)]
  <2>0. m = Node("call", m.of) /\ m.op = "call"
    BY <1>5 DEF Node
  <2>1. CASE m.of \in [1..1 -> Leaves(NameTokens)]
    <3>1. DOMAIN m.of = {1} /\ m.of[1] \in Leaves(NameTokens)
      BY <2>1
    <3>2. m.of = <<m.of[1]>> /\ m.of # <<>>
      BY <2>1
    <3>3. m.of[1].op \in NameTokens
      BY <3>1 DEF Leaves, Node
    <3> QED
      BY <2>0, <3>1, <3>2, <3>3
  <2>2. CASE m.of \in Leaves(NameTokens) \X S \X S
    <3>1. DOMAIN m.of = {1, 2, 3} /\ m.of[1] \in Leaves(NameTokens)
      BY <2>2
    <3>2. m.of = <<m.of[1], m.of[2], m.of[3]>> /\ m.of # <<>>
      BY <2>2
    <3>3. m.of[1].op \in NameTokens
      BY <3>1 DEF Leaves, Node
    <3> QED
      BY <2>0, <3>1, <3>2, <3>3
  <2> QED
    BY <1>5, <2>1, <2>2
<1> QED
  BY <1>1, <1>2, <1>3, <1>4, <1>5 DEF Nodes, MadeOf

-----------------------------------------------------------------------------
(* What an expression is worth is a value or an error.                     *)

Comparing == {"==", "!=", "<", "<=", ">", ">="}

\* The worth of a node, one case for each form of it.
LEMMA WorthOfForms ==
    ASSUME NEW m, NEW r, NEW status
    PROVE  /\ m.of = <<>> /\ m.op \in LeafTokens => Worth(m, r, status) = Value(LeafValue[m.op])
           /\ m.of # <<>> =>
                /\ m.op = "()" => Worth(m, r, status) = r[1]
                /\ m.op = "!" => Worth(m, r, status) = IF r[1].ok THEN Value(Bool(~IsTruthy(r[1].value))) ELSE Error
                /\ m.op \in {"&&", "||"} =>
                      Worth(m, r, status) = IF ~r[1].ok \/ Decides(m.op, r[1].value) THEN r[1] ELSE r[2]
                /\ m.op \in Comparing =>
                      Worth(m, r, status) =
                        IF ~r[1].ok \/ ~r[2].ok THEN Error
                        ELSE Value(Bool(CASE m.op = "==" -> EqualCompare(r[1].value, r[2].value)
                                          [] m.op = "!=" -> ~EqualCompare(r[1].value, r[2].value)
                                          [] OTHER -> Compare(m.op, r[1].value, r[2].value)))
                /\ m.op = "." => Worth(m, r, status) = IF r[1].ok THEN Value(Null) ELSE Error
                /\ m.op = "[]" => Worth(m, r, status) =
                      IF r[1].ok /\ r[2].ok THEN Value(IndexAccess(r[1].value, r[2].value)) ELSE Error
                /\ m.op = "call" => Worth(m, r, status) =
                      IF m.of[1].op \in StatusFunctions THEN CallStatus(m.of[1].op, Tail(m.of), status)
                      ELSE CallFunction(m.of[1].op, Tail(r))
<1>1. m.of = <<>> /\ m.op \in LeafTokens => Worth(m, r, status) = Value(LeafValue[m.op])
  <2>1. ASSUME m.op \in LeafTokens
        PROVE  m.op \notin {"()", "call", "!", ".", "[]", "||", "&&", "==", "!=", "<", "<=", ">", ">="}
    BY <2>1, ExprAssumption, LevelsAre, Zenon DEF Reserved
  <2> QED
    BY <2>1 DEF Worth
<1>2. m.of # <<>> /\ m.op = "()" => Worth(m, r, status) = r[1]
  BY DEF Worth
<1>3. m.of # <<>> /\ m.op = "!" => Worth(m, r, status) = IF r[1].ok THEN Value(Bool(~IsTruthy(r[1].value))) ELSE Error
  BY DEF Worth
<1>4. m.of # <<>> /\ m.op \in {"&&", "||"} =>
         Worth(m, r, status) = IF ~r[1].ok \/ Decides(m.op, r[1].value) THEN r[1] ELSE r[2]
  BY DEF Worth
<1>5. m.of # <<>> /\ m.op = "." => Worth(m, r, status) = IF r[1].ok THEN Value(Null) ELSE Error
  BY DEF Worth
<1>6. m.of # <<>> /\ m.op = "[]" => Worth(m, r, status) =
         IF r[1].ok /\ r[2].ok THEN Value(IndexAccess(r[1].value, r[2].value)) ELSE Error
  BY DEF Worth
<1>7. m.of # <<>> /\ m.op = "call" => Worth(m, r, status) =
         IF m.of[1].op \in StatusFunctions THEN CallStatus(m.of[1].op, Tail(m.of), status)
         ELSE CallFunction(m.of[1].op, Tail(r))
  BY DEF Worth
<1>8. m.of # <<>> /\ m.op \in Comparing =>
         Worth(m, r, status) =
            IF ~r[1].ok \/ ~r[2].ok THEN Error
            ELSE Value(Bool(CASE m.op = "==" -> EqualCompare(r[1].value, r[2].value)
                              [] m.op = "!=" -> ~EqualCompare(r[1].value, r[2].value)
                              [] OTHER -> Compare(m.op, r[1].value, r[2].value)))
  BY DEF Worth, Comparing
<1> QED
  BY <1>1, <1>2, <1>3, <1>4, <1>5, <1>6, <1>7, <1>8

LEMMA ConnectiveKeeps ==
    ASSUME NEW op, NEW a, IsResult(a), NEW b, IsResult(b)
    PROVE  IsResult(IF ~a.ok \/ Decides(op, a.value) THEN a ELSE b)
OBVIOUS

LEMMA ComparisonKeeps ==
    ASSUME NEW op, NEW a, IsResult(a), NEW b, IsResult(b)
    PROVE  IsResult(IF ~a.ok \/ ~b.ok THEN Error
                    ELSE Value(Bool(CASE op = "==" -> EqualCompare(a.value, b.value)
                                      [] op = "!=" -> ~EqualCompare(a.value, b.value)
                                      [] OTHER -> Compare(op, a.value, b.value))))
<1> DEFINE c == CASE op = "==" -> EqualCompare(a.value, b.value)
                  [] op = "!=" -> ~EqualCompare(a.value, b.value)
                  [] OTHER -> Compare(op, a.value, b.value)
<1>1. c \in BOOLEAN
  <2>1. EqualCompare(a.value, b.value) \in BOOLEAN /\ Compare(op, a.value, b.value) \in BOOLEAN
    BY CompareIs, EqualIs
  <2> QED
    BY <2>1
<1> HIDE DEF c
<1>2. IsResult(Value(Bool(c))) /\ IsResult(Error)
  BY <1>1, MadeValues, ResultsAre
<1>3. CASE ~a.ok \/ ~b.ok
  BY <1>2, <1>3
<1>4. CASE ~(~a.ok \/ ~b.ok)
  BY <1>2, <1>4, Zenon DEF c
<1> QED
  BY <1>3, <1>4

LEMMA ResultIs ==
    ASSUME NEW r, IsResult(r)
    PROVE  r.ok \in BOOLEAN /\ (r.ok => IsValue(r.value) /\ r = Value(r.value)) /\ (~r.ok => r = Error)
<1>1. CASE r = Error
  BY <1>1, ResultsAre DEF Error
<1>2. CASE r.ok = TRUE /\ IsValue(r.value) /\ r = Value(r.value)
  BY <1>2
<1> QED
  BY <1>1, <1>2 DEF IsResult

LEMMA WorthKeeps ==
    ASSUME NEW status, NEW S, NEW m \in Nodes(S), NEW r, DOMAIN r = DOMAIN m.of,
           \A i \in DOMAIN r : IsResult(r[i]), r \in Seq({r[i] : i \in DOMAIN r})
    PROVE  IsResult(Worth(m, r, status))
<1>f. /\ m = Node(m.op, m.of)
      /\ \/ m.op \in LeafTokens /\ m.of = <<>> /\ DOMAIN m.of = {}
         \/ m.op \in {"!", "()"} /\ DOMAIN m.of = {1} /\ m.of # <<>>
         \/ m.op \in (UNION ToSet(Levels)) \cup {"[]", "."} /\ DOMAIN m.of = {1, 2} /\ m.of # <<>>
         \/ m.op = "call" /\ DOMAIN m.of = {1} /\ m.of # <<>> /\ m.of = <<m.of[1]>> /\ m.of[1].op \in NameTokens
         \/ m.op = "call" /\ DOMAIN m.of = {1, 2, 3} /\ m.of # <<>> /\ m.of = <<m.of[1], m.of[2], m.of[3]>>
            /\ m.of[1].op \in NameTokens
  BY FormsAre
<1>1. CASE m.op \in LeafTokens /\ m.of = <<>>
  <2>1. IsValue(LeafValue[m.op])
    BY <1>1, ExprAssumption
  <2> QED
    BY <1>1, <2>1, ResultsAre, WorthOfForms
<1>2. CASE m.op \in {"!", "()"} /\ DOMAIN m.of = {1} /\ m.of # <<>>
  <2>1. IsResult(r[1])
    BY <1>2
  <2>2. CASE m.op = "()"
    BY <1>2, <2>1, <2>2, WorthOfForms
  <2>3. CASE m.op = "!"
    <3> DEFINE b == ~IsTruthy(r[1].value)
    <3>1. Worth(m, r, status) = IF r[1].ok THEN Value(Bool(b)) ELSE Error
      BY <1>2, <2>3, WorthOfForms
    <3>2. b \in BOOLEAN
      OBVIOUS
    <3> HIDE DEF b
    <3>3. IsResult(Value(Bool(b))) /\ IsResult(Error)
      BY <3>2, MadeValues, ResultsAre
    <3> QED
      BY <3>1, <3>3
  <2> QED
    BY <1>2, <2>2, <2>3
<1>3. CASE m.op \in (UNION ToSet(Levels)) \cup {"[]", "."} /\ DOMAIN m.of = {1, 2} /\ m.of # <<>>
  <2>1. IsResult(r[1]) /\ IsResult(r[2])
    BY <1>3
  <2>2. m.op \in {"&&", "||", "[]", "."} \/ m.op \in Comparing
    BY <1>3, LevelsAre DEF Comparing
  <2>3. CASE m.op \in {"&&", "||"}
    BY <1>3, <2>1, <2>3, WorthOfForms, ConnectiveKeeps
  <2>4. CASE m.op \in Comparing
    <3>1. Worth(m, r, status) =
             IF ~r[1].ok \/ ~r[2].ok THEN Error
             ELSE Value(Bool(CASE m.op = "==" -> EqualCompare(r[1].value, r[2].value)
                               [] m.op = "!=" -> ~EqualCompare(r[1].value, r[2].value)
                               [] OTHER -> Compare(m.op, r[1].value, r[2].value)))
      BY <1>3, <2>4, WorthOfForms
    <3>2. IsResult(IF ~r[1].ok \/ ~r[2].ok THEN Error
                   ELSE Value(Bool(CASE m.op = "==" -> EqualCompare(r[1].value, r[2].value)
                                     [] m.op = "!=" -> ~EqualCompare(r[1].value, r[2].value)
                                     [] OTHER -> Compare(m.op, r[1].value, r[2].value))))
      BY <2>1, ComparisonKeeps
    <3> QED
      BY <3>1, <3>2, Zenon
  <2>5. CASE m.op = "."
    BY <1>3, <2>5, WorthOfForms, MadeValues, ResultsAre
  <2>6. CASE m.op = "[]"
    <3>1. Worth(m, r, status) = IF r[1].ok /\ r[2].ok THEN Value(IndexAccess(r[1].value, r[2].value)) ELSE Error
      BY <1>3, <2>6, WorthOfForms
    <3>2. CASE r[1].ok /\ r[2].ok
      BY <2>1, <3>1, <3>2, ResultIs, IndexKeeps, ResultsAre
    <3>3. CASE ~(r[1].ok /\ r[2].ok)
      BY <3>1, <3>3, ResultsAre
    <3> QED
      BY <3>2, <3>3
  <2> QED
    BY <2>2, <2>3, <2>4, <2>5, <2>6
<1>4. CASE m.op = "call" /\ m.of # <<>> /\ DOMAIN m.of \in {{1}, {1, 2, 3}}
  <2>1. Worth(m, r, status) = IF m.of[1].op \in StatusFunctions THEN CallStatus(m.of[1].op, Tail(m.of), status)
                              ELSE CallFunction(m.of[1].op, Tail(r))
    BY <1>4, WorthOfForms
  <2>2. IsResult(CallStatus(m.of[1].op, Tail(m.of), status))
    <3> DEFINE b == m.of[1].op = "always" \/ m.of[1].op = status
    <3>1. b \in BOOLEAN
      OBVIOUS
    <3>2. CallStatus(m.of[1].op, Tail(m.of), status) = IF Tail(m.of) # <<>> THEN Error ELSE Value(Bool(b))
      BY DEF CallStatus
    <3> HIDE DEF b
    <3> QED
      BY <3>1, <3>2, MadeValues, ResultsAre
  <2>3. IsResult(CallFunction(m.of[1].op, Tail(r)))
    <3> DEFINE name == m.of[1].op
               args == Tail(r)
    <3>1. CASE name \notin {"contains", "min", "max"} \/ Len(args) # 2 \/ \E i \in DOMAIN args : ~args[i].ok
      BY <3>1, ResultsAre DEF CallFunction
    <3>2. CASE ~(name \notin {"contains", "min", "max"} \/ Len(args) # 2 \/ \E i \in DOMAIN args : ~args[i].ok)
      <4>1. Len(args) = 2 /\ r # <<>>
        BY <1>4, <3>2
      <4>2. args \in Seq({r[i] : i \in DOMAIN r})
        BY <4>1
      <4>3. /\ DOMAIN args = 1..2
            /\ args[1] \in {r[i] : i \in DOMAIN r} /\ args[2] \in {r[i] : i \in DOMAIN r}
        <5>1. Len(args) \in Nat /\ DOMAIN args = 1..Len(args)
          BY <4>2
        <5> HIDE DEF args
        <5>2. DOMAIN args = 1..2 /\ 1 \in DOMAIN args /\ 2 \in DOMAIN args
          BY <4>1, <5>1
        <5> QED
          <6> DEFINE R == {r[i] : i \in DOMAIN r}
          <6>1. args \in Seq(R) /\ 1 \in 1..Len(args) /\ 2 \in 1..Len(args)
            BY <4>1, <4>2
          <6> HIDE DEF R
          <6>2. args[1] \in R /\ args[2] \in R
            BY <6>1, ElementOfSeq
          <6> QED
            BY <5>2, <6>2 DEF R
      <4>4. args[1].ok /\ args[2].ok /\ IsResult(args[1]) /\ IsResult(args[2])
        <5>1. 1 \in DOMAIN args /\ 2 \in DOMAIN args
          BY <4>3
        <5> HIDE DEF args
        <5> QED
          BY <3>2, <4>3, <5>1
      <4>5. IsValue(args[1].value) /\ IsValue(args[2].value)
        BY <4>4, ResultIs
      <4> HIDE DEF args, name
      <4>6. CallFunction(name, args) \in {fnContains(args[1].value, args[2].value),
                                          fnMin(args[1].value, args[2].value), fnMax(args[1].value, args[2].value)}
        BY <3>2 DEF CallFunction
      <4>7. IsResult(CallFunction(name, args))
        BY <4>5, <4>6, FunctionsKeep
      <4> QED
        BY <4>7 DEF name, args
    <3> QED
      BY <3>1, <3>2
  <2> QED
    BY <2>1, <2>2, <2>3
<1> QED
  BY <1>f, <1>1, <1>2, <1>3, <1>4

LEMMA EvalKeeps ==
    ASSUME NEW status
    PROVE  \A m \in Expressions : IsResult(Eval(m, status))
<1> DEFINE N == Tallest
           T == {n \in 0..N : \A m \in Trees[n] : IsResult(Eval(m, status))}
<1>n. N \in Nat
  BY HeightsAre
<1>t. \A h \in 0..N : Trees[h] \subseteq Expressions
  BY TreesAreExpressions
<1>1. ASSUME NEW n \in 0..N, n # 0 => n - 1 \in T
      PROVE  n \in T
  <2>1. ASSUME NEW m \in Trees[n]
        PROVE  IsResult(Eval(m, status))
    <3> DEFINE r == [i \in DOMAIN m.of |-> Eval(m.of[i], status)]
    <3>1. m \in Expressions /\ Eval(m, status) = Worth(m, r, status)
      BY <2>1, <1>1, <1>t, EvalIs
    <3>2. \E S : m \in Nodes(S)
      <4>1. CASE n = 0
        BY <2>1, <4>1, TreesAre DEF Nodes
      <4>2. CASE n # 0
        BY <2>1, <4>2, <1>1, TreesAre
      <4> QED
        BY <4>1, <4>2
    <3>3. PICK S : m \in Nodes(S)
      BY <3>2
    <3>4. \A i \in DOMAIN m.of : IsResult(Eval(m.of[i], status))
      BY <2>1, <1>1, PartsBelow DEF PartsIn
    <3>5. DOMAIN r = DOMAIN m.of /\ \A i \in DOMAIN r : IsResult(r[i])
      BY <3>4
    <3>6. DOMAIN m.of \in {{}, {1}, {1, 2}, {1, 2, 3}}
      BY <3>3, FormsAre
    <3>7. DOMAIN m.of \in {1..0, 1..1, 1..2, 1..3}
      <4>1. 1..0 = {} /\ 1..1 = {1} /\ 1..2 = {1, 2} /\ 1..3 = {1, 2, 3}
        OBVIOUS
      <4> QED
        BY <3>6, <4>1
    <3>8. r \in Seq({r[i] : i \in DOMAIN r})
      <4>1. PICK k \in {0, 1, 2, 3} : DOMAIN m.of = 1..k
        BY <3>7
      <4>2. r \in [1..k -> {r[i] : i \in DOMAIN r}] /\ k \in Nat
        BY <4>1
      <4> HIDE DEF r
      <4> QED
        BY <4>2
    <3> HIDE DEF r
    <3> QED
      BY <3>1, <3>3, <3>5, <3>8, WorthKeeps
  <2> QED
    BY <2>1
<1> HIDE DEF T
<1>2. \A n \in 0..N : n \in T
  <2>1. 0 \in T
    BY <1>1, <1>n
  <2>2. ASSUME NEW n \in 1..N, n - 1 \in T
        PROVE  n \in T
    <3>1. n \in 0..N
      BY <2>2, <1>n
    <3> QED
      BY <3>1, <2>2, <1>1
  <2> HIDE DEF N
  <2> QED
    BY <1>n, <2>1, <2>2, UpTo
<1> QED
  BY <1>2, <1>n DEF T, Expressions

-----------------------------------------------------------------------------
(* The laws of logic.                                                      *)

LEMMA NodeIn ==
    ASSUME NEW h \in 0..Tallest, h + 1 \in 0..Tallest, NEW x \in Trees[h]
    PROVE  /\ \A op \in {"!", "()"} : Node(op, <<x>>) \in Trees[h + 1]
           /\ \A y \in Trees[h] : \A op \in (UNION ToSet(Levels)) \cup {"[]"} : Node(op, <<x, y>>) \in Trees[h + 1]
           /\ \A f \in Leaves(NameTokens \cup Keywords) : Node(".", <<x, f>>) \in Trees[h + 1]
           /\ \A f \in Leaves(NameTokens) :
                 Node("call", <<f>>) \in Trees[h + 1] /\ Node("call", <<f, x, f>>) \in Trees[h + 1]
<1>1. Trees[h + 1] = Leaves(LeafTokens) \cup MadeOf(Trees[h])
  <2>1. h + 1 # 0 /\ (h + 1) - 1 = h
    BY HeightsAre
  <2> QED
    BY <2>1, TreesAre DEF Nodes
<1> DEFINE S == Trees[h]
<1>2. MadeOf(S) \subseteq Trees[h + 1] /\ x \in S
  BY <1>1
<1> HIDE DEF S
<1>3. ASSUME NEW op \in {"!", "()"}
      PROVE  Node(op, <<x>>) \in MadeOf(S)
  <2>1. <<x>> \in [1..1 -> S]
    BY <1>2
  <2>2. [op |-> op, of |-> <<x>>] \in [op : {"!", "()"}, of : [1..1 -> S]]
    BY <2>1
  <2> QED
    BY <2>2 DEF Node, MadeOf
<1>4. ASSUME NEW y \in S, NEW op \in (UNION ToSet(Levels)) \cup {"[]"}
      PROVE  Node(op, <<x, y>>) \in MadeOf(S)
  <2>1. [op |-> op, of |-> <<x, y>>] \in [op : (UNION ToSet(Levels)) \cup {"[]"}, of : S \X S]
    BY <1>2
  <2> QED
    BY <2>1 DEF Node, MadeOf
<1>5. ASSUME NEW f \in Leaves(NameTokens \cup Keywords)
      PROVE  Node(".", <<x, f>>) \in MadeOf(S)
  <2>1. [op |-> ".", of |-> <<x, f>>] \in [op : {"."}, of : S \X Leaves(NameTokens \cup Keywords)]
    BY <1>2
  <2> QED
    BY <2>1 DEF Node, MadeOf
<1>6. ASSUME NEW f \in Leaves(NameTokens)
      PROVE  Node("call", <<f>>) \in MadeOf(S) /\ Node("call", <<f, x, f>>) \in MadeOf(S)
  <2> DEFINE C == [1..1 -> Leaves(NameTokens)] \cup (Leaves(NameTokens) \X S \X S)
  <2>1. <<f>> \in C
    <3>1. <<f>> \in [1..1 -> Leaves(NameTokens)]
      OBVIOUS
    <3> QED
      BY <3>1
  <2>2. <<f, x, f>> \in C
    <3>1. Leaves(NameTokens) \subseteq Leaves(LeafTokens)
      BY ExprAssumption DEF Leaves
    <3>2. f \in S
      BY <3>1, TreesAre DEF S
    <3> QED
      BY <1>2, <3>2
  <2>3. MadeOf(S) = [op : {"!", "()"}, of : [1..1 -> S]]
                    \cup [op : (UNION ToSet(Levels)) \cup {"[]"}, of : S \X S]
                    \cup [op : {"."}, of : S \X Leaves(NameTokens \cup Keywords)]
                    \cup [op : {"call"}, of : C]
    BY DEF MadeOf
  <2> HIDE DEF C
  <2>4. [op |-> "call", of |-> <<f>>] \in [op : {"call"}, of : C]
    BY <2>1
  <2>5. [op |-> "call", of |-> <<f, x, f>>] \in [op : {"call"}, of : C]
    BY <2>2
  <2> QED
    BY <2>3, <2>4, <2>5 DEF Node
<1> QED
  BY <1>2, <1>3, <1>4, <1>5, <1>6 DEF S

\* What a negation and a connective are worth.
LEMMA NotIs ==
    ASSUME NEW s, NEW x, Node("!", <<x>>) \in Expressions
    PROVE  x \in Expressions /\
           Eval(Node("!", <<x>>), s) = IF Eval(x, s).ok THEN Value(Bool(~IsTruthy(Eval(x, s).value))) ELSE Error
<1> DEFINE m == Node("!", <<x>>)
           r == [i \in DOMAIN m.of |-> Eval(m.of[i], s)]
<1>1. m.op = "!" /\ m.of = <<x>> /\ DOMAIN m.of = {1} /\ m.of[1] = x /\ m.of # <<>>
  BY DEF Node
<1>2. PartsIn(m, Expressions) /\ Eval(m, s) = Worth(m, r, s)
  BY EvalIs
<1>3. r[1] = Eval(x, s)
  BY <1>1
<1> HIDE DEF r, m
<1>4. Worth(m, r, s) = IF r[1].ok THEN Value(Bool(~IsTruthy(r[1].value))) ELSE Error
  BY <1>1, WorthOfForms
<1>5. x \in Expressions
  BY <1>1, <1>2 DEF PartsIn
<1>6. Eval(m, s) = IF Eval(x, s).ok THEN Value(Bool(~IsTruthy(Eval(x, s).value))) ELSE Error
  BY <1>2, <1>3, <1>4
<1> QED
  BY <1>5, <1>6 DEF m

LEMMA ConnectiveIs ==
    ASSUME NEW s, NEW x, NEW y, NEW op \in {"&&", "||"}, Node(op, <<x, y>>) \in Expressions
    PROVE  x \in Expressions /\ y \in Expressions /\
           Eval(Node(op, <<x, y>>), s) =
              IF ~Eval(x, s).ok \/ Decides(op, Eval(x, s).value) THEN Eval(x, s) ELSE Eval(y, s)
<1> DEFINE m == Node(op, <<x, y>>)
           r == [i \in DOMAIN m.of |-> Eval(m.of[i], s)]
<1>1. m.op = op /\ m.of = <<x, y>> /\ DOMAIN m.of = {1, 2} /\ m.of[1] = x /\ m.of[2] = y /\ m.of # <<>>
  BY DEF Node
<1>2. PartsIn(m, Expressions) /\ Eval(m, s) = Worth(m, r, s)
  BY EvalIs
<1>3. r[1] = Eval(x, s) /\ r[2] = Eval(y, s)
  BY <1>1
<1> HIDE DEF r, m
<1>4. Worth(m, r, s) = IF ~r[1].ok \/ Decides(m.op, r[1].value) THEN r[1] ELSE r[2]
  BY <1>1, WorthOfForms
<1>5. x \in Expressions /\ y \in Expressions
  BY <1>1, <1>2 DEF PartsIn
<1>6. Eval(m, s) = IF ~Eval(x, s).ok \/ Decides(op, Eval(x, s).value) THEN Eval(x, s) ELSE Eval(y, s)
  BY <1>1, <1>2, <1>3, <1>4
<1> QED
  BY <1>5, <1>6 DEF m

\* The condition that a result is.
TruthOf(r) == IF r.ok THEN {IsTruthy(r.value)} ELSE {}
Negated(r) == IF r.ok THEN Value(Bool(~IsTruthy(r.value))) ELSE Error
Joined(op, a, b) == IF ~a.ok \/ Decides(op, a.value) THEN a ELSE b

LEMMA NegatedIs ==
    ASSUME NEW r, IsResult(r)
    PROVE  /\ Negated(r).ok = r.ok
           /\ r.ok => /\ IsTruthy(r.value) \in BOOLEAN
                      /\ IsTruthy(Negated(r).value) = ~IsTruthy(r.value)
           /\ ~r.ok => Negated(r) = r
<1>1. CASE r.ok
  <2> DEFINE b == ~IsTruthy(r.value)
  <2>1. Negated(r) = Value(Bool(b)) /\ IsTruthy(r.value) \in BOOLEAN /\ r.ok = TRUE
    BY <1>1, ResultIs, TruthyIs DEF Negated
  <2>2. b \in BOOLEAN
    OBVIOUS
  <2>3. Value(Bool(b)).ok = TRUE /\ Value(Bool(b)).value = Bool(b)
    BY DEF Value
  <2>4. IsTruthy(Bool(b)) = b
    BY <2>2, MadeValues
  <2> QED
    BY <1>1, <2>1, <2>3, <2>4
<1>2. CASE ~r.ok
  BY <1>2, ResultIs DEF Negated
<1> QED
  BY <1>1, <1>2

LEMMA DeMorgan ==
    ASSUME NEW a, IsResult(a), NEW b, IsResult(b)
    PROVE  /\ TruthOf(Negated(Joined("&&", a, b))) = TruthOf(Joined("||", Negated(a), Negated(b)))
           /\ TruthOf(Negated(Joined("||", a, b))) = TruthOf(Joined("&&", Negated(a), Negated(b)))
<1>1. /\ Negated(a).ok = a.ok /\ Negated(b).ok = b.ok
      /\ a.ok \in BOOLEAN /\ b.ok \in BOOLEAN
      /\ a.ok => IsTruthy(a.value) \in BOOLEAN /\ IsTruthy(Negated(a).value) = ~IsTruthy(a.value)
      /\ ~a.ok => Negated(a) = a
  BY NegatedIs, ResultIs
<1>2. CASE ~a.ok
  BY <1>1, <1>2 DEF TruthOf, Joined
<1>3. CASE a.ok /\ IsTruthy(a.value)
  <2>1. /\ Joined("&&", a, b) = b /\ Joined("||", Negated(a), Negated(b)) = Negated(b)
        /\ Joined("||", a, b) = a /\ Joined("&&", Negated(a), Negated(b)) = Negated(a)
    BY <1>1, <1>3 DEF Joined, Decides
  <2> QED
    BY <2>1
<1>4. CASE a.ok /\ ~IsTruthy(a.value)
  <2>1. /\ Joined("&&", a, b) = a /\ Joined("||", Negated(a), Negated(b)) = Negated(a)
        /\ Joined("||", a, b) = b /\ Joined("&&", Negated(a), Negated(b)) = Negated(b)
    BY <1>1, <1>4 DEF Joined, Decides
  <2> QED
    BY <2>1
<1> QED
  BY <1>1, <1>2, <1>3, <1>4

LEMMA ExpressionsObeyDeMorgan ==
    ASSUME NEW s, NEW h \in 0..Tallest, h + 2 \in 0..Tallest, NEW x \in Trees[h], NEW y \in Trees[h]
    PROVE  LET negated == <<Node("!", <<x>>), Node("!", <<y>>)>> IN
           /\ Truth(Node("!", <<Node("&&", <<x, y>>)>>), s) = Truth(Node("||", negated), s)
           /\ Truth(Node("!", <<Node("||", <<x, y>>)>>), s) = Truth(Node("&&", negated), s)
<1>h. h + 1 \in 0..Tallest /\ (h + 1) + 1 \in 0..Tallest /\ (h + 1) + 1 = h + 2
  BY HeightsAre
<1> DEFINE nx == Node("!", <<x>>)
           ny == Node("!", <<y>>)
<1>1. "&&" \in UNION ToSet(Levels) /\ "||" \in UNION ToSet(Levels)
  BY LevelsAre
<1>2. ASSUME NEW op \in {"&&", "||"}
      PROVE  /\ Eval(Node("!", <<Node(op, <<x, y>>)>>), s) = Negated(Joined(op, Eval(x, s), Eval(y, s)))
             /\ Eval(Node(op, <<nx, ny>>), s) = Joined(op, Negated(Eval(x, s)), Negated(Eval(y, s)))
  <2>0. op \in (UNION ToSet(Levels)) \cup {"[]"}
    BY <1>1
  <2>1. Node(op, <<x, y>>) \in Trees[h + 1] /\ nx \in Trees[h + 1] /\ ny \in Trees[h + 1]
    BY <2>0, <1>h, NodeIn
  <2> DEFINE xy == Node(op, <<x, y>>)
  <2>2. /\ xy \in Expressions /\ nx \in Expressions /\ ny \in Expressions
        /\ Node("!", <<xy>>) \in Expressions
        /\ Node(op, <<nx, ny>>) \in Expressions
    <3>1. Node("!", <<xy>>) \in Trees[(h + 1) + 1] /\ Node(op, <<nx, ny>>) \in Trees[(h + 1) + 1]
      <4> HIDE DEF xy, nx, ny
      <4> QED
        BY <2>0, <2>1, <1>h, NodeIn DEF xy
    <3> QED
      BY <2>1, <3>1, <1>h, TreesAreExpressions
  <2>3. Eval(nx, s) = Negated(Eval(x, s)) /\ Eval(ny, s) = Negated(Eval(y, s))
    BY <2>2, NotIs DEF Negated
  <2>4. Eval(xy, s) = Joined(op, Eval(x, s), Eval(y, s))
    BY <2>2, ConnectiveIs DEF Joined
  <2> HIDE DEF xy, nx, ny
  <2>5. Eval(Node("!", <<xy>>), s) = Negated(Eval(xy, s))
    BY <2>2, NotIs DEF Negated
  <2>6. Eval(Node(op, <<nx, ny>>), s) = Joined(op, Eval(nx, s), Eval(ny, s))
    BY <2>2, ConnectiveIs DEF Joined
  <2> QED
    BY <2>3, <2>4, <2>5, <2>6 DEF xy
<1>3. IsResult(Eval(x, s)) /\ IsResult(Eval(y, s))
  BY EvalKeeps, TreesAreExpressions
<1>4. \A m : Truth(m, s) = TruthOf(Eval(m, s))
  BY DEF Truth, TruthOf
<1>5. /\ Eval(Node("!", <<Node("&&", <<x, y>>)>>), s) = Negated(Joined("&&", Eval(x, s), Eval(y, s)))
      /\ Eval(Node("||", <<nx, ny>>), s) = Joined("||", Negated(Eval(x, s)), Negated(Eval(y, s)))
      /\ Eval(Node("!", <<Node("||", <<x, y>>)>>), s) = Negated(Joined("||", Eval(x, s), Eval(y, s)))
      /\ Eval(Node("&&", <<nx, ny>>), s) = Joined("&&", Negated(Eval(x, s)), Negated(Eval(y, s)))
  BY <1>2
<1> HIDE DEF nx, ny
<1>6. /\ Truth(Node("!", <<Node("&&", <<x, y>>)>>), s) = Truth(Node("||", <<nx, ny>>), s)
      /\ Truth(Node("!", <<Node("||", <<x, y>>)>>), s) = Truth(Node("&&", <<nx, ny>>), s)
  BY <1>3, <1>4, <1>5, DeMorgan
<1> QED
  BY <1>6 DEF nx, ny

-----------------------------------------------------------------------------
(* Comparisons.                                                            *)

LEMMA EqualHasNoSides ==
    ASSUME NEW v, IsValue(v), NEW w, IsValue(w)
    PROVE  EqualCompare(v, w) = EqualCompare(w, v)
<1>1. CASE v.kind = w.kind
  BY <1>1 DEF EqualCompare
<1>2. CASE v.kind # w.kind
  BY <1>2 DEF EqualCompare
<1> QED
  BY <1>1, <1>2

LEMMA OrderAgrees ==
    ASSUME NEW v, IsValue(v), NEW w, IsValue(w)
    PROVE  /\ Compare("<", v, w) = Compare(">", w, v)
           /\ Compare("<=", v, w) => ~Compare(">", v, w)
           /\ EqualCompare(v, w) /\ {v.kind, w.kind} \subseteq {"bool", "number"} =>
                 Compare("<=", v, w) /\ Compare(">=", v, w)
<1> DEFINE M == CoerceToNumber(v)
           N == CoerceToNumber(w)
<1>1. /\ M \in SUBSET Int /\ N \in SUBSET Int
      /\ \A a, b \in M : a = b
      /\ \A a, b \in N : a = b
  BY NumberOf DEF IsNumber
<1>2. /\ Compare("<", v, w) = \E m \in M, n \in N : m < n
      /\ Compare("<=", v, w) = \E m \in M, n \in N : m <= n
      /\ Compare(">", v, w) = \E m \in M, n \in N : m > n
      /\ Compare(">=", v, w) = \E m \in M, n \in N : m >= n
      /\ Compare(">", w, v) = \E n \in N, m \in M : n > m
  BY DEF Compare
<1>3. EqualCompare(v, w) /\ {v.kind, w.kind} \subseteq {"bool", "number"} => M = N /\ M # {}
  <2> SUFFICES ASSUME EqualCompare(v, w), {v.kind, w.kind} \subseteq {"bool", "number"}
               PROVE  M = N /\ M # {}
    OBVIOUS
  <2>1. CASE v.kind = w.kind /\ v.kind = "number"
    BY <2>1 DEF EqualCompare, CoerceToNumber
  <2>2. CASE v.kind = w.kind /\ v.kind = "bool"
    BY <2>2 DEF EqualCompare, CoerceToNumber
  <2>3. CASE v.kind # w.kind
    BY <2>3 DEF EqualCompare
  <2> QED
    BY <2>1, <2>2, <2>3
<1> HIDE DEF M, N
<1>4. Compare("<", v, w) = Compare(">", w, v)
  <2>1. (\E m \in M, n \in N : m < n) <=> (\E n \in N, m \in M : n > m)
    BY <1>1
  <2>2. Compare("<", v, w) \in BOOLEAN /\ Compare(">", w, v) \in BOOLEAN
    BY CompareIs
  <2>3. Compare("<", v, w) <=> Compare(">", w, v)
    BY <1>2, <2>1, Zenon
  <2> QED
    BY <2>2, <2>3
<1>5. Compare("<=", v, w) => ~Compare(">", v, w)
  <2>1. ASSUME NEW m \in M, NEW n \in N, m <= n, NEW a \in M, NEW b \in N, a > b
        PROVE  FALSE
    <3>1. a = m /\ b = n
      BY <1>1, <2>1
    <3>2. m \in Int /\ n \in Int
      BY <1>1
    <3> QED
      BY <2>1, <3>1, <3>2
  <2>2. ~((\E m \in M, n \in N : m <= n) /\ (\E m \in M, n \in N : m > n))
    BY <2>1
  <2> QED
    BY <1>2, <2>2, Zenon
<1>6. M = N /\ M # {} => Compare("<=", v, w) /\ Compare(">=", v, w)
  <2>1. ASSUME M = N, M # {}
        PROVE  (\E m \in M, n \in N : m <= n) /\ (\E m \in M, n \in N : m >= n)
    <3>1. PICK m \in M : m \in N
      BY <2>1
    <3>2. m \in Int /\ m <= m /\ m >= m
      BY <1>1
    <3> QED
      BY <3>1, <3>2
  <2> QED
    BY <1>2, <2>1, Zenon
<1> QED
  BY <1>3, <1>4, <1>5, <1>6

-----------------------------------------------------------------------------
(* The expressions that are checked are expressions, of no more than the   *)
(* height that has been reached.                                           *)

ExprIInv ==
    /\ growth \in 0..Len(Growths)
    /\ expression \in Trees[MaxHeight + growth]

LEMMA ExprStarts == ExprInit => ExprIInv
<1> SUFFICES ASSUME ExprInit
             PROVE  ExprIInv
  OBVIOUS
<1>1. growth = 0 /\ growth \in 0..Len(Growths) /\ MaxHeight + growth \in 0..Tallest
  BY HeightsAre DEF ExprInit
<1>2. Leaves(LeafTokens) \subseteq Trees[MaxHeight + growth]
  BY <1>1, TreesAre
<1> QED
  BY <1>1, <1>2 DEF ExprInit, ExprIInv

LEMMA ExprSteps == ExprIInv /\ [ExprNext]_exprVars => ExprIInv'
<1> SUFFICES ASSUME ExprIInv, [ExprNext]_exprVars
             PROVE  ExprIInv'
  OBVIOUS
<1>1. CASE UNCHANGED exprVars
  BY <1>1 DEF exprVars, ExprIInv
<1>2. CASE ExprNext
  <2> DEFINE h == MaxHeight + growth
             S == Trees[h]
  <2>1. /\ growth' = growth + 1 /\ growth' \in 0..Len(Growths) /\ growth' \in 1..Len(Growths)
        /\ h \in 0..Tallest /\ h + 1 \in 0..Tallest /\ MaxHeight + growth' = h + 1
        /\ MaxHeight \in 0..Tallest /\ MaxHeight <= h
    BY <1>2, HeightsAre DEF ExprNext, ExprIInv
  <2>2. Trees[MaxHeight] \subseteq S
    BY <2>1, TreesGrow
  <2>3. Growths[growth'].operators \subseteq UNION ToSet(Levels) /\ Growths[growth'].operands \subseteq S
    <3> DEFINE R == [operators : SUBSET UNION ToSet(Levels), operands : SUBSET Trees[MaxHeight]]
    <3>1. Growths \in Seq(R)
      BY ExprAssumption
    <3> HIDE DEF R
    <3>2. Growths[growth'] \in R
      BY <3>1, <2>1, ElementOfSeq
    <3> QED
      BY <3>2, <2>2 DEF R
  <2>4. expression \in S
    BY DEF ExprIInv
  <2> HIDE DEF h
  <2>5. expression' \in Trees[h + 1]
    <3>1. CASE \E op \in Growths[growth'].operators, x \in Growths[growth'].operands :
                  expression' \in {Node(op, <<expression, x>>), Node(op, <<x, expression>>)}
      BY <3>1, <2>1, <2>3, <2>4, NodeIn
    <3>2. CASE \E op \in {"!", "()"} : expression' = Node(op, <<expression>>)
      BY <3>2, <2>1, <2>4, NodeIn
    <3>3. CASE \E x \in Growths[growth'].operands : expression' = Node("[]", <<x, expression>>)
      BY <3>3, <2>1, <2>3, <2>4, NodeIn
    <3>4. CASE \E f \in Leaves(NameTokens \cup Keywords) : expression' = Node(".", <<expression, f>>)
      BY <3>4, <2>1, <2>4, NodeIn
    <3>5. CASE \E f \in Leaves(NameTokens) :
                  expression' \in {Node("call", <<f>>), Node("call", <<f, expression, f>>)}
      BY <3>5, <2>1, <2>4, NodeIn
    <3> QED
      BY <1>2, <3>1, <3>2, <3>3, <3>4, <3>5 DEF ExprNext
  <2> QED
    BY <2>1, <2>5 DEF ExprIInv
<1> QED
  BY <1>1, <1>2

LEMMA AgreementHolds == ExprIInv => EvaluationAgrees
<1> SUFFICES ASSUME ExprIInv
             PROVE  EvaluationAgrees
  OBVIOUS
<1> DEFINE h == MaxHeight + growth
<1>1. h \in 0..Tallest /\ h + 2 \in 0..Tallest /\ MaxHeight \in 0..Tallest /\ MaxHeight <= h
  BY HeightsAre DEF ExprIInv
<1>2. expression \in Trees[h] /\ Operands \subseteq Trees[h]
  BY <1>1, TreesGrow, ExprAssumption DEF ExprIInv
<1>3. expression \in Expressions /\ Operands \subseteq Expressions
  BY <1>1, <1>2, TreesAreExpressions
<1> HIDE DEF h
<1>4. ConditionsObeyDeMorgan
  <2> SUFFICES ASSUME NEW x \in Operands, NEW s \in {"success", "failure"},
                      NEW pair \in {<<expression, x>>, <<x, expression>>}
               PROVE  LET negated == <<Node("!", <<pair[1]>>), Node("!", <<pair[2]>>)>> IN
                      /\ Truth(Node("!", <<Node("&&", pair)>>), s) = Truth(Node("||", negated), s)
                      /\ Truth(Node("!", <<Node("||", pair)>>), s) = Truth(Node("&&", negated), s)
    BY DEF ConditionsObeyDeMorgan
  <2>1. pair[1] \in Trees[h] /\ pair[2] \in Trees[h] /\ pair = <<pair[1], pair[2]>>
    BY <1>2
  <2> DEFINE a == pair[1]
             b == pair[2]
             negated == <<Node("!", <<a>>), Node("!", <<b>>)>>
  <2>2. /\ Truth(Node("!", <<Node("&&", <<a, b>>)>>), s) = Truth(Node("||", negated), s)
        /\ Truth(Node("!", <<Node("||", <<a, b>>)>>), s) = Truth(Node("&&", negated), s)
    BY <1>1, <2>1, ExpressionsObeyDeMorgan
  <2>3. pair = <<a, b>>
    BY <2>1
  <2> HIDE DEF negated
  <2>4. /\ Truth(Node("!", <<Node("&&", pair)>>), s) = Truth(Node("||", negated), s)
        /\ Truth(Node("!", <<Node("||", pair)>>), s) = Truth(Node("&&", negated), s)
    BY <2>2, <2>3, Zenon
  <2> QED
    BY <2>4 DEF negated
<1>5. ComparisonsAgree
  <2> SUFFICES ASSUME NEW x \in Operands,
                      Eval(expression, "success").ok, Eval(x, "success").ok
               PROVE  LET v == Eval(expression, "success")
                          w == Eval(x, "success")
                      IN  /\ EqualCompare(v.value, w.value) = EqualCompare(w.value, v.value)
                          /\ Compare("<", v.value, w.value) = Compare(">", w.value, v.value)
                          /\ Compare("<=", v.value, w.value) => ~Compare(">", v.value, w.value)
                          /\ EqualCompare(v.value, w.value) /\ {v.value.kind, w.value.kind} \subseteq {"bool", "number"} =>
                                Compare("<=", v.value, w.value) /\ Compare(">=", v.value, w.value)
    BY DEF ComparisonsAgree
  <2> DEFINE v == Eval(expression, "success").value
             w == Eval(x, "success").value
  <2>1. IsValue(v) /\ IsValue(w)
    BY <1>3, EvalKeeps, ResultIs
  <2> HIDE DEF v, w
  <2>2. /\ EqualCompare(v, w) = EqualCompare(w, v)
        /\ Compare("<", v, w) = Compare(">", w, v)
        /\ Compare("<=", v, w) => ~Compare(">", v, w)
        /\ EqualCompare(v, w) /\ {v.kind, w.kind} \subseteq {"bool", "number"} =>
              Compare("<=", v, w) /\ Compare(">=", v, w)
    BY <2>1, EqualHasNoSides, OrderAgrees
  <2> QED
    BY <2>2 DEF v, w
<1> QED
  BY <1>4, <1>5 DEF EvaluationAgrees

\* Whatever the names, literals and texts are and whatever is put around them, conditions obey the
\* laws of logic and comparisons agree with each other (evaluator.go, coercion.go).
THEOREM EvaluationKept == ExprInit /\ [][ExprNext]_exprVars => []EvaluationAgrees
<1>1. ExprInit => ExprIInv
  BY ExprStarts
<1>2. ExprIInv /\ [ExprNext]_exprVars => ExprIInv'
  BY ExprSteps
<1>3. ExprIInv => EvaluationAgrees
  BY AgreementHolds
<1> QED
  BY <1>1, <1>2, <1>3, PTL

-----------------------------------------------------------------------------
(* How the parser goes through the tokens.                                 *)

\* What has been parsed further to the right.
Later(F, ts, i) == [j \in (i + 1)..(Len(ts) + 1) |-> F[j]]

\* F has what is parsed from each position on.
ParsesFrom(F, ts) == \A i \in 1..(Len(ts) + 1) : F[i] = ParseLevel(ts, Later(F, ts, i), i)

LEMMA ParsingDefined ==
    ASSUME NEW C, NEW ts \in Seq(C)
    PROVE  \E F : /\ ParsesFrom(F, ts)
                  /\ Parse(ts) = IF F[1][1].ok /\ F[1][1].at = Len(ts) + 1 THEN F[1][1] ELSE Fails
<1> DEFINE M == Len(ts) + 1
           Good(f, n) == \A i \in n..M : f[i] = ParseLevel(ts, Later(f, ts, i), i)
           T == {n \in 1..M : \E f : Good(f, n)}
<1>n. M \in Nat /\ 1 <= M
  OBVIOUS
<1> HIDE DEF M
<1>1. ASSUME NEW n \in 1..M, \A m \in (n + 1)..M : m \in T
      PROVE  n \in T
  <2>1. \E f : Good(f, n + 1)
    <3>1. CASE n = M
      <4>1. (n + 1)..M = {}
        BY <3>1, <1>n
      <4>2. \A f : Good(f, n + 1)
        BY <4>1
      <4> QED
        BY <4>2
    <3>2. CASE n # M
      <4>1. n + 1 \in (n + 1)..M
        BY <1>1, <1>n, <3>2
      <4> QED
        BY <4>1, <1>1
    <3> QED
      BY <3>1, <3>2
  <2>2. PICK f : Good(f, n + 1)
    BY <2>1
  <2> DEFINE g == [i \in 1..M |-> IF i = n THEN ParseLevel(ts, Later(f, ts, n), n) ELSE f[i]]
  <2>3. ASSUME NEW i \in n..M
        PROVE  g[i] = ParseLevel(ts, Later(g, ts, i), i)
    <3>1. i \in 1..M /\ \A j \in (i + 1)..M : j \in 1..M /\ j # n
      BY <1>1, <1>n, <2>3
    <3>2. \A j \in (i + 1)..M : g[j] = f[j]
      BY <3>1
    <3>3. g[i] = IF i = n THEN ParseLevel(ts, Later(f, ts, n), n) ELSE f[i]
      BY <3>1
    <3> HIDE DEF g
    <3>4. Later(g, ts, i) = Later(f, ts, i)
      BY <3>2 DEF Later, M
    <3>5. CASE i = n
      BY <3>3, <3>4, <3>5
    <3>6. CASE i # n
      <4>1. i \in (n + 1)..M
        BY <1>1, <1>n, <2>3, <3>6
      <4>2. f[i] = ParseLevel(ts, Later(f, ts, i), i)
        BY <2>2, <4>1
      <4> QED
        BY <3>3, <3>4, <3>6, <4>2
    <3> QED
      BY <3>5, <3>6
  <2> HIDE DEF g
  <2>4. Good(g, n)
    BY <2>3
  <2> QED
    BY <2>4
<1> HIDE DEF T
<1>2. \A n \in 1..M : n \in T
  BY <1>n, <1>1, DownFrom
<1>3. PICK f : Good(f, 1)
  BY <1>2, <1>n DEF T
<1> DEFINE IsFrom(q) == q = [i \in 1..M |-> ParseLevel(ts, [j \in (i + 1)..M |-> q[j]], i)]
           g == [i \in 1..M |-> f[i]]
<1>4. IsFrom(g)
  <2>1. ASSUME NEW i \in 1..M
        PROVE  f[i] = ParseLevel(ts, [j \in (i + 1)..M |-> g[j]], i)
    <3>1. \A j \in (i + 1)..M : g[j] = f[j]
      BY <1>n
    <3>2. f[i] = ParseLevel(ts, Later(f, ts, i), i)
      BY <1>3
    <3> HIDE DEF g
    <3>3. [j \in (i + 1)..M |-> g[j]] = Later(f, ts, i)
      BY <3>1 DEF Later, M
    <3> QED
      BY <3>2, <3>3
  <2> QED
    BY <2>1
<1> HIDE DEF g
<1> DEFINE F == CHOOSE q : IsFrom(q)
<1>5. IsFrom(F)
  BY <1>4
<1>6. Parse(ts) = IF F[1][1].ok /\ F[1][1].at = M THEN F[1][1] ELSE Fails
  BY DEF Parse, M
<1> HIDE DEF F
<1>7. \A i \in 1..M : F[i] = ParseLevel(ts, [j \in (i + 1)..M |-> F[j]], i)
  BY <1>5
<1>8. ParsesFrom(F, ts)
  BY <1>7 DEF ParsesFrom, Later, M
<1> QED
  BY <1>6, <1>8 DEF M

\* The loops: kind 0 of arguments, the others by level.
Continued(ts, later, kind, p) ==
    IF kind = 0 THEN ParseArg(ts, later, p)
    ELSE IF kind = Postfix THEN ParsePostfix(ts, later, p)
    ELSE ParseBinary(ts, later, kind, p)

Loops(f, ts, later, kind, p, n) ==
    /\ f[0] = p
    /\ \A k \in 1..n : f[k] = Continued(ts, later, kind, f[k - 1])

IsLoop(f, n, ts, later, kind, p) ==
    f = [k \in 0..n |-> IF k = 0 THEN p ELSE Continued(ts, later, kind, f[k - 1])]

LEMMA LoopExists ==
    ASSUME NEW N \in Nat, NEW ts, NEW later, NEW kind, NEW p
    PROVE  \E f : IsLoop(f, N, ts, later, kind, p)
<1> DEFINE T == {n \in 0..N : \E f : Loops(f, ts, later, kind, p, n)}
<1>1. 0 \in T
  <2> DEFINE f == [k \in 0..N |-> p]
  <2>1. 0 \in 0..N /\ 1..0 = {}
    OBVIOUS
  <2>2. Loops(f, ts, later, kind, p, 0)
    BY <2>1 DEF Loops
  <2> QED
    BY <2>1, <2>2
<1>2. ASSUME NEW n \in 1..N, n - 1 \in T
      PROVE  n \in T
  <2>1. PICK f : Loops(f, ts, later, kind, p, n - 1)
    BY <1>2
  <2> DEFINE g == [h \in 0..N |-> IF h = n THEN Continued(ts, later, kind, f[n - 1]) ELSE f[h]]
  <2>2. n \in 0..N /\ n # 0 /\ 0 \in 0..N /\ n - 1 \in 0..N /\ n - 1 # n
    BY <1>2
  <2>3. g[0] = p
    BY <2>1, <2>2 DEF Loops
  <2>4. ASSUME NEW h \in 1..n
        PROVE  g[h] = Continued(ts, later, kind, g[h - 1])
    <3>1. h \in 0..N /\ h - 1 \in 0..N /\ h - 1 # n
      BY <2>2, <2>4
    <3>2. g[h - 1] = f[h - 1]
      BY <3>1
    <3>3. g[h] = IF h = n THEN Continued(ts, later, kind, f[n - 1]) ELSE f[h]
      BY <3>1
    <3> HIDE DEF g
    <3>4. CASE h = n
      BY <3>2, <3>3, <3>4
    <3>5. CASE h # n
      <4>1. h \in 1..(n - 1)
        BY <2>2, <3>5
      <4>2. f[h] = Continued(ts, later, kind, f[h - 1])
        BY <2>1, <4>1 DEF Loops
      <4> QED
        BY <3>2, <3>3, <3>5, <4>2
    <3> QED
      BY <3>4, <3>5
  <2> HIDE DEF g
  <2>5. Loops(g, ts, later, kind, p, n)
    BY <2>3, <2>4 DEF Loops
  <2> QED
    BY <2>2, <2>5
<1> HIDE DEF T
<1>3. \A n \in 0..N : n \in T
  BY <1>1, <1>2, UpTo
<1>4. PICK f : Loops(f, ts, later, kind, p, N)
  BY <1>3 DEF T
<1> DEFINE g == [k \in 0..N |-> f[k]]
<1>5. ASSUME NEW k \in 0..N
      PROVE  f[k] = IF k = 0 THEN p ELSE Continued(ts, later, kind, g[k - 1])
  <2>1. CASE k = 0
    BY <1>4, <2>1 DEF Loops
  <2>2. CASE k # 0
    <3>1. k \in 1..N /\ k - 1 \in 0..N
      BY <2>2
    <3>2. f[k] = Continued(ts, later, kind, f[k - 1]) /\ g[k - 1] = f[k - 1]
      BY <1>4, <3>1 DEF Loops
    <3> QED
      BY <2>2, <3>2
  <2> QED
    BY <2>1, <2>2
<1>6. g = [k \in 0..N |-> IF k = 0 THEN p ELSE Continued(ts, later, kind, g[k - 1])]
  BY <1>5
<1> HIDE DEF g
<1> QED
  BY <1>6 DEF IsLoop

\* The values a loop goes through.
Loop(ts, later, kind, p) == CHOOSE f : IsLoop(f, Len(ts), ts, later, kind, p)

LEMMA LoopIs ==
    ASSUME NEW C, NEW ts \in Seq(C), NEW later, NEW kind, NEW p
    PROVE  Loops(Loop(ts, later, kind, p), ts, later, kind, p, Len(ts))
<1> DEFINE N == Len(ts)
           f == Loop(ts, later, kind, p)
<1>1. N \in Nat
  OBVIOUS
<1> HIDE DEF N
<1>2. \E g : IsLoop(g, N, ts, later, kind, p)
  BY <1>1, LoopExists
<1>4. IsLoop(f, N, ts, later, kind, p)
  BY <1>2 DEF Loop, N
<1> HIDE DEF f
<1>5. \A k \in 0..N : f[k] = IF k = 0 THEN p ELSE Continued(ts, later, kind, f[k - 1])
  BY <1>4 DEF IsLoop
<1>6. ASSUME NEW k \in 1..N
      PROVE  f[k] = Continued(ts, later, kind, f[k - 1])
  <2>1. k \in 0..N /\ k # 0
    BY <1>6, <1>1
  <2> QED
    BY <2>1, <1>5
<1>7. f[0] = p
  BY <1>1, <1>5
<1> QED
  BY <1>6, <1>7 DEF Loops, f, N

\* A loop that has stopped stays where it is.
LEMMA LoopStays ==
    ASSUME NEW N \in Nat, NEW f, NEW ts, NEW later, NEW kind, NEW p, Loops(f, ts, later, kind, p, N),
           NEW k \in 0..N, Continued(ts, later, kind, f[k]) = f[k]
    PROVE  f[N] = f[k]
<1> DEFINE T == {m \in 0..(N - k) : f[k + m] = f[k]}
<1>1. k \in Nat /\ N - k \in Nat /\ 0 \in T
  OBVIOUS
<1>2. ASSUME NEW m \in 1..(N - k), m - 1 \in T
      PROVE  m \in T
  <2>1. k + m \in 1..N /\ (k + m) - 1 = k + (m - 1) /\ m \in 0..(N - k)
    BY <1>1, <1>2
  <2>2. f[k + m] = Continued(ts, later, kind, f[(k + m) - 1])
    BY <2>1 DEF Loops
  <2>3. f[k + (m - 1)] = f[k]
    BY <1>2
  <2> QED
    BY <2>1, <2>2, <2>3
<1> HIDE DEF T
<1>3. \A m \in 0..(N - k) : m \in T
  BY <1>1, <1>2, UpTo
<1>4. N - k \in 0..(N - k) /\ k + (N - k) = N
  BY <1>1
<1>5. N - k \in T
  BY <1>3, <1>4
<1> QED
  BY <1>4, <1>5 DEF T

LEMMA MoreIsLoop ==
    ASSUME NEW C, NEW ts \in Seq(C), NEW later, NEW level \in {1, 2, 3, 4, 6}, NEW p
    PROVE  ParseMore(ts, later, level, p) = Loop(ts, later, level, p)[Len(ts)]
<1> DEFINE Of(f) == f = [k \in 0..Len(ts) |->
                            IF k = 0 THEN p
                            ELSE IF level = Postfix THEN ParsePostfix(ts, later, f[k - 1])
                            ELSE ParseBinary(ts, later, level, f[k - 1])]
           Stops == ~(p.ok /\ Tok(ts, p.at) \in IF level = Postfix THEN {".", "[", "("} ELSE Levels[level])
<1>1. ParseMore(ts, later, level, p) = IF Stops THEN p ELSE (CHOOSE f : Of(f))[Len(ts)]
  BY DEF ParseMore
<1>2. level # 0
  OBVIOUS
<1>3. \A q : Continued(ts, later, level, q) = IF level = Postfix THEN ParsePostfix(ts, later, q)
                                            ELSE ParseBinary(ts, later, level, q)
  BY <1>2 DEF Continued
<1>4. ASSUME NEW f
      PROVE  Of(f) <=> IsLoop(f, Len(ts), ts, later, level, p)
  <2>1. [k \in 0..Len(ts) |-> IF k = 0 THEN p
                              ELSE IF level = Postfix THEN ParsePostfix(ts, later, f[k - 1])
                              ELSE ParseBinary(ts, later, level, f[k - 1])]
        = [k \in 0..Len(ts) |-> IF k = 0 THEN p ELSE Continued(ts, later, level, f[k - 1])]
    BY <1>3
  <2> QED
    BY <2>1 DEF IsLoop
<1> HIDE DEF Of
<1>5. (CHOOSE f : Of(f)) = (CHOOSE f : IsLoop(f, Len(ts), ts, later, level, p))
  BY <1>4
<1>6. ASSUME Stops
      PROVE  Loop(ts, later, level, p)[Len(ts)] = p
  <2> DEFINE f == Loop(ts, later, level, p)
  <2>1. Loops(f, ts, later, level, p, Len(ts)) /\ Len(ts) \in Nat
    BY LoopIs
  <2> HIDE DEF f
  <2>2. f[0] = p /\ 0 \in 0..Len(ts)
    BY <2>1 DEF Loops
  <2>3. Continued(ts, later, level, p) = p
    <3>1. CASE level = 6
      BY <1>6, <3>1 DEF Continued, Postfix, ParsePostfix
    <3>2. CASE level # 6
      BY <1>2, <1>6, <3>2 DEF Continued, Postfix, ParseBinary
    <3> QED
      BY <3>1, <3>2
  <2>4. f[Len(ts)] = f[0]
    BY <2>1, <2>2, <2>3, LoopStays
  <2> QED
    BY <2>2, <2>4 DEF f
<1>7. (CHOOSE f : Of(f))[Len(ts)] = Loop(ts, later, level, p)[Len(ts)]
  BY <1>5 DEF Loop
<1> HIDE DEF Stops
<1> QED
  BY <1>1, <1>6, <1>7

\* What is parsed at each level.
LEMMA LevelIs ==
    ASSUME NEW ts, NEW later, NEW i
    PROVE  LET at == ParseLevel(ts, later, i) IN
           /\ at[6] = ParseMore(ts, later, 6, ParsePrimary(ts, later, i))
           /\ at[5] = IF Tok(ts, i) # "!" THEN at[6]
                      ELSE IF later[i + 1][5].ok
                           THEN Parsed(Node("!", <<later[i + 1][5].node>>), later[i + 1][5].at) ELSE Fails
           /\ \A level \in 1..4 : at[level] = ParseMore(ts, later, level, at[level + 1])
<1> DEFINE Bang(last) == IF Tok(ts, i) # "!" THEN last
                         ELSE IF later[i + 1][NotOperand].ok
                              THEN Parsed(Node("!", <<later[i + 1][NotOperand].node>>), later[i + 1][NotOperand].at)
                              ELSE Fails
           Of(f) == f = [level \in 1..Postfix |->
                            IF level = Postfix THEN ParseMore(ts, later, Postfix, ParsePrimary(ts, later, i))
                            ELSE IF level < NotOperand THEN ParseMore(ts, later, level, f[level + 1])
                            ELSE Bang(f[Postfix])]
           at == ParseLevel(ts, later, i)
<1>1. at = CHOOSE f : Of(f)
  BY DEF ParseLevel
<1> HIDE DEF at
<1> DEFINE a6 == ParseMore(ts, later, Postfix, ParsePrimary(ts, later, i))
           a5 == Bang(a6)
           a4 == ParseMore(ts, later, 4, a5)
           a3 == ParseMore(ts, later, 3, a4)
           a2 == ParseMore(ts, later, 2, a3)
           a1 == ParseMore(ts, later, 1, a2)
           g == [level \in 1..6 |-> IF level = 6 THEN a6 ELSE IF level = 5 THEN a5 ELSE IF level = 4 THEN a4
                                    ELSE IF level = 3 THEN a3 ELSE IF level = 2 THEN a2 ELSE a1]
<1>2. Postfix = 6 /\ NotOperand = 5
  BY DEF Postfix, NotOperand
<1> HIDE DEF Bang
<1>3. g[6] = a6 /\ g[5] = a5 /\ g[4] = a4 /\ g[3] = a3 /\ g[2] = a2 /\ g[1] = a1
  OBVIOUS
<1>4. ASSUME NEW level \in 1..6
      PROVE  g[level] = IF level = 6 THEN a6
                        ELSE IF level < 5 THEN ParseMore(ts, later, level, g[level + 1])
                        ELSE Bang(g[6])
  <2>1. level \in {1, 2, 3, 4, 5, 6}
    OBVIOUS
  <2> HIDE DEF g, a6
  <2>2. CASE level = 6
    BY <2>2, <1>3
  <2>3. CASE level = 5
    BY <2>3, <1>3
  <2>4. CASE level = 4
    BY <2>4, <1>3
  <2>5. CASE level = 3
    BY <2>5, <1>3
  <2>6. CASE level = 2
    BY <2>6, <1>3
  <2>7. CASE level = 1
    BY <2>7, <1>3
  <2> QED
    BY <2>1, <2>2, <2>3, <2>4, <2>5, <2>6, <2>7
<1>5. g = [level \in 1..6 |-> g[level]]
  OBVIOUS
<1> HIDE DEF g, a6
<1>6. Of(g)
  <2>1. g = [level \in 1..6 |-> IF level = 6 THEN a6
                                ELSE IF level < 5 THEN ParseMore(ts, later, level, g[level + 1])
                                ELSE Bang(g[6])]
    BY <1>4, <1>5
  <2> QED
    BY <2>1, <1>2 DEF a6
<1>7. Of(at)
  BY <1>1, <1>6
<1>8. \A level \in 1..6 : at[level] = IF level = 6 THEN a6
                                      ELSE IF level < 5 THEN ParseMore(ts, later, level, at[level + 1])
                                      ELSE Bang(at[6])
  BY <1>7, <1>2 DEF a6
<1> HIDE DEF Of
<1>9. at[6] = a6 /\ at[5] = Bang(at[6])
  BY <1>8
<1>10. \A level \in 1..4 : at[level] = ParseMore(ts, later, level, at[level + 1])
  BY <1>8
<1> QED
  BY <1>2, <1>9, <1>10 DEF at, a6, Bang

LEMMA SameItems ==
    ASSUME NEW S, NEW s \in Seq(S), NEW t \in Seq(S), Len(s) = Len(t), \A i \in 1..Len(s) : s[i] = t[i]
    PROVE  s = t
<1>1. s = [i \in 1..Len(s) |-> s[i]] /\ t = [i \in 1..Len(s) |-> t[i]]
  OBVIOUS
<1> QED
  BY <1>1

LEMMA AppendToOne ==
    ASSUME NEW a, NEW b
    PROVE  Append(<<a>>, b) = <<a, b>>
<1> DEFINE S == {a, b}
<1>0. a \in S /\ b \in S
  OBVIOUS
<1> HIDE DEF S
<1>1. <<a>> \in Seq(S) /\ <<a, b>> \in Seq(S) /\ Len(<<a>>) = 1 /\ Len(<<a, b>>) = 2
  BY <1>0
<1>2. <<a>>[1] = a /\ <<a, b>>[1] = a /\ <<a, b>>[2] = b
  BY <1>0
<1>3. Append(<<a>>, b) \in Seq(S) /\ Len(Append(<<a>>, b)) = 2 
  BY <1>1, <1>0
<1>4. Append(<<a>>, b)[1] = a /\ Append(<<a>>, b)[2] = b
  BY <1>1, <1>2, <1>0
<1>5. \A i \in 1..2 : i = 1 \/ i = 2
  OBVIOUS
<1>6. \A i \in 1..2 : Append(<<a>>, b)[i] = <<a, b>>[i]
  BY <1>2, <1>4, <1>5
<1> QED
  BY <1>1, <1>3, <1>6, SameItems

LEMMA OneAndTwo ==
    ASSUME NEW a, NEW b, NEW c
    PROVE  <<a>> \o <<b, c>> = <<a, b, c>>
<1> DEFINE S == {a, b, c}
<1>0. a \in S /\ b \in S /\ c \in S
  OBVIOUS
<1> HIDE DEF S
<1> DEFINE x == <<a>>
           y == <<b, c>>
           z == <<a, b, c>>
<1>1. x \in Seq(S) /\ y \in Seq(S) /\ z \in Seq(S) /\ Len(x) = 1 /\ Len(y) = 2 /\ Len(z) = 3
  BY <1>0
<1>2. x[1] = a /\ y[1] = b /\ y[2] = c /\ z[1] = a /\ z[2] = b /\ z[3] = c
  BY <1>0
<1> HIDE DEF x, y, z
<1>j. /\ x \o y \in Seq(S) /\ Len(x \o y) = Len(x) + Len(y)
      /\ \A i \in 1..Len(x) : (x \o y)[i] = x[i]
      /\ \A i \in 1..Len(y) : (x \o y)[Len(x) + i] = y[i]
  <2>1. x \in Seq(S) /\ y \in Seq(S)
    BY <1>1
  <2> QED
    BY <2>1
<1> DEFINE w == x \o y
<1> HIDE DEF w
<1>3. w \in Seq(S) /\ Len(w) = 3
  BY <1>1, <1>j DEF w
<1>4. w[1] = a /\ w[2] = b /\ w[3] = c
  <2>1. \A i \in 1..1 : w[i] = x[i]
    BY <1>1, <1>j DEF w
  <2>2. \A i \in 1..2 : w[1 + i] = y[i]
    BY <1>1, <1>j DEF w
  <2>3. 1 \in 1..1 /\ 1 \in 1..2 /\ 2 \in 1..2 /\ 1 + 1 = 2 /\ 1 + 2 = 3
    OBVIOUS
  <2>4. w[1] = x[1] /\ w[1 + 1] = y[1] /\ w[1 + 2] = y[2]
    BY <2>1, <2>2, <2>3
  <2> QED
    BY <1>2, <2>3, <2>4
<1>5. \A i \in 1..3 : i = 1 \/ i = 2 \/ i = 3
  OBVIOUS
<1>6. \A i \in 1..3 : w[i] = z[i]
  BY <1>2, <1>4, <1>5
<1>7. w = z
  BY <1>1, <1>3, <1>6, SameItems
<1> QED
  BY <1>7 DEF w, x, y, z

-----------------------------------------------------------------------------
(* Where a text stands among the tokens.                                   *)

Stands(words, ts, i) ==
    /\ i \in 1..(Len(ts) + 1) /\ i + Len(words) <= Len(ts) + 1
    /\ \A x \in 1..Len(words) : ts[i + (x - 1)] = words[x]

LEMMA StandsBoth ==
    ASSUME NEW C, NEW ts \in Seq(C), NEW a \in Seq(C), NEW b \in Seq(C), NEW i, Stands(a \o b, ts, i)
    PROVE  /\ Stands(a, ts, i) /\ Stands(b, ts, i + Len(a))
           /\ Len(a \o b) = Len(a) + Len(b) /\ i + Len(a \o b) = (i + Len(a)) + Len(b)
<1>1. /\ Len(a) \in Nat /\ Len(b) \in Nat /\ Len(ts) \in Nat /\ Len(a \o b) = Len(a) + Len(b)
      /\ \A x \in 1..Len(a) : (a \o b)[x] = a[x]
      /\ \A x \in 1..Len(b) : (a \o b)[Len(a) + x] = b[x]
  OBVIOUS
<1> DEFINE K == Len(a)
           L == Len(b)
           N == Len(ts)
           t == a \o b
<1>2. i \in 1..(N + 1) /\ i + (K + L) <= N + 1 /\ \A x \in 1..(K + L) : ts[i + (x - 1)] = t[x]
  BY <1>1 DEF Stands
<1> HIDE DEF K, L, N, t
<1>3. K \in Nat /\ L \in Nat /\ N \in Nat
  BY <1>1 DEF K, L, N
<1>4. i \in Nat /\ i + K \in 1..(N + 1) /\ (i + K) + L <= N + 1 /\ i + K <= N + 1
      /\ i + (K + L) = (i + K) + L
  BY <1>2, <1>3
<1>5. \A x \in 1..K : ts[i + (x - 1)] = a[x]
  <2>1. \A x \in 1..K : x \in 1..(K + L)
    BY <1>3
  <2> QED
    BY <2>1, <1>1, <1>2 DEF K, t
<1>6. ASSUME NEW x \in 1..L
      PROVE  ts[(i + K) + (x - 1)] = b[x]
  <2>1. K + x \in 1..(K + L) /\ i + ((K + x) - 1) = (i + K) + (x - 1)
    BY <1>3, <1>4, <1>6
  <2>2. ts[i + ((K + x) - 1)] = t[K + x]
    BY <2>1, <1>2
  <2>3. t[K + x] = b[x]
    BY <1>1, <1>6 DEF t, K, L
  <2> QED
    BY <2>1, <2>2, <2>3
<1> QED
  BY <1>1, <1>2, <1>4, <1>5, <1>6 DEF Stands, K, L, N

LEMMA StandsFirst ==
    ASSUME NEW C, NEW ts \in Seq(C), NEW words \in Seq(C), words # <<>>, NEW i, Stands(words, ts, i)
    PROVE  i \in 1..Len(ts) /\ ts[i] = words[1] /\ Tok(ts, i) = words[1] /\ i + 1 \in (i + 1)..(Len(ts) + 1)
<1>1. Len(words) \in Nat /\ Len(words) >= 1 /\ Len(ts) \in Nat /\ DOMAIN ts = 1..Len(ts)
  OBVIOUS
<1>2. i \in 1..Len(ts) /\ i + (1 - 1) = i /\ 1 \in 1..Len(words) /\ i + 1 \in (i + 1)..(Len(ts) + 1)
  BY <1>1 DEF Stands
<1>3. ts[i] = words[1]
  BY <1>2 DEF Stands
<1> QED
  BY <1>1, <1>2, <1>3 DEF Tok

LEMMA StandsOne ==
    ASSUME NEW C, NEW ts \in Seq(C), NEW t \in C, NEW i, Stands(<<t>>, ts, i)
    PROVE  /\ i \in 1..Len(ts) /\ ts[i] = t /\ Tok(ts, i) = t /\ i + 1 \in (i + 1)..(Len(ts) + 1)
           /\ Len(<<t>>) = 1 /\ i + Len(<<t>>) = i + 1
<1>1. <<t>> \in Seq(C) /\ <<t>> # <<>> /\ <<t>>[1] = t /\ Len(<<t>>) = 1
  OBVIOUS
<1> QED
  BY <1>1, StandsFirst

LEMMA StandsEnclosed ==
    ASSUME NEW C, NEW ts \in Seq(C), NEW t \in C, NEW u \in C, NEW b \in Seq(C),
           NEW i, Stands(<<t>> \o b \o <<u>>, ts, i)
    PROVE  /\ i \in 1..Len(ts) /\ i + 1 \in (i + 1)..(Len(ts) + 1) /\ Tok(ts, i) = t
           /\ Stands(b, ts, i + 1) /\ Tok(ts, (i + 1) + Len(b)) = u
           /\ i + Len(<<t>> \o b \o <<u>>) = ((i + 1) + Len(b)) + 1
<1> DEFINE o    == <<t>>
           c    == <<u>>
           head == o \o b
           all  == head \o c
<1>1. o \in Seq(C) /\ c \in Seq(C) /\ Stands(all, ts, i)
  OBVIOUS
<1>0. \A j : Stands(o, ts, j) => /\ j \in 1..Len(ts) /\ Tok(ts, j) = t /\ j + 1 \in (j + 1)..(Len(ts) + 1)
                                 /\ j + Len(o) = j + 1
  BY StandsOne
<1>9. \A j : Stands(c, ts, j) => Tok(ts, j) = u /\ j + Len(c) = j + 1
  BY StandsOne
<1> HIDE DEF o, c
<1>2. head \in Seq(C)
  BY <1>1
<1> HIDE DEF head
<1>3. Stands(head, ts, i) /\ Stands(c, ts, i + Len(head)) /\ i + Len(all) = (i + Len(head)) + Len(c)
  BY <1>1, <1>2, StandsBoth
<1>4. Stands(o, ts, i) /\ Stands(b, ts, i + Len(o)) /\ i + Len(head) = (i + Len(o)) + Len(b)
  BY <1>1, <1>3, StandsBoth DEF head
<1> HIDE DEF all
<1>5. i \in 1..Len(ts) /\ i + 1 \in (i + 1)..(Len(ts) + 1) /\ Tok(ts, i) = t /\ i + Len(o) = i + 1
  BY <1>0, <1>4
<1>6. Stands(b, ts, i + 1) /\ i + Len(head) = (i + 1) + Len(b)
  BY <1>4, <1>5
<1>7. Tok(ts, i + Len(head)) = u /\ (i + Len(head)) + Len(c) = (i + Len(head)) + 1
  BY <1>9, <1>3
<1>8. Tok(ts, (i + 1) + Len(b)) = u /\ i + Len(all) = ((i + 1) + Len(b)) + 1
  BY <1>3, <1>6, <1>7
<1> QED
  BY <1>5, <1>6, <1>8 DEF all, head, o, c

LEMMA StandsTwo ==
    ASSUME NEW C, NEW ts \in Seq(C), NEW t \in C, NEW u \in C, NEW i, Stands(<<t, u>>, ts, i)
    PROVE  Tok(ts, i) = t /\ Tok(ts, i + 1) = u /\ ts[i + 1] = u /\ i + Len(<<t, u>>) = i + 2
<1>1. Len(<<t, u>>) = 2 /\ <<t, u>>[1] = t /\ <<t, u>>[2] = u /\ Len(ts) \in Nat /\ DOMAIN ts = 1..Len(ts)
  OBVIOUS
<1>2. i \in 1..Len(ts) /\ i + 1 \in 1..Len(ts) /\ 1 \in 1..2 /\ 2 \in 1..2 /\ i + (1 - 1) = i /\ i + (2 - 1) = i + 1
  BY <1>1 DEF Stands
<1>3. ts[i] = t /\ ts[i + 1] = u
  BY <1>1, <1>2 DEF Stands
<1> QED
  BY <1>1, <1>2, <1>3 DEF Tok

-----------------------------------------------------------------------------
(* What is parsed from a position on.                                      *)

\* The tokens with which a level goes on, and those with which a tighter one does.
Continues(l) == IF l = 6 THEN {".", "[", "("} ELSE IF l = 5 THEN {} ELSE Levels[l]
Tighter(l)   == UNION {Continues(m) : m \in (l + 1)..6}

LEMMA ContinuesAre ==
    /\ Continues(6) = {".", "[", "("} /\ Continues(5) = {}
    /\ \A l \in 1..4 : Continues(l) = Levels[l]
    /\ Tighter(6) = {}
    /\ \A l \in 2..6 : l - 1 \in 1..5 /\ Tighter(l - 1) = Tighter(l) \cup Continues(l)
<1>1. ASSUME NEW l \in 2..6
      PROVE  l - 1 \in 1..5 /\ Tighter(l - 1) = Tighter(l) \cup Continues(l)
  <2>1. (l - 1) + 1 = l /\ l..6 = {l} \cup ((l + 1)..6)
    OBVIOUS
  <2> QED
    BY <2>1 DEF Tighter
<1>2. Tighter(6) = {}
  <2>1. (6 + 1)..6 = {}
    OBVIOUS
  <2> QED
    BY <2>1 DEF Tighter
<1>3. \A l \in 1..4 : Continues(l) = Levels[l]
  BY DEF Continues
<1> QED
  BY <1>1, <1>2, <1>3 DEF Continues

LEMMA NoneContinues ==
    \A l \in 1..6 : Continues(l) \cap {")", "]", ",", "EOF"} = {}
<1>1. \A l \in 1..6 : l \in {1, 2, 3, 4, 5, 6}
  OBVIOUS
<1> DEFINE O == {")", "]", ",", "EOF"}
<1>2. /\ Continues(1) \cap O = {} /\ Continues(2) \cap O = {} /\ Continues(3) \cap O = {}
      /\ Continues(4) \cap O = {} /\ Continues(5) \cap O = {} /\ Continues(6) \cap O = {}
  <2>1. /\ Continues(1) = {"||"} /\ Continues(2) = {"&&"} /\ Continues(3) = {"==", "!="}
        /\ Continues(4) = {"<", "<=", ">", ">="} /\ Continues(5) = {} /\ Continues(6) = {".", "[", "("}
    BY LevelsAre, ContinuesAre
  <2> QED
    BY <2>1, Zenon
<1> HIDE DEF O
<1> QED
  BY <1>1, <1>2, Zenon DEF O

LEMMA NoneTighter ==
    /\ \A l \in 1..6 : /\ ")" \notin Tighter(l) /\ "]" \notin Tighter(l)
                        /\ "," \notin Tighter(l) /\ "EOF" \notin Tighter(l)
    /\ \A l \in 1..4 : \A op \in Levels[l] : op \notin Tighter(l)
<1>1. \A l \in 1..6 : ")" \notin Tighter(l) /\ "]" \notin Tighter(l) /\ "," \notin Tighter(l) /\ "EOF" \notin Tighter(l)
  <2>1. \A l \in 1..6 : \A m \in (l + 1)..6 : m \in 1..6
    OBVIOUS
  <2>2. \A m \in 1..6 : ")" \notin Continues(m) /\ "]" \notin Continues(m)
                           /\ "," \notin Continues(m) /\ "EOF" \notin Continues(m)
    BY NoneContinues, Zenon
  <2> QED
    BY <2>1, <2>2, Zenon DEF Tighter
<1>2. ASSUME NEW l \in 1..4, NEW op \in Levels[l], NEW m \in (l + 1)..6
      PROVE  op \notin Continues(m)
  <2>1. /\ Continues(2) = {"&&"} /\ Continues(3) = {"==", "!="}
        /\ Continues(4) = {"<", "<=", ">", ">="} /\ Continues(5) = {} /\ Continues(6) = {".", "[", "("}
    BY LevelsAre, ContinuesAre
  <2>2. l \in {1, 2, 3, 4} /\ m \in {2, 3, 4, 5, 6} /\ l < m
    BY <1>2
  <2>3. CASE l = 1
    BY <2>1, <2>2, <2>3, LevelsAre
  <2>4. CASE l = 2
    BY <2>1, <2>2, <2>4, LevelsAre
  <2>5. CASE l = 3
    BY <2>1, <2>2, <2>5, LevelsAre
  <2>6. CASE l = 4
    BY <2>1, <2>2, <2>6, LevelsAre
  <2> QED
    BY <2>2, <2>3, <2>4, <2>5, <2>6
<1>3. \A l \in 1..4 : \A op \in Levels[l] : op \notin Tighter(l)
  BY <1>2, Zenon DEF Tighter
<1> QED
  BY <1>1, <1>3, Zenon

\* With what the loop of a level begins.
FirstOf(F, ts, i, l) == IF l = 6 THEN ParsePrimary(ts, Later(F, ts, i), i) ELSE F[i][l + 1]

\* The text of a node, where it stands, is parsed at a level: the loop gets to the node.
Reading(F, ts, i, words, node, l) ==
    IF l = 5 THEN F[i][5] = Parsed(node, i + Len(words))
    ELSE \E k \in 0..Len(words) :
            Loop(ts, Later(F, ts, i), l, FirstOf(F, ts, i, l))[k] = Parsed(node, i + Len(words))

Reads(F, ts, words, node, l) ==
    \A i : Stands(words, ts, i) /\ Tok(ts, i + Len(words)) \notin Tighter(l) => Reading(F, ts, i, words, node, l)

\* It stays there when the level does not go on.
Completes(F, ts, words, node, l) ==
    \A i : Stands(words, ts, i) /\ Tok(ts, i + Len(words)) \notin Tighter(l) \cup Continues(l) =>
              F[i][l] = Parsed(node, i + Len(words))

LEMMA ParsedIs == \A n, i : Parsed(n, i).ok = TRUE /\ Parsed(n, i).node = n /\ Parsed(n, i).at = i
BY DEF Parsed

LEMMA LevelsFrom ==
    ASSUME NEW C, NEW ts \in Seq(C), NEW F, ParsesFrom(F, ts), NEW i \in 1..(Len(ts) + 1)
    PROVE  /\ \A l \in {1, 2, 3, 4, 6} :
                 /\ F[i][l] = Loop(ts, Later(F, ts, i), l, FirstOf(F, ts, i, l))[Len(ts)]
                 /\ Loops(Loop(ts, Later(F, ts, i), l, FirstOf(F, ts, i, l)), ts, Later(F, ts, i), l,
                          FirstOf(F, ts, i, l), Len(ts))
           /\ F[i][5] = LET e == Later(F, ts, i)[i + 1][5] IN
                        IF Tok(ts, i) # "!" THEN F[i][6]
                        ELSE IF e.ok THEN Parsed(Node("!", <<e.node>>), e.at) ELSE Fails
<1>1. F[i] = ParseLevel(ts, Later(F, ts, i), i)
  BY DEF ParsesFrom
<1>2. /\ F[i][6] = ParseMore(ts, Later(F, ts, i), 6, ParsePrimary(ts, Later(F, ts, i), i))
      /\ F[i][5] = LET e == Later(F, ts, i)[i + 1][5] IN
                   IF Tok(ts, i) # "!" THEN F[i][6]
                   ELSE IF e.ok THEN Parsed(Node("!", <<e.node>>), e.at) ELSE Fails
      /\ \A l \in 1..4 : F[i][l] = ParseMore(ts, Later(F, ts, i), l, F[i][l + 1])
  BY <1>1, LevelIs
<1>3. ASSUME NEW l \in {1, 2, 3, 4, 6}
      PROVE  /\ F[i][l] = Loop(ts, Later(F, ts, i), l, FirstOf(F, ts, i, l))[Len(ts)]
             /\ Loops(Loop(ts, Later(F, ts, i), l, FirstOf(F, ts, i, l)), ts, Later(F, ts, i), l,
                      FirstOf(F, ts, i, l), Len(ts))
  <2>1. F[i][l] = ParseMore(ts, Later(F, ts, i), l, FirstOf(F, ts, i, l))
    BY <1>2, <1>3 DEF FirstOf
  <2>2. ParseMore(ts, Later(F, ts, i), l, FirstOf(F, ts, i, l))
           = Loop(ts, Later(F, ts, i), l, FirstOf(F, ts, i, l))[Len(ts)]
    BY MoreIsLoop
  <2>3. Loops(Loop(ts, Later(F, ts, i), l, FirstOf(F, ts, i, l)), ts, Later(F, ts, i), l,
              FirstOf(F, ts, i, l), Len(ts))
    BY LoopIs
  <2> QED
    BY <2>1, <2>2, <2>3
<1> QED
  BY <1>2, <1>3

LEMMA NotNegated ==
    ASSUME NEW C, NEW ts \in Seq(C), NEW F, ParsesFrom(F, ts), NEW i \in 1..(Len(ts) + 1), Tok(ts, i) # "!"
    PROVE  F[i][5] = F[i][6]
<1> DEFINE e == Later(F, ts, i)[i + 1][5]
           negated == IF e.ok THEN Parsed(Node("!", <<e.node>>), e.at) ELSE Fails
<1>1. F[i][5] = IF Tok(ts, i) # "!" THEN F[i][6] ELSE negated
  BY LevelsFrom, Zenon
<1> HIDE DEF negated
<1> QED
  BY <1>1

LEMMA LaterIs ==
    ASSUME NEW F, NEW ts, NEW i
    PROVE  \A j \in (i + 1)..(Len(ts) + 1) : Later(F, ts, i)[j] = F[j]
BY DEF Later

LEMMA ReadsCompletes ==
    ASSUME NEW C, NEW ts \in Seq(C), NEW F, ParsesFrom(F, ts),
           NEW words \in Seq(C), NEW node, NEW l \in 1..6, Reads(F, ts, words, node, l)
    PROVE  Completes(F, ts, words, node, l)
<1> SUFFICES ASSUME NEW i, Stands(words, ts, i), Tok(ts, i + Len(words)) \notin Tighter(l) \cup Continues(l)
             PROVE  F[i][l] = Parsed(node, i + Len(words))
  BY DEF Completes
<1>1. Reading(F, ts, i, words, node, l) /\ i \in 1..(Len(ts) + 1)
  BY DEF Reads, Stands
<1>2. CASE l = 5
  BY <1>1, <1>2 DEF Reading
<1>3. CASE l # 5
  <2>1. l \in {1, 2, 3, 4, 6}
    BY <1>3
  <2> DEFINE N == Len(ts)
             later == Later(F, ts, i)
             f == Loop(ts, later, l, FirstOf(F, ts, i, l))
             q == Parsed(node, i + Len(words))
  <2>2. PICK k \in 0..Len(words) : f[k] = q
    BY <1>1, <1>3 DEF Reading
  <2>3. F[i][l] = f[N] /\ \A m \in 1..N : f[m] = Continued(ts, later, l, f[m - 1])
    <3>1. F[i][l] = f[N] /\ Loops(f, ts, later, l, FirstOf(F, ts, i, l), N)
      BY <1>1, <2>1, LevelsFrom
    <3> HIDE DEF f
    <3> QED
      BY <3>1 DEF Loops
  <2>4. k \in Nat /\ N \in Nat /\ k <= N /\ Len(words) \in Nat
    BY <2>2 DEF Stands
  <2>5. Continued(ts, later, l, q) = q
    <3>1. q.ok = TRUE /\ Tok(ts, q.at) \notin Continues(l)
      BY ParsedIs
    <3> HIDE DEF q, later
    <3>2. CASE l = 6
      <4>1. Tok(ts, q.at) \notin {".", "[", "("}
        BY <3>1, <3>2, ContinuesAre
      <4>2. Continued(ts, later, l, q) = ParsePostfix(ts, later, q)
        BY <3>2 DEF Continued, Postfix
      <4> QED
        BY <3>1, <4>1, <4>2 DEF ParsePostfix
    <3>3. CASE l \in 1..4
      <4>1. Tok(ts, q.at) \notin Levels[l]
        BY <3>1, <3>3, ContinuesAre
      <4>2. Continued(ts, later, l, q) = ParseBinary(ts, later, l, q)
        BY <3>3 DEF Continued, Postfix
      <4> QED
        BY <4>1, <4>2 DEF ParseBinary
    <3> QED
      BY <2>1, <3>2, <3>3
  <2>6. f[N] = f[k]
    <3>1. Loops(f, ts, later, l, FirstOf(F, ts, i, l), N)
      BY <2>1, <1>1, LevelsFrom
    <3>3. k \in 0..N
      BY <2>4
    <3> HIDE DEF f, later, N
    <3>2. Continued(ts, later, l, f[k]) = f[k]
      BY <2>2, <2>5
    <3> QED
      BY <2>4, <3>1, <3>2, <3>3, LoopStays
  <2> HIDE DEF f, later, N
  <2> QED
    BY <2>2, <2>3, <2>6
<1> QED
  BY <1>2, <1>3

\* What is read at a level is read at the next looser one.
LEMMA Descends ==
    ASSUME NEW C, NEW ts \in Seq(C), NEW F, ParsesFrom(F, ts),
           NEW words \in Seq(C), words # <<>>, NEW node, NEW l \in 2..6, Reads(F, ts, words, node, l),
           l = 6 => words[1] # "!"
    PROVE  Reads(F, ts, words, node, l - 1)
<1> SUFFICES ASSUME NEW i, Stands(words, ts, i), Tok(ts, i + Len(words)) \notin Tighter(l - 1)
             PROVE  Reading(F, ts, i, words, node, l - 1)
  BY DEF Reads
<1>1. l \in 1..6 /\ l - 1 \in 1..5 /\ (l - 1) + 1 = l /\ i \in 1..(Len(ts) + 1)
  BY DEF Stands
<1>2. F[i][l] = Parsed(node, i + Len(words))
  <2>1. Completes(F, ts, words, node, l)
    BY <1>1, ReadsCompletes
  <2>2. Tighter(l - 1) = Tighter(l) \cup Continues(l)
    BY ContinuesAre
  <2> QED
    BY <2>1, <2>2 DEF Completes
<1>3. CASE l = 6
  <2>1. Tok(ts, i) # "!"
    BY <1>3, StandsFirst
  <2>2. F[i][5] = F[i][6]
    BY <1>1, <2>1, NotNegated
  <2> QED
    BY <1>2, <1>3, <2>2 DEF Reading
<1>4. CASE l # 6
  <2>1. l - 1 \in {1, 2, 3, 4} /\ l - 1 # 5 /\ l - 1 # 6
    BY <1>4
  <2> DEFINE f == Loop(ts, Later(F, ts, i), l - 1, FirstOf(F, ts, i, l - 1))
  <2>2. f[0] = FirstOf(F, ts, i, l - 1)
    <3>1. Loops(f, ts, Later(F, ts, i), l - 1, FirstOf(F, ts, i, l - 1), Len(ts))
      BY <1>1, <2>1, LevelsFrom
    <3> HIDE DEF f
    <3> QED
      BY <3>1 DEF Loops
  <2>3. FirstOf(F, ts, i, l - 1) = F[i][l]
    BY <1>1, <2>1 DEF FirstOf
  <2>4. 0 \in 0..Len(words)
    OBVIOUS
  <2> QED
    BY <1>2, <2>1, <2>2, <2>3, <2>4 DEF Reading
<1> QED
  BY <1>3, <1>4

-----------------------------------------------------------------------------
(* What each form of an expression is read as.                             *)

LEMMA LeafReads ==
    ASSUME NEW C, NEW ts \in Seq(C), NEW F, NEW t \in C, t \in LeafTokens
    PROVE  Reads(F, ts, <<t>>, Node(t, <<>>), 6)
<1> SUFFICES ASSUME NEW i, Stands(<<t>>, ts, i)
             PROVE  Reading(F, ts, i, <<t>>, Node(t, <<>>), 6)
  BY DEF Reads
<1>1. ts[i] = t /\ Tok(ts, i) = t /\ Len(<<t>>) = 1 /\ i + Len(<<t>>) = i + 1
  BY StandsOne
<1>2. FirstOf(F, ts, i, 6) = Parsed(Node(t, <<>>), i + 1)
  BY <1>1 DEF FirstOf, ParsePrimary
<1>3. Loops(Loop(ts, Later(F, ts, i), 6, FirstOf(F, ts, i, 6)), ts, Later(F, ts, i), 6, FirstOf(F, ts, i, 6), Len(ts))
  BY LoopIs
<1>4. 0 \in 0..Len(<<t>>)
  BY <1>1
<1> QED
  BY <1>1, <1>2, <1>3, <1>4 DEF Reading, Loops

LEMMA Closers ==
    \A t \in {")", "]", ",", "EOF"} : t \notin Tighter(1) \cup Continues(1)
<1>1. 1 \in 1..6
  OBVIOUS
<1> QED
  BY <1>1, NoneContinues, NoneTighter, Zenon

LEMMA GroupReads ==
    ASSUME NEW C, NEW ts \in Seq(C), NEW F, {"(", ")"} \subseteq C,
           NEW words \in Seq(C), NEW node, Completes(F, ts, words, node, 1)
    PROVE  Reads(F, ts, <<"(">> \o words \o <<")">>, Node("()", <<node>>), 6)
<1> DEFINE all == <<"(">> \o words \o <<")">>
<1> SUFFICES ASSUME NEW i, Stands(all, ts, i)
             PROVE  Reading(F, ts, i, all, Node("()", <<node>>), 6)
  BY DEF Reads
<1> DEFINE e == (i + 1) + Len(words)
<1>1. /\ i + 1 \in (i + 1)..(Len(ts) + 1) /\ Tok(ts, i) = "("
      /\ Stands(words, ts, i + 1) /\ Tok(ts, e) = ")" /\ i + Len(all) = e + 1
  <2>1. "(" \in C /\ ")" \in C
    OBVIOUS
  <2> QED
    BY <2>1, StandsEnclosed
<1>2. all \in Seq(C)
  OBVIOUS
<1>3. F[i + 1][1] = Parsed(node, e)
  <2>1. ")" \notin Tighter(1) \cup Continues(1)
    BY Closers, Zenon
  <2> QED
    BY <1>1, <2>1 DEF Completes
<1>4. Later(F, ts, i)[i + 1] = F[i + 1]
  BY <1>1, LaterIs
<1>5. "(" \notin LeafTokens
  BY ExprAssumption, Zenon DEF Reserved
<1> HIDE DEF e, all
<1>6. FirstOf(F, ts, i, 6) = Parsed(Node("()", <<node>>), e + 1)
  <2>1. FirstOf(F, ts, i, 6) = ParsePrimary(ts, Later(F, ts, i), i)
    BY DEF FirstOf
  <2>2. Later(F, ts, i)[i + 1][1] = Parsed(node, e)
    BY <1>3, <1>4
  <2> QED
    BY <1>1, <1>5, <2>1, <2>2, ParsedIs DEF ParsePrimary
<1>7. Loops(Loop(ts, Later(F, ts, i), 6, FirstOf(F, ts, i, 6)), ts, Later(F, ts, i), 6, FirstOf(F, ts, i, 6), Len(ts))
  BY LoopIs
<1>8. 0 \in 0..Len(all)
  BY <1>2
<1>9. Reading(F, ts, i, all, Node("()", <<node>>), 6)
  BY <1>1, <1>6, <1>7, <1>8 DEF Reading, Loops
<1> QED
  BY <1>9

LEMMA NotReads ==
    ASSUME NEW C, NEW ts \in Seq(C), NEW F, ParsesFrom(F, ts), "!" \in C,
           NEW words \in Seq(C), NEW node, Completes(F, ts, words, node, 5)
    PROVE  Reads(F, ts, <<"!">> \o words, Node("!", <<node>>), 5)
<1> DEFINE o   == <<"!">>
           all == o \o words
<1> SUFFICES ASSUME NEW i, Stands(all, ts, i), Tok(ts, i + Len(all)) \notin Tighter(5)
             PROVE  Reading(F, ts, i, all, Node("!", <<node>>), 5)
  BY DEF Reads
<1>1. o \in Seq(C) /\ "!" \in C
  OBVIOUS
<1>0. \A j : Stands(o, ts, j) => Tok(ts, j) = "!" /\ j + Len(o) = j + 1 /\ j + 1 \in (j + 1)..(Len(ts) + 1)
  BY <1>1, StandsOne
<1> HIDE DEF o
<1>2. Stands(o, ts, i) /\ Stands(words, ts, i + Len(o)) /\ i + Len(all) = (i + Len(o)) + Len(words)
  BY <1>1, StandsBoth
<1>3. Tok(ts, i) = "!" /\ i + Len(o) = i + 1 /\ i + 1 \in (i + 1)..(Len(ts) + 1) /\ i \in 1..(Len(ts) + 1)
  BY <1>0, <1>2 DEF Stands
<1> HIDE DEF all
<1>4. F[i + 1][5] = Parsed(node, i + Len(all))
  BY <1>2, <1>3, ContinuesAre DEF Completes
<1>5. Later(F, ts, i)[i + 1] = F[i + 1]
  BY <1>3, LaterIs
<1>6. F[i][5] = Parsed(Node("!", <<node>>), i + Len(all))
  <2> DEFINE e == Later(F, ts, i)[i + 1][5]
  <2>1. F[i][5] = IF Tok(ts, i) # "!" THEN F[i][6]
                  ELSE IF e.ok THEN Parsed(Node("!", <<e.node>>), e.at) ELSE Fails
    BY <1>3, LevelsFrom
  <2>2. e = Parsed(node, i + Len(all))
    BY <1>4, <1>5
  <2> HIDE DEF e
  <2> QED
    BY <1>3, <2>1, <2>2, ParsedIs
<1> QED
  BY <1>6 DEF Reading, all

\* The loop of a level takes s as well, and then it has got to n.
Takes(F, ts, a, na, s, n, l) ==
    \A i : Stands(a \o s, ts, i) /\ Tok(ts, (i + Len(a)) + Len(s)) \notin Tighter(l) =>
              Continued(ts, Later(F, ts, i), l, Parsed(na, i + Len(a))) = Parsed(n, (i + Len(a)) + Len(s))

LEMMA GoesOn ==
    ASSUME NEW C, NEW ts \in Seq(C), NEW F, NEW l \in {1, 2, 3, 4, 6},
           NEW a \in Seq(C), NEW na, Reads(F, ts, a, na, l),
           NEW s \in Seq(C), s # <<>>, s[1] \notin Tighter(l), NEW n, Takes(F, ts, a, na, s, n, l)
    PROVE  Reads(F, ts, a \o s, n, l)
<1> SUFFICES ASSUME NEW i, Stands(a \o s, ts, i), Tok(ts, i + Len(a \o s)) \notin Tighter(l)
             PROVE  Reading(F, ts, i, a \o s, n, l)
  BY DEF Reads
<1>1. /\ Stands(a, ts, i) /\ Stands(s, ts, i + Len(a))
      /\ Len(a \o s) = Len(a) + Len(s) /\ i + Len(a \o s) = (i + Len(a)) + Len(s)
  BY StandsBoth
<1>2. Tok(ts, i + Len(a)) = s[1]
  BY <1>1, StandsFirst
<1> DEFINE later == Later(F, ts, i)
           f == Loop(ts, later, l, FirstOf(F, ts, i, l))
<1>3. Reading(F, ts, i, a, na, l)
  BY <1>1, <1>2 DEF Reads
<1>4. PICK k \in 0..Len(a) : f[k] = Parsed(na, i + Len(a))
  BY <1>3 DEF Reading
<1>5. Loops(f, ts, later, l, FirstOf(F, ts, i, l), Len(ts))
  BY LoopIs
<1> HIDE DEF f
<1>6. k + 1 \in 1..Len(ts) /\ (k + 1) - 1 = k /\ k + 1 \in 0..Len(a \o s)
  <2>1. Len(a) \in Nat /\ Len(s) \in Nat /\ Len(s) >= 1 /\ Len(ts) \in Nat
    OBVIOUS
  <2>2. i \in Nat /\ i >= 1 /\ i + Len(a \o s) <= Len(ts) + 1
    BY <2>1 DEF Stands
  <2> QED
    BY <1>1, <1>4, <2>1, <2>2
<1>7. f[k + 1] = Continued(ts, later, l, f[k])
  BY <1>5, <1>6 DEF Loops
<1>8. Continued(ts, later, l, Parsed(na, i + Len(a))) = Parsed(n, i + Len(a \o s))
  BY <1>1 DEF Takes
<1>9. f[k + 1] = Parsed(n, i + Len(a \o s))
  BY <1>4, <1>7, <1>8
<1>10. l # 5
  OBVIOUS
<1> HIDE DEF later
<1> QED
  BY <1>6, <1>9, <1>10 DEF Reading, f, later

LEMMA BinaryReads ==
    ASSUME NEW C, NEW ts \in Seq(C), NEW F, NEW l \in 1..4, NEW op \in Levels[l], op \in C,
           NEW a \in Seq(C), NEW na, Reads(F, ts, a, na, l),
           NEW b \in Seq(C), NEW nb, Completes(F, ts, b, nb, l + 1)
    PROVE  Reads(F, ts, a \o <<op>> \o b, Node(op, <<na, nb>>), l)
<1> DEFINE o == <<op>>
           s == o \o b
<1>1. o \in Seq(C) /\ s \in Seq(C) /\ s # <<>> /\ s[1] = op
  OBVIOUS
<1>0. \A j : Stands(o, ts, j) => Tok(ts, j) = op /\ j + Len(o) = j + 1 /\ j + 1 \in (j + 1)..(Len(ts) + 1)
  BY StandsOne
<1>9. \A j : Stands(o, ts, j) => ts[j] = op
  BY StandsOne
<1> HIDE DEF o
<1>2. a \o o \o b = a \o s
  <2> DEFINE Q == Seq(C)
  <2>1. Associates(Q) /\ a \in Q /\ o \in Q /\ b \in Q
    BY <1>1, SeqAssociates
  <2> HIDE DEF Q
  <2> QED
    BY <2>1, Zenon DEF Associates
<1>3. ASSUME NEW i, Stands(a \o s, ts, i), Tok(ts, (i + Len(a)) + Len(s)) \notin Tighter(l)
      PROVE  Continued(ts, Later(F, ts, i), l, Parsed(na, i + Len(a)))
                = Parsed(Node(op, <<na, nb>>), (i + Len(a)) + Len(s))
  <2> DEFINE j == i + Len(a)
             e == j + Len(s)
  <2>1. Stands(a, ts, i) /\ Stands(s, ts, j)
    BY <1>1, <1>3, StandsBoth
  <2> HIDE DEF s
  <2> HIDE DEF j
  <2>2. Stands(o, ts, j) /\ Stands(b, ts, j + Len(o)) /\ e = (j + Len(o)) + Len(b)
    BY <1>1, <2>1, StandsBoth DEF s
  <2>3. Tok(ts, j) = op /\ j + Len(o) = j + 1 /\ j + 1 \in (j + 1)..(Len(ts) + 1)
    BY <1>0, <2>2
  <2>4. j + 1 \in (i + 1)..(Len(ts) + 1)
    <3>1. i \in Nat /\ Len(a) \in Nat /\ Len(ts) \in Nat
      BY <2>1 DEF Stands
    <3> QED
      BY <2>3, <3>1 DEF j
  <2> HIDE DEF e, j
  <2>5. F[j + 1][l + 1] = Parsed(nb, e)
    <3>1. (l + 1) \in 2..6 /\ (l + 1) - 1 = l
      OBVIOUS
    <3>2. Tighter(l) = Tighter(l + 1) \cup Continues(l + 1)
      BY <3>1, ContinuesAre
    <3>3. Tok(ts, e) \notin Tighter(l)
      BY <1>3 DEF e, j
    <3> QED
      BY <2>2, <2>3, <3>2, <3>3 DEF Completes
  <2>6. Later(F, ts, i)[j + 1][RightLevel(l)] = Parsed(nb, e)
    BY <2>4, <2>5, LaterIs DEF RightLevel
  <2>7. Continued(ts, Later(F, ts, i), l, Parsed(na, j)) = ParseBinary(ts, Later(F, ts, i), l, Parsed(na, j))
    BY DEF Continued, Postfix
  <2>8. ParseBinary(ts, Later(F, ts, i), l, Parsed(na, j)) = Parsed(Node(op, <<na, nb>>), e)
    <3> DEFINE p == Parsed(na, j)
               r == Later(F, ts, i)[j + 1][RightLevel(l)]
    <3>1. p.ok = TRUE /\ p.node = na /\ p.at = j /\ r.ok = TRUE /\ r.node = nb /\ r.at = e
      BY <2>6, ParsedIs
    <3>2. ParseBinary(ts, Later(F, ts, i), l, p) =
             IF ~p.ok \/ Tok(ts, j) \notin Levels[l] THEN p
             ELSE IF r.ok THEN Parsed(Node(ts[j], <<na, r.node>>), r.at) ELSE Fails
      BY <3>1 DEF ParseBinary
    <3>3. ts[j] = op
      BY <2>2, <1>9
    <3> HIDE DEF p, r
    <3>4. ParseBinary(ts, Later(F, ts, i), l, p) = Parsed(Node(op, <<na, nb>>), e)
      BY <2>3, <3>1, <3>2, <3>3
    <3> QED
      BY <3>4 DEF p
  <2> QED
    BY <2>7, <2>8 DEF j, e
<1> HIDE DEF s
<1>4. Takes(F, ts, a, na, s, Node(op, <<na, nb>>), l)
  BY <1>3 DEF Takes
<1>5. l \in {1, 2, 3, 4, 6} /\ op \notin Tighter(l)
  <2>1. op \notin Tighter(l)
    BY NoneTighter, Zenon
  <2> QED
    BY <2>1
<1>6. Reads(F, ts, a \o s, Node(op, <<na, nb>>), l)
  BY <1>1, <1>4, <1>5, GoesOn
<1> QED
  BY <1>2, <1>6 DEF o

LEMMA DotReads ==
    ASSUME NEW C, NEW ts \in Seq(C), NEW F, "." \in C, NEW f \in NameTokens \cup Keywords, f \in C,
           NEW a \in Seq(C), NEW na, Reads(F, ts, a, na, 6)
    PROVE  Reads(F, ts, a \o <<".", f>>, Node(".", <<na, Node(f, <<>>)>>), 6)
<1> DEFINE s == <<".", f>>
           n == Node(".", <<na, Node(f, <<>>)>>)
<1>1. s \in Seq(C) /\ s # <<>>
  OBVIOUS
<1>2. \A j : Stands(s, ts, j) => Tok(ts, j) = "." /\ Tok(ts, j + 1) = f /\ ts[j + 1] = f /\ j + Len(s) = j + 2
  BY StandsTwo
<1> HIDE DEF s
<1>3. ASSUME NEW i, Stands(a \o s, ts, i)
      PROVE  Continued(ts, Later(F, ts, i), 6, Parsed(na, i + Len(a))) = Parsed(n, (i + Len(a)) + Len(s))
  <2> DEFINE j == i + Len(a)
             p == Parsed(na, j)
  <2>1. Stands(s, ts, j)
    BY <1>1, <1>3, StandsBoth
  <2> HIDE DEF j
  <2>2. Tok(ts, j) = "." /\ Tok(ts, j + 1) = f /\ ts[j + 1] = f /\ j + Len(s) = j + 2
    BY <1>2, <2>1
  <2>3. p.ok = TRUE /\ p.node = na /\ p.at = j
    BY ParsedIs
  <2> HIDE DEF p
  <2>4. Continued(ts, Later(F, ts, i), 6, p) = ParsePostfix(ts, Later(F, ts, i), p)
    BY DEF Continued, Postfix
  <2>5. ParsePostfix(ts, Later(F, ts, i), p) = Parsed(Node(".", <<p.node, Node(ts[p.at + 1], <<>>)>>), p.at + 2)
    BY <2>2, <2>3 DEF ParsePostfix
  <2>6. Continued(ts, Later(F, ts, i), 6, p) = Parsed(n, j + Len(s))
    BY <2>2, <2>3, <2>4, <2>5
  <2> QED
    BY <2>6 DEF p, j
<1>4. Takes(F, ts, a, na, s, n, 6)
  BY <1>3 DEF Takes
<1>5. s[1] \notin Tighter(6)
  BY ContinuesAre
<1>6. Reads(F, ts, a \o s, n, 6)
  BY <1>1, <1>4, <1>5, GoesOn
<1> QED
  BY <1>6 DEF s

LEMMA IndexReads ==
    ASSUME NEW C, NEW ts \in Seq(C), NEW F, {"[", "]"} \subseteq C,
           NEW a \in Seq(C), NEW na, Reads(F, ts, a, na, 6),
           NEW b \in Seq(C), NEW nb, Completes(F, ts, b, nb, 1)
    PROVE  Reads(F, ts, a \o (<<"[">> \o b \o <<"]">>), Node("[]", <<na, nb>>), 6)
<1> DEFINE s == <<"[">> \o b \o <<"]">>
           n == Node("[]", <<na, nb>>)
<1>1. s \in Seq(C) /\ s # <<>>
  OBVIOUS
<1>2. ASSUME NEW j, Stands(s, ts, j)
      PROVE  /\ j \in 1..Len(ts) /\ j + 1 \in (j + 1)..(Len(ts) + 1) /\ Tok(ts, j) = "[" /\ Stands(b, ts, j + 1)
             /\ Tok(ts, (j + 1) + Len(b)) = "]" /\ j + Len(s) = ((j + 1) + Len(b)) + 1
  <2>1. "[" \in C /\ "]" \in C
    OBVIOUS
  <2> QED
    BY <1>2, <2>1, StandsEnclosed
<1> HIDE DEF s
<1>3. ASSUME NEW i, Stands(a \o s, ts, i)
      PROVE  Continued(ts, Later(F, ts, i), 6, Parsed(na, i + Len(a))) = Parsed(n, (i + Len(a)) + Len(s))
  <2> DEFINE j == i + Len(a)
             e == (j + 1) + Len(b)
             p == Parsed(na, j)
             r == Later(F, ts, i)[j + 1][1]
  <2>1. Stands(a, ts, i) /\ Stands(s, ts, j)
    BY <1>1, <1>3, StandsBoth
  <2>2. i \in Nat /\ Len(a) \in Nat /\ Len(ts) \in Nat
    BY <2>1 DEF Stands
  <2>3. /\ j \in 1..Len(ts) /\ j + 1 \in (j + 1)..(Len(ts) + 1) /\ Tok(ts, j) = "[" /\ Stands(b, ts, j + 1)
        /\ Tok(ts, e) = "]" /\ j + Len(s) = e + 1
    BY <1>2, <2>1
  <2>4. j + 1 \in (i + 1)..(Len(ts) + 1)
    BY <2>2, <2>3
  <2> HIDE DEF j, e
  <2>5. F[j + 1][1] = Parsed(nb, e)
    <3>1. "]" \notin Tighter(1) \cup Continues(1)
      BY Closers, Zenon
    <3> QED
      BY <2>3, <3>1 DEF Completes, e
  <2>6. r = Parsed(nb, e)
    BY <2>4, <2>5, LaterIs
  <2>7. p.ok = TRUE /\ p.node = na /\ p.at = j /\ r.ok = TRUE /\ r.node = nb /\ r.at = e
    BY <2>6, ParsedIs
  <2>8. ParsePostfix(ts, Later(F, ts, i), p) =
           IF ~p.ok THEN p ELSE IF r.ok /\ Tok(ts, r.at) = "]" THEN Parsed(Node("[]", <<p.node, r.node>>), r.at + 1)
                                ELSE Fails
    BY <2>3, <2>7 DEF ParsePostfix
  <2> HIDE DEF p, r
  <2>9. Continued(ts, Later(F, ts, i), 6, p) = ParsePostfix(ts, Later(F, ts, i), p)
    BY DEF Continued, Postfix
  <2>10. Continued(ts, Later(F, ts, i), 6, p) = Parsed(n, j + Len(s))
    BY <2>3, <2>7, <2>8, <2>9
  <2> QED
    BY <2>10 DEF p, j
<1>4. Takes(F, ts, a, na, s, n, 6)
  BY <1>3 DEF Takes
<1>5. s[1] \notin Tighter(6)
  BY ContinuesAre
<1>6. Reads(F, ts, a \o s, n, 6)
  BY <1>1, <1>4, <1>5, GoesOn
<1> QED
  BY <1>6 DEF s

\* The list of arguments is read.
ReadsArgs(F, ts, words, ns) ==
    \A i, j : /\ i \in Nat /\ j \in (i + 1)..(Len(ts) + 1)
              /\ Stands(words, ts, j) /\ Tok(ts, j + Len(words)) = ")"
              => ParseArgs(ts, Later(F, ts, i), j) = Parsed(ns, (j + Len(words)) + 1)

LEMMA CallReads ==
    ASSUME NEW C, NEW ts \in Seq(C), NEW F, {"(", ")"} \subseteq C,
           NEW name \in NameTokens, name \in C,
           NEW words \in Seq(C), NEW ns, ReadsArgs(F, ts, words, ns)
    PROVE  Reads(F, ts, <<name>> \o (<<"(">> \o words \o <<")">>), Node("call", <<Node(name, <<>>)>> \o ns), 6)
<1> DEFINE a == <<name>>
           na == Node(name, <<>>)
           s == <<"(">> \o words \o <<")">>
           n == Node("call", <<na>> \o ns)
<1>1. s \in Seq(C) /\ s # <<>> /\ a \in Seq(C)
  OBVIOUS
<1>0. Reads(F, ts, a, na, 6)
  BY ExprAssumption, LeafReads
<1>2. ASSUME NEW j, Stands(s, ts, j)
      PROVE  /\ j \in 1..Len(ts) /\ j + 1 \in (j + 1)..(Len(ts) + 1) /\ Tok(ts, j) = "(" /\ Stands(words, ts, j + 1)
             /\ Tok(ts, (j + 1) + Len(words)) = ")" /\ j + Len(s) = ((j + 1) + Len(words)) + 1
  <2>1. "(" \in C /\ ")" \in C
    OBVIOUS
  <2> QED
    BY <1>2, <2>1, StandsEnclosed
<1> HIDE DEF s, a
<1>9. na.op = name
  BY DEF Node
<1> HIDE DEF na
<1>3. ASSUME NEW i, Stands(a \o s, ts, i)
      PROVE  Continued(ts, Later(F, ts, i), 6, Parsed(na, i + Len(a))) = Parsed(n, (i + Len(a)) + Len(s))
  <2> DEFINE j == i + Len(a)
             e == (j + 1) + Len(words)
             p == Parsed(na, j)
             r == ParseArgs(ts, Later(F, ts, i), j + 1)
  <2>1. Stands(a, ts, i) /\ Stands(s, ts, j)
    BY <1>1, <1>3, StandsBoth
  <2>2. i \in Nat /\ Len(a) \in Nat /\ Len(ts) \in Nat
    BY <2>1 DEF Stands
  <2>3. /\ j \in 1..Len(ts) /\ j + 1 \in (j + 1)..(Len(ts) + 1) /\ Tok(ts, j) = "(" /\ Stands(words, ts, j + 1)
        /\ Tok(ts, e) = ")" /\ j + Len(s) = e + 1
    BY <1>2, <2>1
  <2>4. j + 1 \in (i + 1)..(Len(ts) + 1)
    BY <2>2, <2>3
  <2> HIDE DEF j
  <2>6. r = Parsed(ns, e + 1)
    BY <2>2, <2>3, <2>4 DEF ReadsArgs
  <2> HIDE DEF e
  <2>7. p.ok = TRUE /\ p.node = na /\ p.at = j /\ r.ok = TRUE /\ r.node = ns /\ r.at = e + 1
    BY <2>6, ParsedIs
  <2>8. ParsePostfix(ts, Later(F, ts, i), p) =
           IF ~p.ok THEN p
           ELSE IF p.node.op \in NameTokens /\ r.ok THEN Parsed(Node("call", <<p.node>> \o r.node), r.at) ELSE Fails
    BY <2>3, <2>7 DEF ParsePostfix
  <2> HIDE DEF p, r
  <2>9. Continued(ts, Later(F, ts, i), 6, p) = ParsePostfix(ts, Later(F, ts, i), p)
    BY DEF Continued, Postfix
  <2>10. Continued(ts, Later(F, ts, i), 6, p) = Parsed(n, j + Len(s))
    BY <1>9, <2>3, <2>7, <2>8, <2>9
  <2> QED
    BY <2>10 DEF p, j
<1>4. Takes(F, ts, a, na, s, n, 6)
  BY <1>3 DEF Takes
<1>5. s[1] \notin Tighter(6)
  BY ContinuesAre
<1>6. Reads(F, ts, a \o s, n, 6)
  BY <1>0, <1>1, <1>4, <1>5, GoesOn
<1> QED
  BY <1>6 DEF s, a, na

LEMMA NoArgsRead ==
    ASSUME NEW C, NEW ts \in Seq(C), NEW F
    PROVE  ReadsArgs(F, ts, <<>>, <<>>)
<1> SUFFICES ASSUME NEW i, NEW j, j \in (i + 1)..(Len(ts) + 1), i \in Nat, Stands(<<>>, ts, j),
                    Tok(ts, j + Len(<<>>)) = ")"
             PROVE  ParseArgs(ts, Later(F, ts, i), j) = Parsed(<<>>, (j + Len(<<>>)) + 1)
  BY DEF ReadsArgs
<1>1. j + Len(<<>>) = j
  BY DEF Stands
<1> QED
  BY <1>1 DEF ParseArgs

LEMMA ArgsAreLoop ==
    ASSUME NEW C, NEW ts \in Seq(C), NEW later, NEW i, Tok(ts, i) # ")", later[i][1].ok
    PROVE  LET e == later[i][1]
               all == Loop(ts, later, 0, Parsed(<<e.node>>, e.at))[Len(ts)]
           IN  ParseArgs(ts, later, i) = IF all.ok /\ Tok(ts, all.at) = ")" THEN Parsed(all.node, all.at + 1) ELSE Fails
<1> DEFINE e == later[i][1]
           p == Parsed(<<e.node>>, e.at)
           Of(f) == f = [k \in 0..Len(ts) |->
                            IF k > 0 THEN ParseArg(ts, later, f[k - 1])
                            ELSE IF e.ok THEN Parsed(<<e.node>>, e.at) ELSE Fails]
           Closed(a) == IF a.ok /\ Tok(ts, a.at) = ")" THEN Parsed(a.node, a.at + 1) ELSE Fails
<1>1. ParseArgs(ts, later, i) = Closed((CHOOSE f : Of(f))[Len(ts)])
  BY DEF ParseArgs
<1>2. \A q : Continued(ts, later, 0, q) = ParseArg(ts, later, q)
  BY DEF Continued
<1>3. ASSUME NEW f
      PROVE  Of(f) <=> IsLoop(f, Len(ts), ts, later, 0, p)
  <2>1. ASSUME NEW k \in 0..Len(ts)
        PROVE  (IF k > 0 THEN ParseArg(ts, later, f[k - 1]) ELSE IF e.ok THEN Parsed(<<e.node>>, e.at) ELSE Fails)
               = (IF k = 0 THEN p ELSE Continued(ts, later, 0, f[k - 1]))
    <3>1. Len(ts) \in Nat
      OBVIOUS
    <3>2. (k = 0 /\ ~(k > 0)) \/ (k # 0 /\ k > 0)
      BY <2>1, <3>1
    <3> QED
      BY <3>2, <1>2
  <2> QED
    BY <2>1 DEF IsLoop
<1> HIDE DEF Of, Closed
<1>4. (CHOOSE f : Of(f)) = (CHOOSE f : IsLoop(f, Len(ts), ts, later, 0, p))
  BY <1>3
<1>5. ParseArgs(ts, later, i) = Closed(Loop(ts, later, 0, p)[Len(ts)])
  BY <1>1, <1>4 DEF Loop
<1> QED
  BY <1>5 DEF Closed

\* A name for the token, so that the provers see it as a constant only.
Comma == ","

LEMMA CommaIs ==
    /\ Comma \notin Tighter(1) \cup Continues(1)
    /\ \A ts, later, p :
          ParseArg(ts, later, p) =
                 IF ~p.ok \/ Tok(ts, p.at) # Comma THEN p
                 ELSE IF later[p.at + 1][1].ok
                      THEN Parsed(Append(p.node, later[p.at + 1][1].node), later[p.at + 1][1].at) ELSE Fails
    /\ Comma # ")"
<1>1. Comma \notin Tighter(1) \cup Continues(1)
  BY Closers, Zenon DEF Comma
<1>2. Comma # ")"
  BY Zenon DEF Comma
<1>3. \A ts, later, p :
          ParseArg(ts, later, p) =
                 IF ~p.ok \/ Tok(ts, p.at) # Comma THEN p
                 ELSE IF later[p.at + 1][1].ok
                      THEN Parsed(Append(p.node, later[p.at + 1][1].node), later[p.at + 1][1].at) ELSE Fails
  BY Zenon DEF Comma, ParseArg
<1> QED
  BY <1>1, <1>2, <1>3, Zenon

LEMMA TwoArgsRead ==
    ASSUME NEW C, NEW ts \in Seq(C), NEW F, Comma \in C,
           NEW a \in Seq(C), a # <<>>, a[1] # ")", NEW na, Completes(F, ts, a, na, 1),
           NEW b \in Seq(C), NEW nb, Completes(F, ts, b, nb, 1)
    PROVE  ReadsArgs(F, ts, a \o <<Comma>> \o b, <<na, nb>>)
<1> DEFINE o    == <<Comma>>
           head == a \o o
           words == head \o b
<1>1. o \in Seq(C) /\ head \in Seq(C)
  OBVIOUS
<1>0. \A j : Stands(o, ts, j) => /\ Tok(ts, j) = Comma /\ j + Len(o) = j + 1 /\ j \in 1..Len(ts)
                                 /\ j + 1 \in (j + 1)..(Len(ts) + 1)
  BY StandsOne
<1> HIDE DEF o
<1> SUFFICES ASSUME NEW i, NEW j, j \in (i + 1)..(Len(ts) + 1), i \in Nat, Stands(words, ts, j),
                    Tok(ts, j + Len(words)) = ")"
             PROVE  ParseArgs(ts, Later(F, ts, i), j) = Parsed(<<na, nb>>, (j + Len(words)) + 1)
  BY DEF ReadsArgs, o
<1> HIDE DEF head
<1>2. Stands(head, ts, j) /\ Stands(b, ts, j + Len(head)) /\ j + Len(words) = (j + Len(head)) + Len(b)
  BY <1>1, StandsBoth
<1>3. Stands(a, ts, j) /\ Stands(o, ts, j + Len(a)) /\ j + Len(head) = (j + Len(a)) + Len(o)
  BY <1>1, <1>2, StandsBoth DEF head
<1> DEFINE later == Later(F, ts, i)
           d == j + Len(a)
           e == j + Len(words)
           p == Parsed(<<na>>, d)
           q == Parsed(<<na, nb>>, e)
           f == Loop(ts, later, 0, p)
<1>4. /\ Tok(ts, d) = Comma /\ d \in 1..Len(ts) /\ d + 1 \in (d + 1)..(Len(ts) + 1) /\ j + Len(head) = d + 1
  BY <1>0, <1>3
<1>5. Tok(ts, j) # ")"
  BY <1>3, StandsFirst
<1>6. later[j][1] = Parsed(na, d)
  <2>1. Comma \notin Tighter(1) \cup Continues(1)
    BY CommaIs
  <2>2. F[j][1] = Parsed(na, d)
    BY <1>3, <1>4, <2>1 DEF Completes
  <2>3. Later(F, ts, i)[j] = F[j]
    BY LaterIs
  <2> QED
    BY <2>2, <2>3
<1>7. later[d + 1][1] = Parsed(nb, e)
  <2>1. ")" \notin Tighter(1) \cup Continues(1)
    BY Closers, Zenon
  <2>2. Stands(b, ts, d + 1) /\ e = (d + 1) + Len(b)
    BY <1>2, <1>4
  <2>3. F[d + 1][1] = Parsed(nb, e)
    BY <2>1, <2>2 DEF Completes
  <2>4. d + 1 \in (i + 1)..(Len(ts) + 1)
    <3>1. Len(a) \in Nat /\ Len(ts) \in Nat
      OBVIOUS
    <3> QED
      BY <1>4, <3>1
  <2> HIDE DEF d, e
  <2> QED
    BY <2>3, <2>4, LaterIs
<1>8. Loops(f, ts, later, 0, p, Len(ts)) /\ Len(ts) \in Nat /\ Len(ts) >= 1
  BY <1>4, LoopIs
<1>9. Tok(ts, e) = ")"
  OBVIOUS
<1> HIDE DEF f, later, d, e, words
<1>10. Continued(ts, later, 0, p) = q
  <2>1. p.ok = TRUE /\ p.node = <<na>> /\ p.at = d
    BY ParsedIs
  <2>2. later[d + 1][1].ok = TRUE /\ later[d + 1][1].node = nb /\ later[d + 1][1].at = e
    BY <1>7, ParsedIs
  <2> HIDE DEF p
  <2>3. ParseArg(ts, later, p) = Parsed(Append(p.node, later[d + 1][1].node), later[d + 1][1].at)
    BY <1>4, <2>1, <2>2, CommaIs
  <2>4. Append(<<na>>, nb) = <<na, nb>>
    BY AppendToOne
  <2> QED
    BY <2>1, <2>2, <2>3, <2>4 DEF Continued
<1>11. Continued(ts, later, 0, q) = q
  <2>1. q.ok = TRUE /\ q.at = e
    BY ParsedIs
  <2> HIDE DEF q
  <2> QED
    BY <1>9, <2>1, CommaIs DEF Continued
<1> HIDE DEF p
<1>q. q.ok = TRUE /\ q.node = <<na, nb>> /\ q.at = e
  BY ParsedIs
<1> HIDE DEF q
<1>12. f[1] = q
  <2>1. 1 \in 1..Len(ts) /\ 1 - 1 = 0
    BY <1>8
  <2>2. f[1] = Continued(ts, later, 0, f[1 - 1]) /\ f[0] = p
    BY <1>8, <2>1 DEF Loops
  <2> QED
    BY <1>10, <2>1, <2>2
<1>13. f[Len(ts)] = q
  <2>1. 1 \in 0..Len(ts)
    BY <1>8
  <2> QED
    BY <1>8, <1>11, <1>12, <2>1, LoopStays
<1>14. later[j][1].ok = TRUE /\ later[j][1].node = na /\ later[j][1].at = d
  BY <1>6, ParsedIs
<1>15. ParseArgs(ts, later, j) = IF f[Len(ts)].ok /\ Tok(ts, f[Len(ts)].at) = ")"
                                 THEN Parsed(f[Len(ts)].node, f[Len(ts)].at + 1) ELSE Fails
  BY <1>5, <1>14, ArgsAreLoop DEF f, p
<1>16. ParseArgs(ts, later, j) = Parsed(<<na, nb>>, e + 1)
  BY <1>9, <1>13, <1>15, <1>q
<1> QED
  BY <1>16 DEF later, e, words

-----------------------------------------------------------------------------
(* What is written, is read.                                               *)

Tokens == LeafTokens \cup Reserved

LEMMA TokensAre ==
    /\ LeafTokens \subseteq Tokens /\ NameTokens \subseteq Tokens /\ Keywords \subseteq Tokens
    /\ {"!", "(", ")", "[", "]", "."} \subseteq Tokens /\ Comma \in Tokens
    /\ \A l \in 1..4 : Levels[l] \subseteq Tokens
    /\ NameTokens \cup Keywords \subseteq LeafTokens
    /\ LeafTokens \cap {"!", "(", ")", "()", "[]", ".", "call", "||", "&&", "==", "!=", "<", "<=", ">", ">="} = {}
<1>1. UNION ToSet(Levels) \subseteq Tokens
  BY Zenon DEF Tokens, Reserved
<1>2. Comma \in Tokens
  BY Zenon DEF Tokens, Reserved, Comma
<1>3. {"!", "(", ")", "[", "]", "."} \subseteq Tokens
  BY Zenon DEF Tokens, Reserved
<1>4. \A l \in 1..4 : Levels[l] \subseteq Tokens
  BY <1>1, LevelsAre
<1>5. NameTokens \cup Keywords \subseteq LeafTokens
  BY ExprAssumption
<1>6. LeafTokens \cap {"!", "(", ")", "()", "[]", ".", "call", "||", "&&", "==", "!=", "<", "<=", ">", ">="} = {}
  BY ExprAssumption, LevelsAre, Zenon DEF Reserved
<1>7. LeafTokens \subseteq Tokens
  BY Zenon DEF Tokens
<1> QED
  BY <1>2, <1>3, <1>4, <1>5, <1>6, <1>7

\* A text begins with a token that begins an expression, and it is read as the node wherever it stands.
WellRead(words, node, l) ==
    /\ words \in Seq(Tokens) /\ words # <<>> /\ words[1] \in LeafTokens \cup {"!", "("}
    /\ l = 6 => words[1] # "!"
    /\ \A ts \in Seq(Tokens) : \A F : ParsesFrom(F, ts) => Reads(F, ts, words, node, l)

LEMMA BothAre ==
    ASSUME NEW C, NEW a \in Seq(C), NEW b \in Seq(C), a # <<>>
    PROVE  a \o b \in Seq(C) /\ a \o b # <<>> /\ (a \o b)[1] = a[1]
OBVIOUS

LEMMA WellReadCompletes ==
    ASSUME NEW words, NEW node, NEW l \in 1..6, WellRead(words, node, l),
           NEW ts \in Seq(Tokens), NEW F, ParsesFrom(F, ts)
    PROVE  Completes(F, ts, words, node, l)
<1>1. words \in Seq(Tokens) /\ Reads(F, ts, words, node, l)
  BY DEF WellRead
<1> QED
  BY <1>1, ReadsCompletes

LEMMA LeafWellRead ==
    ASSUME NEW t \in LeafTokens
    PROVE  WellRead(<<t>>, Node(t, <<>>), 6)
<1>1. t \in Tokens /\ t # "!"
  BY TokensAre
<1>2. \A ts \in Seq(Tokens) : \A F : ParsesFrom(F, ts) => Reads(F, ts, <<t>>, Node(t, <<>>), 6)
  BY <1>1, LeafReads
<1>3. <<t>> \in Seq(Tokens) /\ <<t>> # <<>> /\ <<t>>[1] = t
  BY <1>1
<1> QED
  BY <1>1, <1>2, <1>3 DEF WellRead

LEMMA GroupWellRead ==
    ASSUME NEW words, NEW node, WellRead(words, node, 1)
    PROVE  WellRead(<<"(">> \o words \o <<")">>, Node("()", <<node>>), 6)
<1> DEFINE o   == <<"(">>
           c   == <<")">>
           all == o \o words \o c
<1>1. o \in Seq(Tokens) /\ c \in Seq(Tokens) /\ o # <<>> /\ o[1] = "(" /\ {"(", ")"} \subseteq Tokens
  BY TokensAre
<1>2. words \in Seq(Tokens)
  BY DEF WellRead
<1>3. \A ts \in Seq(Tokens) : \A F : ParsesFrom(F, ts) => Reads(F, ts, all, Node("()", <<node>>), 6)
  <2> SUFFICES ASSUME NEW ts \in Seq(Tokens), NEW F, ParsesFrom(F, ts)
               PROVE  Reads(F, ts, all, Node("()", <<node>>), 6)
    OBVIOUS
  <2>1. 1 \in 1..6
    OBVIOUS
  <2>2. Completes(F, ts, words, node, 1)
    BY <2>1, WellReadCompletes
  <2> QED
    BY <1>1, <1>2, <2>2, GroupReads
<1> HIDE DEF o, c
<1>4. all \in Seq(Tokens) /\ all # <<>> /\ all[1] = "("
  <2>1. o \o words \in Seq(Tokens) /\ o \o words # <<>> /\ (o \o words)[1] = "("
    BY <1>1, <1>2, BothAre
  <2> QED
    BY <1>1, <2>1, BothAre
<1> HIDE DEF all
<1>5. WellRead(all, Node("()", <<node>>), 6)
  BY <1>3, <1>4 DEF WellRead
<1> QED
  BY <1>5 DEF all, o, c

LEMMA NotWellRead ==
    ASSUME NEW words, NEW node, WellRead(words, node, 5)
    PROVE  WellRead(<<"!">> \o words, Node("!", <<node>>), 5)
<1> DEFINE o   == <<"!">>
           all == o \o words
<1>1. o \in Seq(Tokens) /\ o # <<>> /\ o[1] = "!" /\ "!" \in Tokens
  BY TokensAre
<1>2. words \in Seq(Tokens)
  BY DEF WellRead
<1>3. \A ts \in Seq(Tokens) : \A F : ParsesFrom(F, ts) => Reads(F, ts, all, Node("!", <<node>>), 5)
  <2> SUFFICES ASSUME NEW ts \in Seq(Tokens), NEW F, ParsesFrom(F, ts)
               PROVE  Reads(F, ts, all, Node("!", <<node>>), 5)
    OBVIOUS
  <2>1. 5 \in 1..6
    OBVIOUS
  <2>2. Completes(F, ts, words, node, 5)
    BY <2>1, WellReadCompletes
  <2> QED
    BY <1>1, <1>2, <2>2, NotReads
<1> HIDE DEF o
<1>4. all \in Seq(Tokens) /\ all # <<>> /\ all[1] = "!"
  BY <1>1, <1>2, BothAre
<1> HIDE DEF all
<1>5. WellRead(all, Node("!", <<node>>), 5)
  BY <1>3, <1>4 DEF WellRead
<1> QED
  BY <1>5 DEF all, o

\* What goes on from a text that is read.
LEMMA GoesOnWellRead ==
    ASSUME NEW a, NEW na, NEW l, WellRead(a, na, l), NEW s \in Seq(Tokens), NEW n,
           \A ts \in Seq(Tokens) : \A F : ParsesFrom(F, ts) => Reads(F, ts, a \o s, n, l)
    PROVE  WellRead(a \o s, n, l)
<1>1. a \in Seq(Tokens) /\ a # <<>> /\ a[1] \in LeafTokens \cup {"!", "("} /\ (l = 6 => a[1] # "!")
  BY DEF WellRead
<1>2. a \o s \in Seq(Tokens) /\ a \o s # <<>> /\ (a \o s)[1] = a[1]
  BY <1>1, BothAre
<1> DEFINE all == a \o s
<1> HIDE DEF all
<1>3. WellRead(all, n, l)
  BY <1>1, <1>2 DEF WellRead, all
<1> QED
  BY <1>3 DEF all

LEMMA BinaryWellRead ==
    ASSUME NEW l \in 1..4, NEW op \in Levels[l],
           NEW a, NEW na, WellRead(a, na, l), NEW b, NEW nb, WellRead(b, nb, l + 1)
    PROVE  WellRead(a \o <<op>> \o b, Node(op, <<na, nb>>), l)
<1> DEFINE o == <<op>>
           s == o \o b
           n == Node(op, <<na, nb>>)
<1>1. o \in Seq(Tokens) /\ op \in Tokens
  BY TokensAre
<1>2. a \in Seq(Tokens) /\ b \in Seq(Tokens)
  BY DEF WellRead
<1>3. \A ts \in Seq(Tokens) : \A F : ParsesFrom(F, ts) => Reads(F, ts, a \o o \o b, n, l)
  <2> SUFFICES ASSUME NEW ts \in Seq(Tokens), NEW F, ParsesFrom(F, ts)
               PROVE  Reads(F, ts, a \o o \o b, n, l)
    OBVIOUS
  <2>1. l + 1 \in 1..6
    OBVIOUS
  <2>2. Completes(F, ts, b, nb, l + 1)
    BY <2>1, WellReadCompletes
  <2>3. Reads(F, ts, a, na, l)
    BY DEF WellRead
  <2> QED
    BY <1>1, <1>2, <2>2, <2>3, BinaryReads
<1> HIDE DEF o
<1>4. s \in Seq(Tokens)
  BY <1>1, <1>2
<1>5. a \o o \o b = a \o s
  <2> DEFINE Q == Seq(Tokens)
  <2>1. Associates(Q) /\ a \in Q /\ o \in Q /\ b \in Q
    BY <1>1, <1>2, SeqAssociates
  <2> HIDE DEF Q
  <2> QED
    BY <2>1, Zenon DEF Associates
<1> HIDE DEF s, n
<1>6. WellRead(a \o s, n, l)
  BY <1>3, <1>4, <1>5, GoesOnWellRead
<1> QED
  BY <1>5, <1>6 DEF o, n

LEMMA DotWellRead ==
    ASSUME NEW f \in NameTokens \cup Keywords, NEW a, NEW na, WellRead(a, na, 6)
    PROVE  WellRead(a \o <<".", f>>, Node(".", <<na, Node(f, <<>>)>>), 6)
<1> DEFINE s == <<".", f>>
           n == Node(".", <<na, Node(f, <<>>)>>)
<1>1. "." \in Tokens /\ f \in Tokens
  BY TokensAre
<1>2. s \in Seq(Tokens)
  BY <1>1
<1>3. a \in Seq(Tokens)
  BY DEF WellRead
<1>4. \A ts \in Seq(Tokens) : \A F : ParsesFrom(F, ts) => Reads(F, ts, a \o s, n, 6)
  <2> SUFFICES ASSUME NEW ts \in Seq(Tokens), NEW F, ParsesFrom(F, ts)
               PROVE  Reads(F, ts, a \o s, n, 6)
    OBVIOUS
  <2>1. Reads(F, ts, a, na, 6)
    BY DEF WellRead
  <2> QED
    BY <1>1, <1>3, <2>1, DotReads
<1> HIDE DEF s, n
<1>5. WellRead(a \o s, n, 6)
  BY <1>2, <1>4, GoesOnWellRead
<1> QED
  BY <1>5 DEF s, n

LEMMA IndexWellRead ==
    ASSUME NEW a, NEW na, WellRead(a, na, 6), NEW b, NEW nb, WellRead(b, nb, 1)
    PROVE  WellRead(a \o <<"[">> \o b \o <<"]">>, Node("[]", <<na, nb>>), 6)
<1> DEFINE o == <<"[">>
           c == <<"]">>
           s == o \o b \o c
           n == Node("[]", <<na, nb>>)
<1>1. o \in Seq(Tokens) /\ c \in Seq(Tokens) /\ {"[", "]"} \subseteq Tokens
  BY TokensAre
<1>2. a \in Seq(Tokens) /\ b \in Seq(Tokens)
  BY DEF WellRead
<1>3. \A ts \in Seq(Tokens) : \A F : ParsesFrom(F, ts) => Reads(F, ts, a \o s, n, 6)
  <2> SUFFICES ASSUME NEW ts \in Seq(Tokens), NEW F, ParsesFrom(F, ts)
               PROVE  Reads(F, ts, a \o s, n, 6)
    OBVIOUS
  <2>1. 1 \in 1..6
    OBVIOUS
  <2>2. Completes(F, ts, b, nb, 1)
    BY <2>1, WellReadCompletes
  <2>3. Reads(F, ts, a, na, 6)
    BY DEF WellRead
  <2> QED
    BY <1>1, <1>2, <2>2, <2>3, IndexReads
<1> HIDE DEF o, c
<1>4. s \in Seq(Tokens)
  BY <1>1, <1>2
<1>5. a \o o \o b \o c = a \o s
  <2> DEFINE Q == Seq(Tokens)
  <2>1. a \in Q /\ o \in Q /\ b \in Q /\ c \in Q /\ Chained(o, b) \in Q
    BY <1>1, <1>2 DEF Chained
  <2>2. Associates(Q)
    BY SeqAssociates
  <2> HIDE DEF Q
  <2>3. Chained(Chained(Chained(a, o), b), c) = Chained(a, Chained(Chained(o, b), c))
    BY <2>1, <2>2, Regrouped
  <2> QED
    BY <2>3, Zenon DEF Chained
<1> HIDE DEF s, n
<1>6. WellRead(a \o s, n, 6)
  BY <1>3, <1>4, GoesOnWellRead
<1> QED
  BY <1>5, <1>6 DEF o, c, n

\* The arguments are read as nodes.
WellReadArgs(words, ns) ==
    /\ words \in Seq(Tokens)
    /\ \A ts \in Seq(Tokens) : \A F : ParsesFrom(F, ts) => ReadsArgs(F, ts, words, ns)

LEMMA NoArgsWellRead == WellReadArgs(<<>>, <<>>)
<1>1. \A ts \in Seq(Tokens) : \A F : ReadsArgs(F, ts, <<>>, <<>>)
  BY NoArgsRead
<1>2. <<>> \in Seq(Tokens)
  OBVIOUS
<1> QED
  BY <1>1, <1>2 DEF WellReadArgs

LEMMA TwoArgsWellRead ==
    ASSUME NEW a, NEW na, WellRead(a, na, 1), NEW b, NEW nb, WellRead(b, nb, 1)
    PROVE  WellReadArgs(a \o <<Comma>> \o b, <<na, nb>>)
<1>1. Comma \in Tokens
  BY TokensAre
<1>2. /\ a \in Seq(Tokens) /\ b \in Seq(Tokens) /\ a # <<>> /\ a[1] # ")"
  <2>1. a \in Seq(Tokens) /\ b \in Seq(Tokens) /\ a # <<>> /\ a[1] \in LeafTokens \cup {"!", "("}
    BY DEF WellRead
  <2>2. ")" \notin LeafTokens \cup {"!", "("}
    BY TokensAre
  <2> QED
    BY <2>1, <2>2
<1>3. \A ts \in Seq(Tokens) : \A F : ParsesFrom(F, ts) => ReadsArgs(F, ts, a \o <<Comma>> \o b, <<na, nb>>)
  <2> SUFFICES ASSUME NEW ts \in Seq(Tokens), NEW F, ParsesFrom(F, ts)
               PROVE  ReadsArgs(F, ts, a \o <<Comma>> \o b, <<na, nb>>)
    OBVIOUS
  <2>1. 1 \in 1..6
    OBVIOUS
  <2>2. Completes(F, ts, a, na, 1) /\ Completes(F, ts, b, nb, 1)
    BY <2>1, WellReadCompletes
  <2> QED
    BY <1>1, <1>2, <2>2, TwoArgsRead
<1>4. a \o <<Comma>> \o b \in Seq(Tokens)
  BY <1>1, <1>2
<1> QED
  BY <1>3, <1>4 DEF WellReadArgs

LEMMA CallWellRead ==
    ASSUME NEW name \in NameTokens, NEW words, NEW ns, WellReadArgs(words, ns)
    PROVE  WellRead(<<name, "(">> \o words \o <<")">>, Node("call", <<Node(name, <<>>)>> \o ns), 6)
<1> DEFINE a == <<name>>
           o == <<"(">>
           c == <<")">>
           s == o \o words \o c
           n == Node("call", <<Node(name, <<>>)>> \o ns)
<1>0. name \in LeafTokens /\ name \in Tokens /\ {"(", ")"} \subseteq Tokens
  BY TokensAre
<1>1. a \in Seq(Tokens) /\ o \in Seq(Tokens) /\ c \in Seq(Tokens) /\ words \in Seq(Tokens) /\ <<name, "(">> = a \o o
  <2>1. <<name, "(">> = a \o o
    BY <1>0
  <2>2. words \in Seq(Tokens)
    BY DEF WellReadArgs
  <2> QED
    BY <1>0, <2>1, <2>2
<1>2. WellRead(a, Node(name, <<>>), 6)
  BY <1>0, LeafWellRead
<1>3. \A ts \in Seq(Tokens) : \A F : ParsesFrom(F, ts) => Reads(F, ts, a \o s, n, 6)
  <2> SUFFICES ASSUME NEW ts \in Seq(Tokens), NEW F, ParsesFrom(F, ts)
               PROVE  Reads(F, ts, a \o s, n, 6)
    OBVIOUS
  <2>1. ReadsArgs(F, ts, words, ns)
    BY DEF WellReadArgs
  <2> QED
    BY <1>0, <1>1, <2>1, CallReads
<1> HIDE DEF a, o, c
<1>4. s \in Seq(Tokens)
  BY <1>1
<1>5. a \o o \o words \o c = a \o s
  <2> DEFINE Q == Seq(Tokens)
  <2>1. a \in Q /\ o \in Q /\ words \in Q /\ c \in Q /\ Chained(o, words) \in Q
    BY <1>1 DEF Chained
  <2>2. Associates(Q)
    BY SeqAssociates
  <2> HIDE DEF Q
  <2>3. Chained(Chained(Chained(a, o), words), c) = Chained(a, Chained(Chained(o, words), c))
    BY <2>1, <2>2, Regrouped
  <2> QED
    BY <2>3, Zenon DEF Chained
<1> HIDE DEF s, n
<1>6. WellRead(a \o s, n, 6)
  BY <1>2, <1>3, <1>4, GoesOnWellRead
<1> QED
  BY <1>1, <1>5, <1>6 DEF c, n

\* What is read at a level is read at the looser ones, and in parentheses at each.
LEMMA LooserWellRead ==
    ASSUME NEW words, NEW node, NEW l \in 2..6, WellRead(words, node, l)
    PROVE  WellRead(words, node, l - 1)
<1>1. \A ts \in Seq(Tokens) : \A F : ParsesFrom(F, ts) => Reads(F, ts, words, node, l - 1)
  <2> SUFFICES ASSUME NEW ts \in Seq(Tokens), NEW F, ParsesFrom(F, ts)
               PROVE  Reads(F, ts, words, node, l - 1)
    OBVIOUS
  <2>1. words \in Seq(Tokens) /\ words # <<>> /\ (l = 6 => words[1] # "!") /\ Reads(F, ts, words, node, l)
    BY DEF WellRead
  <2> QED
    BY <2>1, Descends
<1>2. l - 1 # 6
  OBVIOUS
<1> QED
  BY <1>1, <1>2 DEF WellRead

LEMMA LoosestWellRead ==
    ASSUME NEW words, NEW node, NEW L \in 1..6, WellRead(words, node, L)
    PROVE  \A l \in 1..6 : l <= L => WellRead(words, node, l)
<1> DEFINE T == {l \in 1..6 : l <= L => WellRead(words, node, l)}
<1>1. ASSUME NEW l \in 1..6, \A k \in (l + 1)..6 : k \in T
      PROVE  l \in T
  <2>1. CASE l < L
    <3>1. l + 1 \in (l + 1)..6 /\ l + 1 \in 2..6 /\ l + 1 <= L /\ (l + 1) - 1 = l
      BY <2>1, <1>1
    <3>2. WellRead(words, node, l + 1)
      BY <1>1, <3>1
    <3>3. WellRead(words, node, (l + 1) - 1)
      BY <3>1, <3>2, LooserWellRead
    <3> QED
      BY <3>1, <3>3
  <2>2. CASE l = L
    BY <2>2
  <2>3. CASE l > L
    BY <2>3, <1>1
  <2> QED
    BY <2>1, <2>2, <2>3, <1>1
<1> HIDE DEF T
<1>2. \A l \in 1..6 : l \in T
  BY <1>1, DownFrom
<1> QED
  BY <1>2 DEF T

\* How a node is written at each level, when it can be written so at one.
AtLevels(words, node, L) ==
    [level \in 1..6 |-> IF level <= L THEN [text |-> words, node |-> node]
                        ELSE [text |-> <<"(">> \o words \o <<")">>, node |-> Node("()", <<node>>)]]

AllWellRead(w) == \A l \in 1..6 : WellRead(w[l].text, w[l].node, l)

LEMMA LevelsWellRead ==
    ASSUME NEW words, NEW node, NEW L \in 1..6, WellRead(words, node, L)
    PROVE  AllWellRead(AtLevels(words, node, L))
<1> DEFINE group == <<"(">> \o words \o <<")">>
           gnode == Node("()", <<node>>)
<1>1. \A l \in 1..6 : l <= L => WellRead(words, node, l)
  BY LoosestWellRead
<1>2. WellRead(group, gnode, 6)
  <2>1. 1 \in 1..6 /\ 1 <= L
    OBVIOUS
  <2>2. WellRead(words, node, 1)
    BY <1>1, <2>1
  <2> QED
    BY <2>2, GroupWellRead
<1>3. \A l \in 1..6 : l <= 6 => WellRead(group, gnode, l)
  <2>1. 6 \in 1..6
    OBVIOUS
  <2> HIDE DEF group, gnode
  <2> QED
    BY <1>2, <2>1, LoosestWellRead
<1>4. ASSUME NEW l \in 1..6
      PROVE  AtLevels(words, node, L)[l] = IF l <= L THEN [text |-> words, node |-> node]
                                          ELSE [text |-> group, node |-> gnode]
  BY DEF AtLevels
<1> HIDE DEF group, gnode
<1>5. \A l \in 1..6 : l <= 6
  OBVIOUS
<1> QED
  BY <1>1, <1>3, <1>4, <1>5 DEF AllWellRead

-----------------------------------------------------------------------------
(* How the nodes are written.                                              *)

LEMMA LevelsOf ==
    /\ \A l \in 1..4 : \A op \in Levels[l] : LevelOf(op) = l
    /\ LevelOf("!") = 5
    /\ \A op \in LeafTokens \cup {"()", ".", "[]", "call"} : LevelOf(op) = 6
<1> DEFINE Ops == {"||", "&&", "==", "!=", "<", "<=", ">", ">="}
<1>1. ASSUME NEW l \in 1..4, NEW op \in Levels[l]
      PROVE  LevelOf(op) = l
  <2>1. \A k \in 1..4 : op \in Levels[k] => k = l
    <3>1. \A k \in 1..4 : k \in {1, 2, 3, 4}
      OBVIOUS
    <3> QED
      BY <3>1, LevelsAre
  <2>2. \E k \in 1..4 : op \in Levels[k]
    OBVIOUS
  <2>3. (CHOOSE k \in 1..4 : op \in Levels[k]) = l
    BY <2>1
  <2> QED
    BY <2>2, <2>3 DEF LevelOf
<1>2. \A l \in 1..4 : Levels[l] \subseteq Ops
  BY LevelsAre
<1>3. ASSUME NEW op, op \notin Ops
      PROVE  LevelOf(op) = IF op = "!" THEN 5 ELSE 6
  <2>1. ~\E k \in 1..4 : op \in Levels[k]
    BY <1>2, <1>3
  <2> QED
    BY <2>1, Zenon DEF LevelOf
<1>4. LeafTokens \cap (Ops \cup {"!"}) = {}
  BY TokensAre
<1>5. \A op \in LeafTokens \cup {"()", ".", "[]", "call"} : op \notin Ops /\ op # "!"
  BY <1>4
<1>6. "!" \notin Ops
  OBVIOUS
<1> HIDE DEF Ops
<1> QED
  BY <1>1, <1>3, <1>5, <1>6

\* The parts of a node, each at the level it is written at.
PartAt(n, r) == [i \in DOMAIN n.of |-> r[i][PartLevel(n.op, i)]]

TextAt(n, part) ==
    CASE n.of = <<>> -> <<n.op>>
      [] n.op = "!"  -> <<"!">> \o part[1].text
      [] n.op = "()" -> <<"(">> \o part[1].text \o <<")">>
      [] n.op = "."  -> part[1].text \o <<".", n.of[2].op>>
      [] n.op = "[]" -> part[1].text \o <<"[">> \o part[2].text \o <<"]">>
      [] n.op = "call" -> <<n.of[1].op, "(">>
                          \o (IF Len(n.of) = 1 THEN <<>> ELSE part[2].text \o <<Comma>> \o part[3].text)
                          \o <<")">>
      [] OTHER -> part[1].text \o <<n.op>> \o part[2].text

NodeOf(n, part) == Node(n.op, [i \in DOMAIN n.of |-> part[i].node])

LEMMA SpelledIs ==
    ASSUME NEW n, NEW r
    PROVE  Spelled(n, r) = AtLevels(TextAt(n, PartAt(n, r)), NodeOf(n, PartAt(n, r)), LevelOf(n.op))
BY Zenon DEF Spelled, AtLevels, TextAt, NodeOf, PartAt, Comma

\* The text of a node, one case for each form of it.
LEMMA TextsOfForms ==
    ASSUME NEW n, NEW p
    PROVE  /\ n.of = <<>> /\ n.op \in LeafTokens => TextAt(n, p) = <<n.op>>
           /\ n.of # <<>> =>
                /\ n.op = "!" => TextAt(n, p) = <<"!">> \o p[1].text
                /\ n.op = "()" => TextAt(n, p) = <<"(">> \o p[1].text \o <<")">>
                /\ n.op = "." => TextAt(n, p) = p[1].text \o <<".", n.of[2].op>>
                /\ n.op = "[]" => TextAt(n, p) = p[1].text \o <<"[">> \o p[2].text \o <<"]">>
                /\ n.op = "call" => TextAt(n, p) =
                      <<n.of[1].op, "(">>
                      \o (IF Len(n.of) = 1 THEN <<>> ELSE p[2].text \o <<Comma>> \o p[3].text) \o <<")">>
                /\ n.op \in UNION ToSet(Levels) => TextAt(n, p) = p[1].text \o <<n.op>> \o p[2].text
<1>1. n.of = <<>> /\ n.op \in LeafTokens => TextAt(n, p) = <<n.op>>
  <2>1. n.op \in LeafTokens => n.op \notin {"!", "()", ".", "[]", "call"}
    BY TokensAre
  <2> QED
    BY <2>1, Zenon DEF TextAt
<1>2. n.of # <<>> /\ n.op = "!" => TextAt(n, p) = <<"!">> \o p[1].text
  BY DEF TextAt
<1>3. n.of # <<>> /\ n.op = "()" => TextAt(n, p) = <<"(">> \o p[1].text \o <<")">>
  BY DEF TextAt
<1>4. n.of # <<>> /\ n.op = "." => TextAt(n, p) = p[1].text \o <<".", n.of[2].op>>
  BY DEF TextAt
<1>5. n.of # <<>> /\ n.op = "[]" => TextAt(n, p) = p[1].text \o <<"[">> \o p[2].text \o <<"]">>
  BY DEF TextAt
<1>6. n.of # <<>> /\ n.op = "call" =>
         TextAt(n, p) = <<n.of[1].op, "(">>
                        \o (IF Len(n.of) = 1 THEN <<>> ELSE p[2].text \o <<Comma>> \o p[3].text) \o <<")">>
  BY DEF TextAt
<1>7. n.of # <<>> /\ n.op \in UNION ToSet(Levels) => TextAt(n, p) = p[1].text \o <<n.op>> \o p[2].text
  <2>1. n.op \in UNION ToSet(Levels) => n.op \notin {"!", "()", ".", "[]", "call"}
    BY LevelsAre
  <2> QED
    BY <2>1, Zenon DEF TextAt
<1> QED
  BY <1>1, <1>2, <1>3, <1>4, <1>5, <1>6, <1>7, Zenon

LEMMA NamesAre ==
    ASSUME NEW S, NEW m \in Nodes(S)
    PROVE  /\ m.op = "." => \E f \in NameTokens \cup Keywords : m.of[2] = Node(f, <<>>) /\ m.of[2].op = f
           /\ m.op = "call" => \E f \in NameTokens : m.of[1] = Node(f, <<>>) /\ m.of[1].op = f
<1>0. \A N : \A x \in Leaves(N) : \E f \in N : x = Node(f, <<>>) /\ x.op = f
  BY DEF Leaves, Node
<1>1. CASE m \in Leaves(LeafTokens)
  <2>1. m.op \in LeafTokens
    BY <1>1 DEF Leaves, Node
  <2>2. m.op # "." /\ m.op # "call"
    BY <2>1, TokensAre
  <2> QED
    BY <2>2
<1>2. CASE m \in [op : {"!", "()"}, of : [1..1 -> S]]
  BY <1>2
<1>3. CASE m \in [op : (UNION ToSet(Levels)) \cup {"[]"}, of : S \X S]
  BY <1>3, LevelsAre
<1>4. CASE m \in [op : {"."}, of : S \X Leaves(NameTokens \cup Keywords)]
  <2>1. m.op = "." /\ m.of[2] \in Leaves(NameTokens \cup Keywords)
    BY <1>4
  <2> QED
    BY <1>0, <2>1
<1>5. CASE m \in [op : {"call"}, of : [1..1 -> Leaves(NameTokens)] \cup (Leaves(NameTokens) \X S \X S)]
  <2>1. m.op = "call" /\ m.of[1] \in Leaves(NameTokens)
    BY <1>5
  <2> QED
    BY <1>0, <2>1
<1> QED
  BY <1>1, <1>2, <1>3, <1>4, <1>5 DEF Nodes, MadeOf

LEMMA PartLevels ==
    /\ PartLevel("!", 1) = 5 /\ PartLevel("()", 1) = 1
    /\ \A l \in 1..4 : \A op \in Levels[l] : PartLevel(op, 1) = l /\ PartLevel(op, 2) = l + 1
    /\ \A op \in {".", "[]", "call"} : PartLevel(op, 1) = 6 /\ PartLevel(op, 2) = 1 /\ PartLevel(op, 3) = 1
<1>1. PartLevel("!", 1) = 5 /\ PartLevel("()", 1) = 1
  BY DEF PartLevel
<1>2. ASSUME NEW l \in 1..4, NEW op \in Levels[l]
      PROVE  PartLevel(op, 1) = l /\ PartLevel(op, 2) = l + 1
  <2>1. op # "!" /\ op # "()"
    <3>1. l \in {1, 2, 3, 4}
      OBVIOUS
    <3> QED
      BY <3>1, LevelsAre
  <2>2. LevelOf(op) = l /\ l < 5 /\ (l + 1) - 1 = l /\ (l + 2) - 1 = l + 1
    BY LevelsOf
  <2>3. \A i \in {1, 2} : PartLevel(op, i) = (LevelOf(op) + i) - 1
    BY <2>1, <2>2 DEF PartLevel
  <2> QED
    BY <2>2, <2>3
<1>3. ASSUME NEW op \in {".", "[]", "call"}
      PROVE  PartLevel(op, 1) = 6 /\ PartLevel(op, 2) = 1 /\ PartLevel(op, 3) = 1
  <2>1. op # "!" /\ op # "()" /\ LevelOf(op) = 6
    BY LevelsOf
  <2> QED
    BY <2>1 DEF PartLevel
<1> QED
  BY <1>1, <1>2, <1>3

LEMMA NodesOf ==
    ASSUME NEW n, NEW p
    PROVE  /\ DOMAIN n.of = {} => NodeOf(n, p) = Node(n.op, <<>>)
           /\ DOMAIN n.of = {1} => NodeOf(n, p) = Node(n.op, <<p[1].node>>)
           /\ DOMAIN n.of = {1, 2} => NodeOf(n, p) = Node(n.op, <<p[1].node, p[2].node>>)
           /\ DOMAIN n.of = {1, 2, 3} => NodeOf(n, p) = Node(n.op, <<p[1].node, p[2].node, p[3].node>>)
<1>1. [i \in {} |-> p[i].node] = <<>>
  OBVIOUS
<1>2. [i \in {1} |-> p[i].node] = <<p[1].node>>
  OBVIOUS
<1>3. [i \in {1, 2} |-> p[i].node] = <<p[1].node, p[2].node>>
  OBVIOUS
<1>4. [i \in {1, 2, 3} |-> p[i].node] = <<p[1].node, p[2].node, p[3].node>>
  OBVIOUS
<1> QED
  BY <1>1, <1>2, <1>3, <1>4 DEF NodeOf

\* The parts are written so that they are read.
PartsWellRead(m, r) ==
    \A i \in DOMAIN m.of :
        /\ AllWellRead(r[i])
        /\ m.of[i] \in Leaves(LeafTokens) => \A l \in 1..6 : r[i][l].node = m.of[i]

LEMMA TextWellRead ==
    ASSUME NEW S, NEW m \in Nodes(S), NEW r, PartsWellRead(m, r)
    PROVE  WellRead(TextAt(m, PartAt(m, r)), NodeOf(m, PartAt(m, r)), LevelOf(m.op))
<1> DEFINE p == PartAt(m, r)
<1>1. \A i \in DOMAIN m.of : p[i] = r[i][PartLevel(m.op, i)]
  BY DEF PartAt
<1>2. ASSUME NEW i \in DOMAIN m.of, PartLevel(m.op, i) \in 1..6
      PROVE  WellRead(p[i].text, p[i].node, PartLevel(m.op, i))
  <2>1. AllWellRead(r[i])
    BY DEF PartsWellRead
  <2> HIDE DEF p
  <2> QED
    BY <1>1, <1>2, <2>1 DEF AllWellRead
<1>3. ASSUME NEW i \in DOMAIN m.of, PartLevel(m.op, i) \in 1..6, m.of[i] \in Leaves(LeafTokens)
      PROVE  p[i].node = m.of[i]
  <2> HIDE DEF p
  <2> QED
    BY <1>1, <1>3 DEF PartsWellRead
<1> HIDE DEF p
<1>f. \/ m.op \in LeafTokens /\ m.of = <<>> /\ DOMAIN m.of = {}
      \/ m.op = "!" /\ DOMAIN m.of = {1} /\ m.of # <<>>
      \/ m.op = "()" /\ DOMAIN m.of = {1} /\ m.of # <<>>
      \/ m.op \in UNION ToSet(Levels) /\ DOMAIN m.of = {1, 2} /\ m.of # <<>>
      \/ m.op = "[]" /\ DOMAIN m.of = {1, 2} /\ m.of # <<>>
      \/ m.op = "." /\ DOMAIN m.of = {1, 2} /\ m.of # <<>>
      \/ m.op = "call" /\ DOMAIN m.of = {1} /\ m.of # <<>> /\ m.of = <<m.of[1]>>
      \/ m.op = "call" /\ DOMAIN m.of = {1, 2, 3} /\ m.of # <<>> /\ m.of = <<m.of[1], m.of[2], m.of[3]>>
  BY FormsAre
<1>n. Leaves(NameTokens) \subseteq Leaves(LeafTokens) /\ Leaves(NameTokens \cup Keywords) \subseteq Leaves(LeafTokens)
  BY TokensAre DEF Leaves
<1>l. \A N : \A f \in N : Node(f, <<>>) \in Leaves(N)
  BY DEF Leaves
<1>4. CASE m.op \in LeafTokens /\ m.of = <<>> /\ DOMAIN m.of = {}
  BY <1>4, TextsOfForms, NodesOf, LevelsOf, LeafWellRead DEF p
<1>5. CASE m.op = "!" /\ DOMAIN m.of = {1} /\ m.of # <<>>
  <2>1. WellRead(p[1].text, p[1].node, 5)
    BY <1>2, <1>5, PartLevels
  <2>2. TextAt(m, p) = <<"!">> \o p[1].text
    BY <1>5, TextsOfForms
  <2>3. NodeOf(m, p) = Node("!", <<p[1].node>>)
    BY <1>5, NodesOf
  <2>4. LevelOf(m.op) = 5
    BY <1>5, LevelsOf
  <2> QED
    BY <2>1, <2>2, <2>3, <2>4, NotWellRead DEF p
<1>6. CASE m.op = "()" /\ DOMAIN m.of = {1} /\ m.of # <<>>
  <2>1. WellRead(p[1].text, p[1].node, 1)
    BY <1>2, <1>6, PartLevels
  <2>2. TextAt(m, p) = <<"(">> \o p[1].text \o <<")">>
    BY <1>6, TextsOfForms
  <2>3. NodeOf(m, p) = Node("()", <<p[1].node>>)
    BY <1>6, NodesOf
  <2>4. LevelOf(m.op) = 6
    BY <1>6, LevelsOf
  <2> QED
    BY <2>1, <2>2, <2>3, <2>4, GroupWellRead DEF p
<1>7. CASE m.op \in UNION ToSet(Levels) /\ DOMAIN m.of = {1, 2} /\ m.of # <<>>
  <2>1. PICK l \in 1..4 : m.op \in Levels[l]
    <3>1. 1 \in 1..4 /\ 2 \in 1..4 /\ 3 \in 1..4 /\ 4 \in 1..4
      OBVIOUS
    <3> QED
      BY <1>7, <3>1, LevelsAre
  <2>2. PartLevel(m.op, 1) = l /\ PartLevel(m.op, 2) = l + 1 /\ LevelOf(m.op) = l
    BY <2>1, PartLevels, LevelsOf
  <2>3. l \in 1..6 /\ l + 1 \in 1..6
    OBVIOUS
  <2>4. WellRead(p[1].text, p[1].node, l) /\ WellRead(p[2].text, p[2].node, l + 1)
    BY <1>2, <1>7, <2>2, <2>3
  <2>5. TextAt(m, p) = p[1].text \o <<m.op>> \o p[2].text /\ NodeOf(m, p) = Node(m.op, <<p[1].node, p[2].node>>)
    BY <1>7, TextsOfForms, NodesOf
  <2> QED
    BY <2>1, <2>2, <2>4, <2>5, BinaryWellRead DEF p
<1>8. CASE m.op = "[]" /\ DOMAIN m.of = {1, 2} /\ m.of # <<>>
  <2>1. WellRead(p[1].text, p[1].node, 6) /\ WellRead(p[2].text, p[2].node, 1)
    BY <1>2, <1>8, PartLevels
  <2>2. /\ TextAt(m, p) = p[1].text \o <<"[">> \o p[2].text \o <<"]">>
        /\ NodeOf(m, p) = Node("[]", <<p[1].node, p[2].node>>)
    BY <1>8, TextsOfForms, NodesOf
  <2>3. LevelOf(m.op) = 6
    BY <1>8, LevelsOf
  <2> QED
    BY <2>1, <2>2, <2>3, IndexWellRead DEF p
<1>9. CASE m.op = "." /\ DOMAIN m.of = {1, 2} /\ m.of # <<>>
  <2>1. WellRead(p[1].text, p[1].node, 6)
    BY <1>2, <1>9, PartLevels
  <2>2. PICK f \in NameTokens \cup Keywords : m.of[2] = Node(f, <<>>) /\ m.of[2].op = f
    BY <1>9, NamesAre
  <2>3. p[2].node = Node(f, <<>>)
    <3>1. PartLevel(m.op, 2) \in 1..6 /\ 2 \in DOMAIN m.of
      BY <1>9, PartLevels
    <3>2. m.of[2] \in Leaves(LeafTokens)
      BY <1>n, <1>l, <2>2
    <3> QED
      BY <1>3, <2>2, <3>1, <3>2
  <2>4. TextAt(m, p) = p[1].text \o <<".", f>>
    BY <1>9, <2>2, TextsOfForms
  <2>5. NodeOf(m, p) = Node(".", <<p[1].node, Node(f, <<>>)>>)
    BY <1>9, <2>3, NodesOf
  <2>6. LevelOf(m.op) = 6
    BY <1>9, LevelsOf
  <2> QED
    BY <2>1, <2>4, <2>5, <2>6, DotWellRead DEF p
<1>c. ASSUME m.op = "call", 1 \in DOMAIN m.of
      PROVE  \E f \in NameTokens : m.of[1].op = f /\ p[1].node = Node(f, <<>>)
  <2>1. PICK f \in NameTokens : m.of[1] = Node(f, <<>>) /\ m.of[1].op = f
    BY <1>c, NamesAre
  <2>2. PartLevel(m.op, 1) \in 1..6
    BY <1>c, PartLevels
  <2>3. m.of[1] \in Leaves(LeafTokens)
    BY <1>n, <1>l, <2>1
  <2> QED
    BY <1>3, <1>c, <2>1, <2>2, <2>3
<1>10. CASE m.op = "call" /\ DOMAIN m.of = {1} /\ m.of # <<>> /\ m.of = <<m.of[1]>>
  <2>1. PICK f \in NameTokens : m.of[1].op = f /\ p[1].node = Node(f, <<>>)
    BY <1>10, <1>c
  <2>2. Len(m.of) = 1
    <3>1. \A x : Len(<<x>>) = 1
      OBVIOUS
    <3> QED
      BY <1>10, <3>1, Zenon
  <2>3. TextAt(m, p) = <<f, "(">> \o <<>> \o <<")">> /\ LevelOf(m.op) = 6
    BY <1>10, <2>1, <2>2, TextsOfForms, LevelsOf
  <2>4. NodeOf(m, p) = Node("call", <<Node(f, <<>>)>> \o <<>>)
    <3>1. NodeOf(m, p) = Node("call", <<p[1].node>>)
      BY <1>10, NodesOf
    <3>2. <<p[1].node>> = <<p[1].node>> \o <<>>
      OBVIOUS
    <3> QED
      BY <2>1, <3>1, <3>2
  <2>5. WellRead(<<f, "(">> \o <<>> \o <<")">>, Node("call", <<Node(f, <<>>)>> \o <<>>), 6)
    BY NoArgsWellRead, CallWellRead
  <2> QED
    BY <2>3, <2>4, <2>5 DEF p
<1>11. CASE m.op = "call" /\ DOMAIN m.of = {1, 2, 3} /\ m.of # <<>> /\ m.of = <<m.of[1], m.of[2], m.of[3]>>
  <2>1. PICK f \in NameTokens : m.of[1].op = f /\ p[1].node = Node(f, <<>>)
    BY <1>11, <1>c
  <2>2. Len(m.of) # 1
    BY <1>11
  <2> DEFINE words == p[2].text \o <<Comma>> \o p[3].text
  <2>3. TextAt(m, p) = <<f, "(">> \o words \o <<")">> /\ LevelOf(m.op) = 6
    BY <1>11, <2>1, <2>2, TextsOfForms, LevelsOf
  <2>4. NodeOf(m, p) = Node("call", <<Node(f, <<>>)>> \o <<p[2].node, p[3].node>>)
    <3>1. NodeOf(m, p) = Node("call", <<p[1].node, p[2].node, p[3].node>>)
      BY <1>11, NodesOf
    <3>2. <<Node(f, <<>>)>> \o <<p[2].node, p[3].node>> = <<Node(f, <<>>), p[2].node, p[3].node>>
      BY OneAndTwo
    <3> QED
      BY <2>1, <3>1, <3>2, Zenon
  <2>5. WellRead(p[2].text, p[2].node, 1) /\ WellRead(p[3].text, p[3].node, 1)
    BY <1>2, <1>11, PartLevels
  <2>6. WellReadArgs(words, <<p[2].node, p[3].node>>)
    BY <2>5, TwoArgsWellRead
  <2> HIDE DEF words
  <2>7. WellRead(<<f, "(">> \o words \o <<")">>, Node("call", <<Node(f, <<>>)>> \o <<p[2].node, p[3].node>>), 6)
    BY <2>6, CallWellRead
  <2> QED
    BY <2>3, <2>4, <2>7 DEF p
<1> QED
  BY <1>f, <1>4, <1>5, <1>6, <1>7, <1>8, <1>9, <1>10, <1>11

LEMMA SpelledWellRead ==
    ASSUME NEW S, NEW m \in Nodes(S), NEW r, PartsWellRead(m, r)
    PROVE  /\ AllWellRead(Spelled(m, r))
           /\ m \in Leaves(LeafTokens) => \A l \in 1..6 : Spelled(m, r)[l].node = m
<1> DEFINE words == TextAt(m, PartAt(m, r))
           node == NodeOf(m, PartAt(m, r))
<1>1. WellRead(words, node, LevelOf(m.op))
  BY TextWellRead
<1>2. Spelled(m, r) = AtLevels(words, node, LevelOf(m.op))
  BY SpelledIs
<1>3. LevelOf(m.op) \in 1..6
  <2>1. LevelOf(m.op) \in 1..4 \/ LevelOf(m.op) = 5 \/ LevelOf(m.op) = 6
    BY DEF LevelOf
  <2> QED
    BY <2>1
<1>4. m \in Leaves(LeafTokens) => node = m /\ LevelOf(m.op) = 6
  <2> SUFFICES ASSUME m \in Leaves(LeafTokens)
               PROVE  node = m /\ LevelOf(m.op) = 6
    OBVIOUS
  <2>1. m = Node(m.op, <<>>) /\ m.op \in LeafTokens /\ m.of = <<>>
    BY DEF Leaves, Node
  <2>2. DOMAIN m.of = {}
    BY <2>1
  <2> QED
    BY <2>1, <2>2, NodesOf, LevelsOf
<1> HIDE DEF words, node
<1>5. AllWellRead(Spelled(m, r))
  BY <1>1, <1>2, <1>3, LevelsWellRead
<1>6. m \in Leaves(LeafTokens) => \A l \in 1..6 : Spelled(m, r)[l].node = m
  BY <1>2, <1>4 DEF AtLevels
<1> QED
  BY <1>5, <1>6

-----------------------------------------------------------------------------
(* Every expression is written so that it is read.                         *)

SpelledParts(f, m) == Spelled(m, [i \in DOMAIN m.of |-> f[m.of[i]]])

\* The definition by recursion has a meaning, and every expression is written so that it is read.
LEMMA WrittenDefined ==
    \E f : /\ \A m \in Expressions : f[m] = SpelledParts(f, m)
           /\ \A m \in Expressions : Written(m) = f[m][1]
<1> DEFINE N == Tallest
           T == {n \in 0..N : \E f : \A m \in Trees[n] : f[m] = SpelledParts(f, m)}
<1>n. N \in Nat
  BY HeightsAre
<1>t. \A h \in 0..N : Trees[h] \subseteq Expressions
  BY TreesAreExpressions
<1>1. 0 \in T
  <2> DEFINE f == [m \in Expressions |-> Spelled(m, [i \in {} |-> {}])]
  <2>1. ASSUME NEW m \in Trees[0]
        PROVE  f[m] = SpelledParts(f, m)
    <3>1. DOMAIN m.of = {} /\ m \in Expressions
      BY <2>1, <1>n, <1>t, PartsBelow
    <3>2. [i \in DOMAIN m.of |-> f[m.of[i]]] = [i \in {} |-> {}]
      BY <3>1
    <3> QED
      BY <3>1, <3>2 DEF SpelledParts
  <2> HIDE DEF f
  <2> QED
    BY <1>n, <2>1
<1>2. ASSUME NEW n \in 1..N, n - 1 \in T
      PROVE  n \in T
  <2>1. PICK f : \A m \in Trees[n - 1] : f[m] = SpelledParts(f, m)
    BY <1>2
  <2> DEFINE g == [m \in Expressions |-> SpelledParts(f, m)]
  <2>2. n \in 0..N /\ n # 0 /\ n - 1 \in 0..N
    BY <1>2, <1>n
  <2>3. \A m \in Trees[n - 1] : g[m] = f[m]
    BY <2>1, <2>2, <1>t
  <2>4. ASSUME NEW m \in Trees[n]
        PROVE  g[m] = SpelledParts(g, m)
    <3>1. m \in Expressions /\ PartsIn(m, Trees[n - 1])
      BY <2>2, <2>4, <1>t, PartsBelow
    <3>2. \A i \in DOMAIN m.of : g[m.of[i]] = f[m.of[i]]
      BY <3>1, <2>3 DEF PartsIn
    <3>3. g[m] = SpelledParts(f, m)
      BY <3>1
    <3> HIDE DEF g
    <3>4. [i \in DOMAIN m.of |-> g[m.of[i]]] = [i \in DOMAIN m.of |-> f[m.of[i]]]
      BY <3>2
    <3> QED
      BY <3>3, <3>4 DEF SpelledParts
  <2> HIDE DEF g
  <2> QED
    BY <2>2, <2>4
<1> HIDE DEF T, N
<1>3. \A n \in 0..N : n \in T
  BY <1>n, <1>1, <1>2, UpTo
<1>4. PICK f : \A m \in Trees[N] : f[m] = SpelledParts(f, m)
  BY <1>3, <1>n DEF T
<1> DEFINE IsSpelling(g) == g = [m \in Expressions |-> Spelled(m, [i \in DOMAIN m.of |-> g[m.of[i]]])]
           g == [m \in Expressions |-> f[m]]
<1>5. IsSpelling(g)
  <2>1. ASSUME NEW m \in Expressions
        PROVE  f[m] = Spelled(m, [i \in DOMAIN m.of |-> g[m.of[i]]])
    <3>1. PartsIn(m, Expressions)
      BY <2>1, TreesAreExpressions
    <3>2. \A i \in DOMAIN m.of : g[m.of[i]] = f[m.of[i]]
      BY <3>1 DEF PartsIn
    <3>3. f[m] = SpelledParts(f, m)
      BY <1>4, <2>1 DEF N, Expressions
    <3> HIDE DEF g
    <3>4. [i \in DOMAIN m.of |-> g[m.of[i]]] = [i \in DOMAIN m.of |-> f[m.of[i]]]
      BY <3>2
    <3> QED
      BY <3>3, <3>4 DEF SpelledParts
  <2> QED
    BY <2>1
<1> HIDE DEF g
<1> DEFINE v == CHOOSE x : IsSpelling(x)
<1>6. IsSpelling(v)
  BY <1>5
<1>7. ASSUME NEW m \in Expressions
      PROVE  Written(m) = v[m][1]
  BY DEF Written
<1> HIDE DEF v
<1>8. \A m \in Expressions : v[m] = SpelledParts(v, m)
  BY <1>6 DEF SpelledParts
<1> QED
  BY <1>7, <1>8

LEMMA WrittenWellRead ==
    \A m \in Expressions : WellRead(Written(m).text, Written(m).node, 1)
<1>1. PICK f : /\ \A m \in Expressions : f[m] = SpelledParts(f, m)
               /\ \A m \in Expressions : Written(m) = f[m][1]
  BY WrittenDefined
<1> DEFINE Good(m) == AllWellRead(f[m]) /\ (m \in Leaves(LeafTokens) => \A l \in 1..6 : f[m][l].node = m)
           N == Tallest
           T == {h \in 0..N : \A m \in Trees[h] : Good(m)}
<1>n. N \in Nat
  BY HeightsAre
<1>t. \A h \in 0..N : Trees[h] \subseteq Expressions
  BY TreesAreExpressions
<1>2. ASSUME NEW S, NEW m \in Nodes(S), m \in Expressions, \A i \in DOMAIN m.of : Good(m.of[i])
      PROVE  Good(m)
  <2> DEFINE r == [i \in DOMAIN m.of |-> f[m.of[i]]]
  <2>1. f[m] = Spelled(m, r)
    BY <1>1, <1>2 DEF SpelledParts
  <2>2. \A i \in DOMAIN m.of : r[i] = f[m.of[i]]
    OBVIOUS
  <2> HIDE DEF r
  <2>3. PartsWellRead(m, r)
    BY <1>2, <2>2 DEF PartsWellRead
  <2> QED
    BY <2>1, <2>3, SpelledWellRead
<1> HIDE DEF Good
<1>3. 0 \in T
  <2>1. ASSUME NEW m \in Trees[0]
        PROVE  Good(m)
    <3>1. m \in Nodes({}) /\ m \in Expressions /\ DOMAIN m.of = {}
      <4>1. 0 \in 0..Tallest
        BY HeightsAre
      <4>2. m \in Leaves(LeafTokens) /\ m \in Expressions
        BY <4>1, TreesAre, TreesAreExpressions
      <4>3. DOMAIN m.of = {}
        BY <4>1, PartsBelow
      <4> QED
        BY <4>2, <4>3 DEF Nodes
    <3> QED
      BY <1>2, <3>1
  <2> QED
    BY <1>n, <2>1
<1>4. ASSUME NEW h \in 1..N, h - 1 \in T
      PROVE  h \in T
  <2>1. h \in 0..N /\ h # 0 /\ h - 1 \in 0..N
    BY <1>4, <1>n
  <2>2. ASSUME NEW m \in Trees[h]
        PROVE  Good(m)
    <3>1. m \in Nodes(Trees[h - 1]) /\ m \in Expressions /\ PartsIn(m, Trees[h - 1])
      BY <2>1, <2>2, <1>t, TreesAre, PartsBelow
    <3>2. \A i \in DOMAIN m.of : Good(m.of[i])
      BY <1>4, <3>1 DEF PartsIn
    <3> QED
      BY <1>2, <3>1, <3>2
  <2> QED
    BY <2>1, <2>2
<1> HIDE DEF T, N
<1>5. \A h \in 0..N : h \in T
  BY <1>n, <1>3, <1>4, UpTo
<1>6. ASSUME NEW m \in Expressions
      PROVE  WellRead(Written(m).text, Written(m).node, 1)
  <2>1. m \in Trees[N] /\ N \in 0..N
    BY <1>n DEF Expressions, N
  <2>2. Good(m)
    BY <1>5, <2>1 DEF T
  <2>3. 1 \in 1..6
    OBVIOUS
  <2> QED
    BY <1>1, <2>2, <2>3 DEF Good, AllWellRead
<1> QED
  BY <1>6

LEMMA ParseReads ==
    ASSUME NEW words, NEW node, WellRead(words, node, 1)
    PROVE  Parse(words) = Parsed(node, Len(words) + 1)
<1>1. words \in Seq(Tokens)
  BY DEF WellRead
<1>2. PICK F : /\ ParsesFrom(F, words)
               /\ Parse(words) = IF F[1][1].ok /\ F[1][1].at = Len(words) + 1 THEN F[1][1] ELSE Fails
  BY <1>1, ParsingDefined
<1>3. Completes(F, words, words, node, 1)
  <2>1. 1 \in 1..6
    OBVIOUS
  <2> QED
    BY <1>1, <1>2, <2>1, WellReadCompletes
<1>4. Stands(words, words, 1) /\ 1 + Len(words) = Len(words) + 1 /\ Tok(words, 1 + Len(words)) = "EOF"
  <2>1. Len(words) \in Nat /\ DOMAIN words = 1..Len(words)
    BY <1>1
  <2>2. 1 + Len(words) = Len(words) + 1 /\ 1 + Len(words) \notin DOMAIN words /\ 1 \in 1..(Len(words) + 1)
    BY <2>1
  <2>3. \A x \in 1..Len(words) : 1 + (x - 1) = x
    BY <2>1
  <2> QED
    BY <2>1, <2>2, <2>3 DEF Stands, Tok
<1>5. F[1][1] = Parsed(node, Len(words) + 1)
  <2>1. "EOF" \notin Tighter(1) \cup Continues(1)
    BY Closers, Zenon
  <2> QED
    BY <1>3, <1>4, <2>1 DEF Completes
<1>6. F[1][1].ok = TRUE /\ F[1][1].at = Len(words) + 1
  BY <1>5, ParsedIs
<1> QED
  BY <1>2, <1>5, <1>6

\* Whatever the names and literals are and whatever is put around them, an expression written with
\* as few parentheses as the grammar allows is parsed to just what was written (parser.go:52).
THEOREM ParsingInvertsWriting == ExprInit /\ [][ExprNext]_exprVars => []ParseInvertsWriting
<1>1. ExprInit => ExprIInv
  BY ExprStarts
<1>2. ExprIInv /\ [ExprNext]_exprVars => ExprIInv'
  BY ExprSteps
<1>3. ExprIInv => ParseInvertsWriting
  <2> SUFFICES ASSUME ExprIInv
               PROVE  ParseInvertsWriting
    OBVIOUS
  <2>1. MaxHeight + growth \in 0..Tallest
    BY HeightsAre DEF ExprIInv
  <2>2. expression \in Expressions
    BY <2>1, TreesAreExpressions DEF ExprIInv
  <2>3. WellRead(Written(expression).text, Written(expression).node, 1)
    BY <2>2, WrittenWellRead
  <2> QED
    BY <2>3, ParseReads DEF ParseInvertsWriting
<1> QED
  BY <1>1, <1>2, <1>3, PTL
=============================================================================
