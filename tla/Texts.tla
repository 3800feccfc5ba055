------------------------------- MODULE Texts --------------------------------
(***************************************************************************)
(* The parts of src/internal/expression that look at single characters:    *)
(* format() and hashFiles() with its glob patterns (functions.go), and the *)
(* search for ${{ and }} in a text (interpolation.go).                     *)
(*                                                                         *)
(* Abstractions.  A text is a sequence of characters, "${{" is one of      *)
(* them; a pattern or a path is a sequence of segments, and the only       *)
(* wildcard inside a segment is "*" alone.  The hash of files is the       *)
(* sequence of the files that are hashed.                                  *)
(***************************************************************************)
EXTENDS Naturals, SequencesExt, Subsequences

CONSTANTS Purposes,   \* "format", "interpolate", "glob"
          Alphabet,   \* [Purposes -> characters or segments]
          MaxText,    \* [Purposes -> Nat], bound: length of a text
          Arguments,  \* the arguments of format() after the first
          Paths,      \* files of the work directory, in the order of WalkDir
          PathOrder   \* the same in the order of sort.Strings

\* format() is given an argument, and arguments, files and their names are sequences.
ASSUME TextAssumption ==
    /\ Arguments \in Seq(Seq(UNION {ToSet(Arguments[i]) : i \in DOMAIN Arguments})) /\ Arguments # <<>>
    /\ Paths \in Seq(Seq(UNION {ToSet(Paths[i]) : i \in DOMAIN Paths})) /\ PathOrder \in Seq(ToSet(Paths))

VARIABLES purpose, text

textVars == <<purpose, text>>

Char(s, i) == IF i \in DOMAIN s THEN s[i] ELSE "end"
-----------------------------------------------------------------------------
(* format().                                                               *)

Digits == <<"0", "1", "2", "3", "4", "5", "6", "7", "8", "9">>

\* The characters from i on that are digits end before this position.
DigitsEnd(s, i) == Min({j \in i..(Len(s) + 1) : Char(s, j) \notin ToSet(Digits)})

Index(s, i, j) ==
    LET idx[k \in 0..(j - i)] ==
            IF k = 0 THEN 0 ELSE 10 * idx[k - 1] + (CHOOSE d \in 0..9 : Digits[d + 1] = s[i + k - 1])
    IN  idx[j - i]

\* A doubled brace.
EscapeAt(s, i) == Char(s, i) \in {"{", "}"} /\ Char(s, i + 1) = Char(s, i)

PlaceholderAt(s, i) ==
    LET j == DigitsEnd(s, i + 1) IN Char(s, i) = "{" /\ j > i + 1 /\ Char(s, j) = "}"

\* The argument a placeholder from i to j stands for, or the placeholder.
Replacement(s, i, j) ==
    LET n == Index(s, i + 1, j) IN IF n < Len(Arguments) THEN Arguments[n + 1] ELSE SubSeq(s, i, j)

Format(s) ==
    LET from[i \in 1..(Len(s) + 1)] ==
            IF i > Len(s) THEN <<>>
            ELSE IF EscapeAt(s, i) THEN <<s[i]>> \o from[i + 2]
            ELSE IF PlaceholderAt(s, i)
            THEN Replacement(s, i, DigitsEnd(s, i + 1)) \o from[DigitsEnd(s, i + 1) + 1]
            ELSE <<s[i]>> \o from[i + 1]
    IN  from[1]
-----------------------------------------------------------------------------
(* Interpolation.                                                          *)

\* Mutant: quotes are not looked at.
ClosingBracesUnquoted(s) ==
    LET hits == {i \in DOMAIN s : Char(s, i) = "}" /\ Char(s, i + 1) = "}"}
    IN  IF hits = {} THEN 0 ELSE Min(hits)

\* How findClosingBraces comes to each character: inString, or past it since '' stands for a quote.
Scan(s) ==
    LET at[i \in 1..(Len(s) + 1)] ==
            IF i = 1 THEN "open"
            ELSE IF s[i - 1] # "'" THEN at[i - 1]
            ELSE IF at[i - 1] = "quoted" THEN IF Char(s, i) = "'" THEN "skipped" ELSE "open"
            ELSE "quoted"
    IN  at

\* findClosingBraces: the first }} that is not in a quoted text.
ClosingBraces(s) ==
    LET hits == {i \in DOMAIN s : Scan(s)[i] = "open" /\ s[i] = "}" /\ Char(s, i + 1) = "}"}
    IN  IF hits = {} THEN 0 ELSE Min(hits)

Literal(t) == [isExpr |-> FALSE, of |-> t]
Expr(t)    == [isExpr |-> TRUE, of |-> t]

\* What is left of s from i on, and the next ${{ in it.
Rest(s, i)  == SubSeq(s, i, Len(s))
Opens(s, i) == {o \in i..Len(s) : s[o] = "${{"}

\* An expression and the literal before it.
PartsAt(s, i, o, end) ==
    (IF o > i THEN << Literal(SubSeq(s, i, o - 1)) >> ELSE <<>>) \o << Expr(SubSeq(s, o + 1, end - 1)) >>

\* No parts at all if an expression has no end.
ParseInterpolation(s) ==
    LET open(i) == Min(Opens(s, i))
        end(i)  == ClosingBraces(Rest(s, open(i) + 1))
        from[i \in 1..(Len(s) + 1)] ==
            IF i > Len(s) THEN [ok |-> TRUE, parts |-> <<>>]
            ELSE IF Opens(s, i) = {} THEN [ok |-> TRUE, parts |-> << Literal(Rest(s, i)) >>]
            ELSE IF end(i) = 0 THEN [ok |-> FALSE, parts |-> <<>>]
            ELSE LET later == from[open(i) + end(i) + 2] IN
                 IF later.ok
                 THEN [ok |-> TRUE, parts |-> PartsAt(s, i, open(i), open(i) + end(i)) \o later.parts]
                 ELSE later
    IN  from[1]
-----------------------------------------------------------------------------
(* Glob patterns.                                                          *)

SegmentMatches(seg, name) == seg = "*" \/ seg = name

\* The segment of the pattern after the "**" from i on.
AfterStars(pattern, i) == Min({k \in i..(Len(pattern) + 1) : Char(pattern, k) # "**"})

\* Whether the pattern from i on matches the path from j on; "**" tries every suffix.
MatchParts(pattern, path) ==
    LET match[i \in 1..(Len(pattern) + 1)] ==
            [j \in 1..(Len(path) + 1) |->
                IF i > Len(pattern) THEN j > Len(path)
                ELSE IF pattern[i] = "**"
                THEN \E k \in j..(Len(path) + 1) : match[AfterStars(pattern, i)][k]
                ELSE j <= Len(path) /\ SegmentMatches(pattern[i], path[j]) /\ match[i + 1][j + 1]]
    IN  match[1][1]

\* globFiles
Globbed(pattern) == At(Paths, {i \in DOMAIN Paths : MatchParts(pattern, Paths[i])})

\* The files of each pattern that are not there yet.
Found(patterns) ==
    LET found[n \in 0..Len(patterns)] ==
            IF n = 0 THEN <<>>
            ELSE found[n - 1] \o Only(Globbed(patterns[n]), ToSet(Paths) \ ToSet(found[n - 1]))
    IN  found[Len(patterns)]

\* Every file once, in order.
HashFiles(patterns) == Only(PathOrder, ToSet(Found(patterns)))
-----------------------------------------------------------------------------
(* The texts that are checked.                                             *)

TextInit == purpose \in Purposes /\ text = <<>>

TextNext ==
    /\ Len(text) < MaxText[purpose]
    /\ \E c \in Alphabet[purpose] : text' = Append(text, c)
    /\ UNCHANGED purpose
-----------------------------------------------------------------------------
(* Properties.                                                             *)

Escaped(s) == FlattenSeq([i \in DOMAIN s |-> IF s[i] \in {"{", "}"} THEN <<s[i], s[i]>> ELSE <<s[i]>>])

\* What is escaped comes out as it was, and a placeholder between escaped texts is filled in.
FormatFillsPlaceholders ==
    purpose = "format" =>
        Format(Escaped(text) \o <<"{", "0", "}">> \o Escaped(text)) = text \o Arguments[1] \o text

Unparsed(parts) ==
    FlattenSeq([i \in DOMAIN parts |-> IF parts[i].isExpr THEN <<"${{">> \o parts[i].of \o <<"}", "}">>
                                       ELSE parts[i].of])
Quotes(s) == Cardinality({i \in DOMAIN s : s[i] = "'"})

\* The parts put together are the text again, and no expression ends inside a quoted text.
InterpolationSplitsText ==
    purpose = "interpolate" =>
        LET p == ParseInterpolation(text) IN
        p.ok => /\ Unparsed(p.parts) = text
                /\ \A i \in DOMAIN p.parts :
                      IF p.parts[i].isExpr THEN Quotes(p.parts[i].of) % 2 = 0
                      ELSE "${{" \notin ToSet(p.parts[i].of)

\* A pattern matches a path exactly if the path can be cut so that each "**" takes some part of it,
\* and each other segment one name that it matches.
Matches(pattern, path) ==
    \E cut \in [1..(Len(pattern) + 1) -> 1..(Len(path) + 1)] :
        /\ cut[1] = 1 /\ cut[Len(pattern) + 1] = Len(path) + 1
        /\ \A i \in DOMAIN pattern :
              IF pattern[i] = "**" THEN cut[i] <= cut[i + 1]
              ELSE cut[i + 1] = cut[i] + 1 /\ SegmentMatches(pattern[i], path[cut[i]])

GlobMatchesReference ==
    purpose = "glob" => \A i \in DOMAIN Paths : MatchParts(text, Paths[i]) = Matches(text, Paths[i])

\* The hash of files does not depend on the order of the patterns, nor on a file being matched twice.
HashIgnoresOrder ==
    purpose = "glob" =>
        \A seg \in Alphabet["glob"] :
            LET other == <<"**", seg>> IN
            HashFiles(<<text, other>>) = HashFiles(<<other, text, other>>)

\* The functions on texts do what their references say for every short text: format, the split into
\* literals and expressions, glob patterns with "**" and hashFiles.
TextInv == FormatFillsPlaceholders /\ InterpolationSplitsText /\ GlobMatchesReference /\ HashIgnoresOrder
=============================================================================
