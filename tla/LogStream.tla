----------------------------- MODULE LogStream -----------------------------
(***************************************************************************)
(* The log of a run, src/internal/orchestrator/logstream.go and            *)
(* secrets.go: streamOutput cuts what comes through the pipes of a runner  *)
(* into lines, StepOutput obeys the workflow commands among them and       *)
(* writes the others with secrets masked.  What it prints itself, for      *)
(* ::error:: and the like, it does not mask.  All jobs share one           *)
(* LogStreamer.                                                            *)
(*                                                                         *)
(* Abstractions.  A byte is NewLine, a letter, or the word of a workflow   *)
(* command at the start of a line ("::add-mask::").  A problem matcher is  *)
(* its owner and the letter its pattern looks for; its file is the letter  *)
(* after the add-matcher command, and MatcherFile says which matchers it   *)
(* has up to the first that is broken, and whether there is one.  Layout   *)
(* is left out, and no secret is made of the asterisks of the mask.        *)
(***************************************************************************)
EXTENDS Naturals, SequencesExt

CONSTANTS Pipes,        \* ends of the pipes: one or two of each job
          PipeJob,      \* [Pipes -> job]
          Bytes,
          Input,        \* [Pipes -> what the runner may write, a set of sequences of bytes]
          NewLine,
          GivenSecrets, \* secrets of the options, as a sequence
          MatcherFile,  \* [letters -> [matchers: records of owner and letter, broken]]
          Verbose,      \* LogStreamer.verbose
          JobColors,    \* len(jobColors)
          Mask          \* "***"

\* NewSecretMasker keeps no empty secret.
ASSUME StreamAssumption ==
    /\ Input \in [Pipes -> SUBSET Seq(Bytes)]
    /\ NewLine \in Bytes
    /\ Mask \notin Bytes
    /\ GivenSecrets \in Seq(Seq(Bytes) \ {<<>>})
    /\ JobColors \in Nat \ {0}

VARIABLES
    given,       \* [Pipes -> what the runner writes]
    unread,      \* [Pipes -> bytes in the pipe]
    buffer,      \* [Pipes -> bytes read and not looked at]
    partial,     \* [Pipes -> streamOutput's line]
    closed,      \* [Pipes -> streamOutput has returned]
    secrets,     \* SecretMasker.secrets
    replacer,    \* SecretMasker.replacer: the secrets in the order they are tried
    matchers,    \* LogStreamer.matchers
    annotations, \* what is in LogStreamer.annotations
    colors,      \* [jobs -> their color; 0 if none]
    colorIdx,
    lines,       \* [Pipes -> lines handed to StepOutput]
    output       \* what was printed, with the line it is for and the secrets known by then

pipeVars   == <<given, unread, buffer, partial, closed>>
maskVars   == <<secrets, replacer>>
colorVars  == <<colors, colorIdx>>
streamVars == <<pipeVars, maskVars, matchers, annotations, colorVars, lines, output>>

StreamJobs == {PipeJob[p] : p \in Pipes}

\* Mutant: the secrets are tried in the order they were given.
LongestFirstNot(s) == s

\* A secret moves to the left as long as it is longer than its neighbour.
SortedIn(sorted, v) ==
    InsertAt(sorted, Max({0} \cup {i \in DOMAIN sorted : Len(sorted[i]) >= Len(v)}) + 1, v)

\* buildReplacer: insertion sort by length, the longest first.
LongestFirst(s) ==
    LET sorted[n \in 0..Len(s)] == IF n = 0 THEN <<>> ELSE SortedIn(sorted[n - 1], s[n])
    IN  sorted[Len(s)]

StreamInit ==
    /\ given    \in [Pipes -> UNION {Input[p] : p \in Pipes}]
    /\ \A p \in Pipes : given[p] \in Input[p]
    /\ unread   = given
    /\ buffer   = [p \in Pipes |-> <<>>]
    /\ partial  = [p \in Pipes |-> <<>>]
    /\ closed   = [p \in Pipes |-> FALSE]
    /\ secrets  = GivenSecrets
    /\ replacer = LongestFirst(GivenSecrets)
    /\ matchers = <<>>
    /\ annotations = {}
    /\ colors   = [j \in StreamJobs |-> 0]
    /\ colorIdx = 0
    /\ lines    = [p \in Pipes |-> <<>>]
    /\ output   = <<>>
-----------------------------------------------------------------------------
(* Masking.                                                                *)

\* strings.Replacer: at each place the first secret that matches is replaced.
Masked(text) ==
    LET tried(i) == {k \in DOMAIN replacer : IsPrefix(replacer[k], SubSeq(text, i, Len(text)))}
        first(i) == CHOOSE k \in tried(i) : \A m \in tried(i) : k <= m
        from[i \in 1..(Len(text) + 1)] ==
            IF i > Len(text) THEN <<>>
            ELSE IF tried(i) = {} THEN <<text[i]>> \o from[i + 1]
            ELSE <<Mask>> \o from[i + Len(replacer[first(i)])]
    IN  from[1]

AddSecret(value) ==
    /\ secrets' = IF value = <<>> THEN secrets ELSE Append(secrets, value)
    /\ replacer' = LongestFirst(secrets')
-----------------------------------------------------------------------------
(* StepOutput, under the streamer's lock.                                  *)

\* jobColor: the first time a job writes it is given the next color.
Colored(j) ==
    IF colors[j] = 0
    THEN /\ colors' = [colors EXCEPT ![j] = (colorIdx % JobColors) + 1]
         /\ colorIdx' = colorIdx + 1
    ELSE UNCHANGED colorVars

Wrote(p, line, text) == output' = Append(output, [job |-> PipeJob[p], line |-> line, text |-> text,
                                                  known |-> ToSet(secrets)])

\* Printed as it is.
InClear(p, line, text) == Colored(PipeJob[p]) /\ Wrote(p, line, text)

\* writeLine
WrittenMasked(p, line, text) == Colored(PipeJob[p]) /\ Wrote(p, line, Masked(text))

Annotations == {"::error::", "::warning::", "::notice::"}
Consumed    == {"::endgroup::", "::set-output::", "::save-state::", "::stop-commands::"}
Commands    == Annotations \cup Consumed
               \cup {"::debug::", "::group::", "::add-mask::", "::add-matcher::", "::remove-matcher::"}

Annotate(p, line) ==
    /\ annotations' = annotations \cup {[job |-> PipeJob[p], from |-> Head(line)]}
    /\ InClear(p, line, Tail(line))
    /\ UNCHANGED <<maskVars, matchers>>

Debug(p, line) ==
    /\ IF Verbose THEN InClear(p, line, Tail(line)) ELSE UNCHANGED <<colorVars, output>>
    /\ UNCHANGED <<maskVars, matchers, annotations>>

OpenGroup(p, line) ==
    /\ WrittenMasked(p, line, Tail(line))
    /\ UNCHANGED <<maskVars, matchers, annotations>>

MaskCommand(line) ==
    /\ AddSecret(Tail(line))
    /\ UNCHANGED <<matchers, annotations, colorVars, output>>

\* loadProblemMatcher: the error it ends with names the file.
AddMatcher(p, line) ==
    LET loads == Len(line) = 2 /\ line[2] \in DOMAIN MatcherFile
        fails == Len(line) > 1 /\ (loads => MatcherFile[line[2]].broken)
    IN  /\ matchers' = IF loads THEN matchers \o MatcherFile[line[2]].matchers ELSE matchers
        /\ IF fails /\ Verbose THEN InClear(p, line, Tail(line)) ELSE UNCHANGED <<colorVars, output>>
        /\ UNCHANGED <<maskVars, annotations>>

RemainingAfter(owner) == SelectSeq(matchers, LAMBDA m : m.owner # owner)

RemoveMatcher(line) ==
    /\ matchers' = IF Len(line) = 2 THEN RemainingAfter(line[2]) ELSE matchers
    /\ UNCHANGED <<maskVars, annotations, colorVars, output>>

\* applyMatchers, then writeLine.
WriteLine(p, line) ==
    /\ annotations' = annotations \cup {[job |-> PipeJob[p], from |-> m.owner] :
                           m \in {n \in ToSet(matchers) : n.letter \in ToSet(line)}}
    /\ WrittenMasked(p, line, line)
    /\ UNCHANGED <<maskVars, matchers>>

StepOutput(p, line) ==
    /\ lines' = [lines EXCEPT ![p] = Append(@, line)]
    /\ \/ Head(line) \in Annotations /\ Annotate(p, line)
       \/ Head(line) = "::debug::" /\ Debug(p, line)
       \/ Head(line) = "::group::" /\ OpenGroup(p, line)
       \/ Head(line) = "::add-mask::" /\ MaskCommand(line)
       \/ Head(line) = "::add-matcher::" /\ AddMatcher(p, line)
       \/ Head(line) = "::remove-matcher::" /\ RemoveMatcher(line)
       \/ Head(line) \in Consumed /\ UNCHANGED <<maskVars, matchers, annotations, colorVars, output>>
       \/ Head(line) \notin Commands /\ WriteLine(p, line)
-----------------------------------------------------------------------------
(* streamOutput.                                                           *)

\* Read returns any part of what is in the pipe.
ReadChunk(p) ==
    /\ buffer[p] = <<>>
    /\ unread[p] # <<>>
    /\ \E n \in 1..Len(unread[p]) :
          /\ buffer' = [buffer EXCEPT ![p] = SubSeq(unread[p], 1, n)]
          /\ unread' = [unread EXCEPT ![p] = SubSeq(@, n + 1, Len(@))]
    /\ UNCHANGED <<given, partial, closed, maskVars, matchers, annotations, colorVars, lines, output>>

\* The loop over the bytes read, up to the end of a line or of the chunk.
LineEnd(p) == SelectInSeq(buffer[p], LAMBDA b : b = NewLine)

KeepPartial(p) ==
    /\ buffer[p] # <<>>
    /\ LineEnd(p) = 0
    /\ partial' = [partial EXCEPT ![p] = @ \o buffer[p]]
    /\ buffer' = [buffer EXCEPT ![p] = <<>>]
    /\ UNCHANGED <<given, unread, closed, maskVars, matchers, annotations, colorVars, lines, output>>

CutLine(p) ==
    LET line == partial[p] \o SubSeq(buffer[p], 1, LineEnd(p) - 1) IN
    /\ LineEnd(p) # 0
    /\ IF line = <<>> THEN UNCHANGED <<maskVars, matchers, annotations, colorVars, lines, output>>
       ELSE StepOutput(p, line)
    /\ partial' = [partial EXCEPT ![p] = <<>>]
    /\ buffer' = [buffer EXCEPT ![p] = SubSeq(@, LineEnd(p) + 1, Len(@))]
    /\ UNCHANGED <<given, unread, closed>>

PipeEnds(p) ==
    /\ ~closed[p]
    /\ unread[p] = <<>> /\ buffer[p] = <<>>
    /\ closed' = [closed EXCEPT ![p] = TRUE]
    /\ IF partial[p] = <<>> THEN UNCHANGED <<maskVars, matchers, annotations, colorVars, lines, output>>
       ELSE StepOutput(p, partial[p])
    /\ UNCHANGED <<given, unread, buffer, partial>>

StreamNext == \E p \in Pipes : ReadChunk(p) \/ KeepPartial(p) \/ CutLine(p) \/ PipeEnds(p)
-----------------------------------------------------------------------------
(* Properties.                                                             *)

\* The values the variables take.
StreamTypeOK ==
    /\ closed \in [Pipes -> BOOLEAN]
    /\ ToSet(replacer) = ToSet(secrets)
    /\ colors \in [StreamJobs -> 0..JobColors]
    /\ \A i \in DOMAIN output : output[i].job \in StreamJobs

\* The lines with a newline after each.
Joined(ls) ==
    LET joined[n \in 0..Len(ls)] == IF n = 0 THEN <<>> ELSE joined[n - 1] \o ls[n] \o <<NewLine>>
    IN  joined[Len(ls)]

\* The bytes without the newlines of empty lines.
Packed(bytes) ==
    LET empty(n) == bytes[n] = NewLine /\ (n = 1 \/ bytes[n - 1] = NewLine)
        packed[n \in 0..Len(bytes)] ==
            IF n = 0 THEN <<>>
            ELSE IF empty(n) THEN packed[n - 1] ELSE Append(packed[n - 1], bytes[n])
    IN  packed[Len(bytes)]

\* However the bytes are cut into reads, the lines handed on are the lines of the input without
\* the empty ones, the last one too when it has no newline (streamOutput).
LinesReassembled ==
    \A p \in Pipes :
        IF closed[p]
        THEN Joined(lines[p]) \in {Packed(given[p]), Packed(given[p]) \o <<NewLine>>}
        ELSE Packed(Joined(lines[p]) \o partial[p] \o buffer[p] \o unread[p]) = Packed(given[p])

Occurs(s, text) == \E i \in DOMAIN text : IsPrefix(s, SubSeq(text, i, Len(text)))

\* What StepOutput prints itself.
Unmasked(line) == Head(line) \in Annotations \cup {"::debug::", "::add-matcher::"}

\* What a plain line or the name of a group says.
MaskedPart(line) == IF Head(line) = "::group::" THEN Tail(line) ELSE line

\* A plain line or the name of a group that was written has none of the secrets known by then in it,
\* whatever job gave it, and a secret that begins with another one is masked whole ("longer secrets
\* are replaced first").  Annotations, debug messages and the errors of problem matchers are not masked.
SecretsMasked ==
    \A i \in DOMAIN output :
        ~Unmasked(output[i].line) =>
            /\ \A s \in output[i].known : ~Occurs(s, output[i].text)
            /\ MaskedPart(output[i].line) \in output[i].known => output[i].text = <<Mask>>

\* Not true of the code: no secret known by then is printed (an ::error:: is, as it is: StepOutput).
SecretsMaskedEverywhere ==
    \A i \in DOMAIN output : \A s \in output[i].known : ~Occurs(s, output[i].text)

\* A job keeps its color, and no two of the first jobs share one (jobColor).
ColorsConsistent ==
    /\ \A j, k \in StreamJobs : colors[j] = colors[k] /\ colors[j] # 0 /\ colorIdx <= JobColors => j = k
    /\ \A j \in StreamJobs : colors[j] # 0 <=> \E i \in DOMAIN output : output[i].job = j
    /\ \A a \in annotations : colors[a.job] # 0

\* What the stream promises however the pipes of the jobs are read: lines are put together again,
\* no secret known by then is in a line or the name of a group, and the jobs keep their colors
\* (streamOutput, StepOutput).
StreamInv == StreamTypeOK /\ LinesReassembled /\ SecretsMasked /\ ColorsConsistent
=============================================================================
