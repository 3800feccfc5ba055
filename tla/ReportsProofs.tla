--------------------------- MODULE ReportsProofs ---------------------------
(***************************************************************************)
(* Proofs about what a runner reports and writes: StepReports, for any     *)
(* jobs, steps, scripts of a runner that reports in order, late requests   *)
(* and logs; LogStream, for any pipes, input, reads and secrets.           *)
(*                                                                         *)
(* Of LogStream, Joined, Packed, LongestFirst and Masked are recursive     *)
(* functions: each is first shown to be what its definition says it is,    *)
(* which needs that there is such a function (Iterated for those that go   *)
(* up; Masked goes down, from the end of the text).  Then come the laws of *)
(* the bytes that a pipe cuts up, and the steps of the streamer.           *)
(***************************************************************************)
EXTENDS StepReports, LogStream, Foundations, SequenceTheorems, FiniteSetTheorems, TLAPS

\* What the variables hold.
Line     == ReportJobs \X StepIds \X Nat
Words    == States \cup Results \cup {"none", "JobCompleted", "FAILED", "success", "failure", "cancelled"}
Entry    == [what : Words, step : StepIds \cup {NoStep}, detail : Seq(Words \cup Line)]
Phases   == {"arrived", "merge", "notify", "body", "answer"}
Handlers == [job : ReportJobs, at : Nat, copy : {1, 2}, phase : Phases, next : Nat,
             recs : Seq(NewRecord), log : LogIds]

TypeInv ==
    /\ route \in ReportRoutes
    /\ outcome \in [ReportJobs -> [StepIds -> Results]]
    /\ position \in [ReportJobs -> Nat]
    /\ awaiting \in [ReportJobs -> BOOLEAN]
    /\ logOf \in [ReportJobs -> [StepIds -> LogIds]]
    /\ handlers \subseteq Handlers
    /\ mu \in BOOLEAN
    /\ timelines \in [ReportJobs -> Seq(NewRecord)]
    /\ logs \in [LogKeys -> [LogIds -> Seq(Line)]]
    /\ logNextID \in [LogKeys -> LogIds]
    /\ jobEnd \in [ReportJobs -> {"running", "reporting", "success", "failure", "cancelled"}]
    /\ scanned \in [ReportJobs -> Nat]
    /\ shown \in [ReportJobs -> Seq(Entry)]

Kind(h) == Script[h.job][h.at].kind

\* A runner is at one of its requests or past them, and waits only for one it has.
PositionInv ==
    \A j \in ReportJobs :
        /\ position[j] \in 1..(Len(Script[j]) + 1)
        /\ awaiting[j] => position[j] <= Len(Script[j])

\* A handler works on a request its runner has sent: an answered one, whose late copy it is, or
\* the one the runner waits for.  It holds the records of that request.
Proper(h) ==
    /\ h.at \in DOMAIN Script[h.job]
    /\ h.at <= position[h.job]
    /\ h.at = position[h.job] => awaiting[h.job]
    /\ h.next >= 1
    /\ h.phase \in {"merge", "notify"} => Kind(h) = "patch"
    /\ h.phase = "body" => Kind(h) = "post"
    /\ h.phase = "notify" => route = "v1"
    /\ h.phase = "arrived" => h.next = 1
    /\ Len(h.recs) = Len(Script[h.job][h.at].recs)
    /\ \A i \in DOMAIN h.recs :
          h.recs[i].id = Script[h.job][h.at].recs[i][1] /\ h.recs[i].state = Script[h.job][h.at].recs[i][2]

RequestInv == \A h \in handlers : Proper(h)

\* The step of record i of request k was reported as started in an earlier record.
StartedBefore(j, k, i) ==
    \E m \in 1..k : \E n \in DOMAIN Script[j][m].recs :
        /\ Script[j][m].recs[n] = <<Script[j][k].recs[i][1], "InProgress">>
        /\ m < k \/ n < i

\* What a handler is when it starts on the request j is at.
FreshFor(h, j) ==
    /\ h.job = j /\ h.at = position[j] /\ h.at \in DOMAIN Script[j]
    /\ h.phase = "arrived" /\ h.next = 1
    /\ Len(h.recs) = Len(Script[j][h.at].recs)
    /\ DOMAIN h.recs = 1..Len(h.recs)
    /\ \A i \in DOMAIN h.recs :
          h.recs[i].id = Script[j][h.at].recs[i][1] /\ h.recs[i].state = Script[j][h.at].recs[i][2]
    /\ Kind(h) = "post" => h.log = logOf[j][Script[j][h.at].step]

\* Who is in a critical section that others can see from outside.
Holds(h) == h.phase \in {"merge", "body"}

LockInv ==
    /\ mu <=> \E h \in handlers : Holds(h)
    /\ \A h, g \in handlers : Holds(h) /\ Holds(g) => h = g

\* The timeline of j has a record of step s, and never two of one.
Has(j, s) == \E i \in DOMAIN timelines[j] : timelines[j][i].id = s

Distinct(j) == \A a, b \in DOMAIN timelines[j] : timelines[j][a].id = timelines[j][b].id => a = b

\* What a handler has merged is in the timeline, a copy's records too.
Recorded(h) ==
    \A i \in DOMAIN h.recs :
        h.phase \in {"notify", "answer"} \/ (h.phase = "merge" /\ i < h.next) => Has(h.job, h.recs[i].id)

TimelineInv ==
    /\ \A j \in ReportJobs : Distinct(j)
    /\ \A j \in ReportJobs : \A k \in Answered(j) : \A i \in DOMAIN Script[j][k].recs :
          Has(j, Script[j][k].recs[i][1])
    /\ \A h \in handlers : Recorded(h)

\* The user was told of update u, if its step has a name.
Tells(j, u) == u[1] \notin Unnamed => SaysIn(shown[j], u[2], u[1])

\* What a handler is through with in its loop of callbacks was told.
Told(h) ==
    \A i \in DOMAIN h.recs :
        h.phase = "answer" \/ (h.phase = "notify" /\ i < h.next) =>
            Tells(h.job, <<h.recs[i].id, h.recs[i].state>>)

\* Everything confirmed was told, and so was what is about to be confirmed: this is what makes
\* ConfirmedIsShown inductive.
NoticeInv ==
    route = "v1" =>
        \A j \in Registered :
            /\ \A k \in Answered(j) : \A i \in DOMAIN Script[j][k].recs : Tells(j, Script[j][k].recs[i])
            /\ \A h \in handlers : h.job = j => Told(h)

\* StepsShownInOrder, without SubSeq.
OrderInv ==
    \A j \in ReportJobs : \A i \in DOMAIN shown[j] :
        shown[j][i].what = "Completed" =>
            \E n \in 1..(i - 1) : shown[j][n].what = "InProgress" /\ shown[j][n].step = shown[j][i].step

\* The runner knows a log of s.
Opened(j, s) == \E k \in Answered(j) : Script[j][k].kind = "open" /\ Script[j][k].step = s

LogFor(j) == <<j, route>>

\* A runner has a log id from the answer to its Open on, and posts carry it.
GivenInv ==
    /\ \A j \in ReportJobs : \A s \in StepIds : logOf[j][s] # 0 <=> Opened(j, s)
    /\ \A h \in handlers : Kind(h) = "post" => h.log = logOf[h.job][Script[h.job][h.at].step]

\* Ids are given once: to the runner, or to the copy of an Open nobody waits for any more.
IdInv ==
    /\ \A j \in ReportJobs : \A s \in StepIds : logOf[j][s] <= logNextID[LogFor(j)]
    /\ \A j \in ReportJobs : \A s, t \in StepIds : logOf[j][s] = logOf[j][t] /\ logOf[j][s] # 0 => s = t
    /\ \A h \in handlers : h.phase = "answer" /\ Kind(h) = "open" =>
          /\ h.log \in 1..logNextID[LogFor(h.job)]
          /\ \A s \in StepIds : logOf[h.job][s] # h.log
          /\ \A g \in handlers :
                g.phase = "answer" /\ Kind(g) = "open" /\ g.job = h.job /\ g.log = h.log => g = h

\* A line is in the log its step was given.
LineInv ==
    \A j \in ReportJobs : \A i \in LogIds : \A n \in DOMAIN logs[LogFor(j)][i] :
        LET l == logs[LogFor(j)][i][n] IN l[1] = j /\ logOf[j][l[2]] = i /\ i # 0

\* Confirmed lines are stored, and so are those about to be confirmed.
StoredInv ==
    /\ \A j \in ReportJobs : \A k \in Answered(j) : Script[j][k].kind = "post" =>
          StoredIn(j, k, logs[LogFor(j)][logOf[j][Script[j][k].step]])
    /\ \A h \in handlers : Kind(h) = "post" /\ h.phase = "answer" =>
          StoredIn(h.job, h.at, logs[LogFor(h.job)][h.log])

-----------------------------------------------------------------------------
(* Data: one merge, the tail of a log, requests.                           *)

LEMMA MergedFacts ==
    ASSUME NEW line \in Seq(NewRecord), NEW rec \in NewRecord
    PROVE  /\ Merged(line, rec) \in Seq(NewRecord)
           /\ \E i \in DOMAIN Merged(line, rec) : Merged(line, rec)[i].id = rec.id
           /\ \A i \in DOMAIN line : i \in DOMAIN Merged(line, rec) /\ Merged(line, rec)[i].id = line[i].id
           /\ (\A a, b \in DOMAIN line : line[a].id = line[b].id => a = b)
                => \A a, b \in DOMAIN Merged(line, rec) :
                      Merged(line, rec)[a].id = Merged(line, rec)[b].id => a = b
  <1>1. CASE \E i \in DOMAIN line : line[i].id = rec.id
    <2>1. Merged(line, rec) = [i \in DOMAIN line |-> IF line[i].id = rec.id THEN rec ELSE line[i]]
      BY <1>1 DEF Merged
    <2>2. DOMAIN line = 1..Len(line) /\ Len(line) \in Nat /\ \A i \in DOMAIN line : line[i] \in NewRecord
      OBVIOUS
    <2>3. Merged(line, rec) \in Seq(NewRecord)
      BY <2>1, <2>2
    <2>4. DOMAIN Merged(line, rec) = DOMAIN line
      BY <2>1
    <2>5. \A i \in DOMAIN line : Merged(line, rec)[i].id = line[i].id
      BY <2>1
    <2> QED BY <1>1, <2>3, <2>4, <2>5
  <1>2. CASE ~ \E i \in DOMAIN line : line[i].id = rec.id
    <2>1. Merged(line, rec) = Append(line, rec)
      BY <1>2 DEF Merged
    <2>2. /\ Append(line, rec) \in Seq(NewRecord)
          /\ DOMAIN Append(line, rec) = 1..(Len(line) + 1)
          /\ DOMAIN line = 1..Len(line) /\ Len(line) \in Nat
          /\ \A i \in 1..Len(line) : Append(line, rec)[i] = line[i]
          /\ Append(line, rec)[Len(line) + 1] = rec
      OBVIOUS
    <2>3. \A a \in DOMAIN Append(line, rec) : a = Len(line) + 1 \/ a \in DOMAIN line
      BY <2>2
    <2>4. \A a \in DOMAIN line : Append(line, rec)[a].id # rec.id
      BY <1>2, <2>2
    <2>5. Len(line) + 1 \in DOMAIN Append(line, rec)
      BY <2>2
    <2>6. ASSUME \A a, b \in DOMAIN line : line[a].id = line[b].id => a = b,
                 NEW a \in DOMAIN Append(line, rec), NEW b \in DOMAIN Append(line, rec),
                 Append(line, rec)[a].id = Append(line, rec)[b].id
          PROVE  a = b
      BY <2>2, <2>3, <2>4, <2>6
    <2> QED BY <2>1, <2>2, <2>5, <2>6
  <1> QED BY <1>1, <1>2

LEMMA MergedHas ==
    ASSUME NEW line \in Seq(NewRecord), NEW rec \in NewRecord, NEW new, new = Merged(line, rec)
    PROVE  \E i \in DOMAIN new : new[i].id = rec.id
  <1>1. \E i \in DOMAIN Merged(line, rec) : Merged(line, rec)[i].id = rec.id
    BY MergedFacts
  <1> QED BY <1>1

LEMMA MergedKeeps ==
    ASSUME NEW line \in Seq(NewRecord), NEW rec \in NewRecord, NEW new, new = Merged(line, rec)
    PROVE  /\ \A i \in DOMAIN line : i \in DOMAIN new /\ new[i].id = line[i].id
           /\ (\A a, b \in DOMAIN line : line[a].id = line[b].id => a = b)
                => \A a, b \in DOMAIN new : new[a].id = new[b].id => a = b
  <1>1. /\ \A i \in DOMAIN line : i \in DOMAIN Merged(line, rec) /\ Merged(line, rec)[i].id = line[i].id
        /\ (\A a, b \in DOMAIN line : line[a].id = line[b].id => a = b)
             => \A a, b \in DOMAIN Merged(line, rec) :
                   Merged(line, rec)[a].id = Merged(line, rec)[b].id => a = b
    BY MergedFacts
  <1> QED BY <1>1

LEMMA TailOf ==
    ASSUME NEW S, NEW posted \in Seq(S), MaxLogLines \in Nat
    PROVE  LastLines(posted) \in Seq(S)
  <1> DEFINE m == 1 + (IF Len(posted) > MaxLogLines THEN Len(posted) - MaxLogLines ELSE 0)
  <1>1. m \in Nat /\ m >= 1 /\ Len(posted) \in Nat
    OBVIOUS
  <1>2. SubSeq(posted, m, Len(posted)) \in Seq(S)
    BY <1>1
  <1> QED BY <1>2 DEF LastLines

LEMMA ScriptFacts ==
    ASSUME NEW j \in ReportJobs
    PROVE  /\ Len(Script[j]) \in Nat /\ DOMAIN Script[j] = 1..Len(Script[j])
           /\ \A k \in DOMAIN Script[j] :
                 /\ Script[j][k] \in Requests
                 /\ Script[j][k].recs \in Seq(StepIds \X States)
                 /\ Script[j][k].lines \in Seq(Nat)
           /\ InOrder(Script[j])
  <1>1. Script[j] \in Seq(Requests)
    BY ReportsAssumption
  <1>2. Len(Script[j]) \in Nat /\ DOMAIN Script[j] = 1..Len(Script[j])
    BY <1>1
  <1>3. \A k \in DOMAIN Script[j] : Script[j][k] \in Requests
    BY <1>1
  <1>4. \A r \in Requests : r.recs \in Seq(StepIds \X States) /\ r.lines \in Seq(Nat)
    BY DEF Requests
  <1> QED BY <1>2, <1>3, <1>4, ReportsAssumption

LEMMA OnlyPatchesUpdate ==
    ASSUME NEW j \in ReportJobs, NEW k \in DOMAIN Script[j], Script[j][k].kind # "patch"
    PROVE  Script[j][k].recs = <<>> /\ Script[j][k].step \in StepIds
  <1>1. InOrder(Script[j])
    BY ScriptFacts
  <1> QED BY <1>1 DEF InOrder

LEMMA OpenedOnce ==
    ASSUME NEW j \in ReportJobs, NEW k \in DOMAIN Script[j], NEW m \in DOMAIN Script[j],
           Script[j][k].kind = "open", Script[j][m].kind = "open", Script[j][k].step = Script[j][m].step
    PROVE  k = m
  <1>1. InOrder(Script[j])
    BY ScriptFacts
  <1> QED BY <1>1 DEF InOrder

LEMMA StartsBeforeEnd ==
    ASSUME NEW j \in ReportJobs, NEW k \in DOMAIN Script[j], NEW i \in DOMAIN Script[j][k].recs,
           Script[j][k].recs[i][2] = "Completed"
    PROVE  StartedBefore(j, k, i)
  <1>1. InOrder(Script[j])
    BY ScriptFacts
  <1> QED BY <1>1 DEF InOrder, StartedBefore

-----------------------------------------------------------------------------
(* Types, requests and the lock.                                           *)

LEMMA TypeInit == ReportsInit => TypeInv
  <1> SUFFICES ASSUME ReportsInit PROVE TypeInv
    OBVIOUS
  <1> USE ReportsAssumption DEF ReportsInit, TypeInv
  <1>1. outcome \in [ReportJobs -> [StepIds -> Results]]
    OBVIOUS
  <1>2. 0 \in LogIds
    BY DEF LogIds
  <1>3. logs \in [LogKeys -> [LogIds -> Seq(Line)]]
    BY DEF LogIds
  <1>4. timelines \in [ReportJobs -> Seq(NewRecord)] /\ shown \in [ReportJobs -> Seq(Entry)]
    OBVIOUS
  <1> QED BY <1>1, <1>2, <1>3, <1>4

LEMMA NewHandlerType ==
    ASSUME TypeInv, PositionInv, NEW j \in ReportJobs, position[j] <= Len(Script[j]), NEW c \in {1, 2}
    PROVE  Handler(j, c) \in Handlers
  <1>1. position[j] \in DOMAIN Script[j]
    BY ScriptFacts DEF PositionInv
  <1>2. Request(j).recs \in Seq(StepIds \X States) /\ Request(j) \in Requests
    BY <1>1, ScriptFacts DEF Request
  <1>3. \A i \in DOMAIN Request(j).recs :
           Record(j, Request(j).recs[i][1], Request(j).recs[i][2]) \in NewRecord
    <2> TAKE i \in DOMAIN Request(j).recs
    <2>1. Request(j).recs[i][1] \in StepIds /\ Request(j).recs[i][2] \in States
      BY <1>2
    <2> DEFINE s == Request(j).recs[i][1]
    <2>2. outcome[j][s] \in Results /\ logOf[j][s] \in LogIds
      BY <2>1 DEF TypeInv
    <2> QED BY <2>1, <2>2 DEF Record, NewRecord
  <1>4. Handler(j, c).recs \in Seq(NewRecord)
    BY <1>2, <1>3 DEF Handler
  <1>5. Handler(j, c).log \in LogIds
    <2>1. CASE Request(j).kind = "post"
      <3>1. Request(j).step \in StepIds
        BY <1>1, <2>1, ScriptFacts DEF Request, InOrder
      <3> QED BY <2>1, <3>1 DEF Handler, TypeInv
    <2>2. CASE Request(j).kind # "post"
      BY <2>2, ReportsAssumption DEF Handler, LogIds
    <2> QED BY <2>1, <2>2
  <1>6. position[j] \in Nat
    BY DEF TypeInv
  <1> QED BY <1>4, <1>5, <1>6 DEF Handler, Handlers, Phases

LEMMA HandlerFacts ==
    ASSUME TypeInv, RequestInv, NEW h \in handlers
    PROVE  /\ h \in Handlers /\ h.job \in ReportJobs
           /\ h.at \in DOMAIN Script[h.job] /\ h.at \in Nat
           /\ LogKey(h) \in LogKeys /\ LogKey(h) = LogFor(h.job)
           /\ h.recs \in Seq(NewRecord) /\ Len(h.recs) \in Nat /\ DOMAIN h.recs = 1..Len(h.recs)
           /\ h.next \in Nat /\ h.next >= 1 /\ h.log \in LogIds
           /\ h.next <= Len(h.recs) => h.next \in DOMAIN h.recs /\ h.recs[h.next] \in NewRecord
           /\ Kind(h) # "patch" => Script[h.job][h.at].step \in StepIds
           /\ Kind(h) \in {"patch", "open", "post"}
  <1>1. h \in Handlers
    BY DEF TypeInv
  <1>2. h.job \in ReportJobs /\ h.at \in Nat /\ h.recs \in Seq(NewRecord) /\ h.next \in Nat /\ h.log \in LogIds
    BY <1>1 DEF Handlers
  <1>3. h.at \in DOMAIN Script[h.job] /\ h.next >= 1
    BY DEF RequestInv, Proper
  <1>4. LogKey(h) \in LogKeys /\ LogKey(h) = LogFor(h.job)
    BY <1>2 DEF LogKey, LogKeys, LogFor, TypeInv
  <1>5. Len(h.recs) \in Nat /\ DOMAIN h.recs = 1..Len(h.recs)
    BY <1>2
  <1>6. h.next <= Len(h.recs) => h.next \in DOMAIN h.recs /\ h.recs[h.next] \in NewRecord
    BY <1>2, <1>3, <1>5
  <1>7. Script[h.job][h.at] \in Requests /\ InOrder(Script[h.job])
    BY <1>2, <1>3, ScriptFacts
  <1>8. Kind(h) # "patch" => Script[h.job][h.at].step \in StepIds
    BY <1>3, <1>7 DEF InOrder, Kind
  <1>9. Kind(h) \in {"patch", "open", "post"}
    BY <1>7 DEF Kind, Requests
  <1> QED BY <1>1, <1>2, <1>3, <1>4, <1>5, <1>6, <1>8, <1>9

LEMMA PostedType ==
    ASSUME NEW j \in ReportJobs, NEW k \in DOMAIN Script[j], Script[j][k].kind = "post"
    PROVE  Posted(j, k) \in Seq(Line)
  <1>1. Script[j][k].step \in StepIds /\ Script[j][k].lines \in Seq(Nat)
    BY ScriptFacts DEF InOrder
  <1>2. \A i \in DOMAIN Script[j][k].lines : <<j, Script[j][k].step, Script[j][k].lines[i]>> \in Line
    BY <1>1 DEF Line
  <1>3. Len(Script[j][k].lines) \in Nat /\ DOMAIN Script[j][k].lines = 1..Len(Script[j][k].lines)
    BY <1>1
  <1> QED BY <1>2, <1>3 DEF Posted

LEMMA SaidType ==
    ASSUME TypeInv, NEW j \in ReportJobs, NEW what \in Words, NEW s \in StepIds \cup {NoStep},
           NEW detail \in Seq(Words \cup Line)
    PROVE  Said(j, what, s, detail) \in [ReportJobs -> Seq(Entry)]
  <1>1. [what |-> what, step |-> s, detail |-> detail] \in Entry
    BY DEF Entry
  <1>2. shown \in [ReportJobs -> Seq(Entry)]
    BY DEF TypeInv
  <1>3. Append(shown[j], [what |-> what, step |-> s, detail |-> detail]) \in Seq(Entry)
    BY <1>1, <1>2
  <1> QED BY <1>2, <1>3 DEF Said

LEMMA TypeStep == TypeInv /\ PositionInv /\ RequestInv /\ [ReportsNext]_reportVars => TypeInv'
  <1> SUFFICES ASSUME TypeInv, PositionInv, RequestInv, [ReportsNext]_reportVars PROVE TypeInv'
    OBVIOUS
  <1>1. ASSUME NEW h \in handlers, HandlerStep(h) PROVE TypeInv'
    <2>0. /\ h \in Handlers /\ h.job \in ReportJobs
          /\ h.at \in DOMAIN Script[h.job] /\ h.at \in Nat
          /\ LogKey(h) \in LogKeys
          /\ h.recs \in Seq(NewRecord) /\ Len(h.recs) \in Nat
          /\ h.next \in Nat /\ h.log \in LogIds
          /\ h.next <= Len(h.recs) => h.recs[h.next] \in NewRecord
          /\ Kind(h) # "patch" => Script[h.job][h.at].step \in StepIds
      BY HandlerFacts
    <2>1. \A p \in Phases : [h EXCEPT !.phase = p] \in Handlers
      BY <2>0 DEF Handlers
    <2>2. [h EXCEPT !.next = @ + 1] \in Handlers
      BY <2>0 DEF Handlers
    <2>3. \A p \in Phases : [h EXCEPT !.phase = p, !.next = 1] \in Handlers
      BY <2>0 DEF Handlers
    <2>4. \A p \in Phases : \A i \in LogIds : [h EXCEPT !.phase = p, !.log = i] \in Handlers
      BY <2>0 DEF Handlers
    <2>5. \A g : Moved(h, g) /\ g \in Handlers => handlers' \subseteq Handlers
      BY DEF Moved, TypeInv
    <2>6. CASE LockTimeline(h)
      <3>1. handlers' \subseteq Handlers
        BY <2>1, <2>5, <2>6 DEF LockTimeline, Phases
      <3> QED BY <2>6, <3>1 DEF LockTimeline, TypeInv, runnerVars, displayVars, endVars
    <2>7. CASE MergeRecord(h)
      <3>1. handlers' \subseteq Handlers
        BY <2>2, <2>5, <2>7 DEF MergeRecord
      <3>2. timelines \in [ReportJobs -> Seq(NewRecord)]
        BY DEF TypeInv
      <3>6. timelines[h.job] \in Seq(NewRecord) /\ h.recs[h.next] \in NewRecord
        BY <2>0, <2>7, <3>2 DEF MergeRecord
      <3>3. Merged(timelines[h.job], h.recs[h.next]) \in Seq(NewRecord)
        BY <3>6, MergedFacts
      <3>4. timelines' = [timelines EXCEPT ![h.job] = Merged(timelines[h.job], h.recs[h.next])]
        BY <2>7 DEF MergeRecord
      <3>5. timelines' \in [ReportJobs -> Seq(NewRecord)]
        BY <2>0, <3>2, <3>3, <3>4
      <3> QED BY <2>7, <3>1, <3>5 DEF MergeRecord, TypeInv, runnerVars, displayVars, endVars
    <2>8. CASE UnlockTimeline(h)
      <3>1. AfterMerge \in Phases
        BY DEF AfterMerge, Phases
      <3>2. handlers' \subseteq Handlers
        BY <2>3, <2>5, <2>8, <3>1, Zenon DEF UnlockTimeline
      <3> QED BY <2>8, <3>2 DEF UnlockTimeline, TypeInv, runnerVars, displayVars, endVars
    <2>9. CASE Notify(h)
      <3>1. handlers' \subseteq Handlers
        BY <2>2, <2>5, <2>9 DEF Notify
      <3> DEFINE rec == h.recs[h.next]
      <3>2. rec.state \in Words /\ rec.id \in StepIds /\ rec.result \in Words
        BY <2>0, <2>9 DEF Notify, NewRecord, States, Results, Words
      <3>3. <<rec.result>> \in Seq(Words \cup Line)
        BY <3>2
      <3>4. Said(h.job, rec.state, rec.id, <<rec.result>>) \in [ReportJobs -> Seq(Entry)]
        BY <2>0, <3>2, <3>3, SaidType
      <3>5. shown' = Said(h.job, rec.state, rec.id, <<rec.result>>) \/ shown' = shown
        BY <2>9 DEF Notify, displayVars
      <3>6. shown' \in [ReportJobs -> Seq(Entry)]
        BY <3>4, <3>5 DEF TypeInv
      <3> QED BY <2>9, <3>1, <3>6 DEF Notify, TypeInv, runnerVars, serverVars, endVars
    <2>10. CASE EndNotify(h)
      <3>1. handlers' \subseteq Handlers
        BY <2>1, <2>5, <2>10 DEF EndNotify, Phases
      <3> QED BY <2>10, <3>1 DEF EndNotify, TypeInv, runnerVars, serverVars, displayVars, endVars
    <2>11. CASE OpenLog(h)
      <3>0. logNextID \in [LogKeys -> LogIds]
        BY DEF TypeInv
      <3>1. logNextID[LogKey(h)] + 1 \in LogIds
        BY <2>0, <2>11, <3>0, ReportsAssumption DEF OpenLog, LogIds
      <3>2. logNextID' = [logNextID EXCEPT ![LogKey(h)] = logNextID[LogKey(h)] + 1]
        BY <2>11 DEF OpenLog
      <3>3. logNextID' \in [LogKeys -> LogIds] /\ logNextID'[LogKey(h)] \in LogIds
        BY <2>0, <3>0, <3>1, <3>2
      <3>4. handlers' \subseteq Handlers
        BY <2>4, <2>5, <2>11, <3>3, Zenon DEF OpenLog, Phases
      <3> QED BY <2>11, <3>3, <3>4 DEF OpenLog, TypeInv, runnerVars, displayVars, endVars
    <2>12. CASE ReadBody(h)
      <3>1. handlers' \subseteq Handlers
        BY <2>1, <2>5, <2>12 DEF ReadBody, Phases
      <3> QED BY <2>12, <3>1 DEF ReadBody, TypeInv, runnerVars, displayVars, endVars
    <2>13. CASE AppendLines(h)
      <3>1. handlers' \subseteq Handlers
        BY <2>1, <2>5, <2>13 DEF AppendLines, Phases
      <3>2. logs \in [LogKeys -> [LogIds -> Seq(Line)]]
        BY DEF TypeInv
      <3>3. Posted(h.job, h.at) \in Seq(Line)
        BY <2>0, <2>13, PostedType DEF AppendLines, RequestInv, Proper, Kind
      <3>4. logs[LogKey(h)][h.log] \o Posted(h.job, h.at) \in Seq(Line)
        BY <2>0, <3>2, <3>3
      <3>5. logs' \in [LogKeys -> [LogIds -> Seq(Line)]]
        BY <2>0, <2>13, <3>2, <3>4 DEF AppendLines
      <3> QED BY <2>13, <3>1, <3>5 DEF AppendLines, TypeInv, runnerVars, displayVars, endVars
    <2>14. CASE AnswerRequest(h)
      <3>1. handlers' \subseteq Handlers
        BY <2>14 DEF AnswerRequest, TypeInv
      <3>4. position \in [ReportJobs -> Nat] /\ awaiting \in [ReportJobs -> BOOLEAN]
        BY DEF TypeInv
      <3>5. /\ position' = position \/ position' = [position EXCEPT ![h.job] = @ + 1]
            /\ awaiting' = awaiting \/ awaiting' = [awaiting EXCEPT ![h.job] = FALSE]
        BY <2>14 DEF AnswerRequest
      <3>6. position' \in [ReportJobs -> Nat]
        BY <2>0, <3>4, <3>5
      <3>2. position' \in [ReportJobs -> Nat] /\ awaiting' \in [ReportJobs -> BOOLEAN]
        BY <2>0, <3>4, <3>5, <3>6
      <3>3. logOf' \in [ReportJobs -> [StepIds -> LogIds]]
        <4>1. CASE logOf' = logOf
          BY <4>1 DEF TypeInv
        <4>2. CASE /\ logOf' = [logOf EXCEPT ![h.job][Script[h.job][h.at].step] = h.log]
                   /\ Script[h.job][h.at].kind = "open"
          BY <2>0, <4>2 DEF TypeInv, Kind
        <4> QED BY <2>14, <4>1, <4>2 DEF AnswerRequest
      <3> QED BY <2>14, <3>1, <3>2, <3>3 DEF AnswerRequest, TypeInv, serverVars, displayVars, endVars
    <2> QED BY <1>1, <2>6, <2>7, <2>8, <2>9, <2>10, <2>11, <2>12, <2>13, <2>14 DEF HandlerStep
  <1>2. ASSUME NEW j \in ReportJobs, SendRequest(j) PROVE TypeInv'
    <2>1. Handler(j, 1) \in Handlers
      BY <1>2, NewHandlerType DEF SendRequest
    <2>2. handlers' \subseteq Handlers
      BY <1>2, <2>1 DEF SendRequest, TypeInv
    <2>3. awaiting' \in [ReportJobs -> BOOLEAN]
      BY <1>2 DEF SendRequest, TypeInv
    <2> QED BY <1>2, <2>2, <2>3 DEF SendRequest, TypeInv, serverVars, displayVars, endVars
  <1>3. ASSUME NEW j \in ReportJobs, SendAgain(j) PROVE TypeInv'
    <2>1. position[j] <= Len(Script[j])
      BY <1>3, ScriptFacts DEF SendAgain, PositionInv
    <2>2. Handler(j, 2) \in Handlers
      BY <2>1, NewHandlerType
    <2>3. handlers' \subseteq Handlers
      BY <1>3, <2>2 DEF SendAgain, TypeInv
    <2> QED BY <1>3, <2>3 DEF SendAgain, TypeInv, serverVars, displayVars, endVars
  <1>4. ASSUME NEW j \in ReportJobs, CompleteReport(j) PROVE TypeInv'
    <2>1. <<"success">> \in Seq(Words \cup Line)
      BY DEF Words
    <2>2. shown' \in [ReportJobs -> Seq(Entry)]
      BY <1>4, <2>1, SaidType DEF CompleteReport, TypeInv, Words
    <2>3. jobEnd' \in [ReportJobs -> {"running", "reporting", "success", "failure", "cancelled"}]
      BY <1>4 DEF CompleteReport, TypeInv
    <2> QED BY <1>4, <2>2, <2>3 DEF CompleteReport, TypeInv, runnerVars, serverVars
  <1>5. ASSUME NEW j \in ReportJobs, ReportStep(j) PROVE TypeInv'
    <2> DEFINE rec == timelines[j][scanned[j] + 1]
    <2>1. timelines[j] \in Seq(NewRecord) /\ scanned[j] \in Nat
      BY DEF TypeInv
    <2>2. rec \in NewRecord
      BY <1>5, <2>1 DEF ReportStep
    <2>3. LinesOf(j, rec) \in Seq(Line)
      BY <2>2 DEF LinesOf, TypeInv, LogKeys, NewRecord
    <2>4. LastLines(LinesOf(j, rec)) \in Seq(Line)
      BY <2>3, TailOf, ReportsAssumption
    <2>5. LastLines(LinesOf(j, rec)) \in Seq(Words \cup Line)
      BY <2>4
    <2>6. rec.id \in StepIds
      BY <2>2 DEF NewRecord
    <2>7. Said(j, "FAILED", rec.id, LastLines(LinesOf(j, rec))) \in [ReportJobs -> Seq(Entry)]
      BY <2>5, <2>6, SaidType DEF Words
    <2>8. shown' \in [ReportJobs -> Seq(Entry)]
      BY <1>5, <2>7 DEF ReportStep, TypeInv
    <2>9. scanned' \in [ReportJobs -> Nat]
      BY <1>5 DEF ReportStep, TypeInv
    <2> QED BY <1>5, <2>8, <2>9 DEF ReportStep, TypeInv, runnerVars, serverVars
  <1>6. ASSUME NEW j \in ReportJobs, EndFailed(j) PROVE TypeInv'
    <2>1. <<"failure">> \in Seq(Words \cup Line)
      BY DEF Words
    <2>2. shown' \in [ReportJobs -> Seq(Entry)]
      BY <1>6, <2>1, SaidType DEF EndFailed, Words
    <2>3. jobEnd' \in [ReportJobs -> {"running", "reporting", "success", "failure", "cancelled"}]
      BY <1>6 DEF EndFailed, TypeInv
    <2> QED BY <1>6, <2>2, <2>3 DEF EndFailed, TypeInv, runnerVars, serverVars
  <1>7. ASSUME NEW j \in ReportJobs, NEW status \in {"failure", "cancelled"}, EndEarly(j, status) PROVE TypeInv'
    <2>1. <<status>> \in Seq(Words \cup Line)
      BY DEF Words
    <2>2. shown' \in [ReportJobs -> Seq(Entry)]
      BY <1>7, <2>1, SaidType DEF EndEarly, Words
    <2>3. jobEnd' \in [ReportJobs -> {"running", "reporting", "success", "failure", "cancelled"}]
      BY <1>7 DEF EndEarly, TypeInv
    <2> QED BY <1>7, <2>2, <2>3 DEF EndEarly, TypeInv, runnerVars, serverVars
  <1>8. CASE UNCHANGED reportVars
    BY <1>8 DEF reportVars, runnerVars, serverVars, displayVars, endVars, TypeInv
  <1> QED BY <1>1, <1>2, <1>3, <1>4, <1>5, <1>6, <1>7, <1>8 DEF ReportsNext

\* The steps at the end of a job leave the runner and the broker alone.
LEMMA EndSteps ==
    ASSUME NEW j \in ReportJobs,
           \/ CompleteReport(j) \/ ReportStep(j) \/ EndFailed(j)
           \/ \E status \in {"failure", "cancelled"} : EndEarly(j, status)
    PROVE  UNCHANGED <<runnerVars, handlers, serverVars>>
  BY DEF CompleteReport, ReportStep, EndFailed, EndEarly

LEMMA RouteStays ==
    ASSUME [ReportsNext]_reportVars
    PROVE  route' = route
  <1>1. \A h \in handlers : HandlerStep(h) => route' = route
    BY Zenon DEF HandlerStep, LockTimeline, MergeRecord, UnlockTimeline, Notify, EndNotify,
           OpenLog, ReadBody, AppendLines, AnswerRequest, runnerVars
  <1>2. \A j \in ReportJobs : SendRequest(j) \/ SendAgain(j) => route' = route
    BY DEF SendRequest, SendAgain
  <1>3. UNCHANGED runnerVars => route' = route
    BY DEF runnerVars
  <1> QED BY <1>1, <1>2, <1>3, EndSteps DEF ReportsNext, reportVars

LEMMA NewRequest ==
    ASSUME TypeInv, PositionInv, NEW j \in ReportJobs, position[j] <= Len(Script[j]), NEW c \in {1, 2},
           NEW h, h = Handler(j, c)
    PROVE  FreshFor(h, j)
  <1>1. h.job = j /\ h.at = position[j] /\ h.phase = "arrived" /\ h.next = 1
        /\ (Kind(h) = "post" => h.log = logOf[j][Script[j][h.at].step])
    BY DEF Handler, Kind, Request
  <1>2. position[j] \in DOMAIN Script[j]
    BY ScriptFacts DEF PositionInv
  <1>3. PICK recs : recs = Script[j][position[j]].recs
    OBVIOUS
  <1>4. recs \in Seq(StepIds \X States)
    BY <1>2, <1>3, ScriptFacts
  <1>5. Len(recs) \in Nat /\ DOMAIN recs = 1..Len(recs)
    BY <1>4
  <1>6. h.recs = [i \in DOMAIN recs |-> Record(j, recs[i][1], recs[i][2])]
    BY <1>3 DEF Handler, Request
  <1>7. DOMAIN h.recs = DOMAIN recs /\ \A i \in DOMAIN recs : h.recs[i] = Record(j, recs[i][1], recs[i][2])
    BY <1>6
  <1>8. \A s, t : Record(j, s, t).id = s /\ Record(j, s, t).state = t
    BY DEF Record
  <1>9. \A i \in DOMAIN recs : h.recs[i].id = recs[i][1] /\ h.recs[i].state = recs[i][2]
    BY <1>7, <1>8
  <1>10. Len(h.recs) = Len(recs)
    BY <1>5, <1>6
  <1>11. h.at = position[j] /\ h.at \in DOMAIN Script[j] /\ Script[j][h.at].recs = recs
    BY <1>1, <1>2, <1>3
  <1>12. DOMAIN h.recs = 1..Len(h.recs)
    BY <1>5, <1>7, <1>10
  <1> QED BY <1>1, <1>9, <1>10, <1>11, <1>12 DEF FreshFor

LEMMA RequestInit == ReportsInit => PositionInv /\ RequestInv /\ LockInv
  BY ScriptFacts DEF ReportsInit, PositionInv, RequestInv, LockInv

LEMMA PositionStep ==
    ASSUME TypeInv, PositionInv, RequestInv, [ReportsNext]_reportVars
    PROVE  PositionInv'
  <1>1. ASSUME NEW h \in handlers, HandlerStep(h) PROVE PositionInv'
    <2>1. CASE UNCHANGED <<position, awaiting>>
      BY <2>1 DEF PositionInv
    <2>2. CASE /\ position' = [position EXCEPT ![h.job] = @ + 1]
               /\ awaiting' = [awaiting EXCEPT ![h.job] = FALSE]
               /\ h.at = position[h.job]
      <3>1. h.job \in ReportJobs /\ h.at \in DOMAIN Script[h.job]
        BY HandlerFacts
      <3>2. position[h.job] + 1 \in 1..(Len(Script[h.job]) + 1)
        BY <2>2, <3>1, ScriptFacts
      <3>3. position \in [ReportJobs -> Nat] /\ awaiting \in [ReportJobs -> BOOLEAN]
        BY DEF TypeInv
      <3> QED BY <2>2, <3>1, <3>2, <3>3 DEF PositionInv
    <2>3. AnswerRequest(h) =>
             \/ UNCHANGED <<position, awaiting>>
             \/ /\ position' = [position EXCEPT ![h.job] = @ + 1]
                /\ awaiting' = [awaiting EXCEPT ![h.job] = FALSE]
                /\ h.at = position[h.job]
      BY DEF AnswerRequest
    <2>4. ~ AnswerRequest(h) => UNCHANGED <<position, awaiting>>
      BY <1>1 DEF HandlerStep, LockTimeline, MergeRecord, UnlockTimeline, Notify, EndNotify, OpenLog,
                  ReadBody, AppendLines, runnerVars
    <2> QED BY <2>1, <2>2, <2>3, <2>4
  <1>2. ASSUME NEW j \in ReportJobs, SendRequest(j) PROVE PositionInv'
    BY <1>2, ScriptFacts DEF SendRequest, PositionInv, TypeInv
  <1>3. ASSUME NEW j \in ReportJobs, SendAgain(j) PROVE PositionInv'
    BY <1>3 DEF SendAgain, PositionInv
  <1>4. CASE UNCHANGED <<runnerVars, handlers, serverVars>>
    BY <1>4 DEF PositionInv, runnerVars
  <1> QED BY <1>1, <1>2, <1>3, <1>4, EndSteps DEF ReportsNext, reportVars

LEMMA ProperFrame ==
    ASSUME NEW h, Proper(h), UNCHANGED <<position, awaiting, route>>
    PROVE  Proper(h)'
  BY DEF Proper, Kind

LEMMA ProperMove ==
    ASSUME NEW h, NEW g, Proper(h), g.job = h.job, g.at = h.at, g.recs = h.recs, g.next >= 1,
           g.phase \in {"merge", "notify"} => Kind(h) = "patch", g.phase = "body" => Kind(h) = "post",
           g.phase = "notify" => route = "v1", g.phase # "arrived"
    PROVE  Proper(g)
  <1>1. Kind(g) = Kind(h)
    BY DEF Kind
  <1>2. /\ Len(g.recs) = Len(Script[g.job][g.at].recs)
        /\ \A i \in DOMAIN g.recs : /\ g.recs[i].id = Script[g.job][g.at].recs[i][1]
                                     /\ g.recs[i].state = Script[g.job][g.at].recs[i][2]
    BY DEF Proper
  <1>3. /\ g.at \in DOMAIN Script[g.job] /\ g.at <= position[g.job]
        /\ g.at = position[g.job] => awaiting[g.job]
    BY DEF Proper
  <1> QED BY <1>1, <1>2, <1>3 DEF Proper

LEMMA RequestStep ==
    ASSUME TypeInv, PositionInv, RequestInv, [ReportsNext]_reportVars
    PROVE  RequestInv'
  <1>1. ASSUME NEW h \in handlers, HandlerStep(h) PROVE RequestInv'
    <2>0. h \in Handlers /\ h.job \in ReportJobs /\ h.next \in Nat /\ h.next >= 1 /\ Proper(h)
      BY HandlerFacts DEF RequestInv
    <2>1. CASE UNCHANGED <<position, awaiting, route>>
      <3>1. ASSUME NEW g, Moved(h, g), Proper(g) PROVE RequestInv'
        BY <2>1, <3>1, ProperFrame DEF Moved, RequestInv
      <3>2. ASSUME NEW p \in Phases, Moved(h, [h EXCEPT !.phase = p]), p # "arrived",
                   p \in {"merge", "notify"} => Kind(h) = "patch", p = "body" => Kind(h) = "post",
                   p = "notify" => route = "v1"
            PROVE  RequestInv'
        <4>1. PICK g : g = [h EXCEPT !.phase = p]
          OBVIOUS
        <4>2. g.job = h.job /\ g.at = h.at /\ g.recs = h.recs /\ g.next = h.next /\ g.phase = p
          BY <2>0, <4>1 DEF Handlers
        <4>3. Proper(g)
          BY <2>0, <3>2, <4>2, ProperMove
        <4> QED BY <3>1, <3>2, <4>1, <4>3
      <3>3. ASSUME Moved(h, [h EXCEPT !.next = @ + 1]), h.phase # "arrived" PROVE RequestInv'
        <4>1. PICK g : g = [h EXCEPT !.next = @ + 1]
          OBVIOUS
        <4>2. g.job = h.job /\ g.at = h.at /\ g.recs = h.recs /\ g.next = h.next + 1 /\ g.phase = h.phase
          BY <2>0, <4>1 DEF Handlers
        <4>3. Proper(g)
          <5>1. /\ h.phase \in {"merge", "notify"} => Kind(h) = "patch"
                /\ h.phase = "body" => Kind(h) = "post"
                /\ h.phase = "notify" => route = "v1"
            BY <2>0 DEF Proper
          <5> QED BY <2>0, <3>3, <4>2, <5>1, ProperMove
        <4> QED BY <3>1, <3>3, <4>1, <4>3
      <3>4. ASSUME UnlockTimeline(h) PROVE RequestInv'
        <4>1. PICK g : g = [h EXCEPT !.phase = AfterMerge, !.next = 1]
          OBVIOUS
        <4>2. g.job = h.job /\ g.at = h.at /\ g.recs = h.recs /\ g.next = 1 /\ g.phase = AfterMerge
          BY <2>0, <4>1 DEF Handlers
        <4>3. Kind(h) = "patch"
          BY <2>0, <3>4 DEF Proper, UnlockTimeline
        <4>4. Proper(g)
          BY <2>0, <4>2, <4>3, ProperMove DEF AfterMerge
        <4> QED BY <3>1, <3>4, <4>1, <4>4 DEF UnlockTimeline
      <3>5. ASSUME OpenLog(h) PROVE RequestInv'
        <4>1. PICK g : g = [h EXCEPT !.phase = "answer", !.log = logNextID'[LogKey(h)]]
          OBVIOUS
        <4>2. g.job = h.job /\ g.at = h.at /\ g.recs = h.recs /\ g.next = h.next /\ g.phase = "answer"
          BY <2>0, <4>1 DEF Handlers
        <4>3. Proper(g)
          BY <2>0, <4>2, ProperMove
        <4> QED BY <3>1, <3>5, <4>1, <4>3 DEF OpenLog
      <3>6. LockTimeline(h) => RequestInv'
        BY <3>2 DEF LockTimeline, Phases, Kind
      <3>7. MergeRecord(h) => RequestInv'
        BY <3>3 DEF MergeRecord
      <3>8. Notify(h) => RequestInv'
        BY <3>3 DEF Notify
      <3>9. EndNotify(h) => RequestInv'
        BY <3>2 DEF EndNotify, Phases
      <3>10. ReadBody(h) => RequestInv'
        BY <3>2 DEF ReadBody, Phases, Kind
      <3>11. AppendLines(h) => RequestInv'
        BY <3>2 DEF AppendLines, Phases
      <3>12. AnswerRequest(h) => RequestInv'
        BY <2>1, ProperFrame DEF AnswerRequest, RequestInv
      <3> QED BY <1>1, <3>4, <3>5, <3>6, <3>7, <3>8, <3>9, <3>10, <3>11, <3>12 DEF HandlerStep
    <2>2. CASE /\ position' = [position EXCEPT ![h.job] = @ + 1]
               /\ awaiting' = [awaiting EXCEPT ![h.job] = FALSE]
               /\ handlers' = handlers \ {h}
               /\ route' = route
      <3> SUFFICES ASSUME NEW g \in handlers PROVE Proper(g)'
        BY <2>2 DEF RequestInv
      <3>1. Proper(g) /\ g.job \in ReportJobs /\ g.at \in Nat
        BY HandlerFacts DEF RequestInv
      <3>2. position \in [ReportJobs -> Nat] /\ awaiting \in [ReportJobs -> BOOLEAN]
        BY DEF TypeInv
      <3>3. /\ g.at <= position[g.job]
            /\ g.at = position[g.job] => awaiting[g.job]
        BY <3>1 DEF Proper
      <3>4. g.at <= position'[g.job] /\ (g.at = position'[g.job] => awaiting'[g.job])
        <4>1. CASE g.job = h.job
          BY <2>0, <2>2, <3>1, <3>2, <3>3, <4>1
        <4>2. CASE g.job # h.job
          BY <2>0, <2>2, <3>1, <3>2, <3>3, <4>2
        <4> QED BY <4>1, <4>2
      <3> QED BY <2>2, <3>1, <3>4 DEF Proper, Kind
    <2>3. AnswerRequest(h) =>
             \/ UNCHANGED <<position, awaiting, route>>
             \/ /\ position' = [position EXCEPT ![h.job] = @ + 1]
                /\ awaiting' = [awaiting EXCEPT ![h.job] = FALSE]
                /\ handlers' = handlers \ {h}
                /\ route' = route
      BY DEF AnswerRequest
    <2>4. ~ AnswerRequest(h) => UNCHANGED <<position, awaiting, route>>
      BY <1>1 DEF HandlerStep, LockTimeline, MergeRecord, UnlockTimeline, Notify, EndNotify, OpenLog,
                  ReadBody, AppendLines, runnerVars
    <2> QED BY <2>1, <2>2, <2>3, <2>4
  <1>2. ASSUME NEW j \in ReportJobs, NEW c \in {1, 2}, position[j] <= Len(Script[j]),
               handlers' = handlers \cup {Handler(j, c)}, awaiting' = [awaiting EXCEPT ![j] = TRUE],
               UNCHANGED <<route, position>>
        PROVE  RequestInv'
    <2>1. awaiting \in [ReportJobs -> BOOLEAN]
      BY DEF TypeInv
    <2>2. \A g \in handlers : Proper(g)'
      <3> TAKE g \in handlers
      <3>1. Proper(g) /\ g.job \in ReportJobs
        BY HandlerFacts DEF RequestInv
      <3> QED BY <1>2, <2>1, <3>1 DEF Proper, Kind
    <2>3. PICK h : h = Handler(j, c)
      OBVIOUS
    <2>0. FreshFor(h, j)
      BY <1>2, <2>3, NewRequest
    <2>4. /\ h.job = j /\ h.at = position[j] /\ h.at \in DOMAIN Script[j]
          /\ h.phase = "arrived" /\ h.next = 1
          /\ Len(h.recs) = Len(Script[j][h.at].recs)
          /\ \A i \in DOMAIN h.recs :
                h.recs[i].id = Script[j][h.at].recs[i][1] /\ h.recs[i].state = Script[j][h.at].recs[i][2]
      BY <2>0 DEF FreshFor
    <2>5. position[j] \in Nat /\ position'[j] = position[j] /\ awaiting'[j]
      BY <1>2, <2>1 DEF TypeInv
    <2>6. h.at <= position'[h.job] /\ awaiting'[h.job]
      BY <2>4, <2>5
    <2>7. Proper(h)'
      BY <2>4, <2>6 DEF Proper, Kind
    <2> QED BY <1>2, <2>2, <2>3, <2>7 DEF RequestInv
  <1>3. ASSUME NEW j \in ReportJobs, SendRequest(j) PROVE RequestInv'
    BY <1>2, <1>3 DEF SendRequest
  <1>4. ASSUME NEW j \in ReportJobs, SendAgain(j) PROVE RequestInv'
    <2>1. awaiting' = [awaiting EXCEPT ![j] = TRUE]
      BY <1>4 DEF SendAgain, TypeInv
    <2> QED BY <1>2, <1>4, <2>1 DEF SendAgain, PositionInv
  <1>5. CASE UNCHANGED <<runnerVars, handlers, serverVars>>
    BY <1>5, ProperFrame DEF RequestInv, runnerVars
  <1> QED BY <1>1, <1>3, <1>4, <1>5, EndSteps DEF ReportsNext, reportVars

\* A request becomes answered when a handler of it answers.
LEMMA NewlyAnswered ==
    ASSUME TypeInv, PositionInv, RequestInv, [ReportsNext]_reportVars,
           NEW j \in ReportJobs, NEW k \in Answered(j)', k \notin Answered(j)
    PROVE  \E h \in handlers :
              /\ AnswerRequest(h) /\ h.job = j /\ h.at = k /\ h.phase = "answer"
              /\ position[j] = k /\ awaiting[j] /\ position' = [position EXCEPT ![j] = @ + 1]
  <1>0. position \in [ReportJobs -> Nat] /\ DOMAIN Script[j] \subseteq Nat
    BY ScriptFacts DEF TypeInv
  <1>1. position' # position
    BY DEF Answered
  <1>2. \A h \in handlers : HandlerStep(h) => AnswerRequest(h) \/ UNCHANGED position
    BY DEF HandlerStep, LockTimeline, MergeRecord, UnlockTimeline, Notify, EndNotify, OpenLog,
           ReadBody, AppendLines, runnerVars
  <1>3. \A i \in ReportJobs : SendRequest(i) \/ SendAgain(i) => UNCHANGED position
    BY DEF SendRequest, SendAgain
  <1>4. PICK h \in handlers : AnswerRequest(h)
    BY <1>1, <1>2, <1>3, EndSteps DEF ReportsNext, reportVars, runnerVars
  <1>5. /\ position' = [position EXCEPT ![h.job] = @ + 1] /\ h.at = position[h.job] /\ awaiting[h.job]
        /\ h.phase = "answer"
    BY <1>1, <1>4 DEF AnswerRequest
  <1>6. h.job = j
    BY <1>0, <1>5, HandlerFacts DEF Answered
  <1>7. k = position[j]
    BY <1>0, <1>5, <1>6 DEF Answered
  <1> QED BY <1>4, <1>5, <1>6, <1>7

LEMMA LockStep ==
    ASSUME TypeInv, PositionInv, RequestInv, LockInv, [ReportsNext]_reportVars
    PROVE  LockInv'
  <1>1. ASSUME NEW h \in handlers, HandlerStep(h) PROVE LockInv'
    <2>0. h \in Handlers
      BY HandlerFacts
    <2>1. ASSUME NEW g, Moved(h, g), mu' = mu, Holds(g) <=> Holds(h) PROVE LockInv'
      BY <2>1 DEF LockInv, Moved, Holds
    <2>2. ASSUME NEW g, Moved(h, g), ~mu, mu', Holds(g) PROVE LockInv'
      BY <2>2 DEF LockInv, Moved, Holds
    <2>3. ASSUME NEW g, Moved(h, g), ~mu', Holds(h), ~Holds(g) PROVE LockInv'
      BY <2>3 DEF LockInv, Moved, Holds
    <2>4. \A p : LET g == [h EXCEPT !.phase = p] IN Holds(g) <=> p \in {"merge", "body"}
      BY <2>0 DEF Holds, Handlers
    <2>5. CASE LockTimeline(h)
      BY <2>2, <2>4, <2>5 DEF LockTimeline
    <2>6. CASE MergeRecord(h)
      <3>1. Holds([h EXCEPT !.next = @ + 1]) <=> Holds(h)
        BY <2>0 DEF Holds, Handlers
      <3> QED BY <2>1, <2>6, <3>1 DEF MergeRecord
    <2>7. CASE UnlockTimeline(h)
      <3>1. ~Holds([h EXCEPT !.phase = AfterMerge, !.next = 1])
        BY <2>0 DEF Holds, Handlers, AfterMerge
      <3>2. Holds(h)
        BY <2>7 DEF UnlockTimeline, Holds
      <3> QED BY <2>3, <2>7, <3>1, <3>2 DEF UnlockTimeline
    <2>8. CASE Notify(h)
      <3>1. Holds([h EXCEPT !.next = @ + 1]) <=> Holds(h)
        BY <2>0 DEF Holds, Handlers
      <3> QED BY <2>1, <2>8, <3>1 DEF Notify, serverVars
    <2>9. CASE EndNotify(h)
      <3>1. ~Holds([h EXCEPT !.phase = "answer"]) /\ ~Holds(h)
        BY <2>4, <2>9 DEF EndNotify, Holds
      <3> QED BY <2>1, <2>9, <3>1 DEF EndNotify, serverVars
    <2>10. CASE OpenLog(h)
      <3>1. ~Holds([h EXCEPT !.phase = "answer", !.log = logNextID'[LogKey(h)]]) /\ ~Holds(h)
        BY <2>0, <2>10 DEF Holds, Handlers, OpenLog
      <3> QED BY <2>1, <2>10, <3>1 DEF OpenLog
    <2>11. CASE ReadBody(h)
      BY <2>2, <2>4, <2>11 DEF ReadBody
    <2>12. CASE AppendLines(h)
      <3>1. ~Holds([h EXCEPT !.phase = "answer"]) /\ Holds(h)
        BY <2>4, <2>12 DEF AppendLines, Holds
      <3> QED BY <2>3, <2>12, <3>1 DEF AppendLines
    <2>13. CASE AnswerRequest(h)
      BY <2>13 DEF AnswerRequest, LockInv, Holds, serverVars
    <2> QED BY <1>1, <2>5, <2>6, <2>7, <2>8, <2>9, <2>10, <2>11, <2>12, <2>13 DEF HandlerStep
  <1>2. ASSUME NEW j \in ReportJobs, NEW c \in {1, 2}, handlers' = handlers \cup {Handler(j, c)}, mu' = mu
        PROVE  LockInv'
    <2>1. ~Holds(Handler(j, c))
      BY DEF Holds, Handler
    <2> QED BY <1>2, <2>1 DEF LockInv, Holds
  <1>3. ASSUME NEW j \in ReportJobs, SendRequest(j) \/ SendAgain(j) PROVE LockInv'
    BY <1>2, <1>3 DEF SendRequest, SendAgain, serverVars
  <1>4. CASE UNCHANGED <<runnerVars, handlers, serverVars>>
    BY <1>4 DEF LockInv, Holds, serverVars
  <1> QED BY <1>1, <1>3, <1>4, EndSteps DEF ReportsNext, reportVars
-----------------------------------------------------------------------------
(* Timelines.                                                              *)

\* A timeline never loses a step, and keeps one record of each.
LEMMA TimelinesGrow ==
    ASSUME TypeInv, PositionInv, RequestInv, [ReportsNext]_reportVars
    PROVE  \A j \in ReportJobs :
              /\ \A s : Has(j, s) => Has(j, s)'
              /\ Distinct(j) => Distinct(j)'
  <1>1. CASE UNCHANGED timelines
    BY <1>1 DEF Has, Distinct
  <1>2. ASSUME NEW h \in handlers, MergeRecord(h)
        PROVE  \A j \in ReportJobs :
                  /\ \A s : Has(j, s) => Has(j, s)'
                  /\ Distinct(j) => Distinct(j)'
    <2>1. h.job \in ReportJobs /\ h.recs[h.next] \in NewRecord
      BY <1>2, HandlerFacts DEF MergeRecord
    <2>2. timelines \in [ReportJobs -> Seq(NewRecord)]
      BY DEF TypeInv
    <2> TAKE j \in ReportJobs
    <2>3. CASE j # h.job
      <3>1. timelines'[j] = timelines[j]
        BY <1>2, <2>2, <2>3 DEF MergeRecord
      <3> QED BY <3>1 DEF Has, Distinct
    <2>4. CASE j = h.job
      <3>1. timelines'[j] = Merged(timelines[j], h.recs[h.next])
        BY <1>2, <2>1, <2>2, <2>4 DEF MergeRecord
      <3>2. timelines[j] \in Seq(NewRecord)
        BY <2>2
      <3>3. /\ \A i \in DOMAIN timelines[j] :
                  i \in DOMAIN timelines'[j] /\ timelines'[j][i].id = timelines[j][i].id
            /\ Distinct(j) => Distinct(j)'
        <4> DEFINE line == timelines[j]
                   rec  == h.recs[h.next]
                   new  == Merged(line, rec)
        <4>1. /\ \A i \in DOMAIN line : i \in DOMAIN new /\ new[i].id = line[i].id
              /\ (\A a, b \in DOMAIN line : line[a].id = line[b].id => a = b)
                   => \A a, b \in DOMAIN new : new[a].id = new[b].id => a = b
          BY <2>1, <3>2, MergedKeeps
        <4>2. timelines'[j] = new
          BY <3>1
        <4> HIDE DEF new
        <4> QED BY <4>1, <4>2 DEF Distinct
      <3> QED BY <3>3 DEF Has
    <2> QED BY <2>3, <2>4
  <1>3. \A h \in handlers : HandlerStep(h) => MergeRecord(h) \/ UNCHANGED timelines
    BY Zenon DEF HandlerStep, LockTimeline, MergeRecord, UnlockTimeline, Notify, EndNotify, OpenLog,
           ReadBody, AppendLines, AnswerRequest, serverVars
  <1>4. \A j \in ReportJobs : SendRequest(j) \/ SendAgain(j) => UNCHANGED timelines
    BY DEF SendRequest, SendAgain, serverVars
  <1> QED BY <1>1, <1>2, <1>3, <1>4, EndSteps DEF ReportsNext, reportVars, serverVars

LEMMA TimelineStep ==
    ASSUME TypeInv, PositionInv, RequestInv, TimelineInv, [ReportsNext]_reportVars
    PROVE  TimelineInv'
  <1>1. \A j \in ReportJobs : Distinct(j)'
    BY TimelinesGrow DEF TimelineInv
  <1>2. \A h \in handlers : Recorded(h)'
    <2> TAKE h \in handlers
    <2>1. h.job \in ReportJobs
      BY HandlerFacts
    <2> QED BY <2>1, TimelinesGrow DEF TimelineInv, Recorded
  <1>3. \A h \in handlers' : Recorded(h)'
    <2>1. ASSUME NEW h \in handlers, HandlerStep(h) PROVE \A g \in handlers' : Recorded(g)'
      <3>0. /\ h \in Handlers /\ h.job \in ReportJobs /\ Len(h.recs) \in Nat /\ h.recs \in Seq(NewRecord)
            /\ DOMAIN h.recs = 1..Len(h.recs) /\ h.next \in Nat /\ h.next >= 1 /\ Proper(h)
        BY HandlerFacts DEF RequestInv
      <3>1. ASSUME NEW g, Moved(h, g), Recorded(g)' PROVE \A f \in handlers' : Recorded(f)'
        BY <1>2, <3>1 DEF Moved
      <3>2. CASE LockTimeline(h)
        <4>1. Recorded([h EXCEPT !.phase = "merge"])'
          BY <3>0, <3>2 DEF Recorded, Handlers, Proper, LockTimeline
        <4> QED BY <3>1, <3>2, <4>1 DEF LockTimeline
      <3>3. CASE MergeRecord(h)
        <4>1. timelines \in [ReportJobs -> Seq(NewRecord)] /\ h.recs[h.next] \in NewRecord
          BY <3>3, HandlerFacts DEF TypeInv, MergeRecord
        <4>2. timelines'[h.job] = Merged(timelines[h.job], h.recs[h.next])
          BY <3>0, <3>3, <4>1 DEF MergeRecord
        <4>3. timelines[h.job] \in Seq(NewRecord)
          BY <3>0, <4>1
        <4>4. Has(h.job, h.recs[h.next].id)'
          <5>0. PICK new : new = Merged(timelines[h.job], h.recs[h.next])
            OBVIOUS
          <5>1. \E i \in DOMAIN new : new[i].id = h.recs[h.next].id
            BY <4>1, <4>3, <5>0, MergedHas
          <5>2. timelines'[h.job] = new
            BY <4>2, <5>0
          <5> QED BY <5>1, <5>2 DEF Has
        <4>5. Recorded(h)'
          BY <1>2
        <4>6. Recorded([h EXCEPT !.next = @ + 1])'
          <5> DEFINE g == [h EXCEPT !.next = @ + 1]
          <5>1. g.job = h.job /\ g.recs = h.recs /\ g.phase = "merge" /\ g.next = h.next + 1 /\ h.phase = "merge"
            BY <3>0, <3>3 DEF Handlers, MergeRecord
          <5>2. \A i \in DOMAIN h.recs : i < h.next + 1 => i < h.next \/ i = h.next
            BY <3>0
          <5> QED BY <4>4, <4>5, <5>1, <5>2 DEF Recorded
        <4> QED BY <3>1, <3>3, <4>6 DEF MergeRecord
      <3>4. CASE UnlockTimeline(h)
        <4>1. \A i \in DOMAIN h.recs : i < h.next
          BY <3>0, <3>4 DEF UnlockTimeline
        <4>2. Recorded(h)' /\ h.phase = "merge"
          BY <1>2, <3>4 DEF UnlockTimeline
        <4>3. ASSUME NEW g, g.job = h.job, g.recs = h.recs PROVE Recorded(g)'
          BY <4>1, <4>2, <4>3 DEF Recorded
        <4>4. PICK g : g = [h EXCEPT !.phase = AfterMerge, !.next = 1]
          OBVIOUS
        <4>5. g.job = h.job /\ g.recs = h.recs
          BY <3>0, <4>4 DEF Handlers
        <4> QED BY <3>1, <3>4, <4>3, <4>4, <4>5 DEF UnlockTimeline
      <3>5. CASE Notify(h)
        <4>1. Recorded(h)' /\ h.phase = "notify"
          BY <1>2, <3>5 DEF Notify
        <4>2. Recorded([h EXCEPT !.next = @ + 1])'
          BY <3>0, <4>1 DEF Recorded, Handlers
        <4> QED BY <3>1, <3>5, <4>2 DEF Notify
      <3>6. CASE EndNotify(h)
        <4>1. Recorded(h)' /\ h.phase = "notify"
          BY <1>2, <3>6 DEF EndNotify
        <4>2. Recorded([h EXCEPT !.phase = "answer"])'
          BY <3>0, <4>1 DEF Recorded, Handlers
        <4> QED BY <3>1, <3>6, <4>2 DEF EndNotify
      <3>7. ASSUME Kind(h) # "patch", NEW g, g.recs = h.recs PROVE Recorded(g)'
        <4>1. Script[h.job][h.at].recs = <<>>
          BY <3>0, <3>7, OnlyPatchesUpdate DEF Kind, Proper
        <4>2. DOMAIN g.recs = {}
          BY <3>0, <3>7, <4>1 DEF Proper
        <4> QED BY <4>2 DEF Recorded
      <3>8. CASE OpenLog(h)
        <4>1. [h EXCEPT !.phase = "answer", !.log = logNextID'[LogKey(h)]].recs = h.recs
          BY <3>0 DEF Handlers
        <4> QED BY <3>1, <3>7, <3>8, <4>1 DEF OpenLog, Kind
      <3>9. CASE ReadBody(h)
        <4>1. [h EXCEPT !.phase = "body"].recs = h.recs
          BY <3>0 DEF Handlers
        <4> QED BY <3>1, <3>7, <3>9, <4>1 DEF ReadBody, Kind
      <3>10. CASE AppendLines(h)
        <4>1. [h EXCEPT !.phase = "answer"].recs = h.recs
          BY <3>0 DEF Handlers
        <4>2. Kind(h) # "patch"
          BY <3>0, <3>10 DEF AppendLines, Proper
        <4> QED BY <3>1, <3>7, <3>10, <4>1, <4>2 DEF AppendLines
      <3>11. CASE AnswerRequest(h)
        BY <1>2, <3>11 DEF AnswerRequest
      <3> QED BY <2>1, <3>2, <3>3, <3>4, <3>5, <3>6, <3>8, <3>9, <3>10, <3>11 DEF HandlerStep
    <2>2. ASSUME NEW j \in ReportJobs, NEW c \in {1, 2}, handlers' = handlers \cup {Handler(j, c)}
          PROVE  \A g \in handlers' : Recorded(g)'
      <3>1. PICK g : g = Handler(j, c)
        OBVIOUS
      <3>2. g.phase = "arrived"
        BY <3>1 DEF Handler
      <3>3. Recorded(g)'
        BY <3>2 DEF Recorded
      <3> QED BY <1>2, <2>2, <3>1, <3>3
    <2>3. ASSUME NEW j \in ReportJobs, SendRequest(j) \/ SendAgain(j) PROVE \A g \in handlers' : Recorded(g)'
      BY <2>2, <2>3 DEF SendRequest, SendAgain
    <2>4. CASE handlers' = handlers
      BY <1>2, <2>4
    <2> QED BY <2>1, <2>3, <2>4, EndSteps DEF ReportsNext, reportVars
  <1>4. \A j \in ReportJobs : \A k \in Answered(j)' : \A i \in DOMAIN Script[j][k].recs :
           Has(j, Script[j][k].recs[i][1])'
    <2> TAKE j \in ReportJobs
    <2>1. ASSUME NEW k \in Answered(j) PROVE \A i \in DOMAIN Script[j][k].recs : Has(j, Script[j][k].recs[i][1])'
      BY TimelinesGrow DEF TimelineInv
    <2>2. ASSUME NEW k \in Answered(j)', k \notin Answered(j)
          PROVE  \A i \in DOMAIN Script[j][k].recs : Has(j, Script[j][k].recs[i][1])'
      <3>1. PICK h \in handlers : h.job = j /\ h.at = k /\ h.phase = "answer"
        BY <2>2, NewlyAnswered
      <3>2. Recorded(h)' /\ Proper(h)
        BY <1>2 DEF RequestInv
      <3>3. h.recs \in Seq(NewRecord) /\ Script[j][k].recs \in Seq(StepIds \X States)
        BY <3>1, <3>2, HandlerFacts, ScriptFacts DEF Proper
      <3>4. DOMAIN h.recs = DOMAIN Script[j][k].recs
        BY <3>1, <3>2, <3>3 DEF Proper
      <3> QED BY <3>1, <3>2, <3>4 DEF Proper, Recorded
    <2> QED BY <2>1, <2>2
  <1> QED BY <1>1, <1>3, <1>4 DEF TimelineInv

-----------------------------------------------------------------------------
(* What is shown.                                                          *)

LEMMA SaidFacts ==
    ASSUME TypeInv, NEW i \in ReportJobs, NEW what, NEW s, NEW detail, shown' = Said(i, what, s, detail)
    PROVE  \A j \in ReportJobs :
              /\ Len(shown[j]) \in Nat /\ DOMAIN shown[j] = 1..Len(shown[j])
              /\ j # i => shown'[j] = shown[j]
              /\ j = i => /\ DOMAIN shown'[j] = 1..(Len(shown[j]) + 1)
                          /\ \A n \in DOMAIN shown[j] : shown'[j][n] = shown[j][n]
                          /\ shown'[j][Len(shown[j]) + 1].what = what
                          /\ shown'[j][Len(shown[j]) + 1].step = s
                          /\ shown'[j][Len(shown[j]) + 1].detail = detail
  <1> TAKE j \in ReportJobs
  <1>1. shown \in [ReportJobs -> Seq(Entry)]
    BY DEF TypeInv
  <1>2. Len(shown[j]) \in Nat /\ DOMAIN shown[j] = 1..Len(shown[j]) /\ shown[j] \in Seq(Entry)
    BY <1>1
  <1>3. j # i => shown'[j] = shown[j]
    BY <1>1 DEF Said
  <1>4. ASSUME j = i
        PROVE  /\ DOMAIN shown'[j] = 1..(Len(shown[j]) + 1)
               /\ \A n \in DOMAIN shown[j] : shown'[j][n] = shown[j][n]
               /\ shown'[j][Len(shown[j]) + 1].what = what
               /\ shown'[j][Len(shown[j]) + 1].step = s
               /\ shown'[j][Len(shown[j]) + 1].detail = detail
    <2> DEFINE entry == [what |-> what, step |-> s, detail |-> detail]
    <2>1. shown'[j] = Append(shown[j], entry)
      BY <1>1, <1>4 DEF Said
    <2>2. entry.what = what /\ entry.step = s /\ entry.detail = detail
      OBVIOUS
    <2> HIDE DEF entry
    <2>3. /\ DOMAIN Append(shown[j], entry) = 1..(Len(shown[j]) + 1)
          /\ \A n \in 1..Len(shown[j]) : Append(shown[j], entry)[n] = shown[j][n]
          /\ Append(shown[j], entry)[Len(shown[j]) + 1] = entry
      BY <1>2
    <2> QED BY <1>2, <2>1, <2>2, <2>3
  <1> QED BY <1>2, <1>3, <1>4

\* Only the step callback tells of a step, for a job registered, and nothing told is lost.
LEMMA ShownSteps ==
    ASSUME TypeInv, PositionInv, RequestInv, [ReportsNext]_reportVars
    PROVE  \/ UNCHANGED shown
           \/ \E h \in handlers :
                 /\ Notify(h) /\ h.job \in Registered /\ h.recs[h.next].id \notin Unnamed
                 /\ shown' = Said(h.job, h.recs[h.next].state, h.recs[h.next].id, <<h.recs[h.next].result>>)
           \/ \E j \in ReportJobs : \E what \in {"JobCompleted", "FAILED"} : \E s, detail :
                 /\ shown' = Said(j, what, s, detail)
                 /\ UNCHANGED <<handlers, position>>
  <1>1. \A h \in handlers : HandlerStep(h) => Notify(h) \/ UNCHANGED shown
    BY Zenon DEF HandlerStep, LockTimeline, MergeRecord, UnlockTimeline, Notify, EndNotify, OpenLog,
           ReadBody, AppendLines, AnswerRequest, displayVars
  <1>2. \A h \in handlers : Notify(h) =>
           \/ UNCHANGED shown
           \/ /\ h.job \in Registered /\ h.recs[h.next].id \notin Unnamed
              /\ shown' = Said(h.job, h.recs[h.next].state, h.recs[h.next].id, <<h.recs[h.next].result>>)
    BY DEF Notify, displayVars
  <1>3. \A j \in ReportJobs : SendRequest(j) \/ SendAgain(j) => UNCHANGED shown
    BY DEF SendRequest, SendAgain, displayVars
  <1>4. ASSUME NEW j \in ReportJobs,
               \/ CompleteReport(j) \/ ReportStep(j) \/ EndFailed(j)
               \/ \E status \in {"failure", "cancelled"} : EndEarly(j, status)
        PROVE  \/ UNCHANGED shown
               \/ \E what \in {"JobCompleted", "FAILED"} : \E s, detail :
                     /\ shown' = Said(j, what, s, detail)
                     /\ UNCHANGED <<handlers, position>>
    <2>1. UNCHANGED <<handlers, position>>
      BY <1>4, EndSteps DEF runnerVars
    <2>2. CompleteReport(j) => UNCHANGED shown \/ shown' = Said(j, "JobCompleted", NoStep, <<"success">>)
      BY DEF CompleteReport
    <2>3. ReportStep(j) => UNCHANGED shown \/ \E s, detail : shown' = Said(j, "FAILED", s, detail)
      BY DEF ReportStep
    <2>4. EndFailed(j) => shown' = Said(j, "JobCompleted", NoStep, <<"failure">>)
      BY DEF EndFailed
    <2>5. \A status : EndEarly(j, status) => shown' = Said(j, "JobCompleted", NoStep, <<status>>)
      BY DEF EndEarly
    <2> QED BY <1>4, <2>1, <2>2, <2>3, <2>4, <2>5
  <1>5. UNCHANGED reportVars => UNCHANGED shown
    BY DEF reportVars, displayVars
  <1> QED BY <1>1, <1>2, <1>3, <1>4, <1>5 DEF ReportsNext

LEMMA ShownGrows ==
    ASSUME TypeInv, PositionInv, RequestInv, [ReportsNext]_reportVars
    PROVE  \A j \in ReportJobs : \A u : Tells(j, u) => Tells(j, u)'
  <1>1. ASSUME NEW i \in ReportJobs, NEW what, NEW s, NEW detail, shown' = Said(i, what, s, detail)
        PROVE  \A j \in ReportJobs : \A n \in DOMAIN shown[j] :
                  n \in DOMAIN shown'[j] /\ shown'[j][n] = shown[j][n]
    <2> TAKE j \in ReportJobs
    <2>1. CASE j = i
      BY <1>1, <2>1, SaidFacts
    <2>2. CASE j # i
      BY <1>1, <2>2, SaidFacts
    <2> QED BY <2>1, <2>2
  <1>2. CASE \A j \in ReportJobs : \A n \in DOMAIN shown[j] :
                n \in DOMAIN shown'[j] /\ shown'[j][n] = shown[j][n]
    BY <1>2 DEF Tells, SaysIn
  <1>3. CASE UNCHANGED shown
    BY <1>3 DEF Tells
  <1> QED BY <1>1, <1>2, <1>3, ShownSteps, HandlerFacts

LEMMA NoticeStep ==
    ASSUME TypeInv, PositionInv, RequestInv, NoticeInv, [ReportsNext]_reportVars
    PROVE  NoticeInv'
  <1>0. route' = route
    BY RouteStays
  <1> SUFFICES ASSUME route = "v1", NEW j \in Registered
               PROVE  /\ \A k \in Answered(j)' : \A i \in DOMAIN Script[j][k].recs :
                            Tells(j, Script[j][k].recs[i])'
                      /\ \A h \in handlers' : h.job = j => Told(h)'
    BY <1>0 DEF NoticeInv
  <1>1. j \in ReportJobs
    BY ReportsAssumption
  <1>2. \A h \in handlers : h.job = j => Told(h)'
    BY <1>1, ShownGrows DEF NoticeInv, Told
  <1>3. ASSUME NEW h \in handlers, HandlerStep(h) PROVE \A g \in handlers' : g.job = j => Told(g)'
    <2>0. /\ h \in Handlers /\ h.job \in ReportJobs /\ Len(h.recs) \in Nat /\ h.recs \in Seq(NewRecord)
          /\ DOMAIN h.recs = 1..Len(h.recs) /\ h.next \in Nat /\ h.next >= 1 /\ Proper(h)
      BY <1>3, HandlerFacts DEF RequestInv
    <2>1. ASSUME NEW g, Moved(h, g), g.job = j => Told(g)' PROVE \A f \in handlers' : f.job = j => Told(f)'
      BY <1>2, <2>1 DEF Moved
    <2>3. CASE LockTimeline(h)
      <3>1. PICK g : g = [h EXCEPT !.phase = "merge"]
        OBVIOUS
      <3>2. g.phase = "merge"
        BY <2>0, <3>1 DEF Handlers
      <3>3. Told(g)'
        BY <3>2 DEF Told
      <3> QED BY <2>1, <2>3, <3>1, <3>3 DEF LockTimeline
    <2>4. CASE MergeRecord(h)
      <3>1. PICK g : g = [h EXCEPT !.next = @ + 1]
        OBVIOUS
      <3>2. g.phase = "merge"
        BY <2>0, <2>4, <3>1 DEF Handlers, MergeRecord
      <3>3. Told(g)'
        BY <3>2 DEF Told
      <3> QED BY <2>1, <2>4, <3>1, <3>3 DEF MergeRecord
    <2>5. CASE UnlockTimeline(h)
      <3>1. PICK g : g = [h EXCEPT !.phase = AfterMerge, !.next = 1]
        OBVIOUS
      <3>2. g.phase = "notify" /\ g.next = 1 /\ g.recs = h.recs
        BY <2>0, <3>1 DEF Handlers, AfterMerge
      <3>3. Told(g)'
        BY <2>0, <3>2 DEF Told
      <3> QED BY <2>1, <2>5, <3>1, <3>3 DEF UnlockTimeline
    <2>6. CASE Notify(h)
      <3>1. PICK g : g = [h EXCEPT !.next = @ + 1]
        OBVIOUS
      <3>2. g.phase = "notify" /\ g.next = h.next + 1 /\ g.recs = h.recs /\ g.job = h.job
            /\ h.phase = "notify"
        BY <2>0, <2>6, <3>1 DEF Handlers, Notify
      <3>3. ASSUME h.job = j PROVE Told(g)'
        <4> DEFINE rec == h.recs[h.next]
        <4>1. rec.id \notin Unnamed =>
                 SaysIn(shown[j], rec.state, rec.id)'
          <5> HAVE rec.id \notin Unnamed
          <5>1. shown' = Said(j, rec.state, rec.id, <<rec.result>>)
            BY <2>6, <3>3 DEF Notify
          <5> HIDE DEF rec
          <5>2. /\ Len(shown[j]) \in Nat
                /\ DOMAIN shown'[j] = 1..(Len(shown[j]) + 1)
                /\ shown'[j][Len(shown[j]) + 1].what = rec.state
                /\ shown'[j][Len(shown[j]) + 1].step = rec.id
            BY <1>1, <5>1, SaidFacts
          <5>3. Len(shown[j]) + 1 \in DOMAIN shown'[j]
            BY <5>2
          <5> QED BY <5>2, <5>3 DEF SaysIn
        <4>2. Tells(j, <<rec.id, rec.state>>)'
          BY <4>1 DEF Tells
        <4>3. Told(h)'
          BY <1>2, <3>3
        <4>4. \A i \in DOMAIN h.recs : i < h.next + 1 => i < h.next \/ i = h.next
          BY <2>0
        <4> QED BY <3>2, <3>3, <4>2, <4>3, <4>4 DEF Told
      <3> QED BY <2>1, <2>6, <3>1, <3>2, <3>3 DEF Notify
    <2>7. CASE EndNotify(h)
      <3>1. PICK g : g = [h EXCEPT !.phase = "answer"]
        OBVIOUS
      <3>2. g.phase = "answer" /\ g.recs = h.recs /\ g.job = h.job /\ h.phase = "notify"
        BY <2>0, <2>7, <3>1 DEF Handlers, EndNotify
      <3>3. \A i \in DOMAIN h.recs : i < h.next
        BY <2>0, <2>7 DEF EndNotify
      <3>4. h.job = j => Told(g)'
        BY <1>2, <3>2, <3>3 DEF Told
      <3> QED BY <2>1, <2>7, <3>1, <3>2, <3>4 DEF EndNotify
    <2>8. ASSUME Kind(h) # "patch", NEW g, g.recs = h.recs PROVE Told(g)'
      <3>1. Script[h.job][h.at].recs = <<>>
        BY <2>0, <2>8, OnlyPatchesUpdate DEF Kind, Proper
      <3>2. DOMAIN g.recs = {}
        BY <2>0, <2>8, <3>1 DEF Proper
      <3> QED BY <3>2 DEF Told
    <2>9. CASE OpenLog(h)
      <3>1. [h EXCEPT !.phase = "answer", !.log = logNextID'[LogKey(h)]].recs = h.recs
        BY <2>0 DEF Handlers
      <3> QED BY <2>1, <2>8, <2>9, <3>1 DEF OpenLog, Kind
    <2>10. CASE ReadBody(h)
      <3>1. [h EXCEPT !.phase = "body"].recs = h.recs
        BY <2>0 DEF Handlers
      <3> QED BY <2>1, <2>8, <2>10, <3>1 DEF ReadBody, Kind
    <2>11. CASE AppendLines(h)
      <3>1. [h EXCEPT !.phase = "answer"].recs = h.recs
        BY <2>0 DEF Handlers
      <3>2. Kind(h) # "patch"
        BY <2>0, <2>11 DEF AppendLines, Proper
      <3> QED BY <2>1, <2>8, <2>11, <3>1, <3>2 DEF AppendLines
    <2>12. CASE AnswerRequest(h)
      BY <1>2, <2>12 DEF AnswerRequest
    <2> QED BY <1>3, <2>3, <2>4, <2>5, <2>6, <2>7, <2>9, <2>10, <2>11, <2>12 DEF HandlerStep
  <1>4. ASSUME NEW i \in ReportJobs, NEW c \in {1, 2}, handlers' = handlers \cup {Handler(i, c)}
        PROVE  \A g \in handlers' : g.job = j => Told(g)'
    <2>1. PICK g : g = Handler(i, c)
      OBVIOUS
    <2>2. g.phase = "arrived"
      BY <2>1 DEF Handler
    <2>3. Told(g)'
      BY <2>2 DEF Told
    <2> QED BY <1>2, <1>4, <2>1, <2>3
  <1>5. ASSUME NEW i \in ReportJobs, SendRequest(i) \/ SendAgain(i)
        PROVE  \A g \in handlers' : g.job = j => Told(g)'
    BY <1>4, <1>5 DEF SendRequest, SendAgain
  <1>6. \A g \in handlers' : g.job = j => Told(g)'
    BY <1>2, <1>3, <1>5, EndSteps DEF ReportsNext, reportVars
  <1>7. \A k \in Answered(j)' : \A i \in DOMAIN Script[j][k].recs : Tells(j, Script[j][k].recs[i])'
    <2>1. ASSUME NEW k \in Answered(j) PROVE \A i \in DOMAIN Script[j][k].recs : Tells(j, Script[j][k].recs[i])'
      BY <1>1, ShownGrows DEF NoticeInv
    <2>2. ASSUME NEW k \in Answered(j)', k \notin Answered(j)
          PROVE  \A i \in DOMAIN Script[j][k].recs : Tells(j, Script[j][k].recs[i])'
      <3>1. PICK h \in handlers : h.job = j /\ h.at = k /\ h.phase = "answer"
        BY <1>1, <2>2, NewlyAnswered
      <3>2. Told(h)' /\ Proper(h) /\ k \in DOMAIN Script[j]
        BY <1>2, <3>1 DEF RequestInv, Proper
      <3>3. h.recs \in Seq(NewRecord) /\ Script[j][k].recs \in Seq(StepIds \X States)
        BY <1>1, <3>2, HandlerFacts, ScriptFacts
      <3>4. DOMAIN h.recs = DOMAIN Script[j][k].recs
        BY <3>1, <3>2, <3>3 DEF Proper
      <3> TAKE i \in DOMAIN Script[j][k].recs
      <3>5. Script[j][k].recs[i] = <<h.recs[i].id, h.recs[i].state>>
        BY <3>1, <3>2, <3>3, <3>4 DEF Proper
      <3> QED BY <3>1, <3>2, <3>4, <3>5 DEF Told
    <2> QED BY <2>1, <2>2
  <1> QED BY <1>6, <1>7

LEMMA OrderStep ==
    ASSUME TypeInv, PositionInv, RequestInv, NoticeInv, OrderInv, [ReportsNext]_reportVars
    PROVE  OrderInv'
  <1>1. CASE UNCHANGED shown
    BY <1>1 DEF OrderInv
  <1>2. ASSUME NEW i \in ReportJobs, NEW what, NEW s, NEW detail, shown' = Said(i, what, s, detail),
               what = "Completed" => SaysIn(shown[i], "InProgress", s)
        PROVE  OrderInv'
    <2> SUFFICES ASSUME NEW j \in ReportJobs, NEW n \in DOMAIN shown'[j], shown'[j][n].what = "Completed"
                 PROVE  \E m \in 1..(n - 1) : /\ shown'[j][m].what = "InProgress"
                                             /\ shown'[j][m].step = shown'[j][n].step
      BY DEF OrderInv
    <2>0. Len(shown[j]) \in Nat /\ DOMAIN shown[j] = 1..Len(shown[j])
      BY <1>2, SaidFacts
    <2>1. CASE j # i
      <3>1. shown'[j] = shown[j]
        BY <1>2, <2>1, SaidFacts
      <3> QED BY <3>1 DEF OrderInv
    <2>2. CASE j = i
      <3>1. /\ DOMAIN shown'[j] = 1..(Len(shown[j]) + 1)
            /\ \A m \in DOMAIN shown[j] : shown'[j][m] = shown[j][m]
            /\ shown'[j][Len(shown[j]) + 1].what = what
            /\ shown'[j][Len(shown[j]) + 1].step = s
        BY <1>2, <2>2, SaidFacts
      <3>2. CASE n \in DOMAIN shown[j]
        <4>1. PICK m \in 1..(n - 1) : shown[j][m].what = "InProgress" /\ shown[j][m].step = shown[j][n].step
          BY <3>1, <3>2 DEF OrderInv
        <4>2. m \in DOMAIN shown[j]
          BY <2>0, <3>2
        <4> QED BY <3>1, <3>2, <4>1, <4>2
      <3>3. CASE n \notin DOMAIN shown[j]
        <4>1. n = Len(shown[j]) + 1
          BY <2>0, <3>1, <3>3
        <4>2. PICK m \in DOMAIN shown[j] : shown[j][m].what = "InProgress" /\ shown[j][m].step = s
          BY <1>2, <2>2, <3>1, <4>1 DEF SaysIn
        <4>3. m \in 1..(n - 1)
          BY <2>0, <4>1
        <4> QED BY <3>1, <4>1, <4>2, <4>3
      <3> QED BY <3>2, <3>3
    <2> QED BY <2>1, <2>2
  <1>3. ASSUME NEW h \in handlers, Notify(h), h.job \in Registered, h.recs[h.next].id \notin Unnamed,
               h.recs[h.next].state = "Completed"
        PROVE  SaysIn(shown[h.job], "InProgress", h.recs[h.next].id)
    <2>1. /\ h.job \in ReportJobs /\ h.recs \in Seq(NewRecord) /\ Len(h.recs) \in Nat
          /\ DOMAIN h.recs = 1..Len(h.recs) /\ h.next \in DOMAIN h.recs /\ Proper(h) /\ h.at \in Nat
          /\ h.at \in DOMAIN Script[h.job] /\ h.next \in Nat
      BY <1>3, HandlerFacts DEF RequestInv, Notify
    <2> DEFINE j == h.job
               k == h.at
               s == h.recs[h.next].id
    <2>2. Script[j][k].recs \in Seq(StepIds \X States) /\ Len(Script[j][k].recs) = Len(h.recs)
          /\ Len(Script[j]) \in Nat /\ DOMAIN Script[j] = 1..Len(Script[j])
      BY <2>1, ScriptFacts DEF Proper
    <2>3. h.next \in DOMAIN Script[j][k].recs
      BY <2>1, <2>2
    <2>4. Script[j][k].recs[h.next][1] = s /\ Script[j][k].recs[h.next][2] = "Completed"
      BY <1>3, <2>1 DEF Proper
    <2>5. PICK m \in 1..k : \E n \in DOMAIN Script[j][m].recs :
             /\ Script[j][m].recs[n] = <<s, "InProgress">>
             /\ m < k \/ n < h.next
      <3>1. k \in DOMAIN Script[j] /\ j \in ReportJobs
        BY <2>1
      <3> HIDE DEF j, k, s
      <3>2. StartedBefore(j, k, h.next)
        BY <2>3, <2>4, <3>1, StartsBeforeEnd
      <3> QED BY <2>4, <3>2 DEF StartedBefore
    <2>6. PICK n \in DOMAIN Script[j][m].recs :
             /\ Script[j][m].recs[n] = <<s, "InProgress">>
             /\ m < k \/ n < h.next
      BY <2>5
    <2>7. route = "v1" /\ h.phase = "notify"
      BY <1>3, <2>1, Zenon DEF Notify, Proper
    <2>8. Tells(j, <<s, "InProgress">>)
      <3>1. CASE m < k
        <4>1. position[j] \in Nat /\ k <= position[j]
          BY <2>1 DEF TypeInv, Proper
        <4>2. m \in Answered(j)
          BY <2>1, <2>2, <3>1, <4>1 DEF Answered
        <4> QED BY <1>3, <2>6, <2>7, <4>2 DEF NoticeInv
      <3>2. CASE ~(m < k)
        <4>1. m = k /\ n < h.next
          BY <2>1, <2>6, <3>2
        <4>2. n \in DOMAIN h.recs
          <5>1. n \in DOMAIN Script[j][k].recs
            BY <2>6, <4>1
          <5>2. DOMAIN Script[j][k].recs = 1..Len(Script[j][k].recs)
            BY <2>2
          <5> QED BY <2>1, <2>2, <5>1, <5>2
        <4>3. Script[j][k].recs[n] = <<s, "InProgress">>
          BY <2>6, <4>1
        <4>4. h.recs[n].id = s /\ h.recs[n].state = "InProgress"
          <5>1. h.recs[n].id = Script[j][k].recs[n][1] /\ h.recs[n].state = Script[j][k].recs[n][2]
            BY <2>1, <4>2 DEF Proper
          <5> QED BY <4>3, <5>1
        <4>5. Told(h)
          BY <1>3, <2>7 DEF NoticeInv
        <4>6. Tells(j, <<h.recs[n].id, h.recs[n].state>>)
          BY <2>7, <4>1, <4>2, <4>5 DEF Told
        <4> QED BY <4>4, <4>6
      <3> QED BY <3>1, <3>2
    <2> QED BY <1>3, <2>8 DEF Tells
  <1>4. CASE \E h \in handlers :
                /\ Notify(h) /\ h.job \in Registered /\ h.recs[h.next].id \notin Unnamed
                /\ shown' = Said(h.job, h.recs[h.next].state, h.recs[h.next].id, <<h.recs[h.next].result>>)
    <2>1. PICK h \in handlers :
                /\ Notify(h) /\ h.job \in Registered /\ h.recs[h.next].id \notin Unnamed
                /\ shown' = Said(h.job, h.recs[h.next].state, h.recs[h.next].id, <<h.recs[h.next].result>>)
      BY <1>4
    <2>2. h.job \in ReportJobs
      BY HandlerFacts
    <2> QED BY <1>2, <1>3, <2>1, <2>2
  <1>5. CASE \E j \in ReportJobs : \E what \in {"JobCompleted", "FAILED"} : \E s, detail :
                /\ shown' = Said(j, what, s, detail)
                /\ UNCHANGED <<handlers, position>>
    BY <1>2, <1>5
  <1> QED BY <1>1, <1>4, <1>5, ShownSteps

-----------------------------------------------------------------------------
(* Logs.                                                                   *)

LEMMA PrefixStays ==
    ASSUME NEW log \in Seq(Line), NEW more \in Seq(Line), NEW a \in Nat \ {0}, NEW b \in Nat, b <= Len(log)
    PROVE  SubSeq(log \o more, a, b) = SubSeq(log, a, b)
  OBVIOUS

LEMMA StoredStays ==
    ASSUME NEW j \in ReportJobs, NEW k \in DOMAIN Script[j], Script[j][k].kind = "post",
           NEW log \in Seq(Line), NEW more \in Seq(Line), StoredIn(j, k, log)
    PROVE  StoredIn(j, k, log \o more)
  <1> DEFINE own == Posted(j, k)
  <1>1. own \in Seq(Line)
    BY PostedType
  <1> HIDE DEF own
  <1>2. PICK at \in 0..(Len(log) - Len(own)) :
           /\ SubSeq(log, at + 1, at + Len(own)) = own
           /\ \A m \in 1..(k - 1) : Script[j][m].step = Script[j][k].step =>
                 ToSet(Posted(j, m)) \subseteq ToSet(SubSeq(log, 1, at))
    BY DEF StoredIn, own
  <1>3. Len(log) \in Nat /\ Len(more) \in Nat /\ Len(own) \in Nat /\ Len(log \o more) = Len(log) + Len(more)
    BY <1>1
  <1>4. at \in Nat /\ at + Len(own) \in Nat /\ at + Len(own) <= Len(log) /\ at <= Len(log)
        /\ at + 1 \in Nat \ {0}
    BY <1>3
  <1>5. SubSeq(log \o more, at + 1, at + Len(own)) = own
    BY <1>2, <1>4, PrefixStays
  <1>6. SubSeq(log \o more, 1, at) = SubSeq(log, 1, at)
    <2>1. 1 \in Nat \ {0} /\ at \in Nat /\ at <= Len(log)
      BY <1>4
    <2> QED
      BY <2>1, PrefixStays
  <1>7. at \in 0..(Len(log \o more) - Len(own))
    BY <1>3, <1>4
  <1> QED BY <1>2, <1>5, <1>6, <1>7 DEF StoredIn, own

\* Lines appended when all earlier posts of the step are in the log are stored.
LEMMA StoredAtEnd ==
    ASSUME NEW j \in ReportJobs, NEW k \in DOMAIN Script[j], Script[j][k].kind = "post",
           NEW log \in Seq(Line),
           \A m \in 1..(k - 1) : Script[j][m].kind = "post" /\ Script[j][m].step = Script[j][k].step
                                   => StoredIn(j, m, log)
    PROVE  StoredIn(j, k, log \o Posted(j, k))
  <1> DEFINE own == Posted(j, k)
  <1>1. own \in Seq(Line) /\ Len(own) \in Nat /\ Len(log) \in Nat
    BY PostedType
  <1>2. Len(Script[j]) \in Nat /\ DOMAIN Script[j] = 1..Len(Script[j]) /\ InOrder(Script[j])
    BY ScriptFacts
  <1>3. ASSUME NEW m \in 1..(k - 1), Script[j][m].step = Script[j][k].step
        PROVE  ToSet(Posted(j, m)) \subseteq ToSet(log)
    <2>1. m \in DOMAIN Script[j]
      BY <1>2
    <2>2. CASE Script[j][m].kind = "post"
      <3> DEFINE p == Posted(j, m)
      <3>1. p \in Seq(Line)
        BY <2>1, <2>2, PostedType
      <3>2. StoredIn(j, m, log)
        BY <1>3, <2>2
      <3> HIDE DEF p
      <3>3. PICK at \in 0..(Len(log) - Len(p)) : SubSeq(log, at + 1, at + Len(p)) = p
        BY <3>2 DEF StoredIn, p
      <3>4. Len(p) \in Nat /\ DOMAIN p = 1..Len(p)
        BY <3>1
      <3>5. \A i \in DOMAIN p : p[i] = log[at + i] /\ at + i \in DOMAIN log
        <4>1. at \in Nat /\ at + Len(p) \in Nat /\ at + Len(p) <= Len(log)
          BY <1>1, <3>4
        <4>2. \A i \in 1..Len(p) : SubSeq(log, at + 1, at + Len(p))[i] = log[at + i]
          BY <1>1, <3>4, <4>1
        <4>3. \A i \in DOMAIN p : p[i] = log[at + i]
          BY <3>3, <3>4, <4>2
        <4>4. \A i \in DOMAIN p : at + i \in DOMAIN log
          BY <1>1, <3>4, <4>1
        <4> QED BY <4>3, <4>4
      <3> QED BY <3>5 DEF ToSet, p
    <2>3. CASE Script[j][m].kind # "post"
      <3>1. Script[j][m].lines = <<>>
        BY <1>2, <2>1, <2>3 DEF InOrder
      <3> QED BY <3>1 DEF Posted, ToSet
    <2> QED BY <2>2, <2>3
  <1> HIDE DEF own
  <1>4. SubSeq(log \o own, Len(log) + 1, Len(log) + Len(own)) = own
    BY <1>1
  <1>5. SubSeq(log \o own, 1, Len(log)) = log
    BY <1>1
  <1>6. Len(log) \in 0..(Len(log \o own) - Len(own))
    BY <1>1
  <1> QED BY <1>3, <1>4, <1>5, <1>6 DEF StoredIn, own

\* The log of a step whose lines may be posted is open, and what the runner was given stays.
LEMMA PostsAreOpen ==
    ASSUME TypeInv, GivenInv, NEW j \in ReportJobs, NEW k \in DOMAIN Script[j],
           Script[j][k].kind = "post", k <= position[j]
    PROVE  Script[j][k].step \in StepIds /\ logOf[j][Script[j][k].step] # 0
  <1>1. Len(Script[j]) \in Nat /\ DOMAIN Script[j] = 1..Len(Script[j]) /\ InOrder(Script[j])
        /\ position[j] \in Nat
    BY ScriptFacts DEF TypeInv
  <1>2. Script[j][k].step \in StepIds
    BY <1>1 DEF InOrder
  <1>3. PICK m \in 1..(k - 1) : Script[j][m].kind = "open" /\ Script[j][m].step = Script[j][k].step
    BY <1>1 DEF InOrder
  <1>4. m \in Answered(j)
    BY <1>1 DEF Answered
  <1> QED BY <1>2, <1>3, <1>4 DEF GivenInv, Opened

LEMMA GivenStays ==
    ASSUME TypeInv, PositionInv, RequestInv, GivenInv, [ReportsNext]_reportVars
    PROVE  \/ UNCHANGED logOf
           \/ \E h \in handlers :
                 /\ AnswerRequest(h) /\ Kind(h) = "open" /\ h.at = position[h.job]
                 /\ position' = [position EXCEPT ![h.job] = @ + 1]
                 /\ logOf' = [logOf EXCEPT ![h.job][Script[h.job][h.at].step] = h.log]
                 /\ logOf[h.job][Script[h.job][h.at].step] = 0
  <1>1. \A h \in handlers : HandlerStep(h) => AnswerRequest(h) \/ UNCHANGED logOf
    BY DEF HandlerStep, LockTimeline, MergeRecord, UnlockTimeline, Notify, EndNotify, OpenLog,
           ReadBody, AppendLines, runnerVars
  <1>2. \A j \in ReportJobs : SendRequest(j) \/ SendAgain(j) => UNCHANGED logOf
    BY DEF SendRequest, SendAgain
  <1>3. ASSUME NEW h \in handlers, AnswerRequest(h), logOf' # logOf
        PROVE  /\ Kind(h) = "open" /\ h.at = position[h.job]
               /\ position' = [position EXCEPT ![h.job] = @ + 1]
               /\ logOf' = [logOf EXCEPT ![h.job][Script[h.job][h.at].step] = h.log]
               /\ logOf[h.job][Script[h.job][h.at].step] = 0
    <2>1. /\ Kind(h) = "open" /\ h.at = position[h.job]
          /\ position' = [position EXCEPT ![h.job] = @ + 1]
          /\ logOf' = [logOf EXCEPT ![h.job][Script[h.job][h.at].step] = h.log]
      BY <1>3 DEF AnswerRequest, Kind
    <2>2. /\ h.job \in ReportJobs /\ h.at \in DOMAIN Script[h.job] /\ Script[h.job][h.at].step \in StepIds
          /\ h.at \in Nat
      BY <2>1, HandlerFacts
    <2>3. ~Opened(h.job, Script[h.job][h.at].step)
      <3> SUFFICES ASSUME NEW k \in Answered(h.job), Script[h.job][k].kind = "open",
                          Script[h.job][k].step = Script[h.job][h.at].step
                   PROVE  FALSE
        BY DEF Opened
      <3>1. k \in DOMAIN Script[h.job] /\ k < position[h.job]
        BY DEF Answered
      <3>2. k = h.at
        BY <2>1, <2>2, <3>1, OpenedOnce DEF Kind
      <3> QED BY <2>1, <2>2, <3>1, <3>2
    <2> QED BY <2>1, <2>2, <2>3 DEF GivenInv
  <1> QED BY <1>1, <1>2, <1>3, EndSteps DEF ReportsNext, reportVars, runnerVars

LEMMA GivenGrows ==
    ASSUME TypeInv, PositionInv, RequestInv, GivenInv, [ReportsNext]_reportVars
    PROVE  \A j \in ReportJobs : \A s \in StepIds : logOf[j][s] # 0 => logOf'[j][s] = logOf[j][s]
  <1>1. ASSUME NEW h \in handlers, Kind(h) = "open",
               logOf' = [logOf EXCEPT ![h.job][Script[h.job][h.at].step] = h.log],
               logOf[h.job][Script[h.job][h.at].step] = 0
        PROVE  \A j \in ReportJobs : \A s \in StepIds : logOf[j][s] # 0 => logOf'[j][s] = logOf[j][s]
    <2>1. h.job \in ReportJobs /\ Script[h.job][h.at].step \in StepIds
      BY <1>1, HandlerFacts
    <2>2. logOf \in [ReportJobs -> [StepIds -> LogIds]]
      BY DEF TypeInv
    <2> QED BY <1>1, <2>1, <2>2
  <1> QED BY <1>1, GivenStays

LEMMA LogSteps ==
    ASSUME TypeInv, PositionInv, RequestInv, GivenInv, [ReportsNext]_reportVars
    PROVE  \/ \E h \in handlers : OpenLog(h) \/ AppendLines(h) \/ AnswerRequest(h)
           \/ /\ UNCHANGED <<logOf, position, route, logs, logNextID>>
              /\ \A g \in handlers' : g \in handlers \/
                    /\ Kind(g) = "post" => g.log = logOf[g.job][Script[g.job][g.at].step]
                    /\ g.phase = "answer" => Kind(g) = "patch"
  <1> DEFINE Given(g) == Kind(g) = "post" => g.log = logOf[g.job][Script[g.job][g.at].step]
             Quiet == UNCHANGED <<logOf, position, route, logs, logNextID>>
             New == \A g \in handlers' : g \in handlers \/
                       (Given(g) /\ (g.phase = "answer" => Kind(g) = "patch"))
  <1>1. ASSUME NEW h \in handlers, HandlerStep(h), ~OpenLog(h), ~AppendLines(h), ~AnswerRequest(h)
        PROVE  Quiet /\ New
    <2>0. h \in Handlers /\ Given(h) /\ Proper(h)
      BY HandlerFacts DEF GivenInv, RequestInv
    <2>1. Quiet
      BY <1>1 DEF HandlerStep, LockTimeline, MergeRecord, UnlockTimeline, Notify, EndNotify, ReadBody,
                  runnerVars, serverVars
    <2>2. ASSUME NEW g, Moved(h, g), g.job = h.job, g.at = h.at, g.log = h.log,
                 g.phase = "answer" => Kind(h) = "patch"
          PROVE  New
      BY <2>0, <2>2 DEF Moved, Kind
    <2>3. CASE LockTimeline(h)
      <3>1. PICK g : g = [h EXCEPT !.phase = "merge"]
        OBVIOUS
      <3>2. g.job = h.job /\ g.at = h.at /\ g.log = h.log /\ g.phase = "merge"
        BY <2>0, <3>1 DEF Handlers
      <3> QED BY <2>1, <2>2, <2>3, <3>1, <3>2 DEF LockTimeline
    <2>4. CASE MergeRecord(h)
      <3>1. PICK g : g = [h EXCEPT !.next = @ + 1]
        OBVIOUS
      <3>2. g.job = h.job /\ g.at = h.at /\ g.log = h.log /\ g.phase = "merge"
        BY <2>0, <2>4, <3>1 DEF Handlers, MergeRecord
      <3> QED BY <2>1, <2>2, <2>4, <3>1, <3>2 DEF MergeRecord
    <2>5. CASE UnlockTimeline(h)
      <3>1. PICK g : g = [h EXCEPT !.phase = AfterMerge, !.next = 1]
        OBVIOUS
      <3>2. g.job = h.job /\ g.at = h.at /\ g.log = h.log /\ Kind(h) = "patch"
        BY <2>0, <2>5, <3>1 DEF Handlers, UnlockTimeline, Proper
      <3> QED BY <2>1, <2>2, <2>5, <3>1, <3>2 DEF UnlockTimeline
    <2>6. CASE Notify(h)
      <3>1. PICK g : g = [h EXCEPT !.next = @ + 1]
        OBVIOUS
      <3>2. g.job = h.job /\ g.at = h.at /\ g.log = h.log /\ g.phase = "notify"
        BY <2>0, <2>6, <3>1 DEF Handlers, Notify
      <3> QED BY <2>1, <2>2, <2>6, <3>1, <3>2 DEF Notify
    <2>7. CASE EndNotify(h)
      <3>1. PICK g : g = [h EXCEPT !.phase = "answer"]
        OBVIOUS
      <3>2. g.job = h.job /\ g.at = h.at /\ g.log = h.log /\ Kind(h) = "patch"
        BY <2>0, <2>7, <3>1 DEF Handlers, EndNotify, Proper
      <3> QED BY <2>1, <2>2, <2>7, <3>1, <3>2 DEF EndNotify
    <2>8. CASE ReadBody(h)
      <3>1. PICK g : g = [h EXCEPT !.phase = "body"]
        OBVIOUS
      <3>2. g.job = h.job /\ g.at = h.at /\ g.log = h.log /\ g.phase = "body"
        BY <2>0, <3>1 DEF Handlers
      <3> QED BY <2>1, <2>2, <2>8, <3>1, <3>2 DEF ReadBody
    <2> QED BY <1>1, <2>3, <2>4, <2>5, <2>6, <2>7, <2>8 DEF HandlerStep
  <1>2. ASSUME NEW j \in ReportJobs, SendRequest(j) \/ SendAgain(j) PROVE Quiet /\ New
    <2>1. Quiet
      BY <1>2 DEF SendRequest, SendAgain, serverVars
    <2>2. PICK c \in {1, 2} : handlers' = handlers \cup {Handler(j, c)}
      BY <1>2 DEF SendRequest, SendAgain
    <2>3. position[j] <= Len(Script[j])
      BY <1>2 DEF SendRequest, SendAgain, PositionInv
    <2>4. PICK g : g = Handler(j, c)
      OBVIOUS
    <2>0. FreshFor(g, j)
      BY <2>3, <2>4, NewRequest
    <2>5. g.phase = "arrived" /\ g.job = j /\ (Kind(g) = "post" => g.log = logOf[j][Script[j][g.at].step])
      BY <2>0 DEF FreshFor
    <2> QED BY <2>1, <2>2, <2>4, <2>5
  <1>3. CASE UNCHANGED <<runnerVars, handlers, serverVars>>
    BY <1>3 DEF runnerVars, serverVars
  <1> QED BY <1>1, <1>2, <1>3, EndSteps DEF ReportsNext, reportVars

LEMMA GivenStep ==
    ASSUME TypeInv, PositionInv, RequestInv, GivenInv, IdInv, [ReportsNext]_reportVars
    PROVE  GivenInv'
  <1>1. CASE /\ UNCHANGED <<logOf, position>>
             /\ \A g \in handlers' : g \in handlers \/
                   (Kind(g) = "post" => g.log = logOf[g.job][Script[g.job][g.at].step])
    BY <1>1 DEF GivenInv, Opened, Answered, Kind
  <1>2. ASSUME NEW h \in handlers, OpenLog(h) PROVE GivenInv'
    <2>1. PICK g : g = [h EXCEPT !.phase = "answer", !.log = logNextID'[LogKey(h)]]
      OBVIOUS
    <2>2. Kind(g) = "open"
      BY <1>2, <2>1, HandlerFacts DEF Handlers, Kind, OpenLog
    <2> QED BY <1>1, <1>2, <2>1, <2>2 DEF OpenLog, Moved, runnerVars
  <1>3. ASSUME NEW h \in handlers, AppendLines(h) PROVE GivenInv'
    <2>1. PICK g : g = [h EXCEPT !.phase = "answer"]
      OBVIOUS
    <2>2. g.job = h.job /\ g.at = h.at /\ g.log = h.log
      BY <2>1, HandlerFacts DEF Handlers
    <2>3. Kind(g) = "post" => g.log = logOf[g.job][Script[g.job][g.at].step]
      BY <2>2 DEF GivenInv, Kind
    <2> QED BY <1>1, <1>3, <2>1, <2>3 DEF AppendLines, Moved, runnerVars
  <1>4. ASSUME NEW h \in handlers, AnswerRequest(h) PROVE GivenInv'
    <2>0. handlers' = handlers \ {h} /\ h.job \in ReportJobs /\ h.at \in DOMAIN Script[h.job] /\ h.at \in Nat
          /\ h.phase = "answer" /\ h.log \in LogIds
      BY <1>4, HandlerFacts DEF AnswerRequest
    <2>1. \A g \in handlers' : Kind(g) = "post" => g.log = logOf'[g.job][Script[g.job][g.at].step]
      <3> TAKE g \in handlers'
      <3> HAVE Kind(g) = "post"
      <3>1. g \in handlers /\ g.job \in ReportJobs /\ g.at \in DOMAIN Script[g.job] /\ g.at <= position[g.job]
        BY <2>0, HandlerFacts DEF RequestInv, Proper
      <3>2. Script[g.job][g.at].step \in StepIds /\ logOf[g.job][Script[g.job][g.at].step] # 0
        BY <3>1, PostsAreOpen DEF Kind
      <3> QED BY <3>1, <3>2, GivenGrows DEF GivenInv
    <2>2. ASSUME NEW j \in ReportJobs, NEW s \in StepIds PROVE logOf'[j][s] # 0 <=> Opened(j, s)'
      <3>1. logOf \in [ReportJobs -> [StepIds -> LogIds]] /\ position \in [ReportJobs -> Nat]
        BY DEF TypeInv
      <3>2. logOf[j][s] # 0 <=> Opened(j, s)
        BY DEF GivenInv
      <3>3. CASE UNCHANGED <<logOf, position>>
        BY <3>2, <3>3 DEF Opened, Answered
      <3>4. CASE position' = [position EXCEPT ![h.job] = @ + 1] /\ h.at = position[h.job]
        <4>1. DOMAIN Script[j] \subseteq Nat
          BY ScriptFacts
        <4>2. CASE j # h.job
          <5>1. position'[j] = position[j] /\ logOf'[j] = logOf[j]
            BY <1>4, <2>0, <3>1, <3>4, <4>2 DEF AnswerRequest
          <5> QED BY <3>2, <5>1 DEF Opened, Answered
        <4>3. CASE j = h.job
          <5>1. \A k \in DOMAIN Script[j] : k \in Answered(j)' <=> k \in Answered(j) \/ k = h.at
            BY <2>0, <3>1, <3>4, <4>1, <4>3 DEF Answered
          <5>2. Answered(j)' \subseteq DOMAIN Script[j] /\ Answered(j) \subseteq DOMAIN Script[j]
            BY DEF Answered
          <5>3. CASE Kind(h) # "open"
            <6>1. logOf' = logOf
              BY <1>4, <5>3 DEF AnswerRequest, Kind
            <6>2. Opened(j, s)' <=> Opened(j, s)
              BY <4>3, <5>1, <5>2, <5>3 DEF Opened, Kind
            <6> QED BY <3>2, <6>1, <6>2
          <5>4. CASE Kind(h) = "open"
            <6>1. logOf' = [logOf EXCEPT ![h.job][Script[h.job][h.at].step] = h.log]
              <7>1. awaiting[h.job]
                BY <3>4 DEF RequestInv, Proper
              <7> QED BY <1>4, <3>4, <5>4, <7>1 DEF AnswerRequest, Kind
            <6>2. h.log # 0
              <7>1. h.log \in 1..logNextID[LogFor(h.job)]
                BY <2>0, <5>4 DEF IdInv
              <7> QED BY <7>1
            <6>3. Script[h.job][h.at].step \in StepIds
              BY <5>4, HandlerFacts
            <6>4. CASE s = Script[h.job][h.at].step
              <7>1. logOf'[j][s] = h.log
                BY <2>0, <3>1, <4>3, <6>1, <6>4
              <7>2. h.at \in Answered(j)' /\ Script[j][h.at].kind = "open" /\ Script[j][h.at].step = s
                BY <2>0, <4>3, <5>1, <5>4, <6>4 DEF Kind
              <7> QED BY <6>2, <7>1, <7>2 DEF Opened
            <6>5. CASE s # Script[h.job][h.at].step
              <7>1. logOf'[j][s] = logOf[j][s]
                BY <2>0, <3>1, <4>3, <6>1, <6>3, <6>5
              <7>2. Opened(j, s)' <=> Opened(j, s)
                BY <4>3, <5>1, <5>2, <6>5 DEF Opened
              <7> QED BY <3>2, <7>1, <7>2
            <6> QED BY <6>4, <6>5
          <5> QED BY <5>3, <5>4
        <4> QED BY <4>2, <4>3
      <3> QED BY <1>4, <3>3, <3>4 DEF AnswerRequest
    <2> QED BY <2>1, <2>2 DEF GivenInv
  <1> QED BY <1>1, <1>2, <1>3, <1>4, LogSteps

LEMMA IdStep ==
    ASSUME TypeInv, PositionInv, RequestInv, GivenInv, IdInv, [ReportsNext]_reportVars
    PROVE  IdInv'
  <1>0. route' = route /\ \A j : LogFor(j)' = LogFor(j)
    BY RouteStays DEF LogFor
  <1>t. /\ logOf \in [ReportJobs -> [StepIds -> Nat]] /\ logNextID \in [LogKeys -> Nat]
        /\ \A j \in ReportJobs : LogFor(j) \in LogKeys
    BY ReportsAssumption DEF TypeInv, LogIds, LogFor, LogKeys
  <1>1. CASE /\ UNCHANGED <<logOf, logNextID>>
             /\ \A g \in handlers' : g \in handlers \/ (g.phase = "answer" => Kind(g) # "open")
    BY <1>0, <1>1 DEF IdInv, Kind
  <1>2. ASSUME NEW h \in handlers, OpenLog(h) PROVE IdInv'
    <2>0. /\ h \in Handlers /\ h.job \in ReportJobs /\ LogKey(h) = LogFor(h.job) /\ h.phase = "arrived"
          /\ Kind(h) = "open" /\ logOf' = logOf
          /\ logNextID' = [logNextID EXCEPT ![LogKey(h)] = @ + 1]
      BY <1>2, HandlerFacts DEF OpenLog, Kind, runnerVars
    <2>1. PICK g : g = [h EXCEPT !.phase = "answer", !.log = logNextID'[LogKey(h)]]
      OBVIOUS
    <2>2. /\ g.job = h.job /\ g.at = h.at /\ g.phase = "answer"
          /\ g.log = logNextID[LogFor(h.job)] + 1 /\ logNextID'[LogFor(h.job)] = logNextID[LogFor(h.job)] + 1
      BY <1>t, <2>0, <2>1 DEF Handlers
    <2>3. handlers' = (handlers \ {h}) \cup {g}
      BY <1>2, <2>1 DEF OpenLog, Moved
    <2>4. \A j \in ReportJobs : /\ logNextID[LogFor(j)] <= logNextID'[LogFor(j)]
                                /\ logNextID[LogFor(j)] \in Nat /\ logNextID'[LogFor(j)] \in Nat
      <3> TAKE j \in ReportJobs
      <3>1. logNextID[LogFor(j)] \in Nat
        BY <1>t
      <3>2. logNextID'[LogFor(j)] = logNextID[LogFor(j)] \/ logNextID'[LogFor(j)] = logNextID[LogFor(j)] + 1
        BY <1>t, <2>0
      <3> QED BY <3>1, <3>2
    <2>5. \A j \in ReportJobs : \A s \in StepIds : logOf'[j][s] <= logNextID'[LogFor(j)]
      BY <1>t, <2>0, <2>4 DEF IdInv
    <2>6. \A j \in ReportJobs : \A s, t \in StepIds :
             logOf'[j][s] = logOf'[j][t] /\ logOf'[j][s] # 0 => s = t
      BY <2>0 DEF IdInv
    <2>7. ASSUME NEW f \in handlers, f.phase = "answer", Kind(f) = "open"
          PROVE  /\ f.log \in 1..logNextID'[LogFor(f.job)]
                 /\ \A s \in StepIds : logOf'[f.job][s] # f.log
                 /\ f.job = g.job => f.log # g.log
                 /\ \A e \in handlers :
                       e.phase = "answer" /\ Kind(e) = "open" /\ e.job = f.job /\ e.log = f.log => e = f
      <3>1. f.job \in ReportJobs /\ f.log \in 1..logNextID[LogFor(f.job)]
        BY <2>7, HandlerFacts DEF IdInv
      <3>2. f.log \in 1..logNextID'[LogFor(f.job)]
        BY <1>t, <2>0, <2>4, <3>1
      <3>3. f.job = g.job => f.log # g.log
        BY <1>t, <2>0, <2>2, <3>1
      <3> QED BY <2>0, <2>7, <3>2, <3>3 DEF IdInv
    <2>8. g.log \in 1..logNextID'[LogFor(g.job)] /\ \A s \in StepIds : logOf'[g.job][s] # g.log
      <3>1. \A s \in StepIds : logOf[h.job][s] <= logNextID[LogFor(h.job)] /\ logOf[h.job][s] \in Nat
        BY <1>t, <2>0 DEF IdInv
      <3>2. logNextID[LogFor(h.job)] \in Nat
        BY <1>t, <2>0
      <3> QED BY <2>0, <2>2, <3>1, <3>2
    <2>9. \A f \in handlers' : f.phase = "answer" /\ Kind(f) = "open" =>
             /\ f.log \in 1..logNextID'[LogFor(f.job)]
             /\ \A s \in StepIds : logOf'[f.job][s] # f.log
             /\ \A e \in handlers' :
                   e.phase = "answer" /\ Kind(e) = "open" /\ e.job = f.job /\ e.log = f.log => e = f
      BY <2>3, <2>7, <2>8
    <2> QED BY <1>0, <2>5, <2>6, <2>9 DEF IdInv, Kind
  <1>3. ASSUME NEW h \in handlers, AppendLines(h) PROVE IdInv'
    <2>1. PICK g : g = [h EXCEPT !.phase = "answer"]
      OBVIOUS
    <2>2. Kind(g) = "post"
      BY <1>3, <2>1, HandlerFacts DEF Handlers, Kind, AppendLines, RequestInv, Proper
    <2> QED BY <1>1, <1>3, <2>1, <2>2 DEF AppendLines, Moved, runnerVars
  <1>4. ASSUME NEW h \in handlers, AnswerRequest(h) PROVE IdInv'
    <2>0. handlers' = handlers \ {h} /\ logNextID' = logNextID /\ h.phase = "answer"
      BY <1>4 DEF AnswerRequest, serverVars
    <2>1. CASE UNCHANGED logOf
      BY <1>1, <2>0, <2>1
    <2>2. CASE Kind(h) = "open" /\ logOf' = [logOf EXCEPT ![h.job][Script[h.job][h.at].step] = h.log]
      <3> DEFINE s0 == Script[h.job][h.at].step
      <3>1. h.job \in ReportJobs /\ s0 \in StepIds
        BY <2>2, HandlerFacts
      <3>2. /\ h.log \in 1..logNextID[LogFor(h.job)]
            /\ \A s \in StepIds : logOf[h.job][s] # h.log
            /\ \A g \in handlers :
                  g.phase = "answer" /\ Kind(g) = "open" /\ g.job = h.job /\ g.log = h.log => g = h
        BY <2>0, <2>2 DEF IdInv
      <3>3. \A j \in ReportJobs : \A s \in StepIds :
               logOf'[j][s] = IF j = h.job /\ s = s0 THEN h.log ELSE logOf[j][s]
        BY <1>t, <2>2, <3>1
      <3> HIDE DEF s0
      <3>4. \A j \in ReportJobs : \A s \in StepIds : logOf'[j][s] <= logNextID[LogFor(j)]
        BY <3>2, <3>3 DEF IdInv
      <3>5. \A j \in ReportJobs : \A s, t \in StepIds :
               logOf'[j][s] = logOf'[j][t] /\ logOf'[j][s] # 0 => s = t
        BY <3>2, <3>3 DEF IdInv
      <3>6. ASSUME NEW g \in handlers', g.phase = "answer", Kind(g) = "open"
            PROVE  /\ g.log \in 1..logNextID[LogFor(g.job)]
                   /\ \A s \in StepIds : logOf'[g.job][s] # g.log
                   /\ \A f \in handlers' :
                         f.phase = "answer" /\ Kind(f) = "open" /\ f.job = g.job /\ f.log = g.log => f = g
        <4>1. g \in handlers /\ g # h /\ g.job \in ReportJobs
          BY <2>0, HandlerFacts
        <4>2. g.job = h.job => g.log # h.log
          BY <3>2, <3>6, <4>1
        <4>3. \A s \in StepIds : logOf'[g.job][s] # g.log
          BY <3>3, <3>6, <4>1, <4>2 DEF IdInv
        <4> QED BY <2>0, <3>6, <4>1, <4>3 DEF IdInv
      <3> QED BY <1>0, <2>0, <3>4, <3>5, <3>6 DEF IdInv, Kind
    <2> QED BY <1>4, <2>1, <2>2 DEF AnswerRequest, Kind
  <1> QED BY <1>1, <1>2, <1>3, <1>4, LogSteps

LEMMA LineStep ==
    ASSUME TypeInv, PositionInv, RequestInv, GivenInv, LineInv, [ReportsNext]_reportVars
    PROVE  LineInv'
  <1>0. route' = route /\ \A j : LogFor(j)' = LogFor(j)
    BY RouteStays DEF LogFor
  <1>t. /\ logs \in [LogKeys -> [LogIds -> Seq(Line)]]
        /\ \A j \in ReportJobs : LogFor(j) \in LogKeys
    BY DEF TypeInv, LogFor, LogKeys
  <1>1. CASE UNCHANGED logs
    <2> SUFFICES ASSUME NEW j \in ReportJobs, NEW i \in LogIds, NEW n \in DOMAIN logs[LogFor(j)][i]
                 PROVE  LET l == logs[LogFor(j)][i][n] IN l[1] = j /\ logOf'[j][l[2]] = i /\ i # 0
      BY <1>0, <1>1 DEF LineInv
    <2> DEFINE l == logs[LogFor(j)][i][n]
    <2>1. l[1] = j /\ logOf[j][l[2]] = i /\ i # 0
      BY DEF LineInv
    <2>2. logs[LogFor(j)][i] \in Seq(Line)
      BY <1>t
    <2>3. l \in Line
      BY <2>2
    <2>4. l[2] \in StepIds
      BY <2>3 DEF Line
    <2> HIDE DEF l
    <2>5. logOf'[j][l[2]] = logOf[j][l[2]]
      BY <2>1, <2>4, GivenGrows
    <2> QED BY <2>1, <2>5 DEF l
  <1>2. ASSUME NEW h \in handlers, AppendLines(h) PROVE LineInv'
    <2>1. /\ h.job \in ReportJobs /\ h.at \in DOMAIN Script[h.job] /\ LogKey(h) = LogFor(h.job)
          /\ h.log \in LogIds /\ Kind(h) = "post" /\ h.at <= position[h.job]
          /\ h.log = logOf[h.job][Script[h.job][h.at].step]
      BY <1>2, HandlerFacts DEF AppendLines, RequestInv, Proper, GivenInv
    <2>2. h.log # 0
      BY <2>1, PostsAreOpen DEF Kind
    <2>3. logs' = [logs EXCEPT ![LogFor(h.job)][h.log] = @ \o Posted(h.job, h.at)] /\ logOf' = logOf
      BY <1>2, <2>1, Zenon DEF AppendLines, runnerVars
    <2>6. logOf' = logOf
      BY <2>3
    <2> SUFFICES ASSUME NEW j \in ReportJobs, NEW i \in LogIds, NEW n \in DOMAIN logs'[LogFor(j)][i]
                 PROVE  LET l == logs'[LogFor(j)][i][n] IN l[1] = j /\ logOf[j][l[2]] = i /\ i # 0
      BY <1>0, <2>6 DEF LineInv
    <2>4. CASE j = h.job /\ i = h.log
      <3> DEFINE old == logs[LogFor(j)][i]
                 own == Posted(h.job, h.at)
      <3>1. old \in Seq(Line) /\ own \in Seq(Line)
        BY <1>t, <2>1, PostedType DEF Kind
      <3>2. logs'[LogFor(j)][i] = old \o own
        BY <1>t, <2>1, <2>3, <2>4, Zenon
      <3>3. \A m \in DOMAIN own : own[m][1] = j /\ own[m][2] = Script[h.job][h.at].step
        BY <2>4 DEF Posted
      <3>4. \A m \in DOMAIN old : old[m][1] = j /\ logOf[j][old[m][2]] = i
        BY DEF LineInv
      <3> HIDE DEF old, own
      <3>5. \/ n \in DOMAIN old /\ (old \o own)[n] = old[n]
            \/ \E m \in DOMAIN own : (old \o own)[n] = own[m]
        <4>1. n \in 1..(Len(old) + Len(own)) /\ Len(old) \in Nat /\ Len(own) \in Nat
              /\ DOMAIN old = 1..Len(old) /\ DOMAIN own = 1..Len(own)
          BY <3>1, <3>2
        <4>2. CASE n <= Len(old)
          BY <3>1, <4>1, <4>2
        <4>3. CASE n > Len(old)
          <5>1. n - Len(old) \in DOMAIN own /\ (old \o own)[n] = own[n - Len(old)]
            BY <3>1, <4>1, <4>3
          <5> QED BY <5>1
        <4> QED BY <4>1, <4>2, <4>3
      <3> QED BY <2>1, <2>2, <2>4, <3>2, <3>3, <3>4, <3>5, Zenon
    <2>5. CASE ~(j = h.job /\ i = h.log)
      <3>1. LogFor(j) = LogFor(h.job) => j = h.job
        BY DEF LogFor
      <3>2. logs'[LogFor(j)][i] = logs[LogFor(j)][i]
        BY <1>t, <2>1, <2>3, <2>5, <3>1, Zenon
      <3> QED BY <3>2 DEF LineInv
    <2> QED BY <2>4, <2>5
  <1>3. \A h \in handlers : OpenLog(h) \/ AnswerRequest(h) => UNCHANGED logs
    BY DEF OpenLog, AnswerRequest, serverVars
  <1> QED BY <1>1, <1>2, <1>3, LogSteps

LEMMA LogsGrow ==
    ASSUME TypeInv, PositionInv, RequestInv, GivenInv, [ReportsNext]_reportVars,
           NEW j \in ReportJobs, NEW i \in LogIds, NEW k \in DOMAIN Script[j], Script[j][k].kind = "post",
           StoredIn(j, k, logs[LogFor(j)][i])
    PROVE  StoredIn(j, k, logs'[LogFor(j)][i])
  <1>t. /\ logs \in [LogKeys -> [LogIds -> Seq(Line)]]
        /\ \A m \in ReportJobs : LogFor(m) \in LogKeys
    BY DEF TypeInv, LogFor, LogKeys
  <1>1. CASE UNCHANGED logs
    BY <1>1
  <1>2. ASSUME NEW h \in handlers, AppendLines(h) PROVE StoredIn(j, k, logs'[LogFor(j)][i])
    <2>1. /\ h.job \in ReportJobs /\ h.at \in DOMAIN Script[h.job] /\ LogKey(h) = LogFor(h.job)
          /\ h.log \in LogIds /\ Kind(h) = "post"
      BY <1>2, HandlerFacts DEF AppendLines, RequestInv, Proper
    <2>2. logs' = [logs EXCEPT ![LogFor(h.job)][h.log] = @ \o Posted(h.job, h.at)]
      BY <1>2, <2>1 DEF AppendLines
    <2>3. CASE LogFor(j) = LogFor(h.job) /\ i = h.log
      <3>1. logs'[LogFor(j)][i] = logs[LogFor(j)][i] \o Posted(h.job, h.at)
        BY <1>t, <2>1, <2>2, <2>3
      <3>2. logs[LogFor(j)][i] \in Seq(Line) /\ Posted(h.job, h.at) \in Seq(Line)
        BY <1>t, <2>1, PostedType DEF Kind
      <3> QED BY <3>1, <3>2, StoredStays
    <2>4. CASE ~(LogFor(j) = LogFor(h.job) /\ i = h.log)
      <3>1. logs'[LogFor(j)][i] = logs[LogFor(j)][i]
        BY <1>t, <2>1, <2>2, <2>4
      <3> QED BY <3>1
    <2> QED BY <2>3, <2>4
  <1>3. \A h \in handlers : OpenLog(h) \/ AnswerRequest(h) => UNCHANGED logs
    BY DEF OpenLog, AnswerRequest, serverVars
  <1> QED BY <1>1, <1>2, <1>3, LogSteps

LEMMA StoredStep ==
    ASSUME TypeInv, PositionInv, RequestInv, GivenInv, StoredInv, [ReportsNext]_reportVars
    PROVE  StoredInv'
  <1>0. route' = route /\ \A j : LogFor(j)' = LogFor(j)
    BY RouteStays DEF LogFor
  <1>t. /\ logs \in [LogKeys -> [LogIds -> Seq(Line)]] /\ logOf \in [ReportJobs -> [StepIds -> LogIds]]
        /\ position \in [ReportJobs -> Nat]
        /\ \A j \in ReportJobs : LogFor(j) \in LogKeys
    BY DEF TypeInv, LogFor, LogKeys
  <1>1. ASSUME NEW j \in ReportJobs, NEW k \in Answered(j), Script[j][k].kind = "post"
        PROVE  StoredIn(j, k, logs'[LogFor(j)][logOf'[j][Script[j][k].step]])
    <2>1. k \in DOMAIN Script[j] /\ k <= position[j]
      BY <1>t, ScriptFacts DEF Answered
    <2>2. Script[j][k].step \in StepIds /\ logOf[j][Script[j][k].step] # 0
      BY <1>1, <2>1, PostsAreOpen
    <2>3. logOf'[j][Script[j][k].step] = logOf[j][Script[j][k].step]
      BY <2>2, GivenGrows
    <2>4. logOf[j][Script[j][k].step] \in LogIds
      BY <1>t, <2>2
    <2>5. StoredIn(j, k, logs[LogFor(j)][logOf[j][Script[j][k].step]])
      BY <1>1 DEF StoredInv
    <2> QED BY <1>1, <2>1, <2>3, <2>4, <2>5, LogsGrow
  <1>2. ASSUME NEW h \in handlers, Kind(h) = "post", h.phase = "answer"
        PROVE  StoredIn(h.job, h.at, logs'[LogFor(h.job)][h.log])
    <2>1. h.job \in ReportJobs /\ h.at \in DOMAIN Script[h.job] /\ h.log \in LogIds
      BY HandlerFacts
    <2>2. StoredIn(h.job, h.at, logs[LogFor(h.job)][h.log])
      BY <1>2 DEF StoredInv
    <2> QED BY <1>2, <2>1, <2>2, LogsGrow DEF Kind
  <1>3. \A j \in ReportJobs : \A k \in Answered(j)' : Script[j][k].kind = "post" =>
           StoredIn(j, k, logs'[LogFor(j)][logOf'[j][Script[j][k].step]])
    <2> SUFFICES ASSUME NEW j \in ReportJobs, NEW k \in Answered(j)', Script[j][k].kind = "post",
                        k \notin Answered(j)
                 PROVE  StoredIn(j, k, logs'[LogFor(j)][logOf'[j][Script[j][k].step]])
      BY <1>1
    <2>1. PICK h \in handlers : /\ AnswerRequest(h) /\ h.job = j /\ h.at = k /\ h.phase = "answer"
                                /\ position[j] = k
      BY NewlyAnswered
    <2>2. h.log = logOf[j][Script[j][k].step] /\ Kind(h) = "post"
      BY <2>1 DEF GivenInv, Kind
    <2>3. logOf' = logOf
      BY <2>1, <2>2 DEF AnswerRequest, Kind
    <2> QED BY <1>2, <2>1, <2>2, <2>3
  <1>4. ASSUME NEW h \in handlers, AppendLines(h), NEW g, handlers' = (handlers \ {h}) \cup {g},
               g.job = h.job, g.at = h.at, g.log = h.log
        PROVE  StoredIn(g.job, g.at, logs'[LogFor(g.job)][g.log])
    <2>1. /\ h.job \in ReportJobs /\ h.at \in DOMAIN Script[h.job] /\ LogKey(h) = LogFor(h.job)
          /\ h.log \in LogIds /\ Kind(h) = "post" /\ h.at <= position[h.job] /\ h.at \in Nat
          /\ h.log = logOf[h.job][Script[h.job][h.at].step]
      BY <1>4, HandlerFacts DEF AppendLines, RequestInv, Proper, GivenInv
    <2> DEFINE log == logs[LogFor(h.job)][h.log]
    <2>2. logs'[LogFor(h.job)][h.log] = log \o Posted(h.job, h.at) /\ log \in Seq(Line)
      BY <1>4, <1>t, <2>1, Zenon DEF AppendLines
    <2>3. \A m \in 1..(h.at - 1) :
             Script[h.job][m].kind = "post" /\ Script[h.job][m].step = Script[h.job][h.at].step
               => StoredIn(h.job, m, log)
      <3> TAKE m \in 1..(h.at - 1)
      <3>1. m \in Answered(h.job)
        BY <1>t, <2>1, ScriptFacts DEF Answered
      <3> QED BY <2>1, <3>1, Zenon DEF StoredInv
    <2> HIDE DEF log
    <2>4. StoredIn(h.job, h.at, log \o Posted(h.job, h.at))
      BY <2>1, <2>2, <2>3, StoredAtEnd, Zenon DEF Kind
    <2> QED BY <1>4, <2>2, <2>4
  <1>5. \A h \in handlers' : Kind(h) = "post" /\ h.phase = "answer" =>
           StoredIn(h.job, h.at, logs'[LogFor(h.job)][h.log])
    <2>1. ASSUME NEW h \in handlers, OpenLog(h) PROVE \A g \in handlers' : g \in handlers \/ Kind(g) # "post"
      <3>1. PICK g : g = [h EXCEPT !.phase = "answer", !.log = logNextID'[LogKey(h)]]
        OBVIOUS
      <3>2. Kind(g) = "open"
        BY <2>1, <3>1, HandlerFacts DEF Handlers, Kind, OpenLog
      <3> QED BY <2>1, <3>1, <3>2 DEF OpenLog, Moved
    <2>2. ASSUME NEW h \in handlers, AppendLines(h)
          PROVE  \A g \in handlers' : g \in handlers \/ StoredIn(g.job, g.at, logs'[LogFor(g.job)][g.log])
      <3>1. PICK g : g = [h EXCEPT !.phase = "answer"]
        OBVIOUS
      <3>2. g.job = h.job /\ g.at = h.at /\ g.log = h.log
        BY <3>1, HandlerFacts DEF Handlers
      <3>3. handlers' = (handlers \ {h}) \cup {g}
        BY <2>2, <3>1 DEF AppendLines, Moved
      <3> QED BY <1>4, <2>2, <3>2, <3>3
    <2>3. \A h \in handlers : AnswerRequest(h) => handlers' \subseteq handlers
      BY DEF AnswerRequest
    <2> QED BY <1>2, <2>1, <2>2, <2>3, LogSteps
  <1> QED BY <1>0, <1>3, <1>5 DEF StoredInv, Kind

-----------------------------------------------------------------------------
(* Together.                                                               *)

\* The inductive invariant.
ReportsIInv ==
    /\ TypeInv /\ PositionInv /\ RequestInv /\ LockInv
    /\ TimelineInv /\ NoticeInv /\ OrderInv
    /\ GivenInv /\ IdInv /\ LineInv /\ StoredInv

LEMMA ReportsStart == ReportsInit => ReportsIInv
  <1> SUFFICES ASSUME ReportsInit PROVE ReportsIInv
    OBVIOUS
  <1>1. TypeInv /\ PositionInv /\ RequestInv /\ LockInv
    BY TypeInit, RequestInit
  <1>2. handlers = {} /\ \A j \in ReportJobs : Answered(j) = {}
    BY ScriptFacts DEF ReportsInit, Answered
  <1>3. TimelineInv
    <2>1. \A j \in ReportJobs : DOMAIN timelines[j] = {}
      BY DEF ReportsInit
    <2> QED BY <1>2, <2>1 DEF TimelineInv, Distinct
  <1>4. NoticeInv
    BY <1>2, ReportsAssumption DEF NoticeInv
  <1>5. OrderInv
    BY DEF OrderInv, ReportsInit
  <1>6. GivenInv
    BY <1>2 DEF GivenInv, Opened, ReportsInit
  <1>7. IdInv
    BY <1>1, <1>2 DEF IdInv, ReportsInit, TypeInv, LogFor, LogKeys
  <1>8. LineInv
    <2>1. \A j \in ReportJobs : LogFor(j) \in LogKeys
      BY <1>1 DEF TypeInv, LogFor, LogKeys
    <2>2. \A j \in ReportJobs : \A i \in LogIds : DOMAIN logs[LogFor(j)][i] = {}
      BY <2>1 DEF ReportsInit
    <2> QED BY <2>2 DEF LineInv
  <1>9. StoredInv
    BY <1>2 DEF StoredInv
  <1> QED BY <1>1, <1>3, <1>4, <1>5, <1>6, <1>7, <1>8, <1>9 DEF ReportsIInv

LEMMA ReportsStep == ReportsIInv /\ [ReportsNext]_reportVars => ReportsIInv'
  <1> SUFFICES ASSUME ReportsIInv, [ReportsNext]_reportVars PROVE ReportsIInv'
    OBVIOUS
  <1>1. /\ TypeInv /\ PositionInv /\ RequestInv /\ LockInv
        /\ TimelineInv /\ NoticeInv /\ OrderInv
        /\ GivenInv /\ IdInv /\ LineInv /\ StoredInv
    BY DEF ReportsIInv
  <1>2. TypeInv' /\ PositionInv' /\ RequestInv' /\ LockInv'
    BY <1>1, TypeStep, PositionStep, RequestStep, LockStep
  <1>3. TimelineInv' /\ NoticeInv' /\ OrderInv'
    BY <1>1, TimelineStep, NoticeStep, OrderStep
  <1>4. GivenInv' /\ IdInv'
    BY <1>1, GivenStep, IdStep
  <1>5. LineInv' /\ StoredInv'
    BY <1>1, LineStep, StoredStep
  <1> QED BY <1>2, <1>3, <1>4, <1>5 DEF ReportsIInv

LEMMA ReportsFollow == ReportsIInv => ReportsInv /\ ShownInv
  <1> SUFFICES ASSUME ReportsIInv PROVE ReportsInv /\ ShownInv
    OBVIOUS
  <1>0. /\ TypeInv /\ PositionInv /\ RequestInv /\ LockInv
        /\ TimelineInv /\ NoticeInv /\ OrderInv
        /\ GivenInv /\ IdInv /\ LineInv /\ StoredInv
    BY DEF ReportsIInv
  <1>1. ReportsTypeOK
    <2>1. \A j \in ReportJobs : \A i \in DOMAIN timelines[j] : timelines[j][i] \in NewRecord
      <3> TAKE j \in ReportJobs
      <3>1. timelines[j] \in Seq(NewRecord)
        BY <1>0 DEF TypeInv
      <3> QED BY <3>1
    <2>2. \A h \in handlers : h.phase \in Phases
      BY <1>0 DEF TypeInv, Handlers
    <2>3. mu <=> \E h \in handlers : h.phase \in {"merge", "body"}
      BY <1>0 DEF LockInv, Holds
    <2> QED BY <1>0, <2>1, <2>2, <2>3 DEF ReportsTypeOK, TypeInv, PositionInv, Phases
  <1>2. OneRecordPerStep
    <2> SUFFICES ASSUME NEW j \in ReportJobs
                 PROVE  LET ids == [i \in DOMAIN timelines[j] |-> timelines[j][i].id] IN
                        /\ IsInjective(ids)
                        /\ \A k \in Answered(j) : \A u \in Updates(j, k) : u[1] \in ToSet(ids)
      BY DEF OneRecordPerStep
    <2> DEFINE ids == [i \in DOMAIN timelines[j] |-> timelines[j][i].id]
    <2>1. IsInjective(ids)
      BY <1>0 DEF IsInjective, TimelineInv, Distinct
    <2>2. \A s : Has(j, s) => s \in ToSet(ids)
      BY DEF Has, ToSet
    <2>3. \A k \in Answered(j) : \A u \in Updates(j, k) : u[1] \in ToSet(ids)
      BY <1>0, <2>2 DEF Updates, ToSet, TimelineInv
    <2> QED BY <2>1, <2>3
  <1>3. LogsKeepLines
    <2> SUFFICES ASSUME NEW j \in ReportJobs
                 PROVE  /\ \A k \in Answered(j) : Script[j][k].kind = "post" =>
                              StoredIn(j, k, logs[<<j, route>>][logOf[j][Script[j][k].step]])
                        /\ \A i \in LogIds : \A l, m \in ToSet(logs[<<j, route>>][i]) :
                              l[1] = j /\ l[1] = m[1] /\ l[2] = m[2]
      BY DEF LogsKeepLines
    <2>1. \A k \in Answered(j) : Script[j][k].kind = "post" =>
             StoredIn(j, k, logs[<<j, route>>][logOf[j][Script[j][k].step]])
      BY <1>0 DEF StoredInv, LogFor
    <2>2. ASSUME NEW i \in LogIds, NEW l \in ToSet(logs[<<j, route>>][i])
          PROVE  l[1] = j /\ l[2] \in StepIds /\ logOf[j][l[2]] = i /\ i # 0
      <3>1. PICK n \in DOMAIN logs[<<j, route>>][i] : l = logs[<<j, route>>][i][n]
        BY DEF ToSet
      <3>2. logs[<<j, route>>][i] \in Seq(Line)
        BY <1>0 DEF TypeInv, LogKeys
      <3>3. l \in Line
        BY <3>1, <3>2
      <3> QED BY <1>0, <3>1, <3>3 DEF LineInv, LogFor, Line
    <2>3. \A i \in LogIds : \A l, m \in ToSet(logs[<<j, route>>][i]) :
             l[1] = j /\ l[1] = m[1] /\ l[2] = m[2]
      BY <1>0, <2>2 DEF IdInv
    <2> QED BY <2>1, <2>3
  <1>4. ConfirmedIsShown
    BY <1>0, ReportsAssumption DEF ConfirmedIsShown, NoticeInv, Tells, Updates, ToSet
  <1>5. StepsShownInOrder
    <2> SUFFICES ASSUME NEW j \in ReportJobs, NEW i \in DOMAIN shown[j], shown[j][i].what = "Completed"
                 PROVE  SaysIn(SubSeq(shown[j], 1, i - 1), "InProgress", shown[j][i].step)
      BY DEF StepsShownInOrder
    <2>1. PICK n \in 1..(i - 1) : shown[j][n].what = "InProgress" /\ shown[j][n].step = shown[j][i].step
      BY <1>0 DEF OrderInv
    <2>2. shown[j] \in Seq(Entry)
      BY <1>0 DEF TypeInv
    <2>3. Len(shown[j]) \in Nat /\ DOMAIN shown[j] = 1..Len(shown[j])
      BY <2>2
    <2>4. n \in DOMAIN SubSeq(shown[j], 1, i - 1) /\ SubSeq(shown[j], 1, i - 1)[n] = shown[j][n]
      BY <2>2, <2>3
    <2> QED BY <2>1, <2>4 DEF SaysIn
  <1> QED BY <1>1, <1>2, <1>3, <1>4, <1>5 DEF ReportsInv, ShownInv

\* However requests are repeated and interleaved, the broker keeps one record per step and every
\* confirmed line in its step's log (handleUpdateTimeline, handleTimelineLogsInner).
THEOREM ReportsKept == ReportsInit /\ [][ReportsNext]_reportVars => []ReportsInv
  BY ReportsStart, ReportsStep, ReportsFollow, PTL

\* What the runner was told is merged was shown to the user before, and no step is shown to end
\* before it was shown to start (the callbacks of handleUpdateTimeline run outside the lock).
THEOREM ConfirmedShown == ReportsInit /\ [][ReportsNext]_reportVars => []ShownInv
  BY ReportsStart, ReportsStep, ReportsFollow, PTL

-----------------------------------------------------------------------------
(* The steps that failed.  While no request of a job was sent twice, its   *)
(* requests come one by one, so what the broker has of them is known.      *)

OnTime(j) == late[j] = 0

OutcomeInv == outcome \in Outcomes /\ late \in [ReportJobs -> Nat]

\* The records of a request are those the runner would send now.
Current(h) ==
    \A i \in DOMAIN h.recs :
        h.recs[i] = Record(h.job, Script[h.job][h.at].recs[i][1], Script[h.job][h.at].recs[i][2])

\* There is one request at most, the one the runner waits for.
AloneInv ==
    \A j \in ReportJobs : OnTime(j) =>
        \A h \in handlers : h.job = j =>
            h.at = position[j] /\ Current(h) /\ \A g \in handlers : g.job = j => g = h

\* No step is said to have failed that did not.
Truthful(j, rec) == rec.result = "failed" => outcome[j][rec.id] = "failed"

ResultInv ==
    /\ \A j \in ReportJobs : \A i \in DOMAIN timelines[j] : Truthful(j, timelines[j][i])
    /\ \A h \in handlers : \A i \in DOMAIN h.recs : Truthful(h.job, h.recs[i])

\* Record i of request k was merged.
MergedBy(h, i) == h.phase \in {"notify", "answer"} \/ (h.phase = "merge" /\ i < h.next)

Through(j, k, i) == k < position[j] \/ \E h \in handlers : h.job = j /\ h.at = k /\ MergedBy(h, i)

InTimeline(j, rec) == \E n \in DOMAIN timelines[j] : timelines[j][n] = rec

\* The last record of a step is in the timeline as it was sent.
FinalInv ==
    \A j \in ReportJobs : OnTime(j) =>
        \A k \in DOMAIN Script[j] : \A i \in DOMAIN Script[j][k].recs :
            LastOf(Script[j], k, i) /\ Through(j, k, i) =>
                InTimeline(j, Record(j, Script[j][k].recs[i][1], "Completed"))

\* How many requests have their lines in the logs.
Stored(j) ==
    IF \E h \in handlers : h.job = j /\ Kind(h) = "post" /\ h.phase = "answer"
    THEN position[j] ELSE position[j] - 1

\* What request k adds to the lines posted of step s.
Added(posted, j, s, k) ==
    IF Script[j][k].kind = "post" /\ Script[j][k].step = s THEN posted \o Script[j][k].lines ELSE posted

\* What the first requests post of step s, up to the k-th.
Posts(f, j, s) == f = [k \in 0..Len(Script[j]) |-> IF k = 0 THEN <<>> ELSE Added(f[k - 1], j, s, k)]

PostedTo(j, s) == CHOOSE f : Posts(f, j, s)

\* Lines as the logs have them.
Marked(j, s, nums) == [n \in DOMAIN nums |-> <<j, s, nums[n]>>]

\* The log of a step has the lines posted, all of them and in their order.
WholeInv ==
    \A j \in ReportJobs : OnTime(j) =>
        \A s \in StepIds : logOf[j][s] # 0 =>
            logs[LogFor(j)][logOf[j][s]] = Marked(j, s, PostedTo(j, s)[Stored(j)])

IsFailure(j, i) == shown[j][i].what = "FAILED"

\* All of j was answered, and nothing will change but what is shown of it.
Settled(j) == OnTime(j) /\ position[j] > Len(Script[j]) /\ jobEnd[j] \in {"reporting", "failure"}

\* What is shown of the records that were scanned.
ShownOf(j) ==
    /\ \A i \in DOMAIN shown[j] : IsFailure(j, i) =>
          \E n \in 1..scanned[j] :
              /\ timelines[j][n].result = "failed" /\ timelines[j][n].id = shown[j][i].step
              /\ shown[j][i].detail = LastLines(LinesOf(j, timelines[j][n]))
    /\ \A n \in 1..scanned[j] : timelines[j][n].result = "failed" =>
          \E i \in DOMAIN shown[j] : IsFailure(j, i) /\ shown[j][i].step = timelines[j][n].id
    /\ \A a, b \in DOMAIN shown[j] :
          IsFailure(j, a) /\ IsFailure(j, b) /\ shown[j][a].step = shown[j][b].step => a = b
    /\ scanned[j] <= Len(timelines[j])

EndOf(j) ==
    /\ jobEnd[j] \notin {"reporting", "failure"} => \A i \in DOMAIN shown[j] : ~IsFailure(j, i)
    /\ jobEnd[j] = "running" => scanned[j] = 0
    /\ jobEnd[j] = "reporting" => position[j] > Len(Script[j])
    /\ jobEnd[j] = "failure" /\ position[j] <= Len(Script[j]) => ~awaiting[j]
    /\ Settled(j) => ShownOf(j)
    /\ Settled(j) /\ jobEnd[j] = "failure" => scanned[j] = Len(timelines[j]) \/ Len(Script[j]) = 0

EndInv == \A j \in ReportJobs : EndOf(j)

-----------------------------------------------------------------------------
(* One request at a time, and what its records say.                       *)

\* What a handler does to itself in one step.
LEMMA HandlerMoves ==
    ASSUME TypeInv, RequestInv, NEW h \in handlers, HandlerStep(h), ~AnswerRequest(h)
    PROVE  /\ UNCHANGED <<runnerVars, endVars>>
           /\ h.phase # "answer"
           /\ \E g : /\ Moved(h, g) /\ g.job = h.job /\ g.at = h.at /\ g.recs = h.recs
                     /\ \A i \in DOMAIN h.recs :
                           MergedBy(g, i) => MergedBy(h, i) \/ (MergeRecord(h) /\ i = h.next)
                     /\ g.phase = "answer" /\ Kind(h) = "post" => AppendLines(h)
                     /\ AppendLines(h) => g.phase = "answer"
  <1> DEFINE Fits(g) ==
               /\ Moved(h, g) /\ g.job = h.job /\ g.at = h.at /\ g.recs = h.recs
               /\ \A i \in DOMAIN h.recs :
                     MergedBy(g, i) => MergedBy(h, i) \/ (MergeRecord(h) /\ i = h.next)
               /\ g.phase = "answer" /\ Kind(h) = "post" => AppendLines(h)
               /\ AppendLines(h) => g.phase = "answer"
  <1>0. h \in Handlers /\ Proper(h) /\ h.next \in Nat /\ Len(h.recs) \in Nat /\ DOMAIN h.recs = 1..Len(h.recs)
    BY HandlerFacts DEF RequestInv
  <1>1. UNCHANGED <<runnerVars, endVars>> /\ h.phase # "answer"
    BY DEF HandlerStep, LockTimeline, MergeRecord, UnlockTimeline, Notify, EndNotify, OpenLog,
           ReadBody, AppendLines, serverVars, displayVars
  <1>2. Kind(h) # "patch" => h.recs = <<>>
    <2> SUFFICES ASSUME Kind(h) # "patch" PROVE h.recs = <<>>
      OBVIOUS
    <2>1. h.job \in ReportJobs /\ h.at \in DOMAIN Script[h.job] /\ h.recs \in Seq(NewRecord)
      BY HandlerFacts
    <2>2. Script[h.job][h.at].recs = <<>>
      BY <2>1, OnlyPatchesUpdate DEF Kind
    <2>3. Len(h.recs) = Len(Script[h.job][h.at].recs)
      BY <1>0 DEF Proper
    <2>4. Len(h.recs) = 0
      BY <2>2, <2>3
    <2> QED BY <2>1, <2>4
  <1>3. CASE LockTimeline(h)
    <2>1. PICK g : g = [h EXCEPT !.phase = "merge"]
      OBVIOUS
    <2>2. g.job = h.job /\ g.at = h.at /\ g.recs = h.recs /\ g.phase = "merge" /\ g.next = h.next
      BY <1>0, <2>1 DEF Handlers
    <2>3. h.phase = "arrived" /\ h.next = 1 /\ Kind(h) = "patch"
      BY <1>0, <1>3 DEF LockTimeline, Proper, Kind
    <2>4. \A i \in DOMAIN h.recs : ~MergedBy(g, i)
      BY <1>0, <2>2, <2>3 DEF MergedBy
    <2>5. Moved(h, g) /\ ~AppendLines(h)
      BY <1>3, <2>1 DEF LockTimeline, AppendLines
    <2> QED BY <1>1, <2>2, <2>3, <2>4, <2>5
  <1>4. CASE MergeRecord(h)
    <2>1. PICK g : g = [h EXCEPT !.next = @ + 1]
      OBVIOUS
    <2>2. g.job = h.job /\ g.at = h.at /\ g.recs = h.recs /\ g.phase = "merge" /\ g.next = h.next + 1
      BY <1>0, <1>4, <2>1 DEF Handlers, MergeRecord
    <2>3. h.phase = "merge"
      BY <1>4 DEF MergeRecord
    <2>4. \A i \in DOMAIN h.recs : MergedBy(g, i) => MergedBy(h, i) \/ i = h.next
      BY <1>0, <2>2, <2>3 DEF MergedBy
    <2>5. Moved(h, g) /\ ~AppendLines(h)
      BY <1>4, <2>1 DEF MergeRecord, AppendLines
    <2> QED BY <1>1, <1>4, <2>2, <2>4, <2>5
  <1>5. CASE UnlockTimeline(h)
    <2>1. PICK g : g = [h EXCEPT !.phase = AfterMerge, !.next = 1]
      OBVIOUS
    <2>2. g.job = h.job /\ g.at = h.at /\ g.recs = h.recs
      BY <1>0, <2>1 DEF Handlers
    <2>3. h.phase = "merge" /\ h.next > Len(h.recs) /\ Kind(h) = "patch"
      BY <1>0, <1>5 DEF UnlockTimeline, Proper
    <2>4. \A i \in DOMAIN h.recs : MergedBy(h, i)
      BY <1>0, <2>3 DEF MergedBy
    <2>5. Moved(h, g) /\ ~AppendLines(h)
      BY <1>5, <2>1 DEF UnlockTimeline, AppendLines
    <2> QED BY <1>1, <2>2, <2>3, <2>4, <2>5
  <1>6. CASE Notify(h)
    <2>1. PICK g : g = [h EXCEPT !.next = @ + 1]
      OBVIOUS
    <2>2. g.job = h.job /\ g.at = h.at /\ g.recs = h.recs /\ g.phase = h.phase
      BY <1>0, <2>1 DEF Handlers
    <2>3. h.phase = "notify" /\ \A i \in DOMAIN h.recs : MergedBy(h, i)
      BY <1>6 DEF MergedBy, Notify
    <2>5. Moved(h, g) /\ ~AppendLines(h)
      BY <1>6, <2>1 DEF Notify, AppendLines
    <2> QED BY <1>1, <2>2, <2>3, <2>5
  <1>7. CASE EndNotify(h)
    <2>1. PICK g : g = [h EXCEPT !.phase = "answer"]
      OBVIOUS
    <2>2. g.job = h.job /\ g.at = h.at /\ g.recs = h.recs
      BY <1>0, <2>1 DEF Handlers
    <2>3. Kind(h) = "patch" /\ \A i \in DOMAIN h.recs : MergedBy(h, i)
      BY <1>0, <1>7 DEF MergedBy, EndNotify, Proper
    <2>5. Moved(h, g) /\ ~AppendLines(h)
      BY <1>7, <2>1 DEF EndNotify, AppendLines
    <2> QED BY <1>1, <2>2, <2>3, <2>5
  <1>8. CASE OpenLog(h)
    <2>1. PICK g : g = [h EXCEPT !.phase = "answer", !.log = logNextID'[LogKey(h)]]
      OBVIOUS
    <2>2. g.job = h.job /\ g.at = h.at /\ g.recs = h.recs
      BY <1>0, <2>1 DEF Handlers
    <2>3. Kind(h) = "open" /\ DOMAIN h.recs = {}
      BY <1>2, <1>8 DEF OpenLog, Kind
    <2>5. Moved(h, g) /\ ~AppendLines(h)
      BY <1>8, <2>1 DEF OpenLog, AppendLines
    <2> QED BY <1>1, <2>2, <2>3, <2>5
  <1>9. CASE ReadBody(h)
    <2>1. PICK g : g = [h EXCEPT !.phase = "body"]
      OBVIOUS
    <2>2. g.job = h.job /\ g.at = h.at /\ g.recs = h.recs /\ g.phase = "body"
      BY <1>0, <2>1 DEF Handlers
    <2>3. Kind(h) = "post" /\ DOMAIN h.recs = {}
      BY <1>2, <1>9 DEF ReadBody, Kind
    <2>5. Moved(h, g) /\ ~AppendLines(h)
      BY <1>9, <2>1 DEF ReadBody, AppendLines
    <2> QED BY <1>1, <2>2, <2>3, <2>5
  <1>10. CASE AppendLines(h)
    <2>1. PICK g : g = [h EXCEPT !.phase = "answer"]
      OBVIOUS
    <2>2. g.job = h.job /\ g.at = h.at /\ g.recs = h.recs /\ g.phase = "answer"
      BY <1>0, <2>1 DEF Handlers
    <2>3. Kind(h) = "post" /\ DOMAIN h.recs = {}
      BY <1>0, <1>2, <1>10 DEF AppendLines, Proper
    <2>5. Moved(h, g)
      BY <1>10, <2>1 DEF AppendLines
    <2> QED BY <1>1, <1>10, <2>2, <2>3, <2>5
  <1> QED BY <1>3, <1>4, <1>5, <1>6, <1>7, <1>8, <1>9, <1>10 DEF HandlerStep

\* A request sent holds the records of the moment.
LEMMA NewCurrent ==
    ASSUME TypeInv, PositionInv, NEW j \in ReportJobs, position[j] <= Len(Script[j]), NEW c,
           NEW h, h = Handler(j, c)
    PROVE  Current(h) /\ h.job = j /\ h.at = position[j] /\ h.phase = "arrived"
  <1>1. h.job = j /\ h.at = position[j] /\ h.phase = "arrived"
        /\ h.recs = [i \in DOMAIN Request(j).recs |->
                        Record(j, Request(j).recs[i][1], Request(j).recs[i][2])]
    BY DEF Handler
  <1> DEFINE r == Request(j).recs
             recs == [i \in DOMAIN r |-> Record(j, r[i][1], r[i][2])]
  <1>2. h.recs = recs
    BY <1>1
  <1>3. DOMAIN recs = DOMAIN r /\ \A i \in DOMAIN r : recs[i] = Record(j, r[i][1], r[i][2])
    OBVIOUS
  <1>4. r = Script[h.job][h.at].recs
    BY <1>1 DEF Request
  <1> HIDE DEF r, recs
  <1>5. Current(h)
    BY <1>1, <1>2, <1>3, <1>4 DEF Current
  <1> QED BY <1>1, <1>5

\* They remain so while the runner changes neither its outcomes nor the logs.
LEMMA CurrentStays ==
    ASSUME NEW h, Current(h), outcome' = outcome, logOf'[h.job] = logOf[h.job]
    PROVE  Current(h)'
  <1>1. \A step, state : Record(h.job, step, state)' = Record(h.job, step, state)
    BY Zenon DEF Record
  <1> QED BY <1>1, Zenon DEF Current

LEMMA OutcomeStep ==
    ASSUME OutcomeInv, [ReportsNext]_reportVars
    PROVE  OutcomeInv' /\ outcome' = outcome /\ \A j \in ReportJobs : OnTime(j)' => OnTime(j)
  <1>1. ASSUME UNCHANGED <<outcome, late>>
        PROVE  OutcomeInv' /\ outcome' = outcome /\ \A j \in ReportJobs : OnTime(j)' => OnTime(j)
    BY <1>1 DEF OutcomeInv, OnTime
  <1>2. \A h \in handlers : HandlerStep(h) => UNCHANGED <<outcome, late>>
    BY Zenon DEF HandlerStep, LockTimeline, MergeRecord, UnlockTimeline, Notify, EndNotify, OpenLog,
           ReadBody, AppendLines, AnswerRequest, runnerVars
  <1>3. \A j \in ReportJobs : SendRequest(j) => UNCHANGED <<outcome, late>>
    BY DEF SendRequest
  <1>4. ASSUME NEW i \in ReportJobs, SendAgain(i)
        PROVE  OutcomeInv' /\ outcome' = outcome /\ \A j \in ReportJobs : OnTime(j)' => OnTime(j)
    <2>1. late' = [late EXCEPT ![i] = @ + 1] /\ outcome' = outcome /\ late \in [ReportJobs -> Nat]
      BY <1>4 DEF SendAgain, OutcomeInv
    <2> QED BY <2>1 DEF OutcomeInv, OnTime
  <1>5. UNCHANGED runnerVars => UNCHANGED <<outcome, late>>
    BY DEF runnerVars
  <1> QED BY <1>1, <1>2, <1>3, <1>4, <1>5, EndSteps DEF ReportsNext, reportVars

LEMMA AloneStep ==
    ASSUME TypeInv, PositionInv, RequestInv, OutcomeInv, AloneInv, [ReportsNext]_reportVars
    PROVE  AloneInv'
  <1> SUFFICES ASSUME NEW j \in ReportJobs, OnTime(j)', NEW f \in handlers', f.job = j
               PROVE  /\ f.at = position'[j] /\ Current(f)'
                      /\ \A g \in handlers' : g.job = j => g = f
    BY DEF AloneInv
  <1>0. OnTime(j) /\ outcome' = outcome
    BY OutcomeStep
  <1>a. \A h \in handlers : h.job = j =>
           h.at = position[j] /\ Current(h) /\ \A g \in handlers : g.job = j => g = h
    BY <1>0 DEF AloneInv
  <1>1. CASE UNCHANGED <<runnerVars, handlers>>
    <2>1. f \in handlers /\ logOf' = logOf /\ position' = position /\ handlers' = handlers
      BY <1>1 DEF runnerVars
    <2>2. Current(f) /\ f.at = position[j] /\ \A g \in handlers : g.job = j => g = f
      BY <1>a, <2>1
    <2>3. Current(f)'
      BY <1>0, <2>1, <2>2, CurrentStays
    <2> QED BY <2>1, <2>2, <2>3
  <1>2. ASSUME NEW h \in handlers, AnswerRequest(h)
        PROVE  /\ f.at = position'[j] /\ Current(f)'
               /\ \A g \in handlers' : g.job = j => g = f
    <2>1. handlers' = handlers \ {h} /\ h.job \in ReportJobs
      BY <1>2, HandlerFacts DEF AnswerRequest
    <2>2. h.job # j
      BY <1>a, <2>1
    <2>3. position'[j] = position[j] /\ logOf'[j] = logOf[j]
      BY <1>2, <2>1, <2>2 DEF AnswerRequest, TypeInv
    <2>4. f \in handlers /\ Current(f)
      BY <1>a, <2>1
    <2>5. Current(f)'
      BY <1>0, <2>3, <2>4, CurrentStays
    <2> QED BY <1>a, <2>1, <2>3, <2>4, <2>5
  <1>3. ASSUME NEW h \in handlers, HandlerStep(h), ~AnswerRequest(h)
        PROVE  /\ f.at = position'[j] /\ Current(f)'
               /\ \A g \in handlers' : g.job = j => g = f
    <2>1. UNCHANGED runnerVars
      BY <1>3, HandlerMoves
    <2>2. PICK g : Moved(h, g) /\ g.job = h.job /\ g.at = h.at /\ g.recs = h.recs
      BY <1>3, HandlerMoves
    <2>3. handlers' = (handlers \ {h}) \cup {g} /\ position' = position /\ logOf' = logOf
      BY <2>1, <2>2 DEF Moved, runnerVars
    <2>4. \A e \in handlers' : e.job = j =>
             e.at = position[j] /\ Current(e) /\ \A d \in handlers' : d.job = j => d = e
      <3>1. Current(h) => Current(g)
        BY <2>2 DEF Current
      <3> QED BY <1>a, <2>2, <2>3, <3>1
    <2>5. Current(f) /\ f.at = position[j] /\ \A d \in handlers' : d.job = j => d = f
      BY <2>4
    <2>6. Current(f)'
      BY <1>0, <2>3, <2>5, CurrentStays
    <2> QED BY <2>3, <2>5, <2>6
  <1>4. ASSUME NEW i \in ReportJobs, SendRequest(i)
        PROVE  /\ f.at = position'[j] /\ Current(f)'
               /\ \A g \in handlers' : g.job = j => g = f
    <2>1. PICK h : h = Handler(i, 1)
      OBVIOUS
    <2>2. /\ handlers' = handlers \cup {h} /\ position' = position /\ logOf' = logOf
          /\ ~awaiting[i] /\ position[i] <= Len(Script[i])
      BY <1>4, <2>1 DEF SendRequest
    <2>3. Current(h) /\ h.job = i /\ h.at = position[i]
      BY <2>1, <2>2, NewCurrent
    <2>4. \A g \in handlers : g.job = j => j # i
      BY <1>a, <2>2 DEF RequestInv, Proper
    <2>5. \A e \in handlers' : e.job = j =>
             e.at = position[j] /\ Current(e) /\ \A d \in handlers' : d.job = j => d = e
      BY <1>a, <2>2, <2>3, <2>4
    <2>6. Current(f) /\ f.at = position[j] /\ \A d \in handlers' : d.job = j => d = f
      BY <2>5
    <2>7. Current(f)'
      BY <1>0, <2>2, <2>6, CurrentStays
    <2> QED BY <2>2, <2>6, <2>7
  <1>5. ASSUME NEW i \in ReportJobs, SendAgain(i)
        PROVE  /\ f.at = position'[j] /\ Current(f)'
               /\ \A g \in handlers' : g.job = j => g = f
    <2>1. PICK h : h = Handler(i, 2)
      OBVIOUS
    <2>2. /\ handlers' = handlers \cup {h} /\ position' = position /\ logOf' = logOf
          /\ late' = [late EXCEPT ![i] = @ + 1]
      BY <1>5, <2>1 DEF SendAgain
    <2>3. late \in [ReportJobs -> Nat] /\ late[j] = 0 /\ late'[j] = 0
      BY <1>0 DEF OutcomeInv, OnTime
    <2>4. i # j
      BY <2>2, <2>3
    <2>5. h.job = i
      BY <2>1 DEF Handler
    <2>6. f # h /\ f \in handlers
      BY <2>2, <2>4, <2>5
    <2>7. Current(f) /\ f.at = position[j] /\ \A g \in handlers : g.job = j => g = f
      BY <1>a, <2>6
    <2>8. Current(f)'
      BY <1>0, <2>2, <2>7, CurrentStays
    <2> QED BY <2>2, <2>4, <2>5, <2>7, <2>8
  <1> QED BY <1>1, <1>2, <1>3, <1>4, <1>5, EndSteps DEF ReportsNext, reportVars

\* A merge brings in its record, and nothing else that is new.
LEMMA MergedRecords ==
    ASSUME NEW line \in Seq(NewRecord), NEW rec \in NewRecord
    PROVE  /\ \E i \in DOMAIN Merged(line, rec) : Merged(line, rec)[i] = rec
           /\ \A i \in DOMAIN Merged(line, rec) :
                 Merged(line, rec)[i] = rec \/ \E n \in DOMAIN line : Merged(line, rec)[i] = line[n]
           /\ \A n \in DOMAIN line : line[n].id # rec.id =>
                 n \in DOMAIN Merged(line, rec) /\ Merged(line, rec)[n] = line[n]
  <1>1. CASE \E i \in DOMAIN line : line[i].id = rec.id
    <2>1. Merged(line, rec) = [i \in DOMAIN line |-> IF line[i].id = rec.id THEN rec ELSE line[i]]
      BY <1>1 DEF Merged
    <2> QED BY <1>1, <2>1
  <1>2. CASE ~ \E i \in DOMAIN line : line[i].id = rec.id
    <2>1. Merged(line, rec) = Append(line, rec)
      BY <1>2 DEF Merged
    <2>2. /\ DOMAIN Append(line, rec) = 1..(Len(line) + 1)
          /\ DOMAIN line = 1..Len(line) /\ Len(line) \in Nat
          /\ \A i \in 1..Len(line) : Append(line, rec)[i] = line[i]
          /\ Append(line, rec)[Len(line) + 1] = rec
      OBVIOUS
    <2> QED BY <2>1, <2>2
  <1> QED BY <1>1, <1>2

\* Timelines change one merge at a time.
LEMMA TimelineMoves ==
    ASSUME TypeInv, PositionInv, RequestInv, [ReportsNext]_reportVars
    PROVE  \/ UNCHANGED timelines
           \/ \E h \in handlers :
                 /\ MergeRecord(h) /\ h.phase = "merge" /\ h.next \in DOMAIN h.recs
                 /\ h.recs[h.next] \in NewRecord /\ timelines[h.job] \in Seq(NewRecord)
                 /\ timelines'[h.job] = Merged(timelines[h.job], h.recs[h.next])
                 /\ \A j \in ReportJobs : j # h.job => timelines'[j] = timelines[j]
  <1>1. \A h \in handlers : HandlerStep(h) => MergeRecord(h) \/ UNCHANGED timelines
    BY Zenon DEF HandlerStep, LockTimeline, UnlockTimeline, Notify, EndNotify, OpenLog,
           ReadBody, AppendLines, AnswerRequest, serverVars
  <1>2. \A j \in ReportJobs : SendRequest(j) \/ SendAgain(j) => UNCHANGED timelines
    BY DEF SendRequest, SendAgain, serverVars
  <1>3. ASSUME NEW h \in handlers, MergeRecord(h)
        PROVE  /\ h.phase = "merge" /\ h.next \in DOMAIN h.recs
               /\ h.recs[h.next] \in NewRecord /\ timelines[h.job] \in Seq(NewRecord)
               /\ timelines'[h.job] = Merged(timelines[h.job], h.recs[h.next])
               /\ \A j \in ReportJobs : j # h.job => timelines'[j] = timelines[j]
    <2>1. h.phase = "merge" /\ h.next <= Len(h.recs)
          /\ timelines' = [timelines EXCEPT ![h.job] = Merged(timelines[h.job], h.recs[h.next])]
      BY <1>3 DEF MergeRecord
    <2>2. h.job \in ReportJobs /\ h.next \in DOMAIN h.recs /\ h.recs[h.next] \in NewRecord
      BY <2>1, HandlerFacts
    <2>3. timelines \in [ReportJobs -> Seq(NewRecord)]
      BY DEF TypeInv
    <2>4. timelines[h.job] \in Seq(NewRecord)
      BY <2>2, <2>3
    <2>5. timelines'[h.job] = Merged(timelines[h.job], h.recs[h.next])
      BY <2>1, <2>2, <2>3
    <2>6. \A j \in ReportJobs : j # h.job => timelines'[j] = timelines[j]
      BY <2>1, <2>3
    <2> QED BY <2>1, <2>2, <2>4, <2>5, <2>6
  <1>4. UNCHANGED serverVars => UNCHANGED timelines
    BY DEF serverVars
  <1> QED BY <1>1, <1>2, <1>3, <1>4, EndSteps DEF ReportsNext, reportVars

LEMMA ResultStep ==
    ASSUME TypeInv, PositionInv, RequestInv, OutcomeInv, ResultInv, [ReportsNext]_reportVars
    PROVE  ResultInv'
  <1>0. outcome' = outcome
    BY OutcomeStep
  <1>1. \A j \in ReportJobs : \A i \in DOMAIN timelines'[j] : Truthful(j, timelines'[j][i])
    <2>1. CASE UNCHANGED timelines
      BY <2>1 DEF ResultInv
    <2>2. ASSUME NEW h \in handlers, h.next \in DOMAIN h.recs,
                 h.recs[h.next] \in NewRecord, timelines[h.job] \in Seq(NewRecord),
                 timelines'[h.job] = Merged(timelines[h.job], h.recs[h.next]),
                 \A j \in ReportJobs : j # h.job => timelines'[j] = timelines[j]
          PROVE  \A j \in ReportJobs : \A i \in DOMAIN timelines'[j] : Truthful(j, timelines'[j][i])
      <3>1. Truthful(h.job, h.recs[h.next]) /\ h.job \in ReportJobs
        BY <2>2, HandlerFacts DEF ResultInv
      <3>2. ASSUME NEW i \in DOMAIN timelines'[h.job] PROVE Truthful(h.job, timelines'[h.job][i])
        <4>1. \/ timelines'[h.job][i] = h.recs[h.next]
              \/ \E n \in DOMAIN timelines[h.job] : timelines'[h.job][i] = timelines[h.job][n]
          BY <2>2, MergedRecords
        <4> QED BY <3>1, <4>1 DEF ResultInv
      <3> QED BY <2>2, <3>2 DEF ResultInv
    <2> QED BY <2>1, <2>2, TimelineMoves
  <1>2. \A h \in handlers' : \A i \in DOMAIN h.recs : Truthful(h.job, h.recs[i])
    <2>1. CASE handlers' \subseteq handlers
      BY <2>1 DEF ResultInv
    <2>2. ASSUME NEW h \in handlers, HandlerStep(h), ~AnswerRequest(h)
          PROVE  \A g \in handlers' : \A i \in DOMAIN g.recs : Truthful(g.job, g.recs[i])
      <3>1. PICK g : Moved(h, g) /\ g.job = h.job /\ g.recs = h.recs
        BY <2>2, HandlerMoves
      <3> QED BY <3>1 DEF Moved, ResultInv
    <2>3. ASSUME NEW j \in ReportJobs, SendRequest(j) \/ SendAgain(j)
          PROVE  \A g \in handlers' : \A i \in DOMAIN g.recs : Truthful(g.job, g.recs[i])
      <3>1. PICK c \in {1, 2} : handlers' = handlers \cup {Handler(j, c)}
        BY <2>3 DEF SendRequest, SendAgain
      <3>2. position[j] <= Len(Script[j])
        BY <2>3 DEF SendRequest, SendAgain, PositionInv
      <3>3. PICK g : g = Handler(j, c)
        OBVIOUS
      <3>4. Current(g)
        BY <3>2, <3>3, NewCurrent
      <3>5. ASSUME NEW i \in DOMAIN g.recs PROVE Truthful(g.job, g.recs[i])
        <4>1. PICK s, t : g.recs[i] = Record(g.job, s, t)
          BY <3>4 DEF Current
        <4> QED BY <4>1 DEF Record, Truthful
      <3> QED BY <3>1, <3>3, <3>5 DEF ResultInv
    <2>4. \A h \in handlers : AnswerRequest(h) => handlers' \subseteq handlers
      BY DEF AnswerRequest
    <2> QED BY <2>1, <2>2, <2>3, <2>4, EndSteps DEF ReportsNext, reportVars
  <1> QED BY <1>0, <1>1, <1>2 DEF ResultInv, Truthful

\* A record stands for its step from its merge on.
LEMMA NewlyThrough ==
    ASSUME TypeInv, PositionInv, RequestInv, [ReportsNext]_reportVars,
           NEW j \in ReportJobs, NEW k \in DOMAIN Script[j], NEW i \in DOMAIN Script[j][k].recs,
           Through(j, k, i)', ~Through(j, k, i)
    PROVE  \E h \in handlers : MergeRecord(h) /\ h.job = j /\ h.at = k /\ i = h.next
  <1>1. CASE k < position'[j]
    <2>1. k \in Answered(j)'
      BY <1>1 DEF Answered
    <2>2. k \notin Answered(j)
      BY DEF Through, Answered
    <2>3. PICK h \in handlers : h.job = j /\ h.at = k /\ h.phase = "answer"
      BY <2>1, <2>2, NewlyAnswered
    <2> QED BY <2>3 DEF Through, MergedBy
  <1>2. ASSUME NEW g \in handlers', g.job = j, g.at = k, MergedBy(g, i)
        PROVE  \E h \in handlers : MergeRecord(h) /\ h.job = j /\ h.at = k /\ i = h.next
    <2>0. g \notin handlers
      BY <1>2 DEF Through
    <2>1. ASSUME NEW h \in handlers, HandlerStep(h), ~AnswerRequest(h)
          PROVE  MergeRecord(h) /\ h.job = j /\ h.at = k /\ i = h.next
      <3>1. PICK e : /\ Moved(h, e) /\ e.job = h.job /\ e.at = h.at
                     /\ \A n \in DOMAIN h.recs :
                           MergedBy(e, n) => MergedBy(h, n) \/ (MergeRecord(h) /\ n = h.next)
        BY <2>1, HandlerMoves
      <3>2. g = e
        BY <2>0, <3>1 DEF Moved
      <3>3. h.job = j /\ h.at = k /\ ~MergedBy(h, i)
        BY <1>2, <3>1, <3>2 DEF Through
      <3>4. i \in DOMAIN h.recs
        <4>1. Proper(h) /\ h.recs \in Seq(NewRecord)
          BY HandlerFacts DEF RequestInv
        <4>2. Len(h.recs) = Len(Script[j][k].recs) /\ Script[j][k].recs \in Seq(StepIds \X States)
          BY <3>3, <4>1, ScriptFacts DEF Proper
        <4> QED BY <4>1, <4>2
      <3> QED BY <1>2, <3>1, <3>2, <3>3, <3>4
    <2>2. \A h \in handlers : ~AnswerRequest(h)
      BY <2>0 DEF AnswerRequest
    <2>3. \A l \in ReportJobs : ~(SendRequest(l) \/ SendAgain(l))
      <3> SUFFICES ASSUME NEW l \in ReportJobs, SendRequest(l) \/ SendAgain(l) PROVE FALSE
        OBVIOUS
      <3>1. PICK c \in {1, 2} : handlers' = handlers \cup {Handler(l, c)}
        BY DEF SendRequest, SendAgain
      <3>2. g.phase = "arrived"
        BY <2>0, <3>1 DEF Handler
      <3> QED BY <1>2, <3>2 DEF MergedBy
    <2>4. handlers' # handlers
      BY <2>0
    <2> QED BY <2>1, <2>2, <2>3, <2>4, EndSteps DEF ReportsNext, reportVars
  <1> QED BY <1>1, <1>2 DEF Through, MergedBy

\* What the records of a step are before its last one is merged and after.
LEMMA FinalStep ==
    ASSUME TypeInv, PositionInv, RequestInv, GivenInv, OutcomeInv, AloneInv, FinalInv,
           [ReportsNext]_reportVars
    PROVE  FinalInv'
  <1> SUFFICES ASSUME NEW j \in ReportJobs, OnTime(j)', NEW k \in DOMAIN Script[j],
                      NEW i \in DOMAIN Script[j][k].recs, LastOf(Script[j], k, i), Through(j, k, i)'
               PROVE  InTimeline(j, Record(j, Script[j][k].recs[i][1], "Completed"))'
    BY DEF FinalInv
  <1> DEFINE s   == Script[j][k].recs[i][1]
             rec == Record(j, s, "Completed")
  <1>0. OnTime(j) /\ outcome' = outcome
    BY OutcomeStep
  <1>1. /\ \A h \in handlers : h.job = j =>
             h.at = position[j] /\ Current(h) /\ \A g \in handlers : g.job = j => g = h
        /\ Through(j, k, i) => InTimeline(j, rec)
    BY <1>0 DEF AloneInv, FinalInv
  <1>2. /\ s \in StepIds /\ Script[j][k].recs[i] = <<s, "Completed">>
        /\ DOMAIN Script[j] \subseteq Nat /\ k \in Nat /\ i \in Nat /\ position[j] \in Nat
    <2>1. Script[j][k].recs \in Seq(StepIds \X States) /\ DOMAIN Script[j] \subseteq Nat
      BY ScriptFacts
    <2>2. Script[j][k].recs[i] \in StepIds \X States /\ i \in Nat
      BY <2>1
    <2> QED BY <2>1, <2>2 DEF LastOf, TypeInv
  <1>3. rec.id = s
    BY DEF Record
  <1>4. logOf'[j][s] = logOf[j][s]
    <2>1. CASE UNCHANGED logOf
      BY <2>1
    <2>2. ASSUME NEW h \in handlers, AnswerRequest(h), Kind(h) = "open", h.at = position[h.job],
                 position' = [position EXCEPT ![h.job] = @ + 1],
                 logOf' = [logOf EXCEPT ![h.job][Script[h.job][h.at].step] = h.log],
                 h.job = j, Script[h.job][h.at].step = s
          PROVE  FALSE
      <3>1. h.at \in DOMAIN Script[j] /\ h.at < k
        BY <2>2, HandlerFacts DEF LastOf, Kind
      <3>2. ~ (k < position'[j])
        BY <1>2, <2>2, <3>1 DEF TypeInv
      <3>3. \A g \in handlers' : g.job # j
        BY <1>1, <2>2 DEF AnswerRequest
      <3> QED BY <3>2, <3>3 DEF Through
    <2>3. logOf \in [ReportJobs -> [StepIds -> LogIds]]
      BY DEF TypeInv
    <2>4. ASSUME NEW h \in handlers, AnswerRequest(h), Kind(h) = "open", h.at = position[h.job],
                 position' = [position EXCEPT ![h.job] = @ + 1],
                 logOf' = [logOf EXCEPT ![h.job][Script[h.job][h.at].step] = h.log]
          PROVE  logOf'[j][s] = logOf[j][s]
      <3>1. h.job # j \/ Script[h.job][h.at].step # s
        BY <2>2, <2>4
      <3>2. h.job \in ReportJobs
        BY HandlerFacts
      <3> HIDE DEF s
      <3> QED BY <1>2, <2>3, <2>4, <3>1, <3>2
    <2> QED BY <2>1, <2>4, GivenStays
  <1>5. Record(j, s, "Completed")' = rec
    BY <1>0, <1>4 DEF Record
  <1>6. CASE Through(j, k, i)
    <2>1. PICK n \in DOMAIN timelines[j] : timelines[j][n] = rec
      BY <1>1, <1>6 DEF InTimeline
    <2>2. CASE timelines'[j] = timelines[j]
      BY <1>5, <2>1, <2>2 DEF InTimeline
    <2>3. ASSUME NEW h \in handlers, h.job = j, h.phase = "merge", h.next \in DOMAIN h.recs,
                 h.recs[h.next] \in NewRecord, timelines[h.job] \in Seq(NewRecord),
                 timelines'[h.job] = Merged(timelines[h.job], h.recs[h.next])
          PROVE  InTimeline(j, Record(j, s, "Completed"))'
      <3>1. h.at = position[j] /\ \A g \in handlers : g.job = j => g = h
        BY <1>1, <2>3
      <3>2. /\ h.at \in DOMAIN Script[j] /\ h.recs[h.next].id = Script[j][h.at].recs[h.next][1]
            /\ h.next \in DOMAIN Script[j][h.at].recs /\ h.next \in Nat
        <4>1. Proper(h) /\ h.recs \in Seq(NewRecord) /\ h.at \in DOMAIN Script[j] /\ h.next \in Nat
          BY <2>3, HandlerFacts DEF RequestInv
        <4>2. /\ Len(h.recs) = Len(Script[j][h.at].recs) /\ Script[j][h.at].recs \in Seq(StepIds \X States)
              /\ \A n1 \in DOMAIN h.recs : h.recs[n1].id = Script[j][h.at].recs[n1][1]
          BY <2>3, <4>1, ScriptFacts DEF Proper
        <4>3. DOMAIN h.recs = DOMAIN Script[j][h.at].recs
          BY <4>1, <4>2
        <4> QED BY <2>3, <4>1, <4>2, <4>3
      <3>3. h.recs[h.next].id # s
        <4> SUFFICES ASSUME Script[j][h.at].recs[h.next][1] = s PROVE FALSE
          BY <3>2
        <4>1. h.at < k \/ (h.at = k /\ h.next <= i)
          BY <3>2 DEF LastOf
        <4>2. \E g \in handlers : g.job = j /\ g.at = k /\ MergedBy(g, i)
          BY <1>2, <1>6, <3>1, <4>1 DEF Through
        <4>3. h.at = k /\ MergedBy(h, i)
          BY <3>1, <4>2
        <4> QED BY <1>2, <2>3, <3>2, <4>1, <4>3 DEF MergedBy
      <3>4. n \in DOMAIN timelines'[j] /\ timelines'[j][n] = rec
        BY <1>3, <2>1, <2>3, <3>3, MergedRecords
      <3> QED BY <1>5, <3>4 DEF InTimeline
    <2> QED BY <2>2, <2>3, TimelineMoves
  <1>7. CASE ~Through(j, k, i)
    <2>1. PICK h \in handlers : MergeRecord(h) /\ h.job = j /\ h.at = k /\ i = h.next
      BY <1>7, NewlyThrough
    <2>2. h.next <= Len(h.recs) /\ timelines' = [timelines EXCEPT ![j] = Merged(@, h.recs[h.next])]
      BY <2>1 DEF MergeRecord
    <2>3. h.next \in DOMAIN h.recs /\ h.recs[h.next] \in NewRecord
      BY <2>2, HandlerFacts
    <2>4. h.recs[h.next] = rec
      BY <1>1, <1>2, <2>1, <2>3 DEF Current
    <2>5. timelines \in [ReportJobs -> Seq(NewRecord)]
      BY DEF TypeInv
    <2>6. timelines'[j] = Merged(timelines[j], rec) /\ timelines[j] \in Seq(NewRecord) /\ rec \in NewRecord
      BY <2>2, <2>3, <2>4, <2>5
    <2>7. InTimeline(j, rec)'
      <3> HIDE DEF rec
      <3>1. \E n \in DOMAIN Merged(timelines[j], rec) : Merged(timelines[j], rec)[n] = rec
        BY <2>6, MergedRecords
      <3>2. \E n \in DOMAIN timelines'[j] : timelines'[j][n] = rec
        BY <2>6, <3>1
      <3> USE DEF rec
      <3> QED BY <1>5, <3>2 DEF InTimeline
    <2> QED BY <1>5, <2>7
  <1> QED BY <1>6, <1>7

-----------------------------------------------------------------------------
(* The lines of a step.                                                    *)

PostsStep(f, j, s) == f[0] = <<>> /\ \A k \in 1..Len(Script[j]) : f[k] = Added(f[k - 1], j, s, k)

LEMMA PostsSteps ==
    ASSUME NEW j, NEW s, Len(Script[j]) \in Nat, NEW f, Posts(f, j, s) PROVE PostsStep(f, j, s)
  <1>1. f = [k \in 0..Len(Script[j]) |-> IF k = 0 THEN <<>> ELSE Added(f[k - 1], j, s, k)]
    BY DEF Posts
  <1>2. \A k \in 0..Len(Script[j]) : f[k] = IF k = 0 THEN <<>> ELSE Added(f[k - 1], j, s, k)
    BY <1>1
  <1> QED BY <1>2 DEF PostsStep

LEMMA StepsPost ==
    ASSUME NEW j, NEW s, Len(Script[j]) \in Nat, NEW S, NEW f \in [0..Len(Script[j]) -> S], PostsStep(f, j, s)
    PROVE  Posts(f, j, s)
  BY DEF Posts, PostsStep

\* The definition of PostedLines defines it.
LEMMA PostedDefined ==
    ASSUME NEW j \in ReportJobs, NEW s \in StepIds
    PROVE  /\ PostedTo(j, s) \in [0..Len(Script[j]) -> Seq(Nat)]
           /\ PostsStep(PostedTo(j, s), j, s)
           /\ PostedLines(j, s) = PostedTo(j, s)[Len(Script[j])]
  <1> DEFINE N    == Len(Script[j])
             S    == Seq(Nat)
             step == [x \in S \X (1..N) |-> Added(x[1], j, s, x[2])]
  <1>1. N \in Nat /\ <<>> \in S
    BY ScriptFacts
  <1>2. step \in [S \X (1..N) -> S]
    <2>1. ASSUME NEW v \in S, NEW n \in 1..N PROVE Added(v, j, s, n) \in S
      <3>1. Script[j][n].lines \in Seq(Nat)
        BY ScriptFacts
      <3> QED BY <3>1 DEF Added
    <2> HIDE DEF S, N
    <2> QED BY <2>1
  <1>3. PICK f \in [0..N -> S] : Iterates(f, N, <<>>, step)
    <2> HIDE DEF N, S, step
    <2> QED BY <1>1, <1>2, Iterated
  <1>4. PostsStep(f, j, s)
    <2>1. f[0] = <<>>
      BY <1>3 DEF Iterates
    <2>2. ASSUME NEW n \in 1..N PROVE f[n] = Added(f[n - 1], j, s, n)
      <3>1. f[n - 1] \in S /\ <<f[n - 1], n>> \in S \X (1..N)
        <4> HIDE DEF N, S
        <4>1. n - 1 \in 0..N
          BY <1>1
        <4> QED BY <4>1
      <3>2. f[n] = step[<<f[n - 1], n>>]
        BY <1>3 DEF Iterates
      <3> QED BY <3>1, <3>2
    <2> QED BY <2>1, <2>2 DEF PostsStep
  <1>5. Posts(f, j, s)
    BY <1>1, <1>4, StepsPost
  <1>6. Posts(PostedTo(j, s), j, s)
    BY <1>5 DEF PostedTo
  <1>7. PostedLines(j, s) = PostedTo(j, s)[N]
    BY DEF PostedLines, PostedTo, Posts, Added
  <1>8. PostsStep(PostedTo(j, s), j, s)
    BY <1>1, <1>6, PostsSteps
  <1>9. PostedTo(j, s) \in [0..N -> S]
    <2> DEFINE P == PostedTo(j, s)
               T == {n \in 0..N : P[n] \in S}
    <2>0. P[0] = <<>>
      BY <1>8 DEF PostsStep
    <2>1. 0 \in T
      <3> HIDE DEF N, S, P
      <3>1. 0 \in 0..N /\ P[0] \in S
        BY <1>1, <2>0
      <3> QED BY <3>1
    <2>2. ASSUME NEW n \in 1..N, n - 1 \in T PROVE n \in T
      <3>1. P[n] = Added(P[n - 1], j, s, n)
        BY <1>8 DEF PostsStep
      <3>2. P[n - 1] \in S /\ Script[j][n].lines \in Seq(Nat)
        BY <2>2, ScriptFacts
      <3>3. P[n] \in S
        BY <3>1, <3>2 DEF Added
      <3> QED BY <1>1, <3>3
    <2> HIDE DEF T
    <2>3. \A n \in 0..N : n \in T
      BY <1>1, <2>1, <2>2, UpTo
    <2>4. \A n \in 0..N : P[n] \in S
      BY <2>3 DEF T
    <2>5. P = [n \in 0..N |-> IF n = 0 THEN <<>> ELSE Added(P[n - 1], j, s, n)]
      BY <1>6 DEF Posts
    <2> HIDE DEF P, S, N
    <2>6. P = [n \in 0..N |-> P[n]]
      BY <2>5
    <2> QED BY <2>4, <2>6 DEF P
  <1> QED BY <1>7, <1>8, <1>9

LEMMA NothingPosted ==
    ASSUME NEW j \in ReportJobs, NEW s \in StepIds, NEW n \in 0..Len(Script[j]),
           \A k \in 1..n : ~(Script[j][k].kind = "post" /\ Script[j][k].step = s)
    PROVE  PostedTo(j, s)[n] = <<>>
  <1> DEFINE P == PostedTo(j, s)
             T == {m \in 0..n : P[m] = <<>>}
  <1>1. Len(Script[j]) \in Nat /\ n \in Nat /\ PostsStep(P, j, s)
    BY ScriptFacts, PostedDefined
  <1>2. 0 \in T
    BY <1>1 DEF PostsStep
  <1>3. ASSUME NEW m \in 1..n, m - 1 \in T PROVE m \in T
    <2>1. P[m] = Added(P[m - 1], j, s, m)
      BY <1>1 DEF PostsStep
    <2> QED BY <1>1, <1>3, <2>1 DEF Added
  <1> HIDE DEF T
  <1>4. \A m \in 0..n : m \in T
    BY <1>1, <1>2, <1>3, UpTo
  <1>5. n \in T
    BY <1>1, <1>4
  <1> QED BY <1>5 DEF T

\* Lines are posted to a log that is open.
LEMMA PostsFollowOpen ==
    ASSUME NEW j \in ReportJobs, NEW k \in DOMAIN Script[j], NEW m \in DOMAIN Script[j],
           Script[j][k].kind = "post", Script[j][m].kind = "open", Script[j][k].step = Script[j][m].step
    PROVE  m < k
  <1>1. Len(Script[j]) \in Nat /\ DOMAIN Script[j] = 1..Len(Script[j]) /\ InOrder(Script[j])
    BY ScriptFacts
  <1>2. PICK n \in 1..(k - 1) : Script[j][n].kind = "open" /\ Script[j][n].step = Script[j][k].step
    BY <1>1 DEF InOrder
  <1>3. n \in DOMAIN Script[j] /\ n < k
    BY <1>1
  <1>4. n = m
    BY <1>2, <1>3, OpenedOnce
  <1> QED BY <1>3, <1>4

LEMMA MarkedFacts ==
    ASSUME NEW j \in ReportJobs, NEW s \in StepIds, NEW nums \in Seq(Nat)
    PROVE  /\ Marked(j, s, nums) \in Seq(Line) /\ Len(Marked(j, s, nums)) = Len(nums) /\ Len(nums) \in Nat
           /\ \A n \in 1..Len(nums) : Marked(j, s, nums)[n] = <<j, s, nums[n]>>
  <1>1. Len(nums) \in Nat /\ DOMAIN nums = 1..Len(nums) /\ \A n \in 1..Len(nums) : nums[n] \in Nat
    OBVIOUS
  <1>2. Marked(j, s, nums) = [n \in 1..Len(nums) |-> <<j, s, nums[n]>>]
    BY <1>1 DEF Marked
  <1>3. \A n \in 1..Len(nums) : <<j, s, nums[n]>> \in Line
    BY <1>1 DEF Line
  <1>4. [n \in 1..Len(nums) |-> <<j, s, nums[n]>>] \in Seq(Line)
    BY <1>1, <1>3
  <1> QED BY <1>1, <1>2, <1>4

LEMMA MarkedJoin ==
    ASSUME NEW j \in ReportJobs, NEW s \in StepIds, NEW a \in Seq(Nat), NEW b \in Seq(Nat)
    PROVE  Marked(j, s, a) \o Marked(j, s, b) = Marked(j, s, a \o b)
  <1>1. \A nums \in Seq(Nat) :
           /\ Marked(j, s, nums) \in Seq(Line) /\ Len(Marked(j, s, nums)) = Len(nums) /\ Len(nums) \in Nat
           /\ \A n \in 1..Len(nums) : Marked(j, s, nums)[n] = <<j, s, nums[n]>>
    BY MarkedFacts
  <1>2. /\ a \o b \in Seq(Nat) /\ Len(a \o b) = Len(a) + Len(b)
        /\ \A n \in 1..(Len(a) + Len(b)) : (a \o b)[n] = IF n <= Len(a) THEN a[n] ELSE b[n - Len(a)]
    BY ConcatProperties
  <1>3. PICK one, two, all : one = Marked(j, s, a) /\ two = Marked(j, s, b) /\ all = Marked(j, s, a \o b)
    OBVIOUS
  <1>4. /\ one \in Seq(Line) /\ Len(one) = Len(a) /\ \A n \in 1..Len(a) : one[n] = <<j, s, a[n]>>
        /\ two \in Seq(Line) /\ Len(two) = Len(b) /\ \A n \in 1..Len(b) : two[n] = <<j, s, b[n]>>
        /\ Len(a) \in Nat /\ Len(b) \in Nat
    BY <1>1, <1>3
  <1>5. /\ all \in Seq(Line) /\ Len(all) = Len(a) + Len(b)
        /\ \A n \in 1..(Len(a) + Len(b)) : all[n] = <<j, s, IF n <= Len(a) THEN a[n] ELSE b[n - Len(a)]>>
    BY <1>1, <1>2, <1>3
  <1>6. one \in Seq(Line) /\ two \in Seq(Line)
    BY <1>4
  <1>7. /\ one \o two \in Seq(Line) /\ Len(one \o two) = Len(one) + Len(two)
        /\ \A n \in 1..(Len(one) + Len(two)) :
              (one \o two)[n] = IF n <= Len(one) THEN one[n] ELSE two[n - Len(one)]
    BY <1>6, ConcatProperties
  <1>8. ASSUME NEW n \in 1..(Len(a) + Len(b)) PROVE (one \o two)[n] = all[n]
    <2>1. CASE n <= Len(a)
      <3>1. (one \o two)[n] = one[n]
        BY <1>4, <1>7, <2>1
      <3>2. n \in 1..Len(a) /\ one[n] = <<j, s, a[n]>>
        BY <1>4, <2>1
      <3>3. all[n] = <<j, s, a[n]>>
        BY <1>5, <2>1
      <3> QED BY <3>1, <3>2, <3>3
    <2>2. CASE ~(n <= Len(a))
      <3>1. n - Len(a) \in 1..Len(b)
        BY <1>4, <2>2
      <3> QED BY <1>4, <1>5, <1>7, <2>2, <3>1
    <2> QED BY <2>1, <2>2
  <1>9. one \o two = all
    BY <1>4, <1>5, <1>7, <1>8, SeqEqual
  <1> QED BY <1>3, <1>9

LEMMA MarkedAdds ==
    ASSUME NEW j \in ReportJobs, NEW k \in DOMAIN Script[j], Script[j][k].kind = "post",
           NEW nums \in Seq(Nat)
    PROVE  Marked(j, Script[j][k].step, nums) \o Posted(j, k)
             = Marked(j, Script[j][k].step, Added(nums, j, Script[j][k].step, k))
  <1>1. Script[j][k].lines \in Seq(Nat) /\ Script[j][k].step \in StepIds
    BY ScriptFacts DEF InOrder
  <1>2. Posted(j, k) = Marked(j, Script[j][k].step, Script[j][k].lines)
    BY DEF Posted, Marked
  <1>3. Added(nums, j, Script[j][k].step, k) = nums \o Script[j][k].lines
    BY DEF Added
  <1>4. Marked(j, Script[j][k].step, nums) \o Marked(j, Script[j][k].step, Script[j][k].lines)
          = Marked(j, Script[j][k].step, nums \o Script[j][k].lines)
    BY <1>1, MarkedJoin
  <1> QED BY <1>2, <1>3, <1>4

\* Another request's lines are none of the step's.
LEMMA PostedFrom ==
    ASSUME NEW j \in ReportJobs, NEW s \in StepIds, NEW k \in DOMAIN Script[j]
    PROVE  PostedTo(j, s)[k] = Added(PostedTo(j, s)[k - 1], j, s, k)
  BY PostedDefined, ScriptFacts DEF PostsStep

\* The log of a step is given out empty.
LEMMA GivenEmpty ==
    ASSUME TypeInv, RequestInv, IdInv, LineInv, NEW h \in handlers, h.phase = "answer", Kind(h) = "open"
    PROVE  logs[LogFor(h.job)][h.log] = <<>>
  <1>1. h.job \in ReportJobs /\ h.log \in LogIds /\ LogFor(h.job) \in LogKeys
    BY HandlerFacts
  <1>2. logs[LogFor(h.job)][h.log] \in Seq(Line)
    BY <1>1 DEF TypeInv
  <1>3. ASSUME NEW n \in DOMAIN logs[LogFor(h.job)][h.log] PROVE FALSE
    <2>1. logs[LogFor(h.job)][h.log][n] \in Line
      BY <1>2
    <2>2. PICK l : l = logs[LogFor(h.job)][h.log][n]
      OBVIOUS
    <2>3. l[2] \in StepIds /\ logOf[h.job][l[2]] = h.log
      BY <1>1, <2>1, <2>2 DEF LineInv, Line
    <2> QED BY <2>3 DEF IdInv
  <1>4. PICK log : log = logs[LogFor(h.job)][h.log]
    OBVIOUS
  <1>5. log \in Seq(Line) /\ DOMAIN log = {}
    BY <1>2, <1>3, <1>4
  <1>6. Len(log) = 0
    BY <1>5
  <1> QED BY <1>4, <1>5, <1>6

LEMMA WholeStep ==
    ASSUME TypeInv, PositionInv, RequestInv, GivenInv, IdInv, LineInv, OutcomeInv, AloneInv, WholeInv,
           [ReportsNext]_reportVars
    PROVE  WholeInv'
  <1> SUFFICES ASSUME NEW j \in ReportJobs, OnTime(j)', NEW s \in StepIds, logOf'[j][s] # 0
               PROVE  logs'[LogFor(j)][logOf'[j][s]] = Marked(j, s, PostedTo(j, s)[Stored(j)'])
    BY RouteStays DEF WholeInv, LogFor
  <1>0. OnTime(j)
    BY OutcomeStep
  <1>1. /\ \A h \in handlers : h.job = j =>
             h.at = position[j] /\ \A g \in handlers : g.job = j => g = h
        /\ logOf[j][s] # 0 => logs[LogFor(j)][logOf[j][s]] = Marked(j, s, PostedTo(j, s)[Stored(j)])
    BY <1>0 DEF AloneInv, WholeInv
  <1>2. position \in [ReportJobs -> Nat] /\ logOf \in [ReportJobs -> [StepIds -> LogIds]]
        /\ logs \in [LogKeys -> [LogIds -> Seq(Line)]] /\ LogFor(j) \in LogKeys
    BY DEF TypeInv, LogFor, LogKeys
  <1>3. \A h \in handlers : h.job = j =>
           Stored(j) = IF Kind(h) = "post" /\ h.phase = "answer" THEN position[j] ELSE position[j] - 1
    BY <1>1 DEF Stored
  <1>4. ASSUME logs' = logs, logOf'[j] = logOf[j], Stored(j)' = Stored(j)
        PROVE  logs'[LogFor(j)][logOf'[j][s]] = Marked(j, s, PostedTo(j, s)[Stored(j)'])
    BY <1>1, <1>4
  <1>5. ASSUME NEW h \in handlers, AnswerRequest(h)
        PROVE  logs'[LogFor(j)][logOf'[j][s]] = Marked(j, s, PostedTo(j, s)[Stored(j)'])
    <2>0. logs' = logs /\ handlers' = handlers \ {h} /\ h.phase = "answer" /\ h.job \in ReportJobs
      BY <1>5, HandlerFacts DEF AnswerRequest, serverVars
    <2>1. CASE h.job # j
      <3>1. position'[j] = position[j] /\ logOf'[j] = logOf[j]
        BY <1>2, <1>5, <2>0, <2>1 DEF AnswerRequest
      <3>2. Stored(j)' = Stored(j)
        BY <2>0, <2>1, <3>1 DEF Stored, Kind
      <3> QED BY <1>4, <2>0, <3>1, <3>2
    <2>2. CASE h.job = j
      <3>1. h.at = position[j] /\ awaiting[j] /\ h.at \in DOMAIN Script[j]
        BY <1>1, <2>2, HandlerFacts DEF RequestInv, Proper
      <3>2. position'[j] = position[j] + 1
        BY <1>2, <1>5, <2>2, <3>1 DEF AnswerRequest
      <3>3. \A g \in handlers' : g.job # j
        BY <1>1, <2>0, <2>2
      <3>4. Stored(j)' = position[j]
        BY <1>2, <3>2, <3>3 DEF Stored
      <3>5. CASE Kind(h) = "post"
        <4>1. logOf' = logOf /\ Stored(j) = position[j]
          BY <1>3, <1>5, <2>0, <2>2, <3>5 DEF AnswerRequest, Kind
        <4> QED BY <1>4, <2>0, <3>4, <4>1
      <3>6. CASE Kind(h) # "post"
        <4>1. Stored(j) = position[j] - 1
          BY <1>3, <2>2, <3>6
        <4>2. PostedTo(j, s)[position[j]] = PostedTo(j, s)[position[j] - 1]
          BY <2>2, <3>1, <3>6, PostedFrom DEF Added, Kind
        <4>3. CASE logOf'[j][s] = logOf[j][s]
          BY <1>1, <2>0, <3>4, <4>1, <4>2, <4>3
        <4>4. CASE logOf'[j][s] # logOf[j][s]
          <5>1. Kind(h) = "open" /\ Script[j][h.at].step = s /\ logOf'[j][s] = h.log
            <6>1. /\ Kind(h) = "open"
                  /\ logOf' = [logOf EXCEPT ![j][Script[j][h.at].step] = h.log]
              BY <1>5, <2>2, <4>4 DEF AnswerRequest, Kind
            <6> QED BY <1>2, <4>4, <6>1
          <5>2. logs[LogFor(j)][h.log] = <<>>
            BY <2>0, <2>2, <5>1, GivenEmpty
          <5>3. \A k \in 1..position[j] : ~(Script[j][k].kind = "post" /\ Script[j][k].step = s)
            <6> SUFFICES ASSUME NEW k \in 1..position[j], Script[j][k].kind = "post", Script[j][k].step = s
                         PROVE  FALSE
              OBVIOUS
            <6>1. k \in DOMAIN Script[j] /\ position[j] \in Nat
              BY <1>2, <3>1, ScriptFacts
            <6>2. h.at < k
              BY <2>2, <3>1, <5>1, <6>1, PostsFollowOpen DEF Kind
            <6> QED BY <3>1, <6>1, <6>2
          <5>4. position[j] \in 0..Len(Script[j])
            BY <1>2, <3>1, ScriptFacts
          <5>5. PostedTo(j, s)[position[j]] = <<>>
            BY <5>3, <5>4, NothingPosted
          <5>6. Marked(j, s, <<>>) = <<>>
            BY DEF Marked
          <5> QED BY <2>0, <3>4, <5>1, <5>2, <5>5, <5>6
        <4> QED BY <4>3, <4>4
      <3> QED BY <3>5, <3>6
    <2> QED BY <2>1, <2>2
  <1>6. ASSUME NEW h \in handlers, HandlerStep(h), ~AnswerRequest(h)
        PROVE  logs'[LogFor(j)][logOf'[j][s]] = Marked(j, s, PostedTo(j, s)[Stored(j)'])
    <2>0. position' = position /\ logOf' = logOf /\ h.phase # "answer"
      BY <1>6, HandlerMoves DEF runnerVars
    <2>1. PICK g : /\ Moved(h, g) /\ g.job = h.job /\ g.at = h.at
                   /\ g.phase = "answer" /\ Kind(h) = "post" => AppendLines(h)
                   /\ AppendLines(h) => g.phase = "answer"
      BY <1>6, HandlerMoves
    <2>2. handlers' = (handlers \ {h}) \cup {g} /\ Kind(g) = Kind(h)
      BY <2>1 DEF Moved, Kind
    <2>3. h.job # j \/ ~AppendLines(h) => Stored(j)' = Stored(j)
      <3> SUFFICES ASSUME h.job # j \/ ~AppendLines(h) PROVE Stored(j)' = Stored(j)
        OBVIOUS
      <3>1. ~(g.job = j /\ Kind(g) = "post" /\ g.phase = "answer")
        BY <2>1, <2>2
      <3>2. (\E e \in handlers' : e.job = j /\ Kind(e) = "post" /\ e.phase = "answer")
              <=> \E e \in handlers : e.job = j /\ Kind(e) = "post" /\ e.phase = "answer"
        BY <2>0, <2>2, <3>1
      <3> QED BY <2>0, <3>2 DEF Stored, Kind
    <2>4. CASE ~AppendLines(h)
      <3>1. logs' = logs
        BY <1>6, <2>4 DEF HandlerStep, LockTimeline, MergeRecord, UnlockTimeline, Notify, EndNotify,
                          OpenLog, ReadBody, serverVars
      <3> QED BY <1>4, <2>0, <2>3, <2>4, <3>1
    <2>5. CASE AppendLines(h)
      <3>0. /\ logs' = [logs EXCEPT ![LogKey(h)][h.log] = @ \o Posted(h.job, h.at)]
            /\ h.phase = "body"
        BY <2>5 DEF AppendLines
      <3>1. /\ h.job \in ReportJobs /\ h.at \in DOMAIN Script[h.job] /\ h.log \in LogIds
            /\ LogKey(h) = LogFor(h.job) /\ Kind(h) = "post" /\ Script[h.job][h.at].step \in StepIds
            /\ h.log = logOf[h.job][Script[h.job][h.at].step]
        <4>1. Kind(h) = "post"
          BY <3>0 DEF RequestInv, Proper
        <4> QED BY <4>1, HandlerFacts DEF GivenInv
      <3>2. CASE h.job # j
        <4>1. LogFor(h.job) # LogFor(j)
          BY <3>2 DEF LogFor
        <4>2. logs'[LogFor(j)] = logs[LogFor(j)]
          BY <1>2, <3>0, <3>1, <4>1, Zenon
        <4> QED BY <1>1, <2>0, <2>3, <3>2, <4>2
      <3>3. CASE h.job = j
        <4>1. Stored(j) = position[j] - 1 /\ h.at = position[j]
          BY <1>1, <1>3, <3>0, <3>3
        <4>2. Stored(j)' = position[j]
          <5>1. g \in handlers' /\ g.job = j /\ Kind(g) = "post" /\ g.phase = "answer"
            BY <2>1, <2>2, <2>5, <3>1, <3>3
          <5> QED BY <2>0, <5>1 DEF Stored, Kind
        <4>3. PostedTo(j, s)[position[j]] = Added(PostedTo(j, s)[position[j] - 1], j, s, position[j])
          BY <3>1, <3>3, <4>1, PostedFrom
        <4>4. CASE Script[j][h.at].step = s
          <5>1. logs[LogFor(j)][h.log] = Marked(j, s, PostedTo(j, s)[position[j] - 1])
            BY <1>1, <2>0, <3>1, <3>3, <4>1, <4>4
          <5>2. logs'[LogFor(j)][h.log] = logs[LogFor(j)][h.log] \o Posted(j, h.at)
            BY <1>2, <3>0, <3>1, <3>3, Zenon
          <5>3. PostedTo(j, s)[position[j] - 1] \in Seq(Nat)
            <6>1. position[j] - 1 \in 0..Len(Script[j])
              BY <1>2, <3>1, <3>3, <4>1, ScriptFacts
            <6> QED BY <6>1, PostedDefined
          <5>4. Marked(j, s, PostedTo(j, s)[position[j] - 1]) \o Posted(j, h.at)
                  = Marked(j, s, PostedTo(j, s)[position[j]])
            <6>1. PICK nums \in Seq(Nat) : nums = PostedTo(j, s)[position[j] - 1]
              BY <5>3
            <6>2. h.at \in DOMAIN Script[j] /\ Script[j][h.at].kind = "post"
              BY <3>1, <3>3 DEF Kind
            <6>3. Marked(j, Script[j][h.at].step, nums) \o Posted(j, h.at)
                    = Marked(j, Script[j][h.at].step, Added(nums, j, Script[j][h.at].step, h.at))
              BY <6>2, MarkedAdds
            <6> QED BY <4>1, <4>3, <4>4, <6>1, <6>3
          <5> QED BY <2>0, <3>1, <3>3, <4>2, <4>4, <5>1, <5>2, <5>4
        <4>5. CASE Script[j][h.at].step # s
          <5>1. h.log # logOf[j][s]
            BY <2>0, <3>1, <3>3, <4>5 DEF IdInv
          <5>2. logs'[LogFor(j)][logOf[j][s]] = logs[LogFor(j)][logOf[j][s]]
            BY <1>2, <3>0, <3>1, <3>3, <5>1, Zenon
          <5>3. PostedTo(j, s)[position[j]] = PostedTo(j, s)[position[j] - 1]
            BY <4>1, <4>3, <4>5 DEF Added
          <5> QED BY <1>1, <2>0, <4>1, <4>2, <5>2, <5>3
        <4> QED BY <4>4, <4>5
      <3> QED BY <3>2, <3>3
    <2> QED BY <2>4, <2>5
  <1>7. ASSUME NEW i \in ReportJobs, SendRequest(i) \/ SendAgain(i)
        PROVE  logs'[LogFor(j)][logOf'[j][s]] = Marked(j, s, PostedTo(j, s)[Stored(j)'])
    <2>1. PICK c \in {1, 2} : handlers' = handlers \cup {Handler(i, c)}
      BY <1>7 DEF SendRequest, SendAgain
    <2>2. logs' = logs /\ logOf' = logOf /\ position' = position
      BY <1>7 DEF SendRequest, SendAgain, serverVars
    <2>3. PICK g : g = Handler(i, c)
      OBVIOUS
    <2>4. g.phase = "arrived"
      BY <2>3 DEF Handler
    <2>5. Stored(j)' = Stored(j)
      BY <2>1, <2>2, <2>3, <2>4 DEF Stored, Kind
    <2> QED BY <1>4, <2>2, <2>5
  <1>8. ASSUME UNCHANGED <<runnerVars, handlers, serverVars>>
        PROVE  logs'[LogFor(j)][logOf'[j][s]] = Marked(j, s, PostedTo(j, s)[Stored(j)'])
    BY <1>4, <1>8 DEF runnerVars, serverVars, Stored, Kind
  <1> QED BY <1>5, <1>6, <1>7, <1>8, EndSteps DEF ReportsNext, reportVars

-----------------------------------------------------------------------------
(* What is shown of the failures.                                          *)

\* Something else than a failure is shown of i.
LEMMA NoFailureSaid ==
    ASSUME TypeInv, NEW i \in ReportJobs, NEW what, NEW s, NEW detail,
           shown' = Said(i, what, s, detail), what # "FAILED"
    PROVE  \A j \in ReportJobs :
              /\ \A n \in DOMAIN shown'[j] : IsFailure(j, n)' =>
                    n \in DOMAIN shown[j] /\ IsFailure(j, n) /\ shown'[j][n] = shown[j][n]
              /\ \A n \in DOMAIN shown[j] : n \in DOMAIN shown'[j] /\ shown'[j][n] = shown[j][n]
              /\ j # i => shown'[j] = shown[j]
  <1> TAKE j \in ReportJobs
  <1>1. CASE j # i
    <2>1. shown'[j] = shown[j]
      BY <1>1, SaidFacts
    <2> QED BY <1>1, <2>1 DEF IsFailure
  <1>2. CASE j = i
    <2>1. /\ Len(shown[j]) \in Nat /\ DOMAIN shown[j] = 1..Len(shown[j])
          /\ DOMAIN shown'[j] = 1..(Len(shown[j]) + 1)
          /\ \A n \in DOMAIN shown[j] : shown'[j][n] = shown[j][n]
          /\ shown'[j][Len(shown[j]) + 1].what = what
      BY <1>2, SaidFacts
    <2>2. \A n \in DOMAIN shown'[j] : n \in DOMAIN shown[j] \/ n = Len(shown[j]) + 1
      BY <2>1
    <2>3. \A n \in DOMAIN shown[j] : n \in DOMAIN shown'[j]
      BY <2>1
    <2> QED BY <1>2, <2>1, <2>2, <2>3 DEF IsFailure
  <1> QED BY <1>1, <1>2

\* Failures are shown as they were.
SameFailures(j) ==
    /\ \A n \in DOMAIN shown'[j] : IsFailure(j, n)' =>
          n \in DOMAIN shown[j] /\ IsFailure(j, n) /\ shown'[j][n] = shown[j][n]
    /\ \A n \in DOMAIN shown[j] : n \in DOMAIN shown'[j] /\ shown'[j][n] = shown[j][n]

LEMMA ShownOfStays ==
    ASSUME NEW j \in ReportJobs, SameFailures(j), ShownOf(j), scanned'[j] = scanned[j],
           timelines'[j] = timelines[j], logs'[<<j, "v1">>] = logs[<<j, "v1">>]
    PROVE  ShownOf(j)'
  <1>1. ASSUME NEW i \in DOMAIN shown'[j], IsFailure(j, i)'
        PROVE  \E n \in 1..scanned'[j] :
                  /\ timelines'[j][n].result = "failed" /\ timelines'[j][n].id = shown'[j][i].step
                  /\ shown'[j][i].detail = LastLines(LinesOf(j, timelines[j][n])')
    <2>1. i \in DOMAIN shown[j] /\ IsFailure(j, i) /\ shown'[j][i] = shown[j][i]
      BY <1>1 DEF SameFailures
    <2>2. PICK n \in 1..scanned[j] :
             /\ timelines[j][n].result = "failed" /\ timelines[j][n].id = shown[j][i].step
             /\ shown[j][i].detail = LastLines(LinesOf(j, timelines[j][n]))
      BY <2>1 DEF ShownOf
    <2>3. LinesOf(j, timelines[j][n])' = LinesOf(j, timelines[j][n])
      BY DEF LinesOf
    <2> QED BY <2>1, <2>2, <2>3
  <1>2. ASSUME NEW n \in 1..scanned'[j], timelines'[j][n].result = "failed"
        PROVE  \E i \in DOMAIN shown'[j] : IsFailure(j, i)' /\ shown'[j][i].step = timelines'[j][n].id
    <2>1. PICK i \in DOMAIN shown[j] : IsFailure(j, i) /\ shown[j][i].step = timelines[j][n].id
      BY <1>2 DEF ShownOf
    <2> QED BY <2>1 DEF SameFailures, IsFailure
  <1>3. ASSUME NEW a \in DOMAIN shown'[j], NEW b \in DOMAIN shown'[j], IsFailure(j, a)', IsFailure(j, b)',
               shown'[j][a].step = shown'[j][b].step
        PROVE  a = b
    BY <1>3 DEF SameFailures, ShownOf
  <1>4. scanned'[j] <= Len(timelines'[j])
    BY DEF ShownOf
  <1> QED BY <1>1, <1>2, <1>3, <1>4 DEF ShownOf

\* Nothing changes of the end of j, or it is not settled and no failure is shown.
LEMMA EndFrame ==
    ASSUME NEW j \in ReportJobs, EndOf(j), SameFailures(j),
           jobEnd'[j] = jobEnd[j], scanned'[j] = scanned[j],
           position[j] \in Nat, Len(Script[j]) \in Nat,
           position'[j] = position[j] \/ (position'[j] = position[j] + 1 /\ awaiting[j]),
           awaiting'[j] => awaiting[j] \/ jobEnd[j] = "running",
           OnTime(j)' => OnTime(j),
           Settled(j) => timelines'[j] = timelines[j] /\ logs'[<<j, "v1">>] = logs[<<j, "v1">>]
    PROVE  EndOf(j)'
  <1>1. Settled(j)' => Settled(j)
    <2> SUFFICES ASSUME OnTime(j), position'[j] > Len(Script[j]), jobEnd[j] \in {"reporting", "failure"},
                        ~(position[j] > Len(Script[j]))
                 PROVE  FALSE
      BY DEF Settled
    <2>1. awaiting[j] /\ position[j] <= Len(Script[j])
      OBVIOUS
    <2> QED BY <2>1 DEF EndOf
  <1>2. jobEnd'[j] \notin {"reporting", "failure"} => \A i \in DOMAIN shown'[j] : ~IsFailure(j, i)'
    BY DEF EndOf, SameFailures
  <1>3. jobEnd'[j] = "running" => scanned'[j] = 0
    BY DEF EndOf
  <1>4. jobEnd'[j] = "reporting" => position'[j] > Len(Script[j])
    BY DEF EndOf
  <1>5. jobEnd'[j] = "failure" /\ position'[j] <= Len(Script[j]) => ~awaiting'[j]
    BY DEF EndOf
  <1>6. Settled(j)' => ShownOf(j)'
    BY <1>1, ShownOfStays DEF EndOf
  <1>7. Settled(j)' /\ jobEnd'[j] = "failure" => scanned'[j] = Len(timelines'[j]) \/ Len(Script[j]) = 0
    BY <1>1 DEF EndOf
  <1> QED BY <1>2, <1>3, <1>4, <1>5, <1>6, <1>7 DEF EndOf

\* One more record is looked at.
LEMMA ReportEnd ==
    ASSUME TypeInv, TimelineInv, NEW j \in ReportJobs, EndOf(j), OnTime(j)' => OnTime(j), ReportStep(j)
    PROVE  EndOf(j)'
  <1>0. PICK n, N, rec : n = scanned[j] + 1 /\ N = Len(shown[j]) + 1 /\ rec = timelines[j][n]
    OBVIOUS
  <1>1. /\ jobEnd[j] = "reporting" /\ scanned[j] < Len(timelines[j])
        /\ scanned'[j] = n /\ n \in Nat /\ scanned[j] \in Nat
        /\ UNCHANGED <<jobEnd, late, position, awaiting, timelines, logs>>
        /\ shown' = IF rec.result = "failed"
                    THEN Said(j, "FAILED", rec.id, LastLines(LinesOf(j, rec))) ELSE shown
    BY <1>0 DEF ReportStep, TypeInv, runnerVars, serverVars
  <1>2. position[j] > Len(Script[j])
    BY <1>1 DEF EndOf
  <1>3. Len(timelines[j]) \in Nat /\ DOMAIN timelines[j] = 1..Len(timelines[j]) /\ n \in DOMAIN timelines[j]
        /\ n <= Len(timelines[j])
    <2>1. timelines[j] \in Seq(NewRecord)
      BY DEF TypeInv
    <2> QED BY <1>0, <1>1, <2>1
  <1>4. \A m \in 1..n : m \in 1..scanned[j] \/ m = n
    BY <1>0, <1>1
  <1>5. \A m \in 1..scanned[j] : m \in 1..n /\ m \in DOMAIN timelines[j] /\ m # n
    BY <1>0, <1>1, <1>3
  <1>6. \A a, b \in DOMAIN timelines[j] : timelines[j][a].id = timelines[j][b].id => a = b
    BY DEF TimelineInv, Distinct
  <1>7. \A m : LinesOf(j, timelines[j][m])' = LinesOf(j, timelines[j][m])
    BY <1>1 DEF LinesOf
  <1> SUFFICES ASSUME Settled(j) PROVE ShownOf(j)'
    <2>1. Settled(j)' => Settled(j)
      BY <1>1 DEF Settled
    <2> QED BY <1>1, <1>2, <2>1 DEF EndOf
  <1>8. ShownOf(j)
    BY DEF EndOf
  <1>9. CASE rec.result # "failed"
    <2>1. shown' = shown
      BY <1>1, <1>9
    <2>2. ASSUME NEW i \in DOMAIN shown[j], IsFailure(j, i)
          PROVE  \E m \in 1..n :
                    /\ timelines[j][m].result = "failed" /\ timelines[j][m].id = shown[j][i].step
                    /\ shown[j][i].detail = LastLines(LinesOf(j, timelines[j][m]))
      BY <1>5, <1>8, <2>2 DEF ShownOf
    <2>3. ASSUME NEW m \in 1..n, timelines[j][m].result = "failed"
          PROVE  \E i \in DOMAIN shown[j] : IsFailure(j, i) /\ shown[j][i].step = timelines[j][m].id
      BY <1>0, <1>4, <1>8, <1>9, <2>3 DEF ShownOf
    <2>4. \A i : IsFailure(j, i)' <=> IsFailure(j, i)
      BY <2>1 DEF IsFailure
    <2>5. \A a, b \in DOMAIN shown[j] :
             IsFailure(j, a) /\ IsFailure(j, b) /\ shown[j][a].step = shown[j][b].step => a = b
      BY <1>8 DEF ShownOf
    <2> QED BY <1>1, <1>3, <1>7, <2>1, <2>2, <2>3, <2>4, <2>5 DEF ShownOf
  <1>10. CASE rec.result = "failed"
    <2>1. /\ Len(shown[j]) \in Nat /\ DOMAIN shown[j] = 1..Len(shown[j])
          /\ DOMAIN shown'[j] = 1..N
          /\ \A i \in DOMAIN shown[j] : shown'[j][i] = shown[j][i]
          /\ shown'[j][N].what = "FAILED" /\ shown'[j][N].step = rec.id
          /\ shown'[j][N].detail = LastLines(LinesOf(j, rec))
      <3>1. PICK what, id, detail :
               what = "FAILED" /\ id = rec.id /\ detail = LastLines(LinesOf(j, rec))
        OBVIOUS
      <3>2. shown' = Said(j, what, id, detail)
        BY <1>1, <1>10, <3>1
      <3>3. /\ Len(shown[j]) \in Nat /\ DOMAIN shown[j] = 1..Len(shown[j])
            /\ DOMAIN shown'[j] = 1..(Len(shown[j]) + 1)
            /\ \A i \in DOMAIN shown[j] : shown'[j][i] = shown[j][i]
            /\ shown'[j][Len(shown[j]) + 1].what = what /\ shown'[j][Len(shown[j]) + 1].step = id
            /\ shown'[j][Len(shown[j]) + 1].detail = detail
        BY <3>2, SaidFacts
      <3> QED BY <1>0, <3>1, <3>3
    <2>2. N \in DOMAIN shown'[j] /\ IsFailure(j, N)'
          /\ (\A i \in DOMAIN shown'[j] : i \in DOMAIN shown[j] \/ i = N)
          /\ \A i \in DOMAIN shown[j] : i \in DOMAIN shown'[j]
      BY <1>0, <2>1 DEF IsFailure
    <2>3. \A i \in DOMAIN shown[j] : IsFailure(j, i)' <=> IsFailure(j, i)
      BY <2>1 DEF IsFailure
    <2>4. ASSUME NEW i \in DOMAIN shown'[j], IsFailure(j, i)'
          PROVE  \E m \in 1..n :
                    /\ timelines[j][m].result = "failed" /\ timelines[j][m].id = shown'[j][i].step
                    /\ shown'[j][i].detail = LastLines(LinesOf(j, timelines[j][m]))
      <3>1. CASE i \in DOMAIN shown[j]
        <4>1. PICK m \in 1..scanned[j] :
                 /\ timelines[j][m].result = "failed" /\ timelines[j][m].id = shown[j][i].step
                 /\ shown[j][i].detail = LastLines(LinesOf(j, timelines[j][m]))
          BY <1>8, <2>3, <2>4, <3>1 DEF ShownOf
        <4> QED BY <1>5, <2>1, <3>1, <4>1
      <3>2. CASE i = N
        <4>1. n \in 1..n
          BY <1>0, <1>1
        <4> QED BY <1>0, <1>10, <2>1, <3>2, <4>1
      <3> QED BY <2>2, <3>1, <3>2
    <2>5. ASSUME NEW m \in 1..n, timelines[j][m].result = "failed"
          PROVE  \E i \in DOMAIN shown'[j] : IsFailure(j, i)' /\ shown'[j][i].step = timelines[j][m].id
      <3>1. CASE m = n
        BY <1>0, <2>1, <2>2, <3>1
      <3>2. CASE m # n
        <4>1. PICK i \in DOMAIN shown[j] : IsFailure(j, i) /\ shown[j][i].step = timelines[j][m].id
          BY <1>4, <1>8, <2>5, <3>2 DEF ShownOf
        <4> QED BY <2>1, <2>2, <2>3, <4>1
      <3> QED BY <3>1, <3>2
    <2>6. ASSUME NEW i \in DOMAIN shown[j], IsFailure(j, i), shown[j][i].step = rec.id PROVE FALSE
      <3>1. PICK m \in 1..scanned[j] : timelines[j][m].id = shown[j][i].step
        BY <1>8, <2>6 DEF ShownOf
      <3> QED BY <1>0, <1>3, <1>5, <1>6, <2>6, <3>1
    <2>7. ASSUME NEW a \in DOMAIN shown'[j], NEW b \in DOMAIN shown'[j], IsFailure(j, a)', IsFailure(j, b)',
                 shown'[j][a].step = shown'[j][b].step
          PROVE  a = b
      <3>1. CASE a \in DOMAIN shown[j] /\ b \in DOMAIN shown[j]
        BY <1>8, <2>1, <2>3, <2>7, <3>1 DEF ShownOf
      <3>2. CASE a = N \/ b = N
        BY <2>1, <2>2, <2>3, <2>6, <2>7, <3>2
      <3> QED BY <2>2, <3>1, <3>2
    <2> QED BY <1>1, <1>3, <1>7, <2>4, <2>5, <2>7 DEF ShownOf
  <1> QED BY <1>9, <1>10

LEMMA EndHandler ==
    ASSUME TypeInv, PositionInv, RequestInv, OutcomeInv, AloneInv, [ReportsNext]_reportVars,
           NEW j \in ReportJobs, EndOf(j), NEW h \in handlers, HandlerStep(h)
    PROVE  EndOf(j)'
  <1>1. jobEnd' = jobEnd /\ scanned' = scanned
    BY Zenon DEF HandlerStep, LockTimeline, MergeRecord, UnlockTimeline, Notify, EndNotify, OpenLog,
           ReadBody, AppendLines, AnswerRequest, endVars
  <1>2. OnTime(j)' => OnTime(j)
    BY OutcomeStep
  <1>3. /\ position[j] \in Nat /\ Len(Script[j]) \in Nat /\ h.job \in ReportJobs
        /\ position \in [ReportJobs -> Nat] /\ awaiting \in [ReportJobs -> BOOLEAN]
        /\ timelines \in [ReportJobs -> Seq(NewRecord)] /\ logs \in [LogKeys -> [LogIds -> Seq(Line)]]
        /\ LogKey(h) = <<h.job, route>>
    BY ScriptFacts, HandlerFacts DEF TypeInv, LogKey
  <1>4. /\ position'[j] = position[j] \/ (position'[j] = position[j] + 1 /\ awaiting[j])
        /\ awaiting'[j] => awaiting[j]
    <2>1. CASE AnswerRequest(h)
      BY <1>3, <2>1 DEF AnswerRequest
    <2>2. CASE ~AnswerRequest(h)
      BY <2>2, HandlerMoves DEF runnerVars
    <2> QED BY <2>1, <2>2
  <1>5. SameFailures(j)
    <2>1. CASE shown' = shown
      BY <2>1 DEF SameFailures, IsFailure
    <2>2. CASE Notify(h) /\ shown' # shown
      <3>1. h.next <= Len(h.recs)
            /\ shown' = Said(h.job, h.recs[h.next].state, h.recs[h.next].id, <<h.recs[h.next].result>>)
        BY <2>2 DEF Notify, displayVars
      <3>2. h.recs[h.next] \in NewRecord
        BY <3>1, HandlerFacts
      <3>3. h.recs[h.next].state # "FAILED"
        BY <3>2 DEF NewRecord, States
      <3>4. PICK what, s, detail : shown' = Said(h.job, what, s, detail) /\ what # "FAILED"
        BY <3>1, <3>3
      <3> QED BY <1>3, <3>4, NoFailureSaid DEF SameFailures
    <2>3. ~Notify(h) => shown' = shown
      BY Zenon DEF HandlerStep, LockTimeline, MergeRecord, UnlockTimeline, EndNotify, OpenLog,
             ReadBody, AppendLines, AnswerRequest, displayVars
    <2> QED BY <2>1, <2>2, <2>3
  <1>6. Settled(j) => h.job # j
    <2> SUFFICES ASSUME Settled(j), h.job = j PROVE FALSE
      OBVIOUS
    <2>1. h.at = position[j]
      BY DEF Settled, AloneInv
    <2>2. h.at <= Len(Script[j])
      BY <2>1, HandlerFacts, ScriptFacts
    <2> QED BY <1>3, <2>1, <2>2 DEF Settled
  <1>7. h.job # j => timelines'[j] = timelines[j] /\ logs'[<<j, "v1">>] = logs[<<j, "v1">>]
    <2> SUFFICES ASSUME h.job # j
                 PROVE  timelines'[j] = timelines[j] /\ logs'[<<j, "v1">>] = logs[<<j, "v1">>]
      OBVIOUS
    <2>1. MergeRecord(h) => timelines'[j] = timelines[j]
      BY <1>3 DEF MergeRecord
    <2>2. AppendLines(h) => logs'[<<j, "v1">>] = logs[<<j, "v1">>]
      <3> SUFFICES ASSUME AppendLines(h) PROVE logs'[<<j, "v1">>] = logs[<<j, "v1">>]
        OBVIOUS
      <3>1. logs' = [logs EXCEPT ![LogKey(h)][h.log] = @ \o Posted(h.job, h.at)]
        BY DEF AppendLines
      <3>2. LogKey(h) # <<j, "v1">>
        BY <1>3
      <3> QED BY <1>3, <3>1, <3>2
    <2>3. ~MergeRecord(h) => timelines' = timelines
      BY Zenon DEF HandlerStep, LockTimeline, UnlockTimeline, Notify, EndNotify, OpenLog,
             ReadBody, AppendLines, AnswerRequest, serverVars
    <2>4. ~AppendLines(h) => logs' = logs
      BY DEF HandlerStep, LockTimeline, MergeRecord, UnlockTimeline, Notify, EndNotify, OpenLog,
             ReadBody, AnswerRequest, serverVars
    <2> QED BY <2>1, <2>2, <2>3, <2>4
  <1> QED BY <1>1, <1>2, <1>3, <1>4, <1>5, <1>6, <1>7, EndFrame

LEMMA EndStep ==
    ASSUME TypeInv, PositionInv, RequestInv, TimelineInv, OutcomeInv, AloneInv, EndInv,
           [ReportsNext]_reportVars
    PROVE  EndInv'
  <1> SUFFICES ASSUME NEW j \in ReportJobs PROVE EndOf(j)'
    BY DEF EndInv
  <1>0. EndOf(j) /\ (OnTime(j)' => OnTime(j))
    BY OutcomeStep DEF EndInv
  <1>a. /\ position[j] \in Nat /\ Len(Script[j]) \in Nat
        /\ jobEnd \in [ReportJobs -> {"running", "reporting", "success", "failure", "cancelled"}]
        /\ awaiting \in [ReportJobs -> BOOLEAN] /\ scanned \in [ReportJobs -> Nat]
        /\ Len(timelines[j]) \in Nat
    <2>1. timelines[j] \in Seq(NewRecord)
      BY DEF TypeInv
    <2> QED BY <2>1, ScriptFacts DEF TypeInv
  <1>b. ASSUME SameFailures(j), UNCHANGED <<jobEnd[j], scanned[j], position[j], timelines[j], logs>>,
               awaiting'[j] => awaiting[j] \/ jobEnd[j] = "running"
        PROVE  EndOf(j)'
    BY <1>0, <1>a, <1>b, EndFrame
  <1>c. UNCHANGED shown[j] => SameFailures(j)
    BY DEF SameFailures, IsFailure
  <1>1. \A h \in handlers : HandlerStep(h) => EndOf(j)'
    BY <1>0, EndHandler
  <1>2. ASSUME NEW i \in ReportJobs, SendRequest(i) \/ SendAgain(i) PROVE EndOf(j)'
    <2>1. UNCHANGED <<shown, jobEnd, scanned, position, timelines, logs>>
      BY <1>2 DEF SendRequest, SendAgain, displayVars, endVars, serverVars
    <2>2. jobEnd[i] = "running" /\ (awaiting' = awaiting \/ awaiting' = [awaiting EXCEPT ![i] = TRUE])
      BY <1>2 DEF SendRequest, SendAgain
    <2>3. awaiting'[j] => awaiting[j] \/ jobEnd[j] = "running"
      BY <1>a, <2>2
    <2> QED BY <1>b, <1>c, <2>1, <2>3
  <1>3. ASSUME NEW i \in ReportJobs, i # j,
               \/ CompleteReport(i) \/ ReportStep(i) \/ EndFailed(i)
               \/ \E status \in {"failure", "cancelled"} : EndEarly(i, status)
        PROVE  EndOf(j)'
    <2>1. UNCHANGED <<runnerVars, serverVars>>
      BY <1>3, EndSteps
    <2>2. /\ jobEnd' = jobEnd \/ \E e : jobEnd' = [jobEnd EXCEPT ![i] = e]
          /\ scanned' = scanned \/ scanned' = [scanned EXCEPT ![i] = @ + 1]
          /\ shown' = shown \/ \E what, s, detail : shown' = Said(i, what, s, detail)
      BY <1>3 DEF CompleteReport, ReportStep, EndFailed, EndEarly
    <2>3. UNCHANGED <<jobEnd[j], scanned[j]>>
      BY <1>3, <1>a, <2>2
    <2>4. UNCHANGED shown[j]
      BY <1>3, <2>2, SaidFacts
    <2> QED BY <1>b, <1>c, <2>1, <2>3, <2>4 DEF runnerVars, serverVars
  <1>4. ASSUME CompleteReport(j) PROVE EndOf(j)'
    <2>1. /\ jobEnd[j] = "running" /\ position[j] > Len(Script[j])
          /\ jobEnd'[j] \in {"reporting", "success"}
          /\ UNCHANGED <<scanned, position, timelines>>
      BY <1>4, <1>a DEF CompleteReport, runnerVars, serverVars
    <2>2. SameFailures(j)
      <3>1. shown' = shown \/ shown' = Said(j, "JobCompleted", NoStep, <<"success">>)
        BY <1>4 DEF CompleteReport
      <3>2. CASE shown' = Said(j, "JobCompleted", NoStep, <<"success">>)
        <4>1. PICK what, s, detail : shown' = Said(j, what, s, detail) /\ what # "FAILED"
          BY <3>2
        <4> QED BY <4>1, NoFailureSaid DEF SameFailures
      <3> QED BY <1>c, <3>1, <3>2
    <2>3. scanned'[j] = 0 /\ \A n \in DOMAIN shown'[j] : ~IsFailure(j, n)'
      BY <1>0, <2>1, <2>2 DEF EndOf, SameFailures
    <2>4. ShownOf(j)'
      BY <1>a, <2>1, <2>3 DEF ShownOf
    <2> QED BY <2>1, <2>3, <2>4 DEF EndOf
  <1>5. ASSUME ReportStep(j) PROVE EndOf(j)'
    BY <1>0, <1>5, ReportEnd
  <1>6. ASSUME EndFailed(j) PROVE EndOf(j)'
    <2>1. /\ jobEnd[j] = "reporting" /\ jobEnd'[j] = "failure" /\ scanned[j] = Len(timelines[j])
          /\ UNCHANGED <<scanned, position, timelines, logs>>
      BY <1>6, <1>a DEF EndFailed, runnerVars, serverVars
    <2>2. SameFailures(j)
      <3>1. PICK what, s, detail : shown' = Said(j, what, s, detail) /\ what # "FAILED"
        BY <1>6 DEF EndFailed
      <3> QED BY <3>1, NoFailureSaid DEF SameFailures
    <2>3. position[j] > Len(Script[j]) /\ (Settled(j)' => Settled(j))
      BY <1>0, <2>1 DEF EndOf, Settled
    <2>4. Settled(j)' => ShownOf(j)'
      BY <1>0, <2>1, <2>2, <2>3, ShownOfStays DEF EndOf
    <2> QED BY <1>a, <2>1, <2>3, <2>4 DEF EndOf
  <1>7. ASSUME NEW status \in {"failure", "cancelled"}, EndEarly(j, status) PROVE EndOf(j)'
    <2>1. /\ jobEnd[j] = "running" /\ jobEnd'[j] = status
          /\ status = "failure" => position[j] = 1 /\ ~awaiting[j]
          /\ UNCHANGED <<scanned, position, timelines, awaiting>>
      BY <1>7, <1>a DEF EndEarly, runnerVars, serverVars
    <2>2. SameFailures(j)
      <3>1. PICK what, s, detail : shown' = Said(j, what, s, detail) /\ what # "FAILED"
        BY <1>7 DEF EndEarly
      <3> QED BY <3>1, NoFailureSaid DEF SameFailures
    <2>3. scanned'[j] = 0 /\ \A n \in DOMAIN shown'[j] : ~IsFailure(j, n)'
      BY <1>0, <2>1, <2>2 DEF EndOf, SameFailures
    <2>4. ShownOf(j)'
      BY <1>a, <2>1, <2>3 DEF ShownOf
    <2>5. Settled(j)' => Len(Script[j]) = 0
      BY <1>a, <2>1 DEF Settled
    <2> QED BY <2>1, <2>3, <2>4, <2>5 DEF EndOf
  <1>8. ASSUME UNCHANGED reportVars PROVE EndOf(j)'
    BY <1>8, <1>b, <1>c DEF reportVars, runnerVars, serverVars, displayVars, endVars
  <1> QED BY <1>1, <1>2, <1>3, <1>4, <1>5, <1>6, <1>7, <1>8 DEF ReportsNext

\* The tail of a step's log is the tail of what was posted.
LEMMA MarkedSub ==
    ASSUME NEW j \in ReportJobs, NEW s \in StepIds, NEW nums \in Seq(Nat),
           NEW m \in Nat, m >= 1, m <= Len(nums) + 1
    PROVE  SubSeq(Marked(j, s, nums), m, Len(nums)) = Marked(j, s, SubSeq(nums, m, Len(nums)))
  <1>1. PICK N, L, posted : N = Len(nums) /\ L = (N - m) + 1 /\ posted = Marked(j, s, nums)
    OBVIOUS
  <1>2. N \in Nat /\ N \in Int /\ m \in Int /\ L \in Nat
        /\ (IF m <= N THEN N - m + 1 ELSE 0) = L /\ N - m + 1 = L
        /\ \A n \in 1..L : m + n - 1 = (m + n) - 1 /\ (m + n) - 1 \in 1..N
    BY <1>1
  <1>3. posted \in Seq(Line) /\ Len(posted) = N /\ \A n \in 1..N : posted[n] = <<j, s, nums[n]>>
    BY <1>1, MarkedFacts
  <1>4. (\A i \in m..N : nums[i] \in Nat) /\ \A i \in m..N : posted[i] \in Line
    BY <1>1, <1>2, <1>3
  <1>5. PICK tail, end : tail = SubSeq(nums, m, N) /\ end = SubSeq(posted, m, N)
    OBVIOUS
  <1>6. tail \in Seq(Nat) /\ Len(tail) = L /\ \A n \in 1..L : tail[n] = nums[(m + n) - 1]
    BY <1>2, <1>4, <1>5, SubSeqProperties
  <1>7. end \in Seq(Line) /\ Len(end) = L /\ \A n \in 1..L : end[n] = posted[(m + n) - 1]
    BY <1>2, <1>4, <1>5, SubSeqProperties
  <1>8. PICK all : all = Marked(j, s, tail)
    OBVIOUS
  <1>9. all \in Seq(Line) /\ Len(all) = L /\ \A n \in 1..L : all[n] = <<j, s, tail[n]>>
    BY <1>6, <1>8, MarkedFacts
  <1>10. ASSUME NEW n \in 1..L PROVE end[n] = all[n]
    BY <1>2, <1>3, <1>6, <1>7, <1>9
  <1>11. end = all
    BY <1>7, <1>9, <1>10, SeqEqual
  <1> QED BY <1>1, <1>5, <1>8, <1>11

LEMMA MarkedTail ==
    ASSUME NEW j \in ReportJobs, NEW s \in StepIds, NEW nums \in Seq(Nat)
    PROVE  LastLines(Marked(j, s, nums))
             = Marked(j, s, SubSeq(nums, IF Len(nums) > MaxLogLines
                                         THEN Len(nums) - MaxLogLines + 1 ELSE 1, Len(nums)))
  <1>1. PICK m : m = IF Len(nums) > MaxLogLines THEN Len(nums) - MaxLogLines + 1 ELSE 1
    OBVIOUS
  <1>2. m \in Nat /\ m >= 1 /\ m <= Len(nums) + 1
        /\ m = 1 + (IF Len(nums) > MaxLogLines THEN Len(nums) - MaxLogLines ELSE 0)
    BY <1>1, ReportsAssumption
  <1>3. Len(Marked(j, s, nums)) = Len(nums)
    BY MarkedFacts
  <1>4. LastLines(Marked(j, s, nums)) = SubSeq(Marked(j, s, nums), m, Len(nums))
    BY <1>2, <1>3 DEF LastLines
  <1>5. SubSeq(Marked(j, s, nums), m, Len(nums)) = Marked(j, s, SubSeq(nums, m, Len(nums)))
    BY <1>2, MarkedSub
  <1> QED BY <1>1, <1>4, <1>5

\* The inductive invariant of FailedStepsReported.
FailuresIInv ==
    ReportsIInv /\ OutcomeInv /\ AloneInv /\ ResultInv /\ FinalInv /\ WholeInv /\ EndInv

LEMMA FailuresStart == ReportsInit => FailuresIInv
  <1> SUFFICES ASSUME ReportsInit PROVE FailuresIInv
    OBVIOUS
  <1>1. ReportsIInv
    BY ReportsStart
  <1>2. handlers = {} /\ OutcomeInv
    BY DEF ReportsInit, OutcomeInv
  <1>3. \A j \in ReportJobs :
           /\ timelines[j] = <<>> /\ position[j] = 1 /\ shown[j] = <<>> /\ scanned[j] = 0
           /\ jobEnd[j] = "running" /\ \A s \in StepIds : logOf[j][s] = 0
    BY DEF ReportsInit
  <1>4. AloneInv
    BY <1>2 DEF AloneInv
  <1>5. ResultInv
    BY <1>2, <1>3 DEF ResultInv
  <1>6. FinalInv
    <2>1. ASSUME NEW j \in ReportJobs, NEW k \in DOMAIN Script[j], NEW i PROVE ~Through(j, k, i)
      BY <1>2, <1>3, ScriptFacts DEF Through
    <2> QED BY <2>1 DEF FinalInv
  <1>7. WholeInv
    BY <1>3 DEF WholeInv
  <1>8. EndInv
    BY <1>3 DEF EndInv, EndOf, Settled
  <1> QED BY <1>1, <1>2, <1>4, <1>5, <1>6, <1>7, <1>8 DEF FailuresIInv

LEMMA FailuresStep == FailuresIInv /\ [ReportsNext]_reportVars => FailuresIInv'
  <1> SUFFICES ASSUME FailuresIInv, [ReportsNext]_reportVars PROVE FailuresIInv'
    OBVIOUS
  <1>1. /\ ReportsIInv /\ TypeInv /\ PositionInv /\ RequestInv /\ TimelineInv /\ GivenInv /\ IdInv /\ LineInv
        /\ OutcomeInv /\ AloneInv /\ ResultInv /\ FinalInv /\ WholeInv /\ EndInv
    BY DEF FailuresIInv, ReportsIInv
  <1>2. ReportsIInv'
    BY <1>1, ReportsStep
  <1>3. OutcomeInv' /\ AloneInv'
    BY <1>1, OutcomeStep, AloneStep
  <1>4. ResultInv' /\ FinalInv'
    BY <1>1, ResultStep, FinalStep
  <1>5. WholeInv' /\ EndInv'
    BY <1>1, WholeStep, EndStep
  <1> QED BY <1>2, <1>3, <1>4, <1>5 DEF FailuresIInv

\* When all of j was answered, a step whose record is in its timeline has the log it was posted.
LEMMA PostedShown ==
    ASSUME FailuresIInv, NEW j \in ReportJobs, Settled(j), NEW s \in StepIds, route = "v1",
           NEW rec, rec.log = logOf[j][s]
    PROVE  LinesOf(j, rec) = Marked(j, s, PostedLines(j, s))
  <1>0. TypeInv /\ PositionInv /\ RequestInv /\ GivenInv /\ AloneInv /\ WholeInv
    BY DEF FailuresIInv, ReportsIInv
  <1>1. /\ position[j] = Len(Script[j]) + 1 /\ Len(Script[j]) \in Nat /\ DOMAIN Script[j] = 1..Len(Script[j])
        /\ "v1" \in ReportRoutes /\ OnTime(j)
    BY <1>0, ScriptFacts DEF PositionInv, Settled, TypeInv
  <1>2. \A h \in handlers : h.job # j
    <2> SUFFICES ASSUME NEW h \in handlers, h.job = j PROVE FALSE
      OBVIOUS
    <2>1. h.at = position[j] /\ h.at \in DOMAIN Script[j]
      BY <1>0, <1>1, HandlerFacts DEF AloneInv
    <2> QED BY <1>1, <2>1
  <1>3. PostedLines(j, s) = PostedTo(j, s)[Len(Script[j])]
    BY PostedDefined
  <1>4. CASE logOf[j][s] # 0
    <2>1. Stored(j) = Len(Script[j])
      BY <1>1, <1>2 DEF Stored
    <2>2. logs[LogFor(j)][logOf[j][s]] = Marked(j, s, PostedTo(j, s)[Len(Script[j])])
      BY <1>0, <1>1, <1>4, <2>1 DEF WholeInv
    <2> QED BY <1>1, <1>3, <1>4, <2>2 DEF LinesOf, LogFor
  <1>5. CASE logOf[j][s] = 0
    <2>1. ASSUME NEW k \in 1..Len(Script[j]), Script[j][k].kind = "post", Script[j][k].step = s PROVE FALSE
      <3>1. k \in DOMAIN Script[j] /\ k <= position[j]
        BY <1>1
      <3> QED BY <1>0, <1>5, <2>1, <3>1, PostsAreOpen
    <2>2. Len(Script[j]) \in 0..Len(Script[j])
      BY <1>1
    <2>3. PostedTo(j, s)[Len(Script[j])] = <<>>
      BY <2>1, <2>2, NothingPosted
    <2>4. Marked(j, s, <<>>) = <<>>
      BY DEF Marked
    <2> QED BY <1>3, <1>5, <2>3, <2>4 DEF LinesOf
  <1> QED BY <1>4, <1>5

LEMMA FailuresFollow ==
    ASSUME FailuresIInv, FailuresAreSent
    PROVE  FailedStepsReported
  <1>0. /\ TypeInv /\ PositionInv /\ TimelineInv
        /\ OutcomeInv /\ ResultInv /\ FinalInv /\ EndInv
    BY DEF FailuresIInv, ReportsIInv
  <1> SUFFICES ASSUME NEW j \in ReportJobs,
                      jobEnd[j] = "failure", position[j] > Len(Script[j]), late[j] = 0, NEW s \in StepIds
               PROVE  LET said   == {i \in DOMAIN shown[j] : shown[j][i].what = "FAILED" /\ shown[j][i].step = s}
                          posted == PostedLines(j, s)
                          tail   == SubSeq(posted, IF Len(posted) > MaxLogLines
                                                   THEN Len(posted) - MaxLogLines + 1 ELSE 1, Len(posted))
                      IN  IF outcome[j][s] # "failed" THEN said = {}
                          ELSE /\ Cardinality(said) = 1
                               /\ route = "v1" =>
                                     \A i \in said : shown[j][i].detail =
                                                      [n \in DOMAIN tail |-> <<j, s, tail[n]>>]
    BY DEF FailedStepsReported
  <1> DEFINE said   == {i \in DOMAIN shown[j] : shown[j][i].what = "FAILED" /\ shown[j][i].step = s}
             posted == PostedLines(j, s)
             tail   == SubSeq(posted, IF Len(posted) > MaxLogLines
                                      THEN Len(posted) - MaxLogLines + 1 ELSE 1, Len(posted))
  <1>1. Settled(j) /\ OnTime(j) /\ ShownOf(j)
    BY <1>0 DEF Settled, OnTime, EndInv, EndOf
  <1>2. /\ \A n \in 1..scanned[j] : n \in DOMAIN timelines[j]
        /\ DOMAIN timelines[j] = 1..Len(timelines[j])
    <2>1. timelines[j] \in Seq(NewRecord) /\ scanned[j] \in Nat
      BY <1>0 DEF TypeInv
    <2>2. scanned[j] <= Len(timelines[j])
      BY <1>1 DEF ShownOf
    <2> QED BY <2>1, <2>2
  <1>3. \A i \in said : \E n \in 1..scanned[j] :
           /\ timelines[j][n].result = "failed" /\ timelines[j][n].id = s
           /\ shown[j][i].detail = LastLines(LinesOf(j, timelines[j][n]))
    BY <1>1 DEF ShownOf, IsFailure
  <1>4. CASE outcome[j][s] # "failed"
    <2>1. said = {}
      BY <1>0, <1>2, <1>3, <1>4 DEF ResultInv, Truthful
    <2> QED BY <1>4, <2>1
  <1>5. CASE outcome[j][s] = "failed"
    <2>1. PICK k \in DOMAIN Script[j] : \E i \in DOMAIN Script[j][k].recs :
             Script[j][k].recs[i][1] = s /\ LastOf(Script[j], k, i)
      BY <1>0, <1>5 DEF FailuresAreSent, OutcomeInv
    <2>2. PICK i \in DOMAIN Script[j][k].recs : Script[j][k].recs[i][1] = s /\ LastOf(Script[j], k, i)
      BY <2>1
    <2>3. k < position[j] /\ Len(Script[j]) # 0
      BY <1>0, ScriptFacts DEF TypeInv
    <2>4. PICK n \in DOMAIN timelines[j] : timelines[j][n] = Record(j, s, "Completed")
      BY <1>0, <1>1, <2>2, <2>3 DEF FinalInv, Through, InTimeline
    <2>5. timelines[j][n].id = s /\ timelines[j][n].result = "failed" /\ timelines[j][n].log = logOf[j][s]
      BY <1>5, <2>4 DEF Record
    <2>6. n \in 1..scanned[j]
      BY <1>0, <1>1, <1>2, <2>3 DEF EndInv, EndOf
    <2>7. PICK a \in said : TRUE
      BY <1>1, <2>5, <2>6 DEF ShownOf, IsFailure
    <2>8. \A b \in said : b = a
      BY <1>1, <2>7 DEF ShownOf, IsFailure
    <2>9. said = {a}
      BY <2>7, <2>8
    <2> HIDE DEF said
    <2>10. Cardinality(said) = 1
      BY <2>9, FS_Singleton
    <2>11. ASSUME route = "v1", NEW b \in said
           PROVE  shown[j][b].detail = [m \in DOMAIN tail |-> <<j, s, tail[m]>>]
      <3>1. PICK m \in 1..scanned[j] :
               timelines[j][m].id = s /\ shown[j][b].detail = LastLines(LinesOf(j, timelines[j][m]))
        BY <1>3
      <3>2. m = n
        BY <1>0, <1>2, <2>5, <3>1 DEF TimelineInv, Distinct
      <3>3. LinesOf(j, timelines[j][n]) = Marked(j, s, posted)
        BY <1>1, <2>5, <2>11, PostedShown
      <3>4. posted \in Seq(Nat)
        <4>1. Len(Script[j]) \in 0..Len(Script[j])
          BY ScriptFacts
        <4>2. PostedTo(j, s) \in [0..Len(Script[j]) -> Seq(Nat)] /\ posted = PostedTo(j, s)[Len(Script[j])]
          BY PostedDefined
        <4> HIDE DEF posted
        <4> QED BY <4>1, <4>2
      <3>5. LastLines(Marked(j, s, posted)) = Marked(j, s, tail)
        BY <3>4, MarkedTail
      <3>6. Marked(j, s, tail) = [x \in DOMAIN tail |-> <<j, s, tail[x]>>]
        BY DEF Marked
      <3> QED BY <3>1, <3>2, <3>3, <3>5, <3>6, Zenon
    <2> USE DEF said
    <2> QED BY <1>5, <2>10, <2>11
  <1> QED BY <1>4, <1>5

\* When a job has failed and none of its requests was late, reportFailedSteps has shown each
\* step that failed once, with the last lines posted of it, and no other step: if a runner says
\* how a failed step ended.
THEOREM FailuresReported ==
    FailuresAreSent /\ ReportsInit /\ [][ReportsNext]_reportVars => []FailedStepsReported
  <1> SUFFICES ASSUME FailuresAreSent
               PROVE  ReportsInit /\ [][ReportsNext]_reportVars => []FailedStepsReported
    OBVIOUS
  <1>1. FailuresIInv => FailedStepsReported
    BY FailuresFollow
  <1> QED BY <1>1, FailuresStart, FailuresStep, PTL

-----------------------------------------------------------------------------
(* The log.                                                                *)

-----------------------------------------------------------------------------
(* Joined.                                                                 *)

\* A line with its newline, after others.
Ended(s, l) == s \o l \o <<NewLine>>

Joins(f, ls) == f = [n \in 0..Len(ls) |-> IF n = 0 THEN <<>> ELSE Ended(f[n - 1], ls[n])]

JoinsStep(f, ls) == f[0] = <<>> /\ \A n \in 1..Len(ls) : f[n] = Ended(f[n - 1], ls[n])

LEMMA JoinsSteps == ASSUME NEW ls, Len(ls) \in Nat, NEW f, Joins(f, ls) PROVE JoinsStep(f, ls)
BY DEF Joins, JoinsStep

LEMMA StepsJoin ==
    ASSUME NEW ls, Len(ls) \in Nat, NEW S, NEW f \in [0..Len(ls) -> S], JoinsStep(f, ls) PROVE Joins(f, ls)
BY DEF Joins, JoinsStep

\* The definition of Joined defines it.
LEMMA JoinedDefined ==
    ASSUME NEW ls \in Seq(Seq(Bytes))
    PROVE  \E f \in [0..Len(ls) -> Seq(Bytes)] : JoinsStep(f, ls) /\ Joined(ls) = f[Len(ls)]
<1> DEFINE N == Len(ls)
           S == Seq(Bytes)
           step == [x \in S \X (1..N) |-> Ended(x[1], ls[x[2]])]
<1>1. N \in Nat /\ <<>> \in S
  OBVIOUS
<1>2. step \in [S \X (1..N) -> S]
  <2>1. \A n \in 1..N : ls[n] \in S
    OBVIOUS
  <2> QED
    BY <2>1, StreamAssumption DEF Ended
<1>3. PICK f \in [0..N -> S] : Iterates(f, N, <<>>, step)
  <2> HIDE DEF N, S, step
  <2> QED
    BY <1>1, <1>2, Iterated
<1>4. JoinsStep(f, ls)
  <2>1. f[0] = <<>>
    BY <1>3 DEF Iterates
  <2>2. ASSUME NEW n \in 1..N
        PROVE  f[n] = Ended(f[n - 1], ls[n])
    <3>1. f[n - 1] \in S /\ <<f[n - 1], n>> \in S \X (1..N)
      <4> HIDE DEF N, S
      <4>1. n - 1 \in 0..N
        BY <1>1
      <4> QED
        BY <4>1
    <3>2. f[n] = step[<<f[n - 1], n>>]
      BY <1>3 DEF Iterates
    <3> QED
      BY <3>1, <3>2
  <2> QED
    BY <2>1, <2>2 DEF JoinsStep
<1>5. Joins(f, ls)
  BY <1>1, <1>4, StepsJoin
<1> DEFINE J == CHOOSE g : Joins(g, ls)
<1>6. Joins(J, ls)
  BY <1>5
<1>7. Joined(ls) = J[N]
  BY DEF Joined, Joins, Ended
<1> HIDE DEF J
<1>8. JoinsStep(J, ls)
  BY <1>1, <1>6, JoinsSteps
<1>9. Alike(J, f, N)
  BY <1>4, <1>8 DEF JoinsStep, Alike
<1>10. J[N] = f[N]
  <2> HIDE DEF N
  <2> QED
    BY <1>1, <1>9, SameIterates
<1> QED
  BY <1>4, <1>7, <1>10

\* A line more.
LEMMA JoinedAppend ==
    ASSUME NEW ls \in Seq(Seq(Bytes)), NEW l \in Seq(Bytes)
    PROVE  /\ Joined(ls) \in Seq(Bytes)
           /\ Joined(<<>>) = <<>>
           /\ Joined(Append(ls, l)) = Ended(Joined(ls), l)
<1> DEFINE N == Len(ls)
           more == Append(ls, l)
<1>1. /\ more \in Seq(Seq(Bytes)) /\ Len(more) = N + 1 /\ more[N + 1] = l
      /\ \A n \in 1..N : more[n] = ls[n]
      /\ N \in Nat /\ Len(ls) = N
  OBVIOUS
<1>2. PICK f \in [0..N -> Seq(Bytes)] : JoinsStep(f, ls) /\ Joined(ls) = f[N]
  BY JoinedDefined DEF N
<1> HIDE DEF more, N
<1>3. PICK g \in [0..(N + 1) -> Seq(Bytes)] : JoinsStep(g, more) /\ Joined(more) = g[N + 1]
  BY <1>1, JoinedDefined
<1>4. Alike(f, g, N)
  <2>1. ASSUME NEW n \in 1..N, f[n - 1] = g[n - 1]
        PROVE  f[n] = g[n]
    <3>1. n \in 1..Len(ls) /\ n \in 1..Len(more) /\ more[n] = ls[n]
      BY <1>1
    <3>2. f[n] = Ended(f[n - 1], ls[n]) /\ g[n] = Ended(g[n - 1], more[n])
      BY <1>2, <1>3, <3>1 DEF JoinsStep
    <3> QED
      BY <2>1, <3>1, <3>2
  <2> QED
    BY <1>2, <1>3, <2>1 DEF JoinsStep, Alike
<1>5. f[N] = g[N]
  BY <1>1, <1>4, SameIterates
<1>6. g[N + 1] = Ended(g[N], more[N + 1])
  <2>1. N + 1 \in 1..Len(more) /\ N + 1 - 1 = N
    BY <1>1
  <2>2. \A n \in 1..Len(more) : g[n] = Ended(g[n - 1], more[n])
    BY <1>3 DEF JoinsStep
  <2> QED
    BY <1>1, <2>1, <2>2
<1>7. Joined(<<>>) = <<>>
  <2>1. <<>> \in Seq(Seq(Bytes)) /\ Len(<<>>) = 0
    OBVIOUS
  <2>2. PICK h \in [0..0 -> Seq(Bytes)] : JoinsStep(h, <<>>) /\ Joined(<<>>) = h[0]
    BY <2>1, JoinedDefined
  <2> QED
    BY <2>2 DEF JoinsStep
<1>8. f[N] \in Seq(Bytes)
  BY <1>1
<1> QED
  BY <1>1, <1>2, <1>3, <1>5, <1>6, <1>7, <1>8 DEF more, N

-----------------------------------------------------------------------------
(* Packed.                                                                 *)

\* The n-th byte ends an empty line.
EndsEmpty(bytes, n) == bytes[n] = NewLine /\ (n = 1 \/ bytes[n - 1] = NewLine)

Packs(f, bytes) ==
    f = [n \in 0..Len(bytes) |->
            IF n = 0 THEN <<>>
            ELSE IF EndsEmpty(bytes, n) THEN f[n - 1] ELSE Append(f[n - 1], bytes[n])]

PacksStep(f, bytes) ==
    /\ f[0] = <<>>
    /\ \A n \in 1..Len(bytes) :
          f[n] = IF EndsEmpty(bytes, n) THEN f[n - 1] ELSE Append(f[n - 1], bytes[n])

LEMMA PacksSteps == ASSUME NEW s, Len(s) \in Nat, NEW f, Packs(f, s) PROVE PacksStep(f, s)
<1>1. f[0] = <<>>
  BY DEF Packs
<1>2. ASSUME NEW n \in 1..Len(s)
      PROVE  f[n] = IF EndsEmpty(s, n) THEN f[n - 1] ELSE Append(f[n - 1], s[n])
  <2>1. n \in 0..Len(s) /\ n # 0
    OBVIOUS
  <2> QED
    BY <2>1 DEF Packs
<1> QED
  BY <1>1, <1>2 DEF PacksStep

LEMMA StepsPack ==
    ASSUME NEW s, Len(s) \in Nat, NEW S, NEW f \in [0..Len(s) -> S], PacksStep(f, s) PROVE Packs(f, s)
<1>1. ASSUME NEW n \in 0..Len(s)
      PROVE  f[n] = IF n = 0 THEN <<>>
                    ELSE IF EndsEmpty(s, n) THEN f[n - 1] ELSE Append(f[n - 1], s[n])
  <2>1. CASE n = 0
    BY <2>1 DEF PacksStep
  <2>2. CASE n # 0
    <3>1. n \in 1..Len(s)
      BY <2>2
    <3> QED
      BY <2>2, <3>1 DEF PacksStep
  <2> QED
    BY <2>1, <2>2
<1> QED
  BY <1>1 DEF Packs

\* The definition of Packed defines it.
LEMMA PackedDefined ==
    ASSUME NEW s \in Seq(Bytes)
    PROVE  \E f \in [0..Len(s) -> Seq(Bytes)] : PacksStep(f, s) /\ Packed(s) = f[Len(s)]
<1> DEFINE N == Len(s)
           S == Seq(Bytes)
           step == [x \in S \X (1..N) |-> IF EndsEmpty(s, x[2]) THEN x[1] ELSE Append(x[1], s[x[2]])]
<1>1. N \in Nat /\ <<>> \in S
  OBVIOUS
<1>2. step \in [S \X (1..N) -> S]
  <2>1. \A n \in 1..N : s[n] \in Bytes
    OBVIOUS
  <2> QED
    BY <2>1
<1>3. PICK f \in [0..N -> S] : Iterates(f, N, <<>>, step)
  <2> HIDE DEF N, S, step
  <2> QED
    BY <1>1, <1>2, Iterated
<1>4. PacksStep(f, s)
  <2>1. f[0] = <<>>
    BY <1>3 DEF Iterates
  <2>2. ASSUME NEW n \in 1..N
        PROVE  f[n] = IF EndsEmpty(s, n) THEN f[n - 1] ELSE Append(f[n - 1], s[n])
    <3>1. f[n - 1] \in S /\ <<f[n - 1], n>> \in S \X (1..N)
      <4> HIDE DEF N, S
      <4>1. n - 1 \in 0..N
        BY <1>1
      <4> QED
        BY <4>1
    <3>2. f[n] = step[<<f[n - 1], n>>]
      BY <1>3 DEF Iterates
    <3> QED
      BY <3>1, <3>2
  <2> QED
    BY <2>1, <2>2 DEF PacksStep
<1>5. Packs(f, s)
  BY <1>1, <1>4, StepsPack
<1> DEFINE P == CHOOSE g : Packs(g, s)
<1>6. Packs(P, s)
  BY <1>5
<1>7. Packed(s) = P[N]
  BY DEF Packed, Packs, EndsEmpty
<1> HIDE DEF P
<1>8. PacksStep(P, s)
  BY <1>1, <1>6, PacksSteps
<1>9. Alike(P, f, N)
  BY <1>4, <1>8 DEF PacksStep, Alike
<1>10. P[N] = f[N]
  <2> HIDE DEF N
  <2> QED
    BY <1>1, <1>9, SameIterates
<1> QED
  BY <1>4, <1>7, <1>10

\* No line has begun that is not ended.
AtLineStart(s) == s = <<>> \/ s[Len(s)] = NewLine

\* A byte more.
LEMMA PackedAppend ==
    ASSUME NEW s \in Seq(Bytes), NEW b \in Bytes
    PROVE  /\ Packed(s) \in Seq(Bytes)
           /\ Packed(<<>>) = <<>>
           /\ b = NewLine /\ AtLineStart(s) => Packed(Append(s, b)) = Packed(s)
           /\ ~(b = NewLine /\ AtLineStart(s)) => Packed(Append(s, b)) = Append(Packed(s), b)
<1> DEFINE N == Len(s)
           more == Append(s, b)
<1>1. /\ more \in Seq(Bytes) /\ Len(more) = N + 1 /\ more[N + 1] = b
      /\ \A n \in 1..N : more[n] = s[n]
      /\ N \in Nat /\ Len(s) = N /\ (N = 0 <=> s = <<>>)
  OBVIOUS
<1>2. PICK f \in [0..N -> Seq(Bytes)] : PacksStep(f, s) /\ Packed(s) = f[N]
  BY PackedDefined
<1> HIDE DEF more, N
<1>3. PICK g \in [0..(N + 1) -> Seq(Bytes)] : PacksStep(g, more) /\ Packed(more) = g[N + 1]
  BY <1>1, PackedDefined
<1>4. Alike(f, g, N)
  <2>1. ASSUME NEW n \in 1..N
        PROVE  EndsEmpty(s, n) <=> EndsEmpty(more, n)
    <3>1. more[n] = s[n] /\ (n # 1 => n - 1 \in 1..N)
      BY <1>1
    <3> QED
      BY <1>1, <3>1 DEF EndsEmpty
  <2>2. ASSUME NEW n \in 1..N, f[n - 1] = g[n - 1]
        PROVE  f[n] = g[n]
    <3>1. n \in 1..Len(s) /\ n \in 1..Len(more) /\ more[n] = s[n] /\ (EndsEmpty(s, n) <=> EndsEmpty(more, n))
      BY <1>1, <2>1
    <3>2. f[n] = IF EndsEmpty(s, n) THEN f[n - 1] ELSE Append(f[n - 1], s[n])
      BY <1>2, <3>1 DEF PacksStep
    <3>3. g[n] = IF EndsEmpty(more, n) THEN g[n - 1] ELSE Append(g[n - 1], more[n])
      BY <1>3, <3>1 DEF PacksStep
    <3> QED
      BY <2>2, <3>1, <3>2, <3>3
  <2> QED
    BY <1>2, <1>3, <2>2 DEF PacksStep, Alike
<1>5. f[N] = g[N]
  <2>1. N \in Nat
    BY <1>1
  <2> QED
    BY <2>1, <1>4, SameIterates
<1>6. g[N + 1] = IF EndsEmpty(more, N + 1) THEN g[N] ELSE Append(g[N], b)
  <2>1. N + 1 \in 1..Len(more) /\ N + 1 - 1 = N
    BY <1>1
  <2>2. \A n \in 1..Len(more) : g[n] = IF EndsEmpty(more, n) THEN g[n - 1] ELSE Append(g[n - 1], more[n])
    BY <1>3 DEF PacksStep
  <2> QED
    BY <1>1, <2>1, <2>2
<1>7. EndsEmpty(more, N + 1) <=> b = NewLine /\ AtLineStart(s)
  BY <1>1 DEF AtLineStart, EndsEmpty
<1>8. Packed(<<>>) = <<>>
  <2>1. <<>> \in Seq(Bytes) /\ Len(<<>>) = 0
    OBVIOUS
  <2>2. PICK h \in [0..0 -> Seq(Bytes)] : PacksStep(h, <<>>) /\ Packed(<<>>) = h[0]
    BY <2>1, PackedDefined
  <2> QED
    BY <2>2 DEF PacksStep
<1>9. f[N] \in Seq(Bytes)
  BY <1>1
<1> QED
  BY <1>1, <1>2, <1>3, <1>5, <1>6, <1>7, <1>8, <1>9 DEF more, N

\* The first n bytes of c, after a.
Up(a, c, n) == a \o SubSeq(c, 1, n)

LEMMA UpGrows ==
    ASSUME NEW a \in Seq(Bytes), NEW c \in Seq(Bytes)
    PROVE  /\ Up(a, c, 0) = a /\ Up(a, c, Len(c)) = a \o c
           /\ \A n \in 0..Len(c) : Up(a, c, n) \in Seq(Bytes)
           /\ \A n \in 1..Len(c) : c[n] \in Bytes /\ Up(a, c, n) = Append(Up(a, c, n - 1), c[n])
<1>1. SubSeq(c, 1, 0) = <<>> /\ SubSeq(c, 1, Len(c)) = c
  OBVIOUS
<1>2. a \o <<>> = a
  OBVIOUS
<1>3. ASSUME NEW n \in 0..Len(c)
      PROVE  Up(a, c, n) \in Seq(Bytes)
  <2>1. SubSeq(c, 1, n) \in Seq(Bytes)
    OBVIOUS
  <2> QED
    BY <2>1 DEF Up
<1>4. ASSUME NEW n \in 1..Len(c)
      PROVE  c[n] \in Bytes /\ Up(a, c, n) = Append(Up(a, c, n - 1), c[n])
  <2> DEFINE x == SubSeq(c, 1, n - 1)
  <2>1. x \in Seq(Bytes) /\ c[n] \in Bytes /\ <<c[n]>> \in Seq(Bytes)
    OBVIOUS
  <2>2. SubSeq(c, 1, n) = x \o <<c[n]>>
    <3>1. 1 \in 1..Len(c) /\ n \in 1..Len(c)
      OBVIOUS
    <3> QED
      BY <3>1, SubSeqRecursiveSecond
  <2> HIDE DEF x
  <2>3. a \o (x \o <<c[n]>>) = (a \o x) \o <<c[n]>> /\ a \o x \in Seq(Bytes)
    BY <2>1, ConcatAssociative
  <2>4. Append(a \o x, c[n]) = (a \o x) \o <<c[n]>>
    BY <2>1, <2>3, AppendIsConcat
  <2>5. Up(a, c, n - 1) = a \o x
    BY DEF Up, x
  <2>6. Up(a, c, n) = a \o (x \o <<c[n]>>)
    BY <2>2 DEF Up
  <2> QED
    BY <2>1, <2>3, <2>4, <2>5, <2>6
<1> QED
  BY <1>1, <1>2, <1>3, <1>4 DEF Up

\* What ends with b is at the start of a line if b is a newline.
LEMMA StartAfter ==
    ASSUME NEW s \in Seq(Bytes), NEW b \in Bytes
    PROVE  AtLineStart(Append(s, b)) <=> b = NewLine
BY DEF AtLineStart

\* What is packed alike goes on alike.
LEMMA PackedTail ==
    ASSUME NEW a \in Seq(Bytes), NEW b \in Seq(Bytes), NEW c \in Seq(Bytes),
           Packed(a) = Packed(b), AtLineStart(a) <=> AtLineStart(b)
    PROVE  Packed(a \o c) = Packed(b \o c)
<1> DEFINE Same(n) == /\ Packed(Up(a, c, n)) = Packed(Up(b, c, n))
                      /\ AtLineStart(Up(a, c, n)) <=> AtLineStart(Up(b, c, n))
           T == {n \in 0..Len(c) : Same(n)}
<1>1. 0 \in T
  BY UpGrows
<1>2. ASSUME NEW n \in 1..Len(c), n - 1 \in T
      PROVE  n \in T
  <2> DEFINE x == Up(a, c, n - 1)
             y == Up(b, c, n - 1)
  <2>1. n - 1 \in 0..Len(c) /\ Packed(x) = Packed(y) /\ (AtLineStart(x) <=> AtLineStart(y))
    BY <1>2
  <2>2. /\ x \in Seq(Bytes) /\ y \in Seq(Bytes) /\ c[n] \in Bytes
        /\ Up(a, c, n) = Append(x, c[n]) /\ Up(b, c, n) = Append(y, c[n])
    BY <2>1, UpGrows
  <2> HIDE DEF x, y
  <2>3. Packed(Append(x, c[n])) = Packed(Append(y, c[n]))
    <3>1. CASE c[n] = NewLine /\ AtLineStart(x)
      <4>1. Packed(Append(x, c[n])) = Packed(x)
        BY <2>2, <3>1, PackedAppend
      <4>2. Packed(Append(y, c[n])) = Packed(y)
        BY <2>1, <2>2, <3>1, PackedAppend
      <4> QED
        BY <2>1, <4>1, <4>2
    <3>2. CASE ~(c[n] = NewLine /\ AtLineStart(x))
      <4>1. Packed(Append(x, c[n])) = Append(Packed(x), c[n])
        BY <2>2, <3>2, PackedAppend
      <4>2. Packed(Append(y, c[n])) = Append(Packed(y), c[n])
        BY <2>1, <2>2, <3>2, PackedAppend
      <4> QED
        BY <2>1, <4>1, <4>2
    <3> QED
      BY <3>1, <3>2
  <2>4. AtLineStart(Append(x, c[n])) <=> AtLineStart(Append(y, c[n]))
    BY <2>2, StartAfter
  <2>5. Same(n)
    BY <2>2, <2>3, <2>4
  <2> QED
    BY <2>5
<1> HIDE DEF T
<1>3. Len(c) \in T
  <2>1. Len(c) \in Nat /\ Len(c) \in 0..Len(c)
    OBVIOUS
  <2> QED
    BY <1>1, <1>2, <2>1, UpTo
<1>4. Packed(Up(a, c, Len(c))) = Packed(Up(b, c, Len(c)))
  BY <1>3 DEF T
<1> QED
  BY <1>4, UpGrows

\* No newline in it.
Word(l) == \A i \in DOMAIN l : l[i] # NewLine

\* Nothing of a word is dropped.
LEMMA PackedWord ==
    ASSUME NEW a \in Seq(Bytes), NEW c \in Seq(Bytes), Word(c)
    PROVE  Packed(a \o c) = Packed(a) \o c
<1> DEFINE T == {n \in 0..Len(c) : Packed(Up(a, c, n)) = Up(Packed(a), c, n)}
<1>1. Packed(a) \in Seq(Bytes)
  BY PackedAppend, StreamAssumption
<1>2. 0 \in T
  BY <1>1, UpGrows
<1>3. ASSUME NEW n \in 1..Len(c), n - 1 \in T
      PROVE  n \in T
  <2> DEFINE x == Up(a, c, n - 1)
             y == Up(Packed(a), c, n - 1)
  <2>1. n - 1 \in 0..Len(c) /\ Packed(x) = y /\ c[n] # NewLine
    BY <1>3 DEF Word
  <2>2. /\ x \in Seq(Bytes) /\ c[n] \in Bytes
        /\ Up(a, c, n) = Append(x, c[n]) /\ Up(Packed(a), c, n) = Append(y, c[n])
    BY <1>1, <2>1, UpGrows
  <2> HIDE DEF x, y
  <2>3. Packed(Append(x, c[n])) = Append(Packed(x), c[n])
    BY <2>1, <2>2, PackedAppend
  <2>4. Packed(Up(a, c, n)) = Up(Packed(a), c, n)
    BY <2>1, <2>2, <2>3
  <2> QED
    BY <2>4
<1> HIDE DEF T
<1>4. Len(c) \in T
  <2>1. Len(c) \in Nat /\ Len(c) \in 0..Len(c)
    OBVIOUS
  <2> QED
    BY <1>2, <1>3, <2>1, UpTo
<1>5. Packed(Up(a, c, Len(c))) = Up(Packed(a), c, Len(c))
  BY <1>4 DEF T
<1> QED
  BY <1>1, <1>5, UpGrows

\* Nothing to drop, and the last line is ended.
Tidy(s) == Packed(s) = s /\ AtLineStart(s)

\* Lines that are joined are tidy.
LEMMA TidyLine ==
    ASSUME NEW s \in Seq(Bytes), Tidy(s), NEW l \in Seq(Bytes), Word(l), l # <<>>
    PROVE  Tidy(Ended(s, l)) /\ Ended(s, l) \in Seq(Bytes) /\ Packed(s \o l) = s \o l
<1> DEFINE t == s \o l
<1>1. t \in Seq(Bytes) /\ Len(t) = Len(s) + Len(l) /\ Len(l) \in Nat \ {0} /\ Len(s) \in Nat
  OBVIOUS
<1>2. t[Len(t)] = l[Len(l)] /\ l[Len(l)] # NewLine /\ t # <<>>
  BY <1>1 DEF Word
<1>3. Packed(t) = t
  BY PackedWord DEF Tidy
<1>4. Ended(s, l) = Append(t, NewLine)
  BY <1>1, AppendIsConcat, StreamAssumption DEF Ended
<1> HIDE DEF t
<1>5. Packed(Append(t, NewLine)) = Append(t, NewLine)
  <2>1. ~AtLineStart(t)
    BY <1>2 DEF AtLineStart
  <2> QED
    BY <1>1, <1>3, <2>1, PackedAppend, StreamAssumption
<1>6. AtLineStart(Append(t, NewLine)) /\ Append(t, NewLine) \in Seq(Bytes)
  BY <1>1, StartAfter, StreamAssumption
<1> QED
  BY <1>3, <1>4, <1>5, <1>6 DEF Tidy, t

-----------------------------------------------------------------------------
(* LongestFirst.                                                           *)

Secret == Seq(Bytes) \ {<<>>}

\* None is longer than one before it.
Falling(t) == \A i, k \in DOMAIN t : i < k => Len(t[i]) >= Len(t[k])

\* Where the elements of u come from: t with v put in after K.
PutIn(u, t, K, v) ==
    /\ Len(u) = Len(t) + 1
    /\ \A i \in 1..K : u[i] = t[i]
    /\ u[K + 1] = v
    /\ \A i \in (K + 1)..Len(t) : u[i + 1] = t[i]

LEMMA InsertAtPutsIn ==
    ASSUME NEW S, NEW t \in Seq(S), NEW v \in S, NEW K \in 0..Len(t)
    PROVE  InsertAt(t, K + 1, v) \in Seq(S) /\ PutIn(InsertAt(t, K + 1, v), t, K, v)
<1> DEFINE x == SubSeq(t, 1, K)
           y == SubSeq(t, K + 1, Len(t))
           u == x \o <<v>> \o y
<1>1. K \in Nat /\ Len(t) \in Nat /\ K <= Len(t)
  OBVIOUS
<1>2. x \in Seq(S) /\ Len(x) = K /\ \A i \in 1..K : x[i] = t[i]
  OBVIOUS
<1>3. y \in Seq(S) /\ Len(y) = Len(t) - K /\ \A i \in 1..(Len(t) - K) : y[i] = t[K + i]
  <2>1. \A i \in (K + 1)..Len(t) : t[i] \in S
    OBVIOUS
  <2>2. /\ y \in Seq(S)
        /\ Len(y) = IF K + 1 <= Len(t) THEN Len(t) - (K + 1) + 1 ELSE 0
        /\ \A i \in 1..(Len(t) - (K + 1) + 1) : y[i] = t[K + 1 + i - 1]
    BY <1>1, <2>1, SubSeqProperties
  <2> HIDE DEF y
  <2>3. Len(y) = Len(t) - K /\ Len(t) - (K + 1) + 1 = Len(t) - K
    BY <1>1, <2>2
  <2>4. \A i \in 1..(Len(t) - K) : y[i] = t[K + i]
    BY <1>1, <2>2, <2>3
  <2> QED
    BY <2>2, <2>3, <2>4
<1> HIDE DEF x, y
<1> DEFINE w == x \o <<v>>
<1>4. w \in Seq(S) /\ Len(w) = K + 1 /\ w[K + 1] = v /\ \A i \in 1..K : w[i] = t[i]
  BY <1>1, <1>2
<1> HIDE DEF w
<1>5. u = w \o y
  BY DEF w
<1> HIDE DEF u
<1>6. u \in Seq(S) /\ Len(u) = Len(t) + 1
  <2>1. w \o y \in Seq(S) /\ Len(w \o y) = Len(w) + Len(y)
    BY <1>3, <1>4, ConcatProperties
  <2> QED
    BY <1>1, <1>3, <1>4, <1>5, <2>1
<1>7. \A i \in 1..K : u[i] = t[i]
  BY <1>1, <1>3, <1>4, <1>5
<1>8. u[K + 1] = v
  <2>1. K + 1 \in 1..(Len(w) + Len(y)) /\ K + 1 <= Len(w)
    BY <1>1, <1>3, <1>4
  <2> QED
    BY <1>3, <1>4, <1>5, <2>1, ConcatProperties
<1>9. ASSUME NEW i \in (K + 1)..Len(t)
      PROVE  u[i + 1] = t[i]
  <2>1. i - K \in 1..(Len(t) - K) /\ K + (i - K) = i /\ i + 1 > K + 1 /\ i + 1 - (K + 1) = i - K
    BY <1>1
  <2>2. u[i + 1] = y[i - K]
    BY <1>1, <1>3, <1>4, <1>5, <2>1
  <2> QED
    BY <1>3, <2>1, <2>2
<1>10. InsertAt(t, K + 1, v) = u
  <2>1. (K + 1) - 1 = K
    BY <1>1
  <2>2. InsertAt(t, K + 1, v) = SubSeq(t, 1, (K + 1) - 1) \o <<v>> \o SubSeq(t, K + 1, Len(t))
    BY DEF InsertAt
  <2>3. SubSeq(t, 1, (K + 1) - 1) = x
    BY <2>1 DEF x
  <2> QED
    BY <2>2, <2>3, Zenon DEF u, y
<1> QED
  BY <1>6, <1>7, <1>8, <1>9, <1>10 DEF PutIn

\* What is put in is there, and nothing is lost.
LEMMA PutInSet ==
    ASSUME NEW S, NEW t \in Seq(S), NEW v \in S, NEW K \in 0..Len(t), NEW u \in Seq(S), PutIn(u, t, K, v)
    PROVE  ToSet(u) = ToSet(t) \cup {v}
<1>1. K \in Nat /\ Len(t) \in Nat /\ K <= Len(t) /\ DOMAIN u = 1..(Len(t) + 1) /\ DOMAIN t = 1..Len(t)
  BY DEF PutIn
<1>2. ASSUME NEW i \in DOMAIN u
      PROVE  u[i] \in ToSet(t) \cup {v}
  <2>1. CASE i <= K
    BY <1>1, <2>1 DEF PutIn, ToSet
  <2>2. CASE i = K + 1
    BY <2>2 DEF PutIn
  <2>3. CASE i > K + 1
    <3>1. i - 1 \in (K + 1)..Len(t) /\ i - 1 + 1 = i /\ i - 1 \in DOMAIN t
      BY <1>1, <2>3
    <3>2. u[i] = t[i - 1]
      BY <3>1 DEF PutIn
    <3> QED
      BY <3>1, <3>2 DEF ToSet
  <2> QED
    BY <1>1, <2>1, <2>2, <2>3
<1>3. v \in ToSet(u)
  <2>1. K + 1 \in DOMAIN u
    BY <1>1
  <2> QED
    BY <2>1 DEF PutIn, ToSet
<1>4. ASSUME NEW i \in DOMAIN t
      PROVE  t[i] \in ToSet(u)
  <2>1. CASE i <= K
    BY <1>1, <2>1 DEF PutIn, ToSet
  <2>2. CASE i > K
    <3>1. i + 1 \in DOMAIN u /\ u[i + 1] = t[i]
      BY <1>1, <2>2 DEF PutIn
    <3> QED
      BY <3>1 DEF ToSet
  <2> QED
    BY <1>1, <2>1, <2>2
<1> QED
  BY <1>2, <1>3, <1>4 DEF ToSet

\* One more secret in its place.
LEMMA SortedInKeeps ==
    ASSUME NEW t \in Seq(Secret), Falling(t), NEW v \in Secret
    PROVE  /\ SortedIn(t, v) \in Seq(Secret)
           /\ Falling(SortedIn(t, v))
           /\ ToSet(SortedIn(t, v)) = ToSet(t) \cup {v}
<1> DEFINE Long == {0} \cup {i \in DOMAIN t : Len(t[i]) >= Len(v)}
           K == Max(Long)
           u == SortedIn(t, v)
<1>1. /\ Len(t) \in Nat /\ DOMAIN t = 1..Len(t) /\ Len(v) \in Nat
      /\ \A i \in 1..Len(t) : t[i] \in Secret /\ Len(t[i]) \in Nat
  BY DEF Secret
<1>2. K \in Long /\ \A y \in Long : K >= y
  <2>1. Long \in SUBSET (0..Len(t)) /\ Long # {}
    BY <1>1
  <2> HIDE DEF Long
  <2> QED
    <3>1. \E x \in Long : \A y \in Long : y <= x
      BY <1>1, <2>1, LeastAndGreatest
    <3>2. \A x, y \in Long : y <= x => x >= y
      BY <1>1, <2>1
    <3> QED
      BY <3>1, <3>2 DEF Max
<1>3. K \in 0..Len(t)
  BY <1>1, <1>2
<1>4. u \in Seq(Secret) /\ PutIn(u, t, K, v)
  <2>1. u = InsertAt(t, K + 1, v)
    BY DEF SortedIn
  <2> HIDE DEF u, K
  <2> QED
    BY <1>3, <2>1, InsertAtPutsIn
<1>5. \A i \in 1..K : Len(t[i]) >= Len(v)
  <2>1. ASSUME NEW i \in 1..K
        PROVE  Len(t[i]) >= Len(v)
    <3>1. K \in DOMAIN t /\ Len(t[K]) >= Len(v) /\ i \in DOMAIN t
      BY <1>1, <1>2, <1>3
    <3>2. i < K => Len(t[i]) >= Len(t[K])
      BY <3>1 DEF Falling
    <3> HIDE DEF K
    <3> QED
      BY <1>1, <1>3, <3>1, <3>2
  <2> QED
    BY <2>1
<1>6. \A i \in (K + 1)..Len(t) : Len(t[i]) < Len(v)
  <2>1. ASSUME NEW i \in (K + 1)..Len(t)
        PROVE  Len(t[i]) < Len(v)
    <3>1. i \in DOMAIN t /\ ~(K >= i)
      BY <1>1, <1>3
    <3>2. i \notin Long
      BY <1>2, <3>1
    <3> QED
      BY <1>1, <3>1, <3>2
  <2> QED
    BY <2>1
<1> HIDE DEF Long, K, u
<1>7. DOMAIN u = 1..(Len(t) + 1)
  BY <1>1, <1>4 DEF PutIn
\* Seen from v.
<1>8. ASSUME NEW i \in DOMAIN u
      PROVE  /\ i <= K => u[i] = t[i] /\ i \in DOMAIN t
             /\ i = K + 1 => u[i] = v
             /\ i > K + 1 => u[i] = t[i - 1] /\ i - 1 \in DOMAIN t /\ i - 1 \in (K + 1)..Len(t)
  <2>1. i \in 1..(Len(t) + 1)
    BY <1>7
  <2>2. CASE i > K + 1
    <3>1. i - 1 \in (K + 1)..Len(t) /\ i - 1 + 1 = i
      BY <1>1, <1>3, <2>1, <2>2
    <3> QED
      BY <1>1, <1>3, <1>4, <2>2, <3>1 DEF PutIn
  <2> QED
    BY <1>1, <1>3, <1>4, <2>1, <2>2 DEF PutIn
<1>9. ASSUME NEW i \in DOMAIN u, NEW k \in DOMAIN u, i < k
      PROVE  Len(u[i]) >= Len(u[k])
  <2>1. i \in 1..(Len(t) + 1) /\ k \in 1..(Len(t) + 1)
    BY <1>7
  <2>2. CASE k <= K
    BY <1>1, <1>3, <1>8, <1>9, <2>1, <2>2 DEF Falling
  <2>3. CASE k = K + 1
    BY <1>1, <1>3, <1>5, <1>8, <1>9, <2>1, <2>3
  <2>4. CASE k > K + 1 /\ i <= K
    <3>1. u[i] = t[i] /\ u[k] = t[k - 1] /\ i \in DOMAIN t /\ k - 1 \in DOMAIN t /\ i < k - 1
      BY <1>1, <1>3, <1>8, <2>1, <2>4
    <3> QED
      BY <3>1 DEF Falling
  <2>5. CASE k > K + 1 /\ i = K + 1
    <3>1. u[i] = v /\ u[k] = t[k - 1] /\ k - 1 \in (K + 1)..Len(t)
      BY <1>1, <1>3, <1>8, <2>1, <2>5
    <3>2. Len(t[k - 1]) < Len(v) /\ Len(t[k - 1]) \in Nat
      BY <1>1, <1>3, <1>6, <3>1
    <3> QED
      BY <1>1, <3>1, <3>2
  <2>6. CASE i > K + 1
    <3>1. u[i] = t[i - 1] /\ u[k] = t[k - 1] /\ i - 1 \in DOMAIN t /\ k - 1 \in DOMAIN t /\ i - 1 < k - 1
      BY <1>1, <1>3, <1>8, <1>9, <2>1, <2>6
    <3> QED
      BY <3>1 DEF Falling
  <2> QED
    BY <1>3, <2>1, <2>2, <2>3, <2>4, <2>5, <2>6
<1>10. ToSet(u) = ToSet(t) \cup {v}
  BY <1>3, <1>4, PutInSet
<1> QED
  BY <1>4, <1>9, <1>10 DEF Falling, u

\* What the secrets sorted are, up to the n-th.
Sorts(f, s) == f = [n \in 0..Len(s) |-> IF n = 0 THEN <<>> ELSE SortedIn(f[n - 1], s[n])]

LEMMA SortsSteps ==
    ASSUME NEW s, Len(s) \in Nat, NEW f, Sorts(f, s)
    PROVE  f[0] = <<>> /\ \A n \in 1..Len(s) : f[n] = SortedIn(f[n - 1], s[n])
BY DEF Sorts

LEMMA StepsSort ==
    ASSUME NEW s, Len(s) \in Nat, NEW S, NEW f \in [0..Len(s) -> S],
           f[0] = <<>>, \A n \in 1..Len(s) : f[n] = SortedIn(f[n - 1], s[n])
    PROVE  Sorts(f, s)
BY DEF Sorts

\* LongestFirst sorts.
LEMMA LongestFirstSorts ==
    ASSUME NEW s \in Seq(Secret)
    PROVE  /\ LongestFirst(s) \in Seq(Secret)
           /\ Falling(LongestFirst(s))
           /\ ToSet(LongestFirst(s)) = ToSet(s)
<1> DEFINE N == Len(s)
           S == {t \in Seq(Secret) : Falling(t)}
           step == [x \in S \X (1..N) |-> SortedIn(x[1], s[x[2]])]
<1>1. N \in Nat /\ <<>> \in S /\ \A n \in 1..N : s[n] \in Secret
  BY DEF Falling
<1>2. step \in [S \X (1..N) -> S]
  <2>1. ASSUME NEW x \in S \X (1..N)
        PROVE  SortedIn(x[1], s[x[2]]) \in S
    <3>1. x[1] \in Seq(Secret) /\ Falling(x[1]) /\ s[x[2]] \in Secret
      BY <1>1
    <3> QED
      BY <3>1, SortedInKeeps
  <2> QED
    BY <2>1
<1>3. PICK f \in [0..N -> S] : Iterates(f, N, <<>>, step)
  <2> HIDE DEF N, S, step
  <2> QED
    BY <1>1, <1>2, Iterated
<1>4. f[0] = <<>>
  BY <1>3 DEF Iterates
<1>5. ASSUME NEW n \in 1..N
      PROVE  f[n] = SortedIn(f[n - 1], s[n]) /\ f[n - 1] \in S
  <2>1. f[n - 1] \in S /\ <<f[n - 1], n>> \in S \X (1..N)
    <3> HIDE DEF N, S
    <3>1. n - 1 \in 0..N
      BY <1>1
    <3> QED
      BY <3>1
  <2>2. f[n] = step[<<f[n - 1], n>>]
    BY <1>3 DEF Iterates
  <2> QED
    BY <2>1, <2>2
<1>6. Sorts(f, s)
  BY <1>1, <1>4, <1>5, StepsSort
<1> DEFINE G == CHOOSE g : Sorts(g, s)
<1>7. Sorts(G, s)
  BY <1>6
<1>8. LongestFirst(s) = G[N]
  BY DEF LongestFirst, Sorts
<1> HIDE DEF G
<1>9. Alike(G, f, N)
  <2>1. G[0] = <<>> /\ \A n \in 1..N : G[n] = SortedIn(G[n - 1], s[n])
    BY <1>1, <1>7, SortsSteps
  <2> HIDE DEF N
  <2> QED
    BY <1>4, <1>5, <2>1 DEF Alike
<1>10. LongestFirst(s) = f[N]
  <2> HIDE DEF N
  <2> QED
    BY <1>1, <1>8, <1>9, SameIterates
\* The set of the first n secrets.
<1> DEFINE T == {n \in 0..N : ToSet(f[n]) = {s[i] : i \in 1..n}}
<1>11. 0 \in T
  BY <1>1, <1>4 DEF ToSet
<1>12. ASSUME NEW n \in 1..N, n - 1 \in T
       PROVE  n \in T
  <2>1. f[n - 1] \in Seq(Secret) /\ Falling(f[n - 1]) /\ s[n] \in Secret
    BY <1>1, <1>5
  <2>2. ToSet(f[n]) = ToSet(f[n - 1]) \cup {s[n]}
    BY <1>5, <2>1, SortedInKeeps
  <2>3. ToSet(f[n - 1]) = {s[i] : i \in 1..(n - 1)}
    BY <1>12
  <2>4. 1..n = (1..(n - 1)) \cup {n}
    BY <1>1
  <2> QED
    BY <2>2, <2>3, <2>4
<1> HIDE DEF T
<1>13. N \in T
  <2>1. N \in Nat /\ N \in 0..N
    BY <1>1
  <2>2. \A n \in 1..N : n - 1 \in T => n \in T
    BY <1>12
  <2> HIDE DEF N
  <2>3. \A n \in 0..N : n \in T
    BY <1>11, <2>1, <2>2, UpTo
  <2> QED
    BY <2>1, <2>3
<1>14. ToSet(f[N]) = {s[i] : i \in 1..N} /\ f[N] \in S
  <2> HIDE DEF N
  <2> QED
    BY <1>1, <1>13 DEF T
<1>15. DOMAIN s = 1..N
  OBVIOUS
<1> QED
  BY <1>10, <1>14, <1>15 DEF ToSet

-----------------------------------------------------------------------------
(* Masked.                                                                 *)

Shown == Bytes \cup {Mask}

\* s is in t, from the j-th element on.
StandsAt(s, t, j) == j + Len(s) - 1 <= Len(t) /\ \A q \in 1..Len(s) : s[q] = t[j + q - 1]

LEMMA PrefixStands ==
    ASSUME NEW s \in Seq(Shown), NEW t \in Seq(Shown), NEW j \in 1..(Len(t) + 1)
    PROVE  IsPrefix(s, SubSeq(t, j, Len(t))) <=> StandsAt(s, t, j)
<1> DEFINE u == SubSeq(t, j, Len(t))
<1>1. Len(s) \in Nat /\ Len(t) \in Nat /\ j \in Nat /\ j >= 1 /\ j <= Len(t) + 1
  OBVIOUS
<1>2. /\ u \in Seq(Shown) /\ Len(u) = Len(t) + 1 - j
      /\ \A q \in 1..(Len(t) + 1 - j) : u[q] = t[j + q - 1]
  <2>1. \A i \in j..Len(t) : t[i] \in Shown
    OBVIOUS
  <2>2. /\ u \in Seq(Shown)
        /\ Len(u) = IF j <= Len(t) THEN Len(t) - j + 1 ELSE 0
        /\ \A i \in 1..(Len(t) - j + 1) : u[i] = t[j + i - 1]
    BY <1>1, <2>1, SubSeqProperties
  <2> HIDE DEF u
  <2>3. Len(u) = Len(t) + 1 - j
    BY <1>1, <2>2
  <2>4. Len(t) - j + 1 = Len(t) + 1 - j
    BY <1>1
  <2> QED
    BY <2>2, <2>3, <2>4
<1> HIDE DEF u
<1>3. SubSeq(s, 1, Len(s)) = s
  OBVIOUS
<1>4. ASSUME IsPrefix(s, u)
      PROVE  StandsAt(s, t, j)
  <2>1. Len(s) <= Len(u) /\ s = SubSeq(u, 1, Len(s))
    BY <1>3, <1>4 DEF IsPrefix
  <2>2. \A q \in 1..Len(s) : s[q] = u[q]
    <3>1. \A q \in 1..Len(s) : SubSeq(u, 1, Len(s))[q] = u[q]
      BY <1>1, <1>2, <2>1
    <3> QED
      BY <2>1, <3>1
  <2>3. ASSUME NEW q \in 1..Len(s)
        PROVE  s[q] = t[j + q - 1]
    <3>1. q \in 1..(Len(t) + 1 - j)
      BY <1>1, <1>2, <2>1
    <3> QED
      BY <1>2, <2>2, <3>1
  <2> QED
    BY <1>1, <1>2, <2>1, <2>3 DEF StandsAt
<1>5. ASSUME StandsAt(s, t, j)
      PROVE  IsPrefix(s, u)
  <2>1. Len(s) <= Len(u) /\ \A q \in 1..Len(s) : s[q] = u[q]
    BY <1>1, <1>2, <1>5 DEF StandsAt
  <2> DEFINE v == SubSeq(u, 1, Len(s))
  <2>2. v \in Seq(Shown) /\ Len(v) = Len(s) /\ \A q \in 1..Len(s) : v[q] = u[q]
    BY <1>1, <1>2, <2>1
  <2> HIDE DEF v
  <2>3. s = v
    BY <2>1, <2>2, SeqEqual
  <2> QED
    BY <1>3, <2>1, <2>3 DEF IsPrefix, v
<1> QED
  BY <1>4, <1>5 DEF u

\* The secrets that begin at i, the one that is replaced, and where it goes on.
Tried(text, i)  == {k \in DOMAIN replacer : IsPrefix(replacer[k], SubSeq(text, i, Len(text)))}
First(text, i)  == CHOOSE k \in Tried(text, i) : \A m \in Tried(text, i) : k <= m
Here(text, i)   == IF Tried(text, i) = {} THEN text[i] ELSE Mask
Onward(text, i) == IF Tried(text, i) = {} THEN i + 1 ELSE i + Len(replacer[First(text, i)])

Replacer == replacer \in Seq(Secret)

LEMMA FirstTried ==
    ASSUME Replacer, NEW text \in Seq(Bytes), NEW i \in 1..Len(text), Tried(text, i) # {}
    PROVE  /\ First(text, i) \in DOMAIN replacer
           /\ replacer[First(text, i)] \in Secret
           /\ StandsAt(replacer[First(text, i)], text, i)
           /\ \A m \in Tried(text, i) : First(text, i) <= m
<1> DEFINE T == Tried(text, i)
<1>1. T \in SUBSET Nat
  BY DEF Tried, Replacer
<1>2. \E k \in T : \A m \in T : k <= m
  BY <1>1, LeastNumber
<1>3. First(text, i) \in T /\ \A m \in T : First(text, i) <= m
  BY <1>2 DEF First
<1>4. First(text, i) \in DOMAIN replacer /\ IsPrefix(replacer[First(text, i)], SubSeq(text, i, Len(text)))
  BY <1>3 DEF Tried
<1>5. replacer[First(text, i)] \in Secret
  BY <1>4 DEF Replacer
<1>6. replacer[First(text, i)] \in Seq(Shown) /\ text \in Seq(Shown) /\ i \in 1..(Len(text) + 1)
  BY <1>5 DEF Secret, Shown
<1> QED
  BY <1>3, <1>4, <1>5, <1>6, PrefixStands

\* It goes on further to the right, and not beyond the end.
LEMMA OnwardIsOn ==
    ASSUME Replacer, NEW text \in Seq(Bytes), NEW i \in 1..Len(text)
    PROVE  Onward(text, i) \in (i + 1)..(Len(text) + 1) /\ Here(text, i) \in Shown
<1>1. CASE Tried(text, i) = {}
  BY <1>1 DEF Onward, Here, Shown
<1>2. CASE Tried(text, i) # {}
  <2> DEFINE r == replacer[First(text, i)]
  <2>1. r \in Secret /\ StandsAt(r, text, i)
    BY <1>2, FirstTried
  <2> HIDE DEF r
  <2>2. Len(r) \in Nat /\ Len(r) # 0
    BY <2>1 DEF Secret
  <2>3. i + Len(r) \in (i + 1)..(Len(text) + 1)
    BY <2>1, <2>2 DEF StandsAt
  <2> QED
    BY <1>2, <2>3 DEF Onward, Here, Shown, r
<1> QED
  BY <1>1, <1>2

Then(b, s) == <<b>> \o s

MasksAt(f, text, i) ==
    f[i] = IF i > Len(text) THEN <<>> ELSE Then(Here(text, i), f[Onward(text, i)])

Masks(f, text) ==
    f = [i \in 1..(Len(text) + 1) |->
            IF i > Len(text) THEN <<>>
            ELSE IF Tried(text, i) = {} THEN <<text[i]>> \o f[i + 1]
            ELSE <<Mask>> \o f[i + Len(replacer[First(text, i)])]]

\* The definition of Masked defines it.
LEMMA MaskedDefined ==
    ASSUME Replacer, NEW text \in Seq(Bytes)
    PROVE  \E f : (\A i \in 1..(Len(text) + 1) : MasksAt(f, text, i)) /\ Masked(text) = f[1]
<1> DEFINE N == Len(text) + 1
           S == Seq(Shown)
           From(f, n) == \A i \in n..N : MasksAt(f, text, i)
           T == {n \in 1..N : \E f \in [1..N -> S] : From(f, n)}
<1>1. N \in Nat /\ N >= 1 /\ Len(text) \in Nat /\ N = Len(text) + 1
  OBVIOUS
<1>2. ASSUME NEW n \in 1..N, \A m \in (n + 1)..N : m \in T
      PROVE  n \in T
  <2>1. CASE n = N
    <3> DEFINE g == [i \in 1..N |-> <<>>]
    <3>1. g \in [1..N -> S] /\ g[N] = <<>>
      BY <1>1
    <3> HIDE DEF g
    <3>2. From(g, n)
      <4>1. \A i \in n..N : i = N /\ i > Len(text)
        BY <1>1, <2>1
      <4> QED
        BY <3>1, <4>1 DEF MasksAt
    <3> QED
      BY <3>1, <3>2
  <2>2. CASE n # N
    <3>1. n + 1 \in (n + 1)..N /\ n \in 1..Len(text)
      BY <1>1, <2>2
    <3>2. PICK f \in [1..N -> S] : From(f, n + 1)
      BY <1>2, <3>1
    <3> DEFINE m == Onward(text, n)
               g == [f EXCEPT ![n] = Then(Here(text, n), f[m])]
    <3>3. m \in (n + 1)..N /\ Here(text, n) \in Shown
      BY <3>1, OnwardIsOn
    <3>4. Then(Here(text, n), f[m]) \in S
      <4> HIDE DEF m, N
      <4>1. f[m] \in S
        BY <1>1, <3>1, <3>3
      <4> QED
        BY <3>3, <4>1 DEF Then
    <3>5. g \in [1..N -> S] /\ g[n] = Then(Here(text, n), f[m]) /\ \A i \in (n + 1)..N : g[i] = f[i]
      <4> HIDE DEF m, S, N
      <4> QED
        BY <1>1, <3>1, <3>4
    <3> HIDE DEF g, N
    <3>6. MasksAt(g, text, n)
      BY <3>1, <3>3, <3>5 DEF MasksAt
    <3>7. ASSUME NEW i \in (n + 1)..N
          PROVE  MasksAt(g, text, i)
      <4>1. MasksAt(f, text, i) /\ g[i] = f[i]
        BY <3>2, <3>5, <3>7
      <4>2. CASE i > Len(text)
        BY <4>1, <4>2 DEF MasksAt
      <4>3. CASE i <= Len(text)
        <5>1. i \in 1..Len(text) /\ i > n
          BY <1>1, <3>1, <3>7, <4>3
        <5>2. Onward(text, i) \in (i + 1)..(Len(text) + 1)
          BY <5>1, OnwardIsOn
        <5>3. Onward(text, i) \in (n + 1)..N
          BY <1>1, <3>1, <5>1, <5>2
        <5>4. g[Onward(text, i)] = f[Onward(text, i)]
          BY <3>5, <5>3
        <5> QED
          BY <4>1, <5>4 DEF MasksAt
      <4> QED
        BY <1>1, <3>1, <3>7, <4>2, <4>3
    <3>8. From(g, n)
      <4>1. \A i \in n..N : i = n \/ i \in (n + 1)..N
        BY <1>1, <3>1
      <4> QED
        BY <3>6, <3>7, <4>1
    <3> QED
      BY <3>5, <3>8
  <2> QED
    BY <2>1, <2>2
<1> HIDE DEF T
<1>3. 1 \in T
  <2>1. 1 \in 1..N
    BY <1>1
  <2> HIDE DEF N
  <2> QED
    BY <1>1, <1>2, <2>1, DownFrom
<1>4. PICK f \in [1..N -> S] : From(f, 1)
  BY <1>3 DEF T
<1>5. Masks(f, text)
  <2>1. ASSUME NEW i \in 1..N
        PROVE  f[i] = IF i > Len(text) THEN <<>>
                      ELSE IF Tried(text, i) = {} THEN <<text[i]>> \o f[i + 1]
                      ELSE <<Mask>> \o f[i + Len(replacer[First(text, i)])]
    BY <1>4 DEF MasksAt, Onward, Here, Then
  <2> QED
    BY <2>1 DEF Masks
<1> DEFINE G == CHOOSE g : Masks(g, text)
<1>6. Masks(G, text)
  BY <1>5
<1>7. Masked(text) = G[1]
  BY DEF Masked, Masks, Tried, First
<1> HIDE DEF G
<1>8. ASSUME NEW i \in 1..N
      PROVE  MasksAt(G, text, i)
  <2>1. G[i] = IF i > Len(text) THEN <<>>
               ELSE IF Tried(text, i) = {} THEN <<text[i]>> \o G[i + 1]
               ELSE <<Mask>> \o G[i + Len(replacer[First(text, i)])]
    BY <1>6 DEF Masks
  <2> QED
    BY <2>1 DEF MasksAt, Onward, Here, Then
<1> QED
  BY <1>7, <1>8

\* The first k elements of s are no mask.
Plain(s, k) == \A q \in 1..k : s[q] # Mask

\* What is not masked is the text itself, and no secret stands in what is written from i on.
Faithful(s, text, i) ==
    \A k \in 1..Len(s) : Plain(s, k) =>
        i + k - 1 <= Len(text) /\ \A q \in 1..k : s[q] = text[i + q - 1]

Clear(s) == \A x \in ToSet(replacer) : \A j \in 1..Len(s) : ~StandsAt(x, s, j)

Sound(s, text, i) == s \in Seq(Shown) /\ Faithful(s, text, i) /\ Clear(s)

\* The element after the first is the first of the rest.
LEMMA ThenIs ==
    ASSUME NEW b \in Shown, NEW s \in Seq(Shown)
    PROVE  /\ Then(b, s) \in Seq(Shown)
           /\ Len(Then(b, s)) = Len(s) + 1
           /\ Then(b, s)[1] = b
           /\ \A q \in 1..Len(s) : Then(b, s)[q + 1] = s[q]
<1>1. <<b>> \in Seq(Shown) /\ Len(<<b>>) = 1 /\ <<b>>[1] = b /\ Len(s) \in Nat
  OBVIOUS
<1>2. /\ <<b>> \o s \in Seq(Shown)
      /\ Len(<<b>> \o s) = 1 + Len(s)
      /\ \A i \in 1..(1 + Len(s)) : (<<b>> \o s)[i] = IF i <= 1 THEN <<b>>[i] ELSE s[i - 1]
  BY <1>1, ConcatProperties
<1> QED
  BY <1>1, <1>2 DEF Then

LEMMA SoundStep ==
    ASSUME Replacer, NEW text \in Seq(Bytes), NEW i \in 1..Len(text), NEW s,
           Sound(s, text, Onward(text, i))
    PROVE  Sound(Then(Here(text, i), s), text, i)
<1> DEFINE u == Then(Here(text, i), s)
           m == Onward(text, i)
<1>1. s \in Seq(Shown) /\ Faithful(s, text, m) /\ Clear(s) /\ Len(s) \in Nat /\ Len(text) \in Nat
  BY DEF Sound
<1>2. Here(text, i) \in Shown
  BY OnwardIsOn
<1>3. /\ u \in Seq(Shown) /\ Len(u) = Len(s) + 1 /\ u[1] = Here(text, i)
      /\ \A q \in 1..Len(s) : u[q + 1] = s[q]
  BY <1>1, <1>2, ThenIs
<1>4. Here(text, i) # Mask => Tried(text, i) = {} /\ Here(text, i) = text[i] /\ m = i + 1
  BY DEF Here, Onward
<1> HIDE DEF u, m
<1>5. ASSUME NEW k \in 1..Len(u), Plain(u, k)
      PROVE  i + k - 1 <= Len(text) /\ \A q \in 1..k : u[q] = text[i + q - 1]
  <2>1. u[1] # Mask
    BY <1>5 DEF Plain
  <2>2. m = i + 1 /\ u[1] = text[i]
    BY <1>3, <1>4, <2>1
  <2>3. CASE k = 1
    BY <2>2, <2>3
  <2>4. CASE k # 1
    <3>1. k - 1 \in 1..Len(s)
      BY <1>1, <1>3, <2>4
    <3>2. Plain(s, k - 1)
      <4>1. ASSUME NEW q \in 1..(k - 1)
            PROVE  s[q] # Mask
        <5>1. q \in 1..Len(s) /\ q + 1 \in 1..k
          BY <1>1, <3>1
        <5> QED
          BY <1>3, <1>5, <5>1 DEF Plain
      <4> QED
        BY <4>1 DEF Plain
    <3>3. m + (k - 1) - 1 <= Len(text) /\ \A q \in 1..(k - 1) : s[q] = text[m + q - 1]
      BY <1>1, <3>1, <3>2 DEF Faithful
    <3>4. ASSUME NEW q \in 1..k
          PROVE  u[q] = text[i + q - 1]
      <4>1. CASE q = 1
        BY <2>2, <4>1
      <4>2. CASE q # 1
        <5>1. q - 1 \in 1..(k - 1) /\ q - 1 \in 1..Len(s) /\ q - 1 + 1 = q
          BY <1>1, <3>1, <4>2
        <5>2. u[q] = s[q - 1]
          BY <1>3, <5>1
        <5>3. s[q - 1] = text[m + (q - 1) - 1]
          BY <3>3, <5>1
        <5>4. m + (q - 1) - 1 = i + q - 1
          BY <2>2
        <5> QED
          BY <5>2, <5>3, <5>4
      <4> QED
        BY <4>1, <4>2
    <3> QED
      BY <2>2, <3>1, <3>3, <3>4
  <2> QED
    BY <2>3, <2>4
<1>6. Faithful(u, text, i)
  BY <1>5 DEF Faithful
<1>7. ASSUME NEW x \in ToSet(replacer), NEW j \in 1..Len(u), StandsAt(x, u, j)
      PROVE  FALSE
  <2>1. PICK k \in DOMAIN replacer : x = replacer[k]
    BY DEF ToSet
  <2>2. x \in Secret
    BY <2>1 DEF Replacer
  <2>3. x \in Seq(Bytes) /\ Len(x) \in Nat /\ Len(x) # 0
    BY <2>2 DEF Secret
  <2>4. CASE j = 1
    <3>1. Len(x) \in 1..Len(u) /\ \A q \in 1..Len(x) : x[q] = u[q]
      BY <1>1, <1>3, <1>7, <2>3, <2>4 DEF StandsAt
    <3>2. Plain(u, Len(x))
      <4>1. \A q \in 1..Len(x) : x[q] \in Bytes
        BY <2>3
      <4> QED
        BY <3>1, <4>1, StreamAssumption DEF Plain
    <3>3. i + Len(x) - 1 <= Len(text) /\ \A q \in 1..Len(x) : u[q] = text[i + q - 1]
      BY <1>6, <3>1, <3>2 DEF Faithful
    <3>4. StandsAt(x, text, i)
      BY <3>1, <3>3 DEF StandsAt
    <3>5. x \in Seq(Shown) /\ text \in Seq(Shown) /\ i \in 1..(Len(text) + 1)
      BY <2>3 DEF Shown
    <3>6. k \in Tried(text, i)
      BY <2>1, <3>4, <3>5, PrefixStands DEF Tried
    <3>7. u[1] = Mask
      BY <1>3, <1>4, <3>6
    <3> QED
      BY <2>3, <3>2, <3>7 DEF Plain
  <2>5. CASE j # 1
    <3>1. j - 1 \in 1..Len(s)
      BY <1>1, <1>3, <2>5
    <3>2. StandsAt(x, s, j - 1)
      <4>1. j + Len(x) - 1 <= Len(s) + 1 /\ \A q \in 1..Len(x) : x[q] = u[j + q - 1]
        BY <1>3, <1>7 DEF StandsAt
      <4>2. ASSUME NEW q \in 1..Len(x)
            PROVE  x[q] = s[(j - 1) + q - 1]
        <5>1. (j - 1) + q - 1 \in 1..Len(s) /\ ((j - 1) + q - 1) + 1 = j + q - 1
          BY <1>1, <1>3, <2>3, <3>1, <4>1
        <5> QED
          BY <1>3, <4>1, <5>1
      <4> QED
        BY <1>1, <2>3, <3>1, <4>1, <4>2 DEF StandsAt
    <3> QED
      BY <1>1, <3>1, <3>2 DEF Clear
  <2> QED
    BY <2>4, <2>5
<1> QED
  BY <1>3, <1>6, <1>7 DEF Sound, Clear, u

\* What is written has no secret in it, and of a text that is a secret nothing is left.
LEMMA MaskedHides ==
    ASSUME Replacer, NEW text \in Seq(Bytes)
    PROVE  /\ Masked(text) \in Seq(Shown)
           /\ Clear(Masked(text))
           /\ Falling(replacer) /\ text \in ToSet(replacer) => Masked(text) = <<Mask>>
<1> DEFINE N == Len(text) + 1
<1>1. N \in Nat /\ N >= 1 /\ Len(text) \in Nat /\ N = Len(text) + 1
  OBVIOUS
<1>2. PICK f : (\A i \in 1..N : MasksAt(f, text, i)) /\ Masked(text) = f[1]
  BY MaskedDefined
<1> HIDE DEF N
<1> DEFINE T == {i \in 1..N : Sound(f[i], text, i)}
<1>3. ASSUME NEW n \in 1..N, \A m \in (n + 1)..N : m \in T
      PROVE  n \in T
  <2>1. CASE n > Len(text)
    <3>1. f[n] = <<>>
      BY <1>2, <2>1 DEF MasksAt
    <3>2. Sound(<<>>, text, n)
      BY DEF Sound, Faithful, Clear
    <3> QED
      BY <3>1, <3>2
  <2>2. CASE n <= Len(text)
    <3>1. n \in 1..Len(text) /\ ~(n > Len(text))
      BY <1>1, <2>2
    <3>2. Onward(text, n) \in (n + 1)..N
      BY <1>1, <3>1, OnwardIsOn
    <3>3. Sound(f[Onward(text, n)], text, Onward(text, n))
      BY <1>3, <3>2
    <3>4. f[n] = Then(Here(text, n), f[Onward(text, n)])
      BY <1>2, <3>1 DEF MasksAt
    <3> QED
      BY <3>1, <3>3, <3>4, SoundStep
  <2> QED
    BY <1>1, <2>1, <2>2
<1> HIDE DEF T
<1>4. 1 \in T
  <2>1. 1 \in 1..N
    BY <1>1
  <2> QED
    BY <1>1, <1>3, <2>1, DownFrom
<1>5. Sound(f[1], text, 1)
  BY <1>4 DEF T
<1>6. ASSUME Falling(replacer), text \in ToSet(replacer)
      PROVE  Masked(text) = <<Mask>>
  <2>1. PICK k \in DOMAIN replacer : text = replacer[k]
    BY <1>6 DEF ToSet
  <2>2. text \in Secret /\ Len(text) # 0
    BY <2>1 DEF Replacer, Secret
  <2>3. 1 \in 1..Len(text) /\ text \in Seq(Shown)
    BY <1>1, <2>2 DEF Shown
  <2>4. k \in Tried(text, 1)
    <3>1. StandsAt(text, text, 1)
      BY <1>1 DEF StandsAt
    <3>2. 1 \in 1..(Len(text) + 1)
      BY <1>1
    <3> QED
      BY <2>1, <2>3, <3>1, <3>2, PrefixStands DEF Tried
  <2> DEFINE h == First(text, 1)
  <2>5. h \in DOMAIN replacer /\ replacer[h] \in Secret /\ StandsAt(replacer[h], text, 1) /\ h <= k
    BY <2>3, <2>4, FirstTried
  <2> HIDE DEF h
  <2>6. Len(replacer[h]) \in Nat /\ 1 + Len(replacer[h]) - 1 <= Len(text)
    BY <2>5 DEF StandsAt, Secret
  <2>7. Len(replacer[h]) >= Len(text)
    <3>1. h \in Nat /\ k \in Nat
      BY <2>5 DEF Replacer
    <3> QED
      BY <1>1, <1>6, <2>1, <2>5, <3>1 DEF Falling
  <2>8. Onward(text, 1) = N /\ Here(text, 1) = Mask
    BY <1>1, <2>4, <2>6, <2>7 DEF Onward, Here, h
  <2>9. f[1] = Then(Mask, f[N]) /\ f[N] = <<>>
    <3>1. 1 \in 1..N /\ N \in 1..N /\ ~(1 > Len(text)) /\ N > Len(text)
      BY <1>1, <2>3
    <3> QED
      BY <1>2, <2>8, <3>1 DEF MasksAt
  <2> QED
    BY <1>2, <2>9 DEF Then
<1> QED
  BY <1>2, <1>5, <1>6 DEF Sound

-----------------------------------------------------------------------------
(* Bytes one after the other.                                              *)

Cat(a, b) == a \o b

LEMMA CatLaws ==
    /\ \A a, b \in Seq(Bytes) : Cat(a, b) \in Seq(Bytes)
    /\ \A a, b, c \in Seq(Bytes) : Cat(Cat(a, b), c) = Cat(a, Cat(b, c))
    /\ \A a \in Seq(Bytes) : Cat(a, <<>>) = a /\ Cat(<<>>, a) = a
    /\ <<>> \in Seq(Bytes) /\ <<NewLine>> \in Seq(Bytes)
<1>1. ASSUME NEW a \in Seq(Bytes), NEW b \in Seq(Bytes)
      PROVE  Cat(a, b) \in Seq(Bytes)
  BY DEF Cat
<1>2. ASSUME NEW a \in Seq(Bytes), NEW b \in Seq(Bytes), NEW c \in Seq(Bytes)
      PROVE  Cat(Cat(a, b), c) = Cat(a, Cat(b, c))
  BY ConcatAssociative DEF Cat
<1>3. ASSUME NEW a \in Seq(Bytes)
      PROVE  Cat(a, <<>>) = a /\ Cat(<<>>, a) = a
  BY ConcatEmptySeq DEF Cat
<1>4. <<>> \in Seq(Bytes) /\ <<NewLine>> \in Seq(Bytes)
  BY StreamAssumption
<1> QED
  BY <1>1, <1>2, <1>3, <1>4

\* A sequence cut after n bytes.
LEMMA CutInTwo ==
    ASSUME NEW b \in Seq(Bytes), NEW n \in 1..Len(b)
    PROVE  /\ SubSeq(b, 1, n) \in Seq(Bytes) /\ SubSeq(b, n + 1, Len(b)) \in Seq(Bytes)
           /\ Cat(SubSeq(b, 1, n), SubSeq(b, n + 1, Len(b))) = b
<1>1. Len(b) \in Nat /\ n \in Nat
  OBVIOUS
<1>2. SubSeq(b, 1, n) \in Seq(Bytes)
  OBVIOUS
<1>3. SubSeq(b, n + 1, Len(b)) \in Seq(Bytes)
  <2>1. \A i \in (n + 1)..Len(b) : b[i] \in Bytes
    OBVIOUS
  <2>2. n + 1 \in Int /\ Len(b) \in Int
    OBVIOUS
  <2> QED
    BY <2>1, <2>2, SubSeqProperties
<1>4. SubSeq(b, 1, n) \o SubSeq(b, n + 1, Len(b)) = SubSeq(b, 1, Len(b))
  <2>1. 1 \in 1..(Len(b) + 1) /\ n \in (1 - 1)..Len(b) /\ Len(b) \in n..Len(b)
    BY <1>1
  <2> QED
    BY <2>1, ConcatAdjacentSubSeq
<1>5. SubSeq(b, 1, Len(b)) = b
  BY SubSeqFull
<1> QED
  BY <1>2, <1>3, <1>4, <1>5, Zenon DEF Cat

\* A sequence cut at a newline.
LEMMA CutAtNewline ==
    ASSUME NEW b \in Seq(Bytes), NEW e \in 1..Len(b), b[e] = NewLine
    PROVE  /\ SubSeq(b, 1, e - 1) \in Seq(Bytes) /\ SubSeq(b, e + 1, Len(b)) \in Seq(Bytes)
           /\ b = Cat(Cat(SubSeq(b, 1, e - 1), <<NewLine>>), SubSeq(b, e + 1, Len(b)))
<1>1. /\ SubSeq(b, e + 1, Len(b)) \in Seq(Bytes)
      /\ Cat(SubSeq(b, 1, e), SubSeq(b, e + 1, Len(b))) = b
  BY CutInTwo
<1>2. SubSeq(b, 1, e - 1) \in Seq(Bytes)
  OBVIOUS
<1>3. SubSeq(b, 1, e) = SubSeq(b, 1, e - 1) \o <<b[e]>>
  <2>1. 1 \in 1..Len(b) /\ e \in 1..Len(b)
    OBVIOUS
  <2> QED
    BY <2>1, SubSeqRecursiveSecond
<1>4. SubSeq(b, 1, e) = Cat(SubSeq(b, 1, e - 1), <<NewLine>>)
  BY <1>3 DEF Cat
<1> QED
  BY <1>1, <1>2, <1>4

\* What was handed on, with what is still to come.
Whole(j, q, b, u) == Cat(Cat(Cat(j, q), b), u)

LEMMA WholeKept ==
    ASSUME NEW j \in Seq(Bytes), NEW q \in Seq(Bytes), NEW b \in Seq(Bytes), NEW u \in Seq(Bytes)
    PROVE  /\ Whole(j, q, b, u) = Whole(j, Cat(q, b), <<>>, u)
           /\ Whole(j, q, <<>>, Cat(b, u)) = Whole(j, q, b, u)
           /\ Whole(j, q, <<>>, <<>>) = Cat(j, q)
<1>1. Cat(j, q) \in Seq(Bytes) /\ Cat(q, b) \in Seq(Bytes) /\ Cat(Cat(j, q), b) \in Seq(Bytes)
  BY CatLaws
<1>2. Cat(Cat(j, q), b) = Cat(j, Cat(q, b)) /\ Cat(Cat(j, Cat(q, b)), <<>>) = Cat(j, Cat(q, b))
  BY <1>1, CatLaws
<1>3. Cat(Cat(j, q), <<>>) = Cat(j, q)
  BY <1>1, CatLaws
<1>4. Cat(Cat(j, q), Cat(b, u)) = Cat(Cat(Cat(j, q), b), u)
  BY <1>1, CatLaws
<1> QED
  BY <1>2, <1>3, <1>4 DEF Whole

\* A line that is cut off, and an empty line that is dropped.
LEMMA WholeCut ==
    ASSUME NEW j \in Seq(Bytes), NEW q \in Seq(Bytes), NEW x \in Seq(Bytes), NEW y \in Seq(Bytes),
           NEW u \in Seq(Bytes), Tidy(j)
    PROVE  LET b == Cat(Cat(x, <<NewLine>>), y) IN
           /\ Whole(j, q, b, u) = Whole(Ended(j, Cat(q, x)), <<>>, y, u)
           /\ Cat(q, x) = <<>> => Packed(Whole(j, q, b, u)) = Packed(Whole(j, <<>>, y, u))
<1> DEFINE n == <<NewLine>>
           b == Cat(Cat(x, n), y)
           l == Cat(q, x)
           t == Cat(Cat(j, l), n)
<1>1. /\ n \in Seq(Bytes) /\ l \in Seq(Bytes) /\ Cat(j, l) \in Seq(Bytes) /\ t \in Seq(Bytes)
      /\ Cat(x, n) \in Seq(Bytes) /\ b \in Seq(Bytes) /\ Cat(j, q) \in Seq(Bytes)
      /\ Cat(y, u) \in Seq(Bytes) /\ Cat(t, y) \in Seq(Bytes)
  BY CatLaws
<1>2. t = Ended(j, l)
  BY DEF Ended, Cat
<1> HIDE DEF n
<1>3. Cat(Cat(j, q), b) = Cat(t, y)
  <2>1. Cat(Cat(j, q), Cat(x, n)) = Cat(j, Cat(q, Cat(x, n)))
    BY <1>1, CatLaws
  <2>2. Cat(q, Cat(x, n)) = Cat(l, n)
    BY <1>1, CatLaws
  <2>3. Cat(j, Cat(l, n)) = t
    BY <1>1, CatLaws
  <2>4. Cat(Cat(j, q), Cat(Cat(x, n), y)) = Cat(Cat(Cat(j, q), Cat(x, n)), y)
    BY <1>1, CatLaws
  <2> QED
    BY <2>1, <2>2, <2>3, <2>4
<1>4. Cat(t, <<>>) = t
  BY <1>1, CatLaws
<1>5. Whole(j, q, b, u) = Whole(t, <<>>, y, u)
  BY <1>3, <1>4 DEF Whole
<1>6. ASSUME l = <<>>
      PROVE  Packed(Whole(j, q, b, u)) = Packed(Whole(j, <<>>, y, u))
  <2>1. Cat(j, l) = j
    BY <1>6, CatLaws
  <2>2. t = Append(j, NewLine)
    BY <2>1, AppendIsConcat, StreamAssumption DEF Cat, n
  <2>3. Packed(t) = Packed(j) /\ AtLineStart(t) /\ AtLineStart(j)
    BY <2>2, PackedAppend, StartAfter, StreamAssumption DEF Tidy
  <2>4. Packed(t \o Cat(y, u)) = Packed(j \o Cat(y, u))
    BY <1>1, <2>3, PackedTail
  <2>5. Whole(t, <<>>, y, u) = Cat(t, Cat(y, u)) /\ Whole(j, <<>>, y, u) = Cat(j, Cat(y, u))
    <3>1. Cat(j, <<>>) = j
      BY CatLaws
    <3>2. Cat(Cat(t, y), u) = Cat(t, Cat(y, u)) /\ Cat(Cat(j, y), u) = Cat(j, Cat(y, u))
      BY <1>1, CatLaws
    <3> QED
      BY <1>4, <3>1, <3>2 DEF Whole
  <2> QED
    BY <1>5, <2>4, <2>5 DEF Cat
<1> HIDE DEF b, l, t
<1> QED
  BY <1>2, <1>5, <1>6 DEF b, l, n

-----------------------------------------------------------------------------
(* A pipe: given is what the runner writes, j the lines handed on with     *)
(* their newlines, q the part of a line that is kept, b what was read, u   *)
(* what was not, and c whether the pipe has ended.                         *)

PipeOK(g, j, q, b, u, c) ==
    /\ g \in Seq(Bytes) /\ j \in Seq(Bytes) /\ q \in Seq(Bytes) /\ b \in Seq(Bytes) /\ u \in Seq(Bytes)
    /\ Word(q) /\ Tidy(j)
    /\ c \in BOOLEAN
    /\ c => b = <<>> /\ u = <<>> /\ j \in {Packed(g), Cat(Packed(g), <<NewLine>>)}
    /\ ~c => Packed(Whole(j, q, b, u)) = Packed(g)

\* WordsTogether one after the other are a word.
LEMMA WordsTogether ==
    ASSUME NEW a \in Seq(Bytes), NEW b \in Seq(Bytes), Word(a), Word(b)
    PROVE  Cat(a, b) \in Seq(Bytes) /\ Word(Cat(a, b))
<1>1. /\ a \o b \in Seq(Bytes) /\ Len(a \o b) = Len(a) + Len(b)
      /\ \A i \in 1..(Len(a) + Len(b)) : (a \o b)[i] = IF i <= Len(a) THEN a[i] ELSE b[i - Len(a)]
  BY ConcatProperties
<1>2. ASSUME NEW i \in DOMAIN (a \o b)
      PROVE  (a \o b)[i] # NewLine
  <2>1. i \in 1..(Len(a) + Len(b)) /\ Len(a) \in Nat /\ Len(b) \in Nat
    BY <1>1
  <2>2. CASE i <= Len(a)
    <3>1. i \in DOMAIN a
      BY <2>1, <2>2
    <3> QED
      BY <1>1, <2>1, <2>2, <3>1 DEF Word
  <2>3. CASE ~(i <= Len(a))
    <3>1. i - Len(a) \in DOMAIN b
      BY <2>1, <2>3
    <3> QED
      BY <1>1, <2>1, <2>3, <3>1 DEF Word
  <2> QED
    BY <2>2, <2>3
<1> QED
  BY <1>1, <1>2 DEF Word, Cat

\* What is read of the pipe is no longer to be read.
LEMMA PipeReads ==
    ASSUME NEW g, NEW j, NEW q, NEW u, NEW c, PipeOK(g, j, q, <<>>, u, c), NEW n \in 1..Len(u)
    PROVE  PipeOK(g, j, q, SubSeq(u, 1, n), SubSeq(u, n + 1, Len(u)), c)
<1>1. u \in Seq(Bytes) /\ u # <<>> /\ ~c /\ j \in Seq(Bytes) /\ q \in Seq(Bytes)
  BY DEF PipeOK
<1> DEFINE x == SubSeq(u, 1, n)
           y == SubSeq(u, n + 1, Len(u))
<1>2. x \in Seq(Bytes) /\ y \in Seq(Bytes) /\ Cat(x, y) = u
  BY <1>1, CutInTwo
<1> HIDE DEF x, y
<1>3. Whole(j, q, <<>>, u) = Whole(j, q, x, y)
  BY <1>1, <1>2, WholeKept
<1> QED
  BY <1>1, <1>2, <1>3 DEF PipeOK, x, y

\* The end of the chunk without a newline is kept.
LEMMA PipeKeeps ==
    ASSUME NEW g, NEW j, NEW q, NEW b, NEW u, NEW c, PipeOK(g, j, q, b, u, c), b # <<>>, Word(b)
    PROVE  PipeOK(g, j, Cat(q, b), <<>>, u, c)
<1>1. /\ g \in Seq(Bytes) /\ j \in Seq(Bytes) /\ q \in Seq(Bytes) /\ b \in Seq(Bytes) /\ u \in Seq(Bytes)
      /\ Word(q) /\ ~c
  BY DEF PipeOK
<1>2. Cat(q, b) \in Seq(Bytes) /\ Word(Cat(q, b)) /\ <<>> \in Seq(Bytes)
  BY <1>1, WordsTogether
<1>3. Whole(j, q, b, u) = Whole(j, Cat(q, b), <<>>, u)
  BY <1>1, WholeKept
<1> QED
  BY <1>1, <1>2, <1>3 DEF PipeOK

\* A line is cut off at the first newline; an empty one is not handed on.
LEMMA PipeCuts ==
    ASSUME NEW g, NEW j, NEW q, NEW b, NEW u, NEW c, PipeOK(g, j, q, b, u, c),
           NEW e \in 1..Len(b), b[e] = NewLine, \A i \in 1..(e - 1) : b[i] # NewLine
    PROVE  LET l == Cat(q, SubSeq(b, 1, e - 1))
               y == SubSeq(b, e + 1, Len(b)) IN
           /\ l \in Seq(Bytes) /\ y \in Seq(Bytes)
           /\ l = <<>> => PipeOK(g, j, <<>>, y, u, c)
           /\ l # <<>> => PipeOK(g, Ended(j, l), <<>>, y, u, c)
<1>1. /\ g \in Seq(Bytes) /\ j \in Seq(Bytes) /\ q \in Seq(Bytes) /\ b \in Seq(Bytes) /\ u \in Seq(Bytes)
      /\ Word(q) /\ Tidy(j) /\ ~c /\ Packed(Whole(j, q, b, u)) = Packed(g) /\ c \in BOOLEAN
  BY DEF PipeOK
<1> DEFINE x == SubSeq(b, 1, e - 1)
           y == SubSeq(b, e + 1, Len(b))
           l == Cat(q, x)
<1>2. x \in Seq(Bytes) /\ y \in Seq(Bytes) /\ b = Cat(Cat(x, <<NewLine>>), y)
  BY <1>1, CutAtNewline
<1>3. Word(x)
  <2>1. Len(x) = e - 1 /\ \A i \in 1..(e - 1) : x[i] = b[i]
    BY <1>1
  <2> QED
    BY <1>2, <2>1 DEF Word
<1>4. l \in Seq(Bytes) /\ Word(l)
  BY <1>1, <1>2, <1>3, WordsTogether
<1>5. <<>> \in Seq(Bytes) /\ Word(<<>>)
  BY DEF Word
<1> HIDE DEF x, y
<1>6. /\ Whole(j, q, b, u) = Whole(Ended(j, l), <<>>, y, u)
      /\ l = <<>> => Packed(Whole(j, q, b, u)) = Packed(Whole(j, <<>>, y, u))
  BY <1>1, <1>2, WholeCut
<1>7. l # <<>> => Tidy(Ended(j, l)) /\ Ended(j, l) \in Seq(Bytes)
  BY <1>1, <1>4, TidyLine
<1>8. l = <<>> => PipeOK(g, j, <<>>, y, u, c)
  BY <1>1, <1>2, <1>5, <1>6 DEF PipeOK
<1>9. l # <<>> => PipeOK(g, Ended(j, l), <<>>, y, u, c)
  BY <1>1, <1>2, <1>5, <1>6, <1>7 DEF PipeOK
<1> QED
  BY <1>2, <1>4, <1>8, <1>9 DEF x, y

\* The last line is handed on as if it had a newline.
LEMMA PipeCloses ==
    ASSUME NEW g, NEW j, NEW q, PipeOK(g, j, q, <<>>, <<>>, FALSE)
    PROVE  /\ q = <<>> => PipeOK(g, j, q, <<>>, <<>>, TRUE)
           /\ q # <<>> => PipeOK(g, Ended(j, q), q, <<>>, <<>>, TRUE)
<1>1. /\ g \in Seq(Bytes) /\ j \in Seq(Bytes) /\ q \in Seq(Bytes) /\ <<>> \in Seq(Bytes)
      /\ Word(q) /\ Tidy(j) /\ Packed(Whole(j, q, <<>>, <<>>)) = Packed(g)
  BY DEF PipeOK
<1>2. Packed(Cat(j, q)) = Packed(g)
  <2>1. Whole(j, q, <<>>, <<>>) = Cat(j, q)
    BY <1>1, WholeKept
  <2> QED
    BY <1>1, <2>1
<1>3. ASSUME q = <<>>
      PROVE  PipeOK(g, j, q, <<>>, <<>>, TRUE)
  <2>1. Cat(j, q) = j
    BY <1>1, <1>3, CatLaws
  <2>2. j = Packed(g)
    BY <1>1, <1>2, <2>1 DEF Tidy
  <2> QED
    BY <1>1, <2>2 DEF PipeOK
<1>4. ASSUME q # <<>>
      PROVE  PipeOK(g, Ended(j, q), q, <<>>, <<>>, TRUE)
  <2>1. Tidy(Ended(j, q)) /\ Ended(j, q) \in Seq(Bytes) /\ Packed(j \o q) = j \o q
    BY <1>1, <1>4, TidyLine
  <2>2. Packed(Cat(j, q)) = Cat(j, q)
    BY <2>1 DEF Cat
  <2>3. Ended(j, q) = Cat(Cat(j, q), <<NewLine>>)
    BY DEF Ended, Cat
  <2>4. Ended(j, q) = Cat(Packed(g), <<NewLine>>)
    BY <1>2, <2>2, <2>3
  <2> QED
    BY <1>1, <2>1, <2>4 DEF PipeOK
<1> QED
  BY <1>3, <1>4

-----------------------------------------------------------------------------
(* The streamer.                                                           *)

\* The masker holds no empty secret and tries the longest first.
MaskerOK == secrets \in Seq(Secret) /\ replacer = LongestFirst(secrets)

\* None of the secrets known by then is in what writeLine wrote.
Hides(o) ==
    /\ o.job \in StreamJobs
    /\ ~Unmasked(o.line) => /\ \A s \in o.known : ~Occurs(s, o.text)
                            /\ MaskedPart(o.line) \in o.known => o.text = <<Mask>>

Printed  == [job : StreamJobs, line : Seq(Bytes), text : Seq(Shown), known : SUBSET Secret]
OutputOK == output \in Seq(Printed) /\ \A i \in DOMAIN output : Hides(output[i])

\* What a job was given a color for.
Spoke(j) == \E i \in DOMAIN output : output[i].job = j

\* As long as there are colors left, those given are the first ones.
Palette ==
    /\ colors \in [StreamJobs -> 0..JobColors]
    /\ colorIdx \in Nat
    /\ colorIdx <= JobColors =>
          /\ \A j \in StreamJobs : colors[j] <= colorIdx
          /\ \A j, k \in StreamJobs : colors[j] = colors[k] /\ colors[j] # 0 => j = k

SpeakersColored ==
    /\ \A j \in StreamJobs : colors[j] # 0 <=> Spoke(j)
    /\ \A a \in annotations : a.job \in StreamJobs /\ colors[a.job] # 0

PipesOK ==
    /\ lines \in [Pipes -> Seq(Seq(Bytes))]
    /\ given \in [Pipes -> Seq(Bytes)] /\ unread \in [Pipes -> Seq(Bytes)]
    /\ buffer \in [Pipes -> Seq(Bytes)] /\ partial \in [Pipes -> Seq(Bytes)]
    /\ closed \in [Pipes -> BOOLEAN]
    /\ \A p \in Pipes :
          PipeOK(given[p], Joined(lines[p]), partial[p], buffer[p], unread[p], closed[p])

\* StreamInv holds because of this, which every step keeps.
StreamIInv == MaskerOK /\ OutputOK /\ Palette /\ SpeakersColored /\ PipesOK

\* The masker sorts what it is given.
LEMMA MaskerSorts ==
    ASSUME MaskerOK
    PROVE  Replacer /\ Falling(replacer) /\ ToSet(replacer) = ToSet(secrets) /\ ToSet(secrets) \in SUBSET Secret
<1>1. ToSet(secrets) \in SUBSET Secret
  BY DEF MaskerOK, ToSet
<1> QED
  BY <1>1, LongestFirstSorts DEF MaskerOK, Replacer

\* A secret that stands nowhere does not occur.
LEMMA ClearHides ==
    ASSUME NEW s \in Secret, NEW t \in Seq(Shown), \A j \in 1..Len(t) : ~StandsAt(s, t, j)
    PROVE  ~Occurs(s, t)
<1>1. s \in Seq(Shown)
  BY DEF Secret, Shown
<1>2. ASSUME NEW i \in DOMAIN t
      PROVE  ~IsPrefix(s, SubSeq(t, i, Len(t)))
  <2>1. i \in 1..Len(t) /\ i \in 1..(Len(t) + 1)
    OBVIOUS
  <2> QED
    BY <1>1, <2>1, PrefixStands
<1> QED
  BY <1>2 DEF Occurs

\* What is masked hides the secrets known.
LEMMA MaskedIsHidden ==
    ASSUME MaskerOK, NEW text \in Seq(Bytes)
    PROVE  /\ Masked(text) \in Seq(Shown)
           /\ \A s \in ToSet(secrets) : ~Occurs(s, Masked(text))
           /\ text \in ToSet(secrets) => Masked(text) = <<Mask>>
<1>1. Replacer /\ Falling(replacer) /\ ToSet(replacer) = ToSet(secrets) /\ ToSet(secrets) \in SUBSET Secret
  BY MaskerSorts
<1>2. /\ Masked(text) \in Seq(Shown) /\ Clear(Masked(text))
      /\ text \in ToSet(replacer) => Masked(text) = <<Mask>>
  BY <1>1, MaskedHides
<1>3. ASSUME NEW s \in ToSet(secrets)
      PROVE  ~Occurs(s, Masked(text))
  <2>1. \A j \in 1..Len(Masked(text)) : ~StandsAt(s, Masked(text), j)
    BY <1>1, <1>2 DEF Clear
  <2> QED
    BY <1>1, <1>2, <2>1, ClearHides
<1> QED
  BY <1>1, <1>2, <1>3

\* What was printed before stays, with what is printed now behind it.
LEMMA WroteHides ==
    ASSUME MaskerOK, OutputOK, NEW p \in Pipes, NEW line \in Seq(Bytes), NEW text \in Seq(Shown),
           Wrote(p, line, text),
           Unmasked(line) \/ /\ \A s \in ToSet(secrets) : ~Occurs(s, text)
                             /\ MaskedPart(line) \in ToSet(secrets) => text = <<Mask>>
    PROVE  /\ OutputOK'
           /\ \A j : (\E i \in DOMAIN output' : output'[i].job = j)
                        <=> j = PipeJob[p] \/ \E i \in DOMAIN output : output[i].job = j
<1> DEFINE o == [job |-> PipeJob[p], line |-> line, text |-> text, known |-> ToSet(secrets)]
<1>1. ToSet(secrets) \in SUBSET Secret
  BY MaskerSorts
<1>3. o \in Printed
  BY <1>1 DEF Printed, StreamJobs
<1>4. Hides(o)
  BY DEF Hides, StreamJobs
<1>5. output' = Append(output, o) /\ o.job = PipeJob[p]
  BY DEF Wrote
<1> HIDE DEF o
<1>6. /\ output' \in Seq(Printed) /\ DOMAIN output' = 1..(Len(output) + 1) /\ output'[Len(output) + 1] = o
      /\ \A i \in DOMAIN output : output'[i] = output[i]
      /\ DOMAIN output = 1..Len(output) /\ Len(output) \in Nat
  BY <1>3, <1>5 DEF OutputOK
<1>7. \A i \in DOMAIN output' : Hides(output'[i])
  <2>1. ASSUME NEW i \in DOMAIN output'
        PROVE  Hides(output'[i])
    <3>1. CASE i = Len(output) + 1
      BY <1>4, <1>6, <3>1
    <3>2. CASE i # Len(output) + 1
      <4>1. i \in DOMAIN output
        BY <1>6, <3>2
      <4>2. Hides(output[i])
        BY <4>1 DEF OutputOK
      <4> QED
        BY <1>6, <4>1, <4>2
    <3> QED
      BY <3>1, <3>2
  <2> QED
    BY <2>1
<1>8. OutputOK'
  BY <1>6, <1>7 DEF OutputOK, Hides, Occurs, Unmasked, MaskedPart
<1>9. ASSUME NEW j
      PROVE  (\E i \in DOMAIN output' : output'[i].job = j)
                <=> j = PipeJob[p] \/ \E i \in DOMAIN output : output[i].job = j
  <2>1. ASSUME NEW i \in DOMAIN output', output'[i].job = j
        PROVE  j = PipeJob[p] \/ \E k \in DOMAIN output : output[k].job = j
    BY <1>5, <1>6, <2>1
  <2>2. ASSUME j = PipeJob[p]
        PROVE  \E i \in DOMAIN output' : output'[i].job = j
    <3>1. Len(output) + 1 \in DOMAIN output'
      BY <1>6
    <3> QED
      BY <1>5, <1>6, <2>2, <3>1
  <2>3. ASSUME NEW k \in DOMAIN output, output[k].job = j
        PROVE  \E i \in DOMAIN output' : output'[i].job = j
    <3>1. k \in DOMAIN output'
      BY <1>6
    <3> QED
      BY <1>6, <2>3, <3>1
  <2> QED
    BY <2>1, <2>2, <2>3
<1> QED
  BY <1>8, <1>9

\* The next color, while there are colors left, is a new one.
LEMMA NextColor ==
    ASSUME NEW n \in Nat
    PROVE  /\ (n % JobColors) + 1 \in 1..JobColors
           /\ n < JobColors => n % JobColors = n
<1>1. JobColors \in Nat \ {0}
  BY StreamAssumption
<1>2. n % JobColors \in 0..(JobColors - 1)
  BY <1>1
<1>3. n < JobColors => n % JobColors = n
  BY <1>1
<1> QED
  BY <1>1, <1>2, <1>3

\* A job that speaks has a color from then on.
LEMMA ColoredKeeps ==
    ASSUME Palette, NEW j \in StreamJobs, Colored(j)
    PROVE  /\ Palette'
           /\ colors'[j] # 0
           /\ \A k \in StreamJobs \ {j} : colors'[k] = colors[k]
<1>1. JobColors \in Nat \ {0}
  BY StreamAssumption
<1>2. CASE colors[j] = 0
  <2> DEFINE c == (colorIdx % JobColors) + 1
  <2>1. colorIdx \in Nat /\ c \in 1..JobColors /\ (colorIdx < JobColors => c = colorIdx + 1)
    BY NextColor DEF Palette
  <2>2. colors' = [colors EXCEPT ![j] = c] /\ colorIdx' = colorIdx + 1
    BY <1>2 DEF Colored
  <2> HIDE DEF c
  <2>3. colors' \in [StreamJobs -> 0..JobColors] /\ colorIdx' \in Nat /\ colors'[j] = c
    BY <1>1, <2>1, <2>2 DEF Palette
  <2>4. \A k \in StreamJobs \ {j} : colors'[k] = colors[k]
    BY <2>2 DEF Palette
  <2>5. ASSUME colorIdx' <= JobColors
        PROVE  /\ \A k \in StreamJobs : colors'[k] <= colorIdx'
               /\ \A i, k \in StreamJobs : colors'[i] = colors'[k] /\ colors'[i] # 0 => i = k
    <3>1. colorIdx < JobColors /\ c = colorIdx + 1 /\ colorIdx <= JobColors
      BY <1>1, <2>1, <2>2, <2>5
    <3>2. \A k \in StreamJobs \ {j} : colors'[k] \in Nat /\ colors'[k] <= colorIdx
      BY <1>1, <2>1, <2>4, <3>1 DEF Palette
    <3>3. \A k \in StreamJobs : colors'[k] <= colorIdx'
      BY <2>1, <2>2, <2>3, <3>1, <3>2
    <3>4. \A i, k \in StreamJobs \ {j} : colors'[i] = colors'[k] /\ colors'[i] # 0 => i = k
      BY <2>4, <3>1 DEF Palette
    <3>5. \A k \in StreamJobs \ {j} : colors'[k] # colors'[j]
      BY <2>1, <2>3, <3>1, <3>2
    <3> QED
      BY <3>3, <3>4, <3>5
  <2> QED
    BY <2>1, <2>3, <2>4, <2>5 DEF Palette
<1>3. CASE colors[j] # 0
  BY <1>3 DEF Colored, Palette, colorVars
<1> QED
  BY <1>2, <1>3

\* Those who spoke are the same after a step that writes and annotates nothing.
LEMMA QuietStep ==
    ASSUME SpeakersColored, UNCHANGED <<annotations, colorVars, output>>
    PROVE  SpeakersColored'
BY DEF SpeakersColored, Spoke, colorVars

\* A job that writes, and no other, has spoken, and is the only one to annotate.
LEMMA SpeakerStep ==
    ASSUME Palette, SpeakersColored, NEW j \in StreamJobs, Colored(j),
           \A k : Spoke(k)' <=> k = j \/ Spoke(k),
           \A a \in annotations' : a \in annotations \/ a.job = j
    PROVE  SpeakersColored'
<1>1. colors'[j] # 0 /\ \A k \in StreamJobs \ {j} : colors'[k] = colors[k]
  BY ColoredKeeps
<1>2. \A k \in StreamJobs : colors'[k] # 0 <=> Spoke(k)'
  BY <1>1 DEF SpeakersColored
<1>3. \A a \in annotations' : a.job \in StreamJobs /\ colors'[a.job] # 0
  BY <1>1 DEF SpeakersColored
<1> QED
  BY <1>2, <1>3 DEF SpeakersColored, StreamJobs

\* A secret more, as long as it is not empty.
LEMMA AddSecretKeeps ==
    ASSUME MaskerOK, NEW value \in Seq(Bytes), AddSecret(value)
    PROVE  MaskerOK'
<1>1. secrets' \in Seq(Secret)
  BY DEF MaskerOK, AddSecret, Secret
<1> QED
  BY <1>1 DEF MaskerOK, AddSecret, LongestFirst, SortedIn

\* Everything but the pipes.
SharedOK == MaskerOK /\ OutputOK /\ Palette /\ SpeakersColored

LEMMA SharedUnchanged ==
    ASSUME SharedOK, UNCHANGED <<maskVars, annotations, colorVars, output>>
    PROVE  SharedOK'
<1>1. MaskerOK'
  BY DEF SharedOK, MaskerOK, maskVars, LongestFirst
<1>2. OutputOK'
  BY DEF SharedOK, OutputOK
<1>3. Palette'
  BY DEF SharedOK, Palette, colorVars
<1>4. SpeakersColored'
  BY QuietStep DEF SharedOK
<1> QED
  BY <1>1, <1>2, <1>3, <1>4 DEF SharedOK

\* A job prints something for a line: in clear for what is not masked, or hiding what is.
LEMMA PrintKeeps ==
    ASSUME SharedOK, NEW p \in Pipes, NEW line \in Seq(Bytes), NEW text \in Seq(Shown),
           UNCHANGED maskVars, Colored(PipeJob[p]), Wrote(p, line, text),
           \A a \in annotations' : a \in annotations \/ a.job = PipeJob[p],
           Unmasked(line) \/ /\ \A s \in ToSet(secrets) : ~Occurs(s, text)
                             /\ MaskedPart(line) \in ToSet(secrets) => text = <<Mask>>
    PROVE  SharedOK'
<1>1. MaskerOK /\ OutputOK /\ Palette /\ SpeakersColored /\ PipeJob[p] \in StreamJobs
  BY DEF SharedOK, StreamJobs
<1>2. MaskerOK'
  BY <1>1 DEF MaskerOK, maskVars, LongestFirst
<1>3. /\ OutputOK'
      /\ \A j : (\E i \in DOMAIN output' : output'[i].job = j)
                   <=> j = PipeJob[p] \/ \E i \in DOMAIN output : output[i].job = j
  BY <1>1, WroteHides
<1>4. Palette'
  BY <1>1, ColoredKeeps
<1>5. \A k : Spoke(k)' <=> k = PipeJob[p] \/ Spoke(k)
  BY <1>3 DEF Spoke
<1>6. SpeakersColored'
  BY <1>1, <1>5, SpeakerStep
<1> QED
  BY <1>2, <1>3, <1>4, <1>6 DEF SharedOK

\* Whatever a line says, the masker, the colors and what was written stay as they should be.
LEMMA StepOutputKeeps ==
    ASSUME SharedOK, NEW p \in Pipes, NEW line \in Seq(Bytes), line # <<>>, StepOutput(p, line)
    PROVE  SharedOK'
<1>1. MaskerOK /\ OutputOK /\ Palette /\ SpeakersColored
  BY DEF SharedOK
<1>2. Tail(line) \in Seq(Bytes) /\ Tail(line) \in Seq(Shown)
  <2>1. Tail(line) \in Seq(Bytes)
    OBVIOUS
  <2> QED
    BY <2>1 DEF Shown
<1>3. ASSUME Head(line) \in Annotations, Annotate(p, line)
      PROVE  SharedOK'
  <2> DEFINE n == [job |-> PipeJob[p], from |-> Head(line)]
  <2>1. n.job = PipeJob[p] /\ annotations' = annotations \cup {n}
    BY <1>3 DEF Annotate
  <2>2. UNCHANGED maskVars /\ Colored(PipeJob[p]) /\ Wrote(p, line, Tail(line))
    BY <1>3 DEF Annotate, InClear
  <2> HIDE DEF n
  <2>3. \A a \in annotations' : a \in annotations \/ a.job = PipeJob[p]
    BY <2>1
  <2>4. Unmasked(line)
    BY <1>3 DEF Unmasked
  <2> QED
    BY <1>2, <2>2, <2>3, <2>4, PrintKeeps
<1>4. ASSUME Unmasked(line), UNCHANGED <<maskVars, annotations>>,
             InClear(p, line, Tail(line)) \/ UNCHANGED <<colorVars, output>>
      PROVE  SharedOK'
  <2>1. CASE InClear(p, line, Tail(line))
    <3>1. UNCHANGED maskVars /\ Colored(PipeJob[p]) /\ Wrote(p, line, Tail(line)) /\ annotations' = annotations
      BY <1>4, <2>1 DEF InClear
    <3> QED
      BY <1>2, <1>4, <3>1, PrintKeeps
  <2>2. CASE UNCHANGED <<colorVars, output>>
    BY <1>4, <2>2, SharedUnchanged
  <2> QED
    BY <1>4, <2>1, <2>2
<1>5. ASSUME Head(line) = "::debug::", Debug(p, line)
      PROVE  SharedOK'
  BY <1>4, <1>5 DEF Debug, Unmasked
<1>6. ASSUME Head(line) = "::add-matcher::", AddMatcher(p, line)
      PROVE  SharedOK'
  BY <1>4, <1>6 DEF AddMatcher, Unmasked
<1>7. ASSUME NEW text \in Seq(Bytes), text = MaskedPart(line), WrittenMasked(p, line, text), UNCHANGED maskVars,
             \A a \in annotations' : a \in annotations \/ a.job = PipeJob[p]
      PROVE  SharedOK'
  <2>1. /\ Masked(text) \in Seq(Shown)
        /\ \A s \in ToSet(secrets) : ~Occurs(s, Masked(text))
        /\ text \in ToSet(secrets) => Masked(text) = <<Mask>>
    BY <1>1, MaskedIsHidden
  <2>2. Colored(PipeJob[p]) /\ Wrote(p, line, Masked(text))
    BY <1>7 DEF WrittenMasked
  <2> QED
    BY <1>7, <2>1, <2>2, PrintKeeps
<1>8. ASSUME Head(line) = "::group::", OpenGroup(p, line)
      PROVE  SharedOK'
  <2>1. MaskedPart(line) = Tail(line)
    BY <1>8 DEF MaskedPart
  <2> QED
    BY <1>2, <1>7, <1>8, <2>1 DEF OpenGroup
<1>9. ASSUME Head(line) \notin Commands, WriteLine(p, line)
      PROVE  SharedOK'
  <2>1. MaskedPart(line) = line
    BY <1>9 DEF MaskedPart, Commands
  <2>2. \A a \in annotations' : a \in annotations \/ a.job = PipeJob[p]
    BY <1>9 DEF WriteLine
  <2> QED
    BY <1>7, <1>9, <2>1, <2>2 DEF WriteLine
<1>10. ASSUME MaskCommand(line)
       PROVE  SharedOK'
  <2>1. AddSecret(Tail(line)) /\ UNCHANGED <<annotations, colorVars, output>>
    BY <1>10 DEF MaskCommand
  <2>2. MaskerOK'
    BY <1>1, <1>2, <2>1, AddSecretKeeps
  <2>3. OutputOK'
    BY <1>1, <2>1 DEF OutputOK
  <2>4. Palette'
    BY <1>1, <2>1 DEF Palette, colorVars
  <2>5. SpeakersColored'
    BY <1>1, <2>1, QuietStep
  <2> QED
    BY <2>2, <2>3, <2>4, <2>5 DEF SharedOK
<1>11. ASSUME RemoveMatcher(line)
       PROVE  SharedOK'
  BY <1>11, SharedUnchanged DEF RemoveMatcher
<1>12. ASSUME UNCHANGED <<maskVars, matchers, annotations, colorVars, output>>
       PROVE  SharedOK'
  BY <1>12, SharedUnchanged
<1> QED
  BY <1>3, <1>5, <1>6, <1>8, <1>9, <1>10, <1>11, <1>12 DEF StepOutput

\* The first newline that was read.
LEMMA FirstNewline ==
    ASSUME NEW p \in Pipes, buffer[p] \in Seq(Bytes)
    PROVE  /\ LineEnd(p) = 0 => Word(buffer[p])
           /\ LineEnd(p) # 0 => /\ LineEnd(p) \in 1..Len(buffer[p])
                                /\ buffer[p][LineEnd(p)] = NewLine
                                /\ \A i \in 1..(LineEnd(p) - 1) : buffer[p][i] # NewLine
<1> DEFINE b == buffer[p]
           I == {i \in 1..Len(b) : b[i] = NewLine}
<1>1. LineEnd(p) = IF I # {} THEN Min(I) ELSE 0
  BY DEF LineEnd, SelectInSeq
<1>2. I \in SUBSET Nat /\ DOMAIN b = 1..Len(b) /\ Len(b) \in Nat
  OBVIOUS
<1>3. I = {} => LineEnd(p) = 0 /\ Word(b)
  BY <1>1, <1>2 DEF Word
<1>4. ASSUME I # {}
      PROVE  Min(I) \in I /\ \A y \in I : Min(I) <= y
  <2>1. \E x \in I : \A y \in I : x <= y
    <3> HIDE DEF I
    <3> QED
      BY <1>2, <1>4, LeastNumber
  <2> QED
    BY <2>1 DEF Min
<1>5. ASSUME I # {}
      PROVE  /\ LineEnd(p) \in 1..Len(b) /\ b[LineEnd(p)] = NewLine
             /\ \A i \in 1..(LineEnd(p) - 1) : b[i] # NewLine
  <2>1. LineEnd(p) \in I /\ \A y \in I : LineEnd(p) <= y
    BY <1>1, <1>4, <1>5
  <2>2. ASSUME NEW i \in 1..(LineEnd(p) - 1)
        PROVE  b[i] # NewLine
    <3>1. LineEnd(p) \in Nat /\ i \in 1..Len(b) /\ i < LineEnd(p)
      BY <2>1
    <3>2. i \notin I
      BY <2>1, <3>1
    <3> QED
      BY <3>1, <3>2
  <2> QED
    BY <2>1, <2>2
<1> QED
  BY <1>3, <1>5

\* A step of one pipe leaves the others as they were.
LEMMA OtherPipes ==
    ASSUME PipesOK, NEW p \in Pipes, NEW ls \in Seq(Seq(Bytes)),
           NEW q \in Seq(Bytes), NEW b \in Seq(Bytes), NEW u \in Seq(Bytes), NEW c \in BOOLEAN,
           PipeOK(given[p], Joined(ls), q, b, u, c),
           given' = given,
           lines' = [lines EXCEPT ![p] = ls], partial' = [partial EXCEPT ![p] = q],
           buffer' = [buffer EXCEPT ![p] = b], unread' = [unread EXCEPT ![p] = u],
           closed' = [closed EXCEPT ![p] = c]
    PROVE  PipesOK'
<1>1. /\ lines' \in [Pipes -> Seq(Seq(Bytes))] /\ given' \in [Pipes -> Seq(Bytes)]
      /\ unread' \in [Pipes -> Seq(Bytes)] /\ buffer' \in [Pipes -> Seq(Bytes)]
      /\ partial' \in [Pipes -> Seq(Bytes)] /\ closed' \in [Pipes -> BOOLEAN]
  BY DEF PipesOK
<1>2. ASSUME NEW o \in Pipes
      PROVE  PipeOK(given'[o], Joined(lines'[o]), partial'[o], buffer'[o], unread'[o], closed'[o])
  <2>1. CASE o = p
    <3>1. /\ lines'[o] = ls /\ given'[o] = given[p] /\ unread'[o] = u /\ buffer'[o] = b
          /\ partial'[o] = q /\ closed'[o] = c
      BY <2>1 DEF PipesOK
    <3> QED
      BY <3>1
  <2>2. CASE o # p
    <3>1. /\ lines'[o] = lines[o] /\ given'[o] = given[o] /\ unread'[o] = unread[o]
          /\ buffer'[o] = buffer[o] /\ partial'[o] = partial[o] /\ closed'[o] = closed[o]
      BY <2>2 DEF PipesOK
    <3> QED
      BY <3>1 DEF PipesOK
  <2> QED
    BY <2>1, <2>2
<1>3. \A o \in Pipes : PipeOK(given[o], Joined(lines[o]), partial[o], buffer[o], unread[o], closed[o])'
  BY <1>2
<1> QED
  BY <1>1, <1>3 DEF PipesOK

\* The first state.
LEMMA StreamInitOK == ASSUME StreamInit PROVE StreamIInv
<1> USE DEF StreamInit
<1>1. MaskerOK
  BY StreamAssumption DEF MaskerOK, Secret
<1>2. OutputOK
  BY DEF OutputOK
<1>3. Palette
  <2>1. JobColors \in Nat
    BY StreamAssumption
  <2> QED
    BY <2>1 DEF Palette
<1>4. SpeakersColored
  BY DEF SpeakersColored, Spoke
<1>5. PipesOK
  <2>1. \A p \in Pipes : given[p] \in Seq(Bytes)
    BY StreamAssumption
  <2>2. given \in [Pipes -> Seq(Bytes)]
    BY <2>1
  <2>3. ASSUME NEW p \in Pipes
        PROVE  PipeOK(given[p], Joined(<<>>), <<>>, <<>>, given[p], FALSE)
    <3>1. Joined(<<>>) = <<>> /\ Packed(<<>>) = <<>> /\ <<>> \in Seq(Bytes)
      <4>1. <<>> \in Seq(Bytes) /\ <<>> \in Seq(Seq(Bytes)) /\ NewLine \in Bytes
        BY StreamAssumption
      <4>2. Joined(<<>>) = <<>>
        BY <4>1, JoinedAppend
      <4>3. Packed(<<>>) = <<>>
        BY <4>1, PackedAppend
      <4> QED
        BY <4>1, <4>2, <4>3
    <3>2. Tidy(<<>>) /\ Word(<<>>)
      BY <3>1 DEF Tidy, AtLineStart, Word
    <3>3. Whole(<<>>, <<>>, <<>>, given[p]) = given[p]
      <4>1. given[p] \in Seq(Bytes) /\ Cat(<<>>, <<>>) = <<>>
        BY <2>1, <3>1, CatLaws
      <4>2. Cat(<<>>, given[p]) = given[p]
        BY <4>1, CatLaws
      <4> QED
        BY <4>1, <4>2 DEF Whole
    <3> QED
      BY <2>1, <3>1, <3>2, <3>3 DEF PipeOK
  <2>4. ASSUME NEW p \in Pipes
        PROVE  PipeOK(given[p], Joined(lines[p]), partial[p], buffer[p], unread[p], closed[p])
    <3>1. /\ lines[p] = <<>> /\ partial[p] = <<>> /\ buffer[p] = <<>>
          /\ unread[p] = given[p] /\ closed[p] = FALSE
      OBVIOUS
    <3> QED
      BY <2>3, <3>1
  <2>5. /\ lines \in [Pipes -> Seq(Seq(Bytes))] /\ unread \in [Pipes -> Seq(Bytes)]
        /\ buffer \in [Pipes -> Seq(Bytes)] /\ partial \in [Pipes -> Seq(Bytes)]
        /\ closed \in [Pipes -> BOOLEAN]
    BY <2>2
  <2> QED
    BY <2>2, <2>4, <2>5 DEF PipesOK
<1> QED
  BY <1>1, <1>2, <1>3, <1>4, <1>5 DEF StreamIInv

\* Reading, and keeping what has no newline, hands nothing on.
LEMMA ReadChunkKeeps == ASSUME StreamIInv, NEW p \in Pipes, ReadChunk(p) PROVE StreamIInv'
<1>1. PipesOK /\ SharedOK
  BY DEF StreamIInv, SharedOK
<1>2. PICK n \in 1..Len(unread[p]) :
         /\ buffer' = [buffer EXCEPT ![p] = SubSeq(unread[p], 1, n)]
         /\ unread' = [unread EXCEPT ![p] = SubSeq(@, n + 1, Len(@))]
  BY DEF ReadChunk
<1> DEFINE x == SubSeq(unread[p], 1, n)
           y == SubSeq(unread[p], n + 1, Len(unread[p]))
<1>3. PipeOK(given[p], Joined(lines[p]), partial[p], <<>>, unread[p], closed[p])
  BY <1>1 DEF PipesOK, ReadChunk
<1>4. PipeOK(given[p], Joined(lines[p]), partial[p], x, y, closed[p])
  BY <1>3, PipeReads
<1>5. x \in Seq(Bytes) /\ y \in Seq(Bytes)
  BY <1>4 DEF PipeOK
<1>6. buffer' = [buffer EXCEPT ![p] = x] /\ unread' = [unread EXCEPT ![p] = y]
  BY <1>1, <1>2 DEF PipesOK
<1> HIDE DEF x, y
<1>7. /\ given' = given /\ lines' = [lines EXCEPT ![p] = lines[p]]
      /\ partial' = [partial EXCEPT ![p] = partial[p]] /\ closed' = [closed EXCEPT ![p] = closed[p]]
      /\ lines[p] \in Seq(Seq(Bytes)) /\ partial[p] \in Seq(Bytes) /\ closed[p] \in BOOLEAN
  BY <1>1 DEF ReadChunk, PipesOK
<1>8. PipesOK'
  BY <1>1, <1>4, <1>5, <1>6, <1>7, OtherPipes
<1>9. SharedOK'
  BY <1>1, SharedUnchanged DEF ReadChunk
<1> QED
  BY <1>8, <1>9 DEF StreamIInv, SharedOK

LEMMA KeepPartialKeeps == ASSUME StreamIInv, NEW p \in Pipes, KeepPartial(p) PROVE StreamIInv'
<1>1. PipesOK /\ SharedOK
  BY DEF StreamIInv, SharedOK
<1>2. PipeOK(given[p], Joined(lines[p]), partial[p], buffer[p], unread[p], closed[p]) /\ buffer[p] \in Seq(Bytes)
  BY <1>1 DEF PipesOK
<1>3. buffer[p] # <<>> /\ Word(buffer[p])
  BY <1>2, FirstNewline DEF KeepPartial
<1> DEFINE q == Cat(partial[p], buffer[p])
<1>4. PipeOK(given[p], Joined(lines[p]), q, <<>>, unread[p], closed[p])
  BY <1>2, <1>3, PipeKeeps
<1>5. partial' = [partial EXCEPT ![p] = q] /\ buffer' = [buffer EXCEPT ![p] = <<>>]
  BY <1>1 DEF KeepPartial, PipesOK, Cat
<1> HIDE DEF q
<1>6. q \in Seq(Bytes) /\ <<>> \in Seq(Bytes)
  BY <1>4 DEF PipeOK
<1>7. /\ given' = given /\ lines' = [lines EXCEPT ![p] = lines[p]]
      /\ unread' = [unread EXCEPT ![p] = unread[p]] /\ closed' = [closed EXCEPT ![p] = closed[p]]
      /\ lines[p] \in Seq(Seq(Bytes)) /\ unread[p] \in Seq(Bytes) /\ closed[p] \in BOOLEAN
  BY <1>1 DEF KeepPartial, PipesOK
<1>8. PipesOK'
  BY <1>1, <1>4, <1>5, <1>6, <1>7, OtherPipes
<1>9. SharedOK'
  BY <1>1, SharedUnchanged DEF KeepPartial
<1> QED
  BY <1>8, <1>9 DEF StreamIInv, SharedOK

\* A line that is handed on is one more of those joined.
LEMMA HandedOn ==
    ASSUME SharedOK, PipesOK, NEW p \in Pipes, NEW line \in Seq(Bytes),
           IF line = <<>> THEN UNCHANGED <<maskVars, matchers, annotations, colorVars, lines, output>>
           ELSE StepOutput(p, line)
    PROVE  /\ SharedOK'
           /\ \E ls \in Seq(Seq(Bytes)) :
                 /\ lines' = [lines EXCEPT ![p] = ls]
                 /\ Joined(ls) = IF line = <<>> THEN Joined(lines[p]) ELSE Ended(Joined(lines[p]), line)
<1>1. lines \in [Pipes -> Seq(Seq(Bytes))] /\ lines[p] \in Seq(Seq(Bytes))
  BY DEF PipesOK
<1>2. CASE line = <<>>
  <2>1. SharedOK' /\ lines' = lines
    BY <1>2, SharedUnchanged
  <2>2. lines' = [lines EXCEPT ![p] = lines[p]]
    BY <1>1, <2>1
  <2> QED
    BY <1>1, <1>2, <2>1, <2>2
<1>3. CASE line # <<>>
  <2>1. SharedOK'
    BY <1>3, StepOutputKeeps
  <2>2. lines' = [lines EXCEPT ![p] = Append(lines[p], line)]
    BY <1>1, <1>3 DEF StepOutput
  <2>3. Append(lines[p], line) \in Seq(Seq(Bytes))
    BY <1>1
  <2>4. Joined(Append(lines[p], line)) = Ended(Joined(lines[p]), line)
    BY <1>1, JoinedAppend
  <2> QED
    BY <1>3, <2>1, <2>2, <2>3, <2>4
<1> QED
  BY <1>2, <1>3

LEMMA CutLineKeeps == ASSUME StreamIInv, NEW p \in Pipes, CutLine(p) PROVE StreamIInv'
<1>1. PipesOK /\ SharedOK
  BY DEF StreamIInv, SharedOK
<1> DEFINE e == LineEnd(p)
           b == buffer[p]
           l == Cat(partial[p], SubSeq(b, 1, e - 1))
           y == SubSeq(b, e + 1, Len(b))
           j == Joined(lines[p])
<1>2. PipeOK(given[p], j, partial[p], b, unread[p], closed[p]) /\ b \in Seq(Bytes)
  BY <1>1 DEF PipesOK
<1>3. e \in 1..Len(b) /\ b[e] = NewLine /\ \A i \in 1..(e - 1) : b[i] # NewLine
  BY <1>2, FirstNewline DEF CutLine
<1>4. /\ l \in Seq(Bytes) /\ y \in Seq(Bytes)
      /\ l = <<>> => PipeOK(given[p], j, <<>>, y, unread[p], closed[p])
      /\ l # <<>> => PipeOK(given[p], Ended(j, l), <<>>, y, unread[p], closed[p])
  <2> HIDE DEF e, b, j
  <2> QED
    BY <1>2, <1>3, PipeCuts
<1>5. /\ IF l = <<>> THEN UNCHANGED <<maskVars, matchers, annotations, colorVars, lines, output>>
         ELSE StepOutput(p, l)
      /\ partial' = [partial EXCEPT ![p] = <<>>]
      /\ UNCHANGED <<given, unread, closed>>
  BY DEF CutLine, Cat
<1>6. buffer' = [buffer EXCEPT ![p] = y]
  BY <1>1 DEF CutLine, PipesOK
<1> HIDE DEF e, b, l, y
<1>7. /\ SharedOK'
      /\ \E ls \in Seq(Seq(Bytes)) :
            /\ lines' = [lines EXCEPT ![p] = ls]
            /\ Joined(ls) = IF l = <<>> THEN j ELSE Ended(j, l)
  BY <1>1, <1>4, <1>5, HandedOn
<1>8. PICK ls \in Seq(Seq(Bytes)) :
            /\ lines' = [lines EXCEPT ![p] = ls]
            /\ Joined(ls) = IF l = <<>> THEN j ELSE Ended(j, l)
  BY <1>7
<1> HIDE DEF j
<1>9. PipeOK(given[p], Joined(ls), <<>>, y, unread[p], closed[p])
  BY <1>4, <1>8
<1>10. /\ given' = given /\ unread' = [unread EXCEPT ![p] = unread[p]]
       /\ closed' = [closed EXCEPT ![p] = closed[p]]
       /\ unread[p] \in Seq(Bytes) /\ closed[p] \in BOOLEAN /\ <<>> \in Seq(Bytes)
  BY <1>1, <1>5 DEF PipesOK
<1>11. PipesOK'
  BY <1>1, <1>4, <1>5, <1>6, <1>8, <1>9, <1>10, OtherPipes
<1> QED
  BY <1>7, <1>11 DEF StreamIInv, SharedOK

LEMMA PipeEndsKeeps == ASSUME StreamIInv, NEW p \in Pipes, PipeEnds(p) PROVE StreamIInv'
<1>1. PipesOK /\ SharedOK
  BY DEF StreamIInv, SharedOK
<1> DEFINE q == partial[p]
           j == Joined(lines[p])
<1>2. /\ PipeOK(given[p], j, q, buffer[p], unread[p], closed[p])
      /\ q \in Seq(Bytes) /\ closed[p] = FALSE /\ buffer[p] = <<>> /\ unread[p] = <<>>
  BY <1>1 DEF PipesOK, PipeEnds
<1>3. /\ q = <<>> => PipeOK(given[p], j, q, <<>>, <<>>, TRUE)
      /\ q # <<>> => PipeOK(given[p], Ended(j, q), q, <<>>, <<>>, TRUE)
  <2>1. PipeOK(given[p], j, q, <<>>, <<>>, FALSE)
    BY <1>2
  <2> HIDE DEF q, j
  <2> QED
    BY <2>1, PipeCloses
<1>4. /\ IF q = <<>> THEN UNCHANGED <<maskVars, matchers, annotations, colorVars, lines, output>>
         ELSE StepOutput(p, q)
      /\ closed' = [closed EXCEPT ![p] = TRUE]
      /\ UNCHANGED <<given, unread, buffer, partial>>
  BY DEF PipeEnds
<1>5. PICK ls \in Seq(Seq(Bytes)) :
            /\ lines' = [lines EXCEPT ![p] = ls]
            /\ Joined(ls) = IF q = <<>> THEN j ELSE Ended(j, q)
  BY <1>1, <1>2, <1>4, HandedOn
<1>6. SharedOK'
  BY <1>1, <1>2, <1>4, HandedOn
<1>7. /\ given' = given /\ partial' = [partial EXCEPT ![p] = q] /\ buffer' = [buffer EXCEPT ![p] = <<>>]
      /\ unread' = [unread EXCEPT ![p] = <<>>] /\ <<>> \in Seq(Bytes)
  BY <1>1, <1>2, <1>4 DEF PipesOK
<1> HIDE DEF q, j
<1>8. PipeOK(given[p], Joined(ls), q, <<>>, <<>>, TRUE)
  BY <1>3, <1>5
<1>9. PipesOK'
  BY <1>1, <1>2, <1>4, <1>5, <1>7, <1>8, OtherPipes
<1> QED
  BY <1>6, <1>9 DEF StreamIInv, SharedOK

\* A stuttering step.
LEMMA StreamStutters == ASSUME StreamIInv, UNCHANGED streamVars PROVE StreamIInv'
<1>1. UNCHANGED <<maskVars, annotations, colorVars, output>>
  BY DEF streamVars
<1>2. SharedOK'
  BY <1>1, SharedUnchanged DEF StreamIInv, SharedOK
<1>3. PipesOK'
  BY DEF StreamIInv, PipesOK, streamVars, pipeVars
<1> QED
  BY <1>2, <1>3 DEF StreamIInv, SharedOK

\* What StreamInv says of the lines, the secrets and the colors.
LEMMA StreamHolds == ASSUME StreamIInv PROVE StreamInv
<1>1. MaskerOK /\ OutputOK /\ Palette /\ SpeakersColored /\ PipesOK
  BY DEF StreamIInv
<1>2. StreamTypeOK
  <2>1. ToSet(replacer) = ToSet(secrets)
    BY <1>1, MaskerSorts
  <2> QED
    BY <1>1, <2>1 DEF StreamTypeOK, Palette, PipesOK, OutputOK, Hides
<1>3. LinesReassembled
  <2>1. ASSUME NEW p \in Pipes
        PROVE  IF closed[p]
               THEN Joined(lines[p]) \in {Packed(given[p]), Packed(given[p]) \o <<NewLine>>}
               ELSE Packed(Joined(lines[p]) \o partial[p] \o buffer[p] \o unread[p]) = Packed(given[p])
    <3>1. PipeOK(given[p], Joined(lines[p]), partial[p], buffer[p], unread[p], closed[p])
      BY <1>1 DEF PipesOK
    <3> QED
      BY <3>1 DEF PipeOK, Whole, Cat
  <2> QED
    BY <2>1 DEF LinesReassembled
<1>4. SecretsMasked
  BY <1>1 DEF SecretsMasked, OutputOK, Hides
<1>5. ColorsConsistent
  BY <1>1 DEF ColorsConsistent, Palette, SpeakersColored, Spoke
<1> QED
  BY <1>2, <1>3, <1>4, <1>5 DEF StreamInv

\* However the pipes of the jobs are read and whatever they say: the lines handed on are those of
\* the input, no line and no name of a group that is written shows a secret known by then, and the
\* jobs keep their colors (streamOutput, writeLine, SecretMasker.Mask and jobColor).  Annotations,
\* debug messages and the errors of problem matchers are printed as they are, and not covered.
THEOREM StreamKept == StreamInit /\ [][StreamNext]_streamVars => []StreamInv
<1>1. StreamInit => StreamIInv
  BY StreamInitOK
<1>2. StreamIInv /\ [StreamNext]_streamVars => StreamIInv'
  BY ReadChunkKeeps, KeepPartialKeeps, CutLineKeeps, PipeEndsKeeps, StreamStutters DEF StreamNext
<1>3. StreamIInv => StreamInv
  BY StreamHolds
<1> QED
  BY <1>1, <1>2, <1>3, PTL
=============================================================================
