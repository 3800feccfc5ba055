---------------------------- MODULE BrokerProofs ----------------------------
(***************************************************************************)
(* Proofs about Broker, for any number of jobs, sessions, handlers and     *)
(* lost connections; at the end, that it implements JobDispatch.           *)
(***************************************************************************)
EXTENDS Broker, SequenceTheorems, TLAPS

\* claimJob's append(q[:i], q[i+1:]...): one element shorter, the elements
\* behind the removed one move up by one.
LEMMA RemoveAtProperties ==
    ASSUME NEW S, NEW q \in Seq(S), NEW i \in 1..Len(q)
    PROVE  /\ RemoveAt(q, i) \in Seq(S)
           /\ Len(RemoveAt(q, i)) = Len(q) - 1
           /\ \A k \in 1..Len(q) - 1 :
                 RemoveAt(q, i)[k] = IF k < i THEN q[k] ELSE q[k+1]
<1> DEFINE front == SubSeq(q, 1, i-1)
           back  == SubSeq(q, i+1, Len(q))
<1>0. Len(q) \in Nat /\ i \in Nat /\ 1 <= i /\ i <= Len(q)
  BY LenProperties
<1>1. /\ front \in Seq(S) /\ Len(front) = i - 1
      /\ \A k \in 1..(i-1) : front[k] = q[k]
  BY <1>0
<1>2. /\ back \in Seq(S) /\ Len(back) = Len(q) - i
      /\ \A k \in 1..(Len(q)-i) : back[k] = q[k+i]
  BY <1>0
<1>3. RemoveAt(q, i) = front \o back
  BY DEF RemoveAt
<1>4. /\ front \o back \in Seq(S)
      /\ Len(front \o back) = Len(front) + Len(back)
      /\ \A k \in 1..(Len(front) + Len(back)) :
            (front \o back)[k] = IF k <= Len(front) THEN front[k] ELSE back[k - Len(front)]
  BY <1>1, <1>2, ConcatProperties
<1> HIDE DEF front, back
<1>5. ASSUME NEW k \in 1..(Len(q) - 1)
      PROVE  (front \o back)[k] = IF k < i THEN q[k] ELSE q[k+1]
  <2>1. CASE k < i
    BY <2>1, <1>0, <1>1, <1>2, <1>4
  <2>2. CASE ~(k < i)
    <3>1. k - (i - 1) \in 1..(Len(q) - i) /\ (k - (i-1)) + i = k + 1
      BY <2>2, <1>0
    <3>2. back[k - (i - 1)] = q[k + 1]
      BY <3>1, <1>2
    <3>3. ~(k <= Len(front)) /\ k \in 1..(Len(front) + Len(back)) /\ k - Len(front) = k - (i-1)
      BY <2>2, <1>0, <1>1, <1>2
    <3>. QED BY <3>2, <3>3, <2>2, <1>4
  <2>. QED BY <2>1, <2>2
<1>. QED BY <1>0, <1>1, <1>2, <1>3, <1>4, <1>5

-----------------------------------------------------------------------------
(***************************************************************************)
(* Type correctness.                                                       *)
(***************************************************************************)

LEMMA InitType == Init => TypeOK
<1> SUFFICES ASSUME Init PROVE TypeOK
  OBVIOUS
<1>1. pendingJobs \in Seq(Jobs)
  BY EmptySeq DEF Init
<1>2. jobNotify \in 0..NotifyCap /\ drops \in 0..MaxDrops
  BY BrokerAssumption DEF Init, BrokerAssumption
<1>. QED BY <1>1, <1>2 DEF Init, TypeOK

LEMMA NextType == TypeOK /\ [Next]_vars => TypeOK'
<1> SUFFICES ASSUME TypeOK, [Next]_vars
             PROVE  TypeOK'
  OBVIOUS
<1> USE BrokerAssumption DEF BrokerAssumption, TypeOK, queueVars, pollVars, jobVars, endVars, runnerVars
<1>1. ASSUME NEW j \in Jobs, EnqueueJob(j) PROVE TypeOK'
  BY <1>1 DEF EnqueueJob
<1>2. ASSUME NEW j \in Jobs, NotifyPollers(j) PROVE TypeOK'
  BY <1>2 DEF NotifyPollers
<1>3. ASSUME NEW j \in Jobs, ReceiveResult(j) PROVE TypeOK'
  BY <1>3 DEF ReceiveResult
<1>4. ASSUME NEW j \in Jobs, PlanEvent(j) PROVE TypeOK'
  BY <1>4 DEF PlanEvent, EndJob
<1>5. ASSUME NEW j \in Jobs, JobRequest(j) PROVE TypeOK'
  <2>1. PICK k \in PatchTargets(j) : EndJob(k, j, reported[j])
    BY <1>5 DEF JobRequest
  <2>. QED BY <1>5, <2>1 DEF JobRequest, EndJob
<1>6. ASSUME NEW j \in Jobs, CompleteJob(j) PROVE TypeOK'
  <2>1. CASE j \in activeJobs
    BY <1>6, <2>1 DEF CompleteJob
  <2>2. CASE j \notin activeJobs
    BY <1>6, <2>2 DEF CompleteJob
  <2>. QED BY <2>1, <2>2
<1>7. ASSUME NEW j \in Jobs, SendResult(j) PROVE TypeOK'
  BY <1>7 DEF SendResult
<1>8. ASSUME NEW s \in Sessions, CreateSession(s) PROVE TypeOK'
  BY <1>8 DEF CreateSession
<1>9. ASSUME NEW s \in Sessions, DeleteSession(s) PROVE TypeOK'
  BY <1>9 DEF DeleteSession
<1>10. ASSUME NEW p \in Polls, StartPoll(p) PROVE TypeOK'
  BY <1>10 DEF StartPoll
<1>11. ASSUME NEW p \in Polls, StartLatePoll(p) PROVE TypeOK'
  BY <1>11 DEF StartLatePoll
<1>12. ASSUME NEW p \in Polls, ClaimNothing(p) PROVE TypeOK'
  BY <1>12 DEF ClaimNothing
<1>13. ASSUME NEW p \in Polls, NEW i \in 1..Len(pendingJobs), ClaimJob(p, i) PROVE TypeOK'
  <2>1. RemoveAt(pendingJobs, i) \in Seq(Jobs)
    BY RemoveAtProperties
  <2>2. pendingJobs[i] \in Jobs
    BY ElementOfSeq
  <2>. QED BY <1>13, <2>1, <2>2 DEF ClaimJob
<1>14. ASSUME NEW p \in Polls, Wake(p) PROVE TypeOK'
  BY <1>14 DEF Wake
<1>15. ASSUME NEW p \in Polls, PollEnds(p) PROVE TypeOK'
  BY <1>15 DEF PollEnds
<1>16. ASSUME NEW p \in Polls, DeliverJob(p) PROVE TypeOK'
  BY <1>16 DEF DeliverJob
<1>17. ASSUME NEW p \in Polls, WriteMessage(p) PROVE TypeOK'
  BY <1>17 DEF WriteMessage
<1>18. ASSUME NEW p \in Polls, LoseClient(p) PROVE TypeOK'
  BY <1>18 DEF LoseClient
<1>19. ASSUME NEW j \in Jobs, NEW r \in Results, RunnerFinishes(j, r) PROVE TypeOK'
  BY <1>19 DEF RunnerFinishes
<1>20. CASE UNCHANGED vars
  BY <1>20 DEF vars
<1>. QED
  BY <1>1, <1>2, <1>3, <1>4, <1>5, <1>6, <1>7, <1>8, <1>9, <1>10, <1>11, <1>12, <1>13,
     <1>14, <1>15, <1>16, <1>17, <1>18, <1>19, <1>20 DEF Next, Scan

\* The broker's state always has its type, whatever the clients do.
THEOREM TypeCorrect == Spec => []TypeOK
<1>. QED BY InitType, NextType, PTL DEF Spec

-----------------------------------------------------------------------------
(***************************************************************************)
(* A result always belongs to its job, on the paths that find a job by its *)
(* own id.  ResultIsOwn is inductive with the types: sending, result and   *)
(* outcome copy from each other, and a report is made once.                *)
(***************************************************************************)

\* The result of a job is what its own runner reported as long as no runner
\* reports through PATCH jobrequests, whose fallback picks any active job.
THEOREM OwnResult ==
    ASSUME "jobrequests" \notin Reports
    PROVE  Spec => []ResultIsOwn
<1>1. Init => ResultIsOwn
  BY DEF Init, ResultIsOwn
<1>2. TypeOK /\ ResultIsOwn /\ [Next]_vars => ResultIsOwn'
  <2> SUFFICES ASSUME TypeOK, ResultIsOwn, [Next]_vars
               PROVE  ResultIsOwn'
    OBVIOUS
  <2>1. CASE UNCHANGED <<endVars, reported>>
    BY <2>1 DEF ResultIsOwn, endVars
  <2>2. ASSUME NEW j \in Jobs, ReceiveResult(j) PROVE ResultIsOwn'
    BY <2>2 DEF ReceiveResult, ResultIsOwn, TypeOK, runnerVars
  <2>3. ASSUME NEW j \in Jobs, PlanEvent(j) PROVE ResultIsOwn'
    BY <2>3 DEF PlanEvent, EndJob, ResultIsOwn, TypeOK, runnerVars
  <2>4. ASSUME NEW j \in Jobs, CompleteJob(j) PROVE ResultIsOwn'
    BY <2>4 DEF CompleteJob, ResultIsOwn, TypeOK, runnerVars
  <2>5. ASSUME NEW j \in Jobs, SendResult(j) PROVE ResultIsOwn'
    BY <2>5 DEF SendResult, ResultIsOwn, TypeOK, runnerVars
  <2>6. ASSUME NEW j \in Jobs, NEW r \in Results, RunnerFinishes(j, r)
        PROVE  ResultIsOwn'
    BY <2>6 DEF RunnerFinishes, ResultIsOwn, TypeOK, endVars
  <2>7. ASSUME NEW j \in Jobs, JobRequest(j) PROVE FALSE
    BY <2>7 DEF JobRequest
  <2>8. ASSUME NEW j \in Jobs, EnqueueJob(j) \/ NotifyPollers(j)
        PROVE  UNCHANGED <<endVars, reported>>
    BY <2>8 DEF EnqueueJob, NotifyPollers, runnerVars
  <2>9. ASSUME NEW s \in Sessions, CreateSession(s) \/ DeleteSession(s)
        PROVE  UNCHANGED <<endVars, reported>>
    BY <2>9 DEF CreateSession, DeleteSession
  <2>10. ASSUME NEW p \in Polls,
                \/ StartPoll(p) \/ StartLatePoll(p) \/ Scan(p) \/ Wake(p)
                \/ PollEnds(p) \/ DeliverJob(p) \/ WriteMessage(p) \/ LoseClient(p)
         PROVE  UNCHANGED <<endVars, reported>>
    BY <2>10 DEF StartPoll, StartLatePoll, Scan, ClaimJob, ClaimNothing, Wake, PollEnds,
                 DeliverJob, WriteMessage, LoseClient, runnerVars
  <2>11. CASE UNCHANGED vars
    BY <2>11, <2>1 DEF vars, runnerVars
  <2>. QED
    BY <2>1, <2>2, <2>3, <2>4, <2>5, <2>6, <2>7, <2>8, <2>9, <2>10, <2>11 DEF Next
<1>. QED BY <1>1, <1>2, TypeCorrect, PTL DEF Spec

-----------------------------------------------------------------------------
(***************************************************************************)
(* Each runner process gets one job.  A session that already got a message *)
(* is marked; a handler whose client still waits belongs to a session that *)
(* got none, and no two of them belong to the same session.                *)
(***************************************************************************)
SessionInv ==
    /\ \A s \in Sessions : received[s] # {} => s \in hasJob
    /\ \A p \in connected :
          /\ pc[p] # "idle"
          /\ agentName[p] # NoAgent
          /\ received[Owner[p]] = {}
          /\ pc[p] = "writing" => Owner[p] \in hasJob
    /\ \A p, q \in connected : Owner[p] = Owner[q] => p = q
    /\ OneJobPerSession

\* Every step keeps SessionInv.
LEMMA SessionInvStep == TypeOK /\ SessionInv /\ [Next]_vars => SessionInv'
<1> SUFFICES ASSUME TypeOK, SessionInv, [Next]_vars
             PROVE  SessionInv'
  OBVIOUS
<1> USE BrokerAssumption DEF BrokerAssumption, TypeOK, SessionInv, OneJobPerSession
<1>1. CASE UNCHANGED <<pollVars, received, hasJob>>
  BY <1>1 DEF pollVars
<1>2. ASSUME NEW j \in Jobs,
             \/ EnqueueJob(j) \/ NotifyPollers(j) \/ ReceiveResult(j) \/ PlanEvent(j)
             \/ JobRequest(j) \/ CompleteJob(j) \/ SendResult(j)
      PROVE  UNCHANGED <<pollVars, received, hasJob>>
  BY <1>2 DEF EnqueueJob, NotifyPollers, ReceiveResult, PlanEvent, JobRequest,
              CompleteJob, SendResult, runnerVars
<1>3. ASSUME NEW s \in Sessions, CreateSession(s) \/ DeleteSession(s)
      PROVE  UNCHANGED <<pollVars, received, hasJob>>
  BY <1>3 DEF CreateSession, DeleteSession
<1>4. ASSUME NEW j \in Jobs, NEW r \in Results, RunnerFinishes(j, r)
      PROVE  UNCHANGED <<pollVars, received, hasJob>>
  BY <1>4 DEF RunnerFinishes
<1>5. ASSUME NEW p \in Polls, StartPoll(p) PROVE SessionInv'
  BY <1>5 DEF StartPoll, Polling, runnerVars
<1>6. ASSUME NEW p \in Polls, StartLatePoll(p) PROVE SessionInv'
  BY <1>6 DEF StartLatePoll, runnerVars
<1>7. ASSUME NEW p \in Polls, Scan(p) \/ Wake(p) PROVE SessionInv'
  BY <1>7 DEF Scan, ClaimJob, ClaimNothing, Wake, runnerVars
<1>8. ASSUME NEW p \in Polls, PollEnds(p) PROVE SessionInv'
  BY <1>8 DEF PollEnds, runnerVars
<1>9. ASSUME NEW p \in Polls, DeliverJob(p) PROVE SessionInv'
  BY <1>9 DEF DeliverJob, runnerVars
<1>10. ASSUME NEW p \in Polls, WriteMessage(p) PROVE SessionInv'
  BY <1>10 DEF WriteMessage
<1>11. ASSUME NEW p \in Polls, LoseClient(p) PROVE SessionInv'
  BY <1>11 DEF LoseClient, runnerVars
<1>12. CASE UNCHANGED vars
  BY <1>12, <1>1 DEF vars, runnerVars
<1>. QED
  BY <1>1, <1>2, <1>3, <1>4, <1>5, <1>6, <1>7, <1>8, <1>9, <1>10, <1>11, <1>12 DEF Next

\* No session has a message, or an open poll, in the beginning.
LEMMA SessionInvInit == Init => SessionInv
BY DEF Init, SessionInv, OneJobPerSession

\* Although hasJob is read before the wait and set after it, no session ever
\* gets the messages of two jobs, even if clients leave and poll again.
THEOREM SessionsTakeOneJob == Spec => []OneJobPerSession
<1>1. SessionInv => OneJobPerSession
  BY DEF SessionInv
<1>. QED BY <1>1, SessionInvInit, SessionInvStep, TypeCorrect, PTL DEF Spec

-----------------------------------------------------------------------------
(***************************************************************************)
(* No job is lost or doubled between the queue, the handlers, the active   *)
(* jobs and the orchestrator.  The places are listed in the order a job    *)
(* goes through them and each excludes the later ones.                     *)
(***************************************************************************)
Pending(j) == \E i \in 1..Len(pendingJobs) : pendingJobs[i] = j
Claims(p, j) == pc[p] = "claimed" /\ env[p] = j
Claimed(j) == \E p \in Polls : Claims(p, j)
Active(j) == j \in activeJobs
Ending(j) == sending[j] # NoResult \/ result[j] # NoResult \/ outcome[j] # NoResult

PlaceInv(j) ==
    /\ j \in submitted <=> Pending(j) \/ Claimed(j) \/ Active(j) \/ Ending(j)
    /\ \A i, k \in 1..Len(pendingJobs) :
          pendingJobs[i] = j /\ pendingJobs[k] = j => i = k
    /\ \A p, q \in Polls : Claims(p, j) /\ Claims(q, j) => p = q
    /\ Pending(j) => ~Claimed(j) /\ ~Active(j) /\ ~Ending(j)
    /\ Claimed(j) => ~Active(j) /\ ~Ending(j)
    /\ Active(j) => ~Ending(j)
    /\ sending[j] # NoResult => result[j] = NoResult /\ outcome[j] = NoResult
    /\ result[j] # NoResult => outcome[j] = NoResult

PlacesInv == \A j \in Jobs : PlaceInv(j)

\* The order of the queue does not matter here, only what is in it and that
\* nothing is in it twice.
LEMMA AppendToQueue ==
    ASSUME TypeOK, NEW j \in Jobs, pendingJobs' = Append(pendingJobs, j)
    PROVE  /\ Len(pendingJobs') = Len(pendingJobs) + 1
           /\ \A i \in 1..Len(pendingJobs) : pendingJobs'[i] = pendingJobs[i]
           /\ pendingJobs'[Len(pendingJobs) + 1] = j
  BY AppendProperties DEF TypeOK

\* The places of one job stay as they are when what they are made of does.
LEMMA SamePlace ==
    ASSUME NEW j \in Jobs, PlaceInv(j),
           UNCHANGED pendingJobs,
           \A p \in Polls : Claims(p, j)' <=> Claims(p, j),
           Active(j)' <=> Active(j),
           j \in submitted' <=> j \in submitted,
           sending'[j] = sending[j], result'[j] = result[j], outcome'[j] = outcome[j]
    PROVE  PlaceInv(j)'
  BY DEF PlaceInv, Pending, Claimed, Ending

LEMMA PlacesInvStep == TypeOK /\ PlacesInv /\ [Next]_vars => PlacesInv'
<1> SUFFICES ASSUME TypeOK, PlacesInv, [Next]_vars, NEW j \in Jobs
             PROVE  PlaceInv(j)'
  BY DEF PlacesInv
<1>0. PlaceInv(j)
  BY DEF PlacesInv
<1> USE BrokerAssumption DEF BrokerAssumption, TypeOK
<1>1. ASSUME NEW k \in Jobs, EnqueueJob(k) PROVE PlaceInv(j)'
  <2>1. /\ Len(pendingJobs) \in Nat
        /\ Len(pendingJobs') = Len(pendingJobs) + 1
        /\ \A i \in 1..Len(pendingJobs) : pendingJobs'[i] = pendingJobs[i]
        /\ pendingJobs'[Len(pendingJobs) + 1] = k
    BY <1>1, AppendToQueue, LenProperties DEF EnqueueJob
  <2>2. Pending(j)' <=> Pending(j) \/ j = k
    <3>1. 1..Len(pendingJobs') = 1..Len(pendingJobs) \cup {Len(pendingJobs) + 1}
      BY <2>1
    <3>. QED BY <2>1, <3>1 DEF Pending
  <2>3. /\ Claimed(j)' <=> Claimed(j)
        /\ Active(j)' <=> Active(j)
        /\ Ending(j)' <=> Ending(j)
        /\ \A p \in Polls : Claims(p, j)' <=> Claims(p, j)
        /\ UNCHANGED <<sending, result, outcome>>
    BY <1>1 DEF EnqueueJob, Claimed, Claims, Active, Ending, pollVars, jobVars, endVars
  <2>4. j = k => ~Pending(j) /\ ~Claimed(j) /\ ~Active(j) /\ ~Ending(j)
    BY <1>0, <1>1 DEF EnqueueJob, PlaceInv
  <2>5. \A i, l \in 1..Len(pendingJobs') :
           pendingJobs'[i] = j /\ pendingJobs'[l] = j => i = l
    BY <2>1, <2>4, <1>0 DEF PlaceInv, Pending
  <2>6. j \in submitted' <=> j \in submitted \/ j = k
    BY <1>1 DEF EnqueueJob
  <2>. QED BY <2>2, <2>3, <2>4, <2>5, <2>6, <1>0 DEF PlaceInv
<1>2. ASSUME NEW p \in Polls, NEW i \in 1..Len(pendingJobs), ClaimJob(p, i)
      PROVE  PlaceInv(j)'
  <2> DEFINE k == pendingJobs[i]
  <2>1. /\ Len(pendingJobs) \in Nat /\ k \in Jobs
        /\ Len(pendingJobs') = Len(pendingJobs) - 1
        /\ \A n \in 1..Len(pendingJobs) - 1 :
              pendingJobs'[n] = IF n < i THEN pendingJobs[n] ELSE pendingJobs[n+1]
    <3>1. pendingJobs' = RemoveAt(pendingJobs, i)
      BY <1>2 DEF ClaimJob
    <3>2. Len(pendingJobs) \in Nat /\ k \in Jobs
      BY LenProperties, ElementOfSeq
    <3>3. pendingJobs \in Seq(Jobs)
      OBVIOUS
    <3>4. /\ Len(RemoveAt(pendingJobs, i)) = Len(pendingJobs) - 1
          /\ \A n \in 1..Len(pendingJobs) - 1 :
                RemoveAt(pendingJobs, i)[n] = IF n < i THEN pendingJobs[n] ELSE pendingJobs[n+1]
      BY <3>3, RemoveAtProperties
    <3>. QED BY <3>1, <3>2, <3>4
  <2>2. \A n, m \in 1..Len(pendingJobs') :
           pendingJobs'[n] = j /\ pendingJobs'[m] = j => n = m
    <3>. SUFFICES ASSUME NEW n \in 1..Len(pendingJobs'), NEW m \in 1..Len(pendingJobs'),
                         pendingJobs'[n] = j, pendingJobs'[m] = j
                  PROVE  n = m
      OBVIOUS
    <3> DEFINE up(x) == IF x < i THEN x ELSE x + 1
    <3>1. /\ up(n) \in 1..Len(pendingJobs) /\ up(m) \in 1..Len(pendingJobs)
          /\ pendingJobs[up(n)] = j /\ pendingJobs[up(m)] = j
      BY <2>1
    <3>2. up(n) = up(m)
      BY <3>1, <1>0 DEF PlaceInv
    <3>. QED BY <3>2, <2>1
  <2>3. CASE j = k
    <3>1. Pending(j) /\ ~Claimed(j) /\ ~Active(j) /\ ~Ending(j) /\ j \in submitted
      BY <2>3, <1>0 DEF PlaceInv, Pending
    <3>2. ~Pending(j)'
      <4>1. ASSUME NEW n \in 1..Len(pendingJobs'), pendingJobs'[n] = j PROVE FALSE
        <5> DEFINE m == IF n < i THEN n ELSE n + 1
        <5>1. m \in 1..Len(pendingJobs) /\ pendingJobs[m] = j /\ m # i
          BY <2>1, <4>1
        <5>. QED BY <5>1, <2>3, <1>0 DEF PlaceInv
      <4>. QED BY <4>1 DEF Pending
    <3>3. \A q \in Polls : Claims(q, j)' <=> q = p
      BY <1>2, <2>3, <3>1 DEF ClaimJob, Claims, Claimed
    <3>4. ~Active(j)' /\ ~Ending(j)' /\ j \in submitted'
      BY <3>1, <1>2 DEF ClaimJob, Active, Ending, jobVars, endVars
    <3>. QED BY <2>2, <3>2, <3>3, <3>4 DEF PlaceInv, Claimed, Ending
  <2>4. CASE j # k
    <3>1. \A q \in Polls : Claims(q, j)' <=> Claims(q, j)
      BY <1>2, <2>4 DEF ClaimJob, Claims
    <3>2. Pending(j)' <=> Pending(j)
      <4>1. ASSUME NEW n \in 1..Len(pendingJobs), pendingJobs[n] = j
            PROVE  \E m \in 1..Len(pendingJobs') : pendingJobs'[m] = j
        <5> DEFINE m == IF n < i THEN n ELSE n - 1
        <5>1. m \in 1..Len(pendingJobs') /\ pendingJobs'[m] = j
          BY <4>1, <2>1, <2>4
        <5>. QED BY <5>1
      <4>2. ASSUME NEW n \in 1..Len(pendingJobs'), pendingJobs'[n] = j
            PROVE  \E m \in 1..Len(pendingJobs) : pendingJobs[m] = j
        <5> DEFINE m == IF n < i THEN n ELSE n + 1
        <5>1. m \in 1..Len(pendingJobs) /\ pendingJobs[m] = j
          BY <4>2, <2>1
        <5>. QED BY <5>1
      <4>. QED BY <4>1, <4>2 DEF Pending
    <3>3. /\ Active(j)' <=> Active(j)
          /\ UNCHANGED <<sending, result, outcome, submitted>>
      BY <1>2 DEF ClaimJob, Active, jobVars, endVars
    <3>. QED BY <2>2, <3>1, <3>2, <3>3, <1>0 DEF PlaceInv, Claimed, Ending
  <2>. QED BY <2>3, <2>4
<1>3. ASSUME NEW p \in Polls, DeliverJob(p) PROVE PlaceInv(j)'
  <2>1. /\ Pending(j)' <=> Pending(j)
        /\ UNCHANGED <<pendingJobs, sending, result, outcome, submitted>>
    BY <1>3 DEF DeliverJob, Pending, queueVars, endVars
  <2>2. CASE env[p] = j
    <3>1. Claims(p, j) /\ Claimed(j)
      BY <2>2, <1>3 DEF DeliverJob, Claims, Claimed
    <3>2. ~Claimed(j)' /\ Active(j)'
      BY <2>2, <1>3, <3>1, <1>0 DEF DeliverJob, Claims, Claimed, Active, PlaceInv
    <3>. QED BY <2>1, <3>1, <3>2, <1>0 DEF PlaceInv, Claimed, Ending
  <2>3. CASE env[p] # j
    BY <2>3, <2>1, <1>0, <1>3, SamePlace DEF DeliverJob, Claims, Active
  <2>. QED BY <2>2, <2>3
<1>4. ASSUME NEW k \in Jobs, NEW q \in Jobs, k \in activeJobs, reported[q] # NoResult,
             EndJob(k, q, reported[q]),
             UNCHANGED <<queueVars, pollVars, result, outcome>>
      PROVE  PlaceInv(j)'
  <2>1. CASE k = j
    BY <2>1, <1>4, <1>0 DEF EndJob, PlaceInv, Pending, Claims, Claimed, Active, Ending,
                            queueVars, pollVars
  <2>2. CASE k # j
    BY <2>2, <1>4, <1>0, SamePlace DEF EndJob, Claims, Active, queueVars, pollVars
  <2>. QED BY <2>1, <2>2
<1>5. ASSUME NEW k \in Jobs, PlanEvent(k) PROVE PlaceInv(j)'
  BY <1>5, <1>4 DEF PlanEvent
<1>6. ASSUME NEW k \in Jobs, JobRequest(k) PROVE PlaceInv(j)'
  <2>1. PICK l \in PatchTargets(k) : EndJob(l, k, reported[k])
    BY <1>6 DEF JobRequest
  <2>2. l \in activeJobs /\ l \in Jobs
    BY <2>1 DEF PatchTargets
  <2>. QED BY <1>6, <2>1, <2>2, <1>4 DEF JobRequest
<1>7. ASSUME NEW k \in Jobs, CompleteJob(k) PROVE PlaceInv(j)'
  <2>1. CASE k = j /\ j \in activeJobs
    BY <2>1, <1>7, <1>0 DEF CompleteJob, PlaceInv, Pending, Claims, Claimed, Active, Ending,
                            queueVars, pollVars
  <2>2. CASE ~(k = j /\ j \in activeJobs)
    BY <2>2, <1>7, <1>0, SamePlace DEF CompleteJob, Claims, Active, queueVars, pollVars
  <2>. QED BY <2>1, <2>2
<1>8. ASSUME NEW k \in Jobs, SendResult(k) PROVE PlaceInv(j)'
  BY <1>8, <1>0 DEF SendResult, PlaceInv, Pending, Claims, Claimed, Active, Ending,
                    queueVars, pollVars, jobVars
<1>9. ASSUME NEW k \in Jobs, ReceiveResult(k) PROVE PlaceInv(j)'
  BY <1>9, <1>0 DEF ReceiveResult, PlaceInv, Pending, Claims, Claimed, Active, Ending,
                    queueVars, pollVars, jobVars
<1>10. ASSUME NEW p \in Polls,
              \/ StartPoll(p) \/ StartLatePoll(p) \/ ClaimNothing(p) \/ Wake(p)
              \/ PollEnds(p) \/ WriteMessage(p) \/ LoseClient(p)
       PROVE  PlaceInv(j)'
  <2>1. \A q \in Polls : Claims(q, j)' <=> Claims(q, j)
    BY <1>10 DEF Claims, StartPoll, StartLatePoll, ClaimNothing, Wake, PollEnds,
                 WriteMessage, LoseClient
  <2>2. UNCHANGED <<pendingJobs, submitted, jobVars, endVars>>
    BY <1>10 DEF StartPoll, StartLatePoll, ClaimNothing, Wake, PollEnds, WriteMessage,
                 LoseClient, queueVars
  <2>. QED BY <2>1, <2>2, <1>0, SamePlace DEF Active, jobVars, endVars
<1>11. CASE UNCHANGED <<pendingJobs, submitted, pollVars, jobVars, endVars>>
  <2>1. \A q \in Polls : Claims(q, j)' <=> Claims(q, j)
    BY <1>11 DEF Claims, pollVars
  <2>. QED BY <2>1, <1>11, <1>0, SamePlace DEF Active, jobVars, endVars
<1>12. ASSUME NEW k \in Jobs, NotifyPollers(k)
       PROVE  UNCHANGED <<pendingJobs, submitted, pollVars, jobVars, endVars>>
  BY <1>12 DEF NotifyPollers
<1>13. ASSUME NEW s \in Sessions, CreateSession(s) \/ DeleteSession(s)
       PROVE  UNCHANGED <<pendingJobs, submitted, pollVars, jobVars, endVars>>
  BY <1>13 DEF CreateSession, DeleteSession, queueVars
<1>14. ASSUME NEW k \in Jobs, NEW r \in Results, RunnerFinishes(k, r)
       PROVE  UNCHANGED <<pendingJobs, submitted, pollVars, jobVars, endVars>>
  BY <1>14 DEF RunnerFinishes, queueVars
<1>15. CASE UNCHANGED vars
  BY <1>15, <1>11 DEF vars, queueVars
<1>. QED
  BY <1>1, <1>2, <1>3, <1>5, <1>6, <1>7, <1>8, <1>9, <1>10, <1>11, <1>12, <1>13, <1>14,
     <1>15 DEF Next, Scan

LEMMA PlacesInvImplies == TypeOK /\ PlacesInv => JobInOnePlace
<1> SUFFICES ASSUME TypeOK, PlacesInv, NEW j \in submitted
             PROVE  \E x \in Places(j) : Places(j) = {x}
  BY DEF JobInOnePlace
<1>0. j \in Jobs /\ PlaceInv(j)
  BY DEF TypeOK, PlacesInv
<1> DEFINE P == {<<"pending", i>> : i \in {k \in 1..Len(pendingJobs) : pendingJobs[k] = j}}
           C == {<<"claimed", p>> : p \in {q \in Polls : pc[q] = "claimed" /\ env[q] = j}}
           A == {<<"active", j>>  : k \in activeJobs \cap {j}}
           E == {<<"ending", f>>  : f \in {g \in {"sending", "result", "outcome"} :
                                      \/ g = "sending" /\ sending[j] # NoResult
                                      \/ g = "result" /\ result[j] # NoResult
                                      \/ g = "outcome" /\ outcome[j] # NoResult}}
<1>1. Places(j) = P \cup C \cup A \cup E
  BY DEF Places
<1>2. /\ ~Pending(j) => P = {}
      /\ ~Claimed(j) => C = {}
      /\ ~Active(j) => A = {}
      /\ ~Ending(j) => E = {}
  BY DEF Pending, Claimed, Claims, Active, Ending
<1>3. CASE Pending(j)
  <2>1. PICK i \in 1..Len(pendingJobs) : pendingJobs[i] = j
    BY <1>3 DEF Pending
  <2>2. P = {<<"pending", i>>}
    BY <2>1, <1>0 DEF PlaceInv
  <2>. QED BY <2>2, <1>0, <1>1, <1>2, <1>3 DEF PlaceInv
<1>4. CASE Claimed(j)
  <2>1. PICK p \in Polls : Claims(p, j)
    BY <1>4 DEF Claimed
  <2>2. C = {<<"claimed", p>>}
    BY <2>1, <1>0 DEF PlaceInv, Claims
  <2>. QED BY <2>2, <1>0, <1>1, <1>2, <1>4 DEF PlaceInv
<1>5. CASE Active(j)
  <2>1. A = {<<"active", j>>}
    BY <1>5 DEF Active
  <2>. QED BY <2>1, <1>0, <1>1, <1>2, <1>5 DEF PlaceInv
<1>6. CASE Ending(j)
  <2>1. \E f \in {"sending", "result", "outcome"} : E = {<<"ending", f>>}
    <3>1. CASE sending[j] # NoResult
      BY <3>1, <1>0 DEF PlaceInv
    <3>2. CASE result[j] # NoResult
      BY <3>2, <1>0 DEF PlaceInv
    <3>3. CASE sending[j] = NoResult /\ result[j] = NoResult
      BY <3>3, <1>6 DEF Ending
    <3>. QED BY <3>1, <3>2, <3>3
  <2>. QED BY <2>1, <1>0, <1>1, <1>2, <1>6 DEF PlaceInv
<1>. QED BY <1>0, <1>3, <1>4, <1>5, <1>6 DEF PlaceInv

\* No job is anywhere in the beginning.
LEMMA PlacesInvInit == Init => PlacesInv
BY EmptySeq DEF Init, PlacesInv, PlaceInv, Pending, Claims, Claimed, Active, Ending

\* Every job the orchestrator enqueued is in exactly one place, and so its
\* result channel is sent to once, whatever the handlers' interleaving and on
\* whichever endpoints the runners report, even repeatedly.
THEOREM JobsStayInOnePlace == Spec => []JobInOnePlace
<1>. QED BY PlacesInvInit, PlacesInvStep, PlacesInvImplies, TypeCorrect, PTL DEF Spec

-----------------------------------------------------------------------------
(***************************************************************************)
(* The broker implements JobDispatch, for any jobs, sessions and handlers, *)
(* as long as no runner reports through PATCH jobrequests; and with plan   *)
(* events as the only reports it tells the truth about finished jobs.      *)
(***************************************************************************)

\* A runner got the message of j; a handler has it in its hands.
Got(j)      == \E s \in Sessions : j \in received[s]
Holds(p, j) == pc[p] \in {"claimed", "writing"} /\ env[p] = j

\* A message is in one hand, and was written once: after the queue, and before
\* the runner got it and could report.
MessageInv ==
    \A j \in Jobs :
        /\ Got(j) => j \in submitted /\ ~Pending(j)
        /\ \A p \in Polls : Holds(p, j) => j \in submitted /\ ~Pending(j) /\ ~Got(j)
        /\ \A p, q \in Polls : Holds(p, j) /\ Holds(q, j) => p = q
        /\ reported[j] # NoResult => Got(j)

\* A handler has its session's agent name, or none, and a message for it.
AgentInv ==
    \A p \in Polls :
        /\ pc[p] # "idle" => agentName[p] \in {NoAgent, AgentOf[Owner[p]]}
        /\ pc[p] \in {"claimed", "writing"} => Matches(env[p], agentName[p])

\* What the refinement rests on.
DispatchInv == TypeOK /\ PlacesInv /\ SessionInv /\ ResultIsOwn /\ MessageInv /\ AgentInv

-----------------------------------------------------------------------------
\* Nothing is in anybody's hands in the beginning.
LEMMA DispatchInvInit == Init => MessageInv /\ AgentInv
BY EmptySeq DEF Init, MessageInv, AgentInv, Got, Holds, Pending

\* A handler that claims a job takes it out of the queue, and nothing else.
LEMMA ClaimTakesOne ==
    ASSUME TypeOK, PlacesInv, NEW p \in Polls, NEW i \in 1..Len(pendingJobs), ClaimJob(p, i)
    PROVE  /\ pendingJobs[i] \in Jobs /\ Pending(pendingJobs[i])
           /\ \A j \in Jobs : Pending(j)' => Pending(j) /\ j # pendingJobs[i]
<1> DEFINE k == pendingJobs[i]
<1>1. k \in Jobs /\ Len(pendingJobs) \in Nat
  BY ElementOfSeq, LenProperties DEF TypeOK
<1>2. /\ Len(pendingJobs') = Len(pendingJobs) - 1
      /\ \A n \in 1..Len(pendingJobs) - 1 :
            pendingJobs'[n] = IF n < i THEN pendingJobs[n] ELSE pendingJobs[n+1]
  <2>1. pendingJobs' = RemoveAt(pendingJobs, i) /\ pendingJobs \in Seq(Jobs)
    BY DEF ClaimJob, TypeOK
  <2> QED
    BY <2>1, RemoveAtProperties
<1>3. ASSUME NEW j \in Jobs, NEW n \in 1..Len(pendingJobs'), pendingJobs'[n] = j
      PROVE  Pending(j) /\ j # k
  <2> DEFINE m == IF n < i THEN n ELSE n + 1
  <2>1. m \in 1..Len(pendingJobs) /\ pendingJobs[m] = j /\ m # i
    BY <1>1, <1>2, <1>3
  <2> QED
    BY <1>1, <2>1 DEF Pending, PlacesInv, PlaceInv
<1> QED
  BY <1>1, <1>3 DEF Pending

\* Every step keeps MessageInv.
LEMMA MessageInvStep ==
    TypeOK /\ PlacesInv /\ ResultIsOwn /\ MessageInv /\ [Next]_vars => MessageInv'
<1> SUFFICES ASSUME TypeOK, PlacesInv, ResultIsOwn, MessageInv, [Next]_vars
             PROVE  MessageInv'
  OBVIOUS
<1>1. ASSUME NEW k \in Jobs, EnqueueJob(k)
      PROVE  MessageInv'
  <2>1. \A j \in Jobs : Pending(j)' => Pending(j) \/ j = k
    <3>1. /\ Len(pendingJobs) \in Nat /\ Len(pendingJobs') = Len(pendingJobs) + 1
          /\ \A i \in 1..Len(pendingJobs) : pendingJobs'[i] = pendingJobs[i]
          /\ pendingJobs'[Len(pendingJobs) + 1] = k
      BY <1>1, AppendToQueue, LenProperties DEF EnqueueJob, TypeOK
    <3>2. 1..Len(pendingJobs') = 1..Len(pendingJobs) \cup {Len(pendingJobs) + 1}
      BY <3>1
    <3> QED
      BY <3>1, <3>2 DEF Pending
  <2>2. ~Got(k) /\ \A p \in Polls : ~Holds(p, k)
    BY <1>1 DEF EnqueueJob, MessageInv
  <2>3. UNCHANGED <<pc, env, received, reported>> /\ submitted' = submitted \cup {k}
    BY <1>1 DEF EnqueueJob, pollVars, runnerVars
  <2> QED
    BY <2>1, <2>2, <2>3 DEF MessageInv, Got, Holds
<1>2. ASSUME NEW p \in Polls, NEW i \in 1..Len(pendingJobs), ClaimJob(p, i)
      PROVE  MessageInv'
  <2> DEFINE k == pendingJobs[i]
  <2>1. /\ k \in Jobs /\ Pending(k)
        /\ \A j \in Jobs : Pending(j)' => Pending(j) /\ j # k
    BY <1>2, ClaimTakesOne
  <2>2. k \in submitted /\ ~Got(k) /\ \A q \in Polls : ~Holds(q, k)
    BY <2>1 DEF MessageInv, PlacesInv, PlaceInv
  <2>3. /\ UNCHANGED <<submitted, received, reported>>
        /\ \A j \in Jobs, q \in Polls : Holds(q, j)' <=> IF q = p THEN j = k ELSE Holds(q, j)
    BY <1>2 DEF ClaimJob, runnerVars, Holds, TypeOK
  <2> HIDE DEF k
  <2> QED
    BY <2>1, <2>2, <2>3 DEF MessageInv, Got
<1>3. ASSUME NEW p \in Polls, WriteMessage(p)
      PROVE  MessageInv'
  <2>1. /\ UNCHANGED <<submitted, pendingJobs, reported>>
        /\ env[p] \in Jobs /\ Holds(p, env[p])
        /\ \A j \in Jobs, q \in Polls : Holds(q, j)' <=> Holds(q, j) /\ q # p
        /\ \A j \in Jobs : Got(j) => Got(j)'
        /\ \A j \in Jobs : Got(j)' => Got(j) \/ j = env[p]
    BY <1>3, BrokerAssumption DEF WriteMessage, queueVars, Holds, Got, TypeOK
  <2> QED
    BY <2>1 DEF MessageInv, Pending
<1>4. ASSUME NEW k \in Jobs, NEW r \in Results, RunnerFinishes(k, r)
      PROVE  MessageInv'
  <2>1. /\ Got(k) /\ reported' = [reported EXCEPT ![k] = r]
        /\ UNCHANGED <<submitted, pendingJobs, received, pc, env>>
    BY <1>4 DEF RunnerFinishes, Got, queueVars, pollVars
  <2> QED
    BY <2>1 DEF MessageInv, Got, Holds, Pending, TypeOK
<1>5. ASSUME UNCHANGED <<submitted, pendingJobs, received, reported>>,
             \A j \in Jobs, q \in Polls : Holds(q, j)' => Holds(q, j)
      PROVE  MessageInv'
  BY <1>5 DEF MessageInv, Got, Pending
<1>6. ASSUME NEW p \in Polls,
             \/ StartPoll(p) \/ StartLatePoll(p) \/ ClaimNothing(p) \/ Wake(p)
             \/ PollEnds(p) \/ DeliverJob(p) \/ LoseClient(p)
      PROVE  MessageInv'
  <2>1. UNCHANGED <<submitted, pendingJobs, received, reported>>
    BY <1>6 DEF StartPoll, StartLatePoll, ClaimNothing, Wake, PollEnds, DeliverJob, LoseClient,
                queueVars, runnerVars
  <2>2. \A j \in Jobs, q \in Polls : Holds(q, j)' => Holds(q, j)
    BY <1>6 DEF StartPoll, StartLatePoll, ClaimNothing, Wake, PollEnds, DeliverJob, LoseClient, Holds, TypeOK
  <2> QED
    BY <2>1, <2>2, <1>5
<1>7. ASSUME NEW k \in Jobs,
             \/ NotifyPollers(k) \/ ReceiveResult(k) \/ PlanEvent(k) \/ JobRequest(k)
             \/ CompleteJob(k) \/ SendResult(k)
      PROVE  UNCHANGED <<submitted, pendingJobs, received, reported, pc, env>>
  BY <1>7 DEF NotifyPollers, ReceiveResult, PlanEvent, JobRequest, CompleteJob, SendResult,
              queueVars, pollVars, runnerVars
<1>8. ASSUME NEW s \in Sessions, CreateSession(s) \/ DeleteSession(s)
      PROVE  UNCHANGED <<submitted, pendingJobs, received, reported, pc, env>>
  BY <1>8 DEF CreateSession, DeleteSession, queueVars, pollVars
<1>9. CASE UNCHANGED <<submitted, pendingJobs, received, reported, pc, env>>
  BY <1>9, <1>5 DEF Holds
<1>10. CASE UNCHANGED vars
  BY <1>10, <1>9 DEF vars, queueVars, pollVars, runnerVars
<1> QED
  BY <1>1, <1>2, <1>3, <1>4, <1>6, <1>7, <1>8, <1>9, <1>10 DEF Next, Scan

\* Every step keeps AgentInv.
LEMMA AgentInvStep == TypeOK /\ AgentInv /\ [Next]_vars => AgentInv'
<1> SUFFICES ASSUME TypeOK, AgentInv, [Next]_vars
             PROVE  AgentInv'
  OBVIOUS
<1> USE BrokerAssumption DEF AgentInv, TypeOK
<1>1. ASSUME NEW p \in Polls, StartPoll(p) \/ StartLatePoll(p)
      PROVE  AgentInv'
  BY <1>1 DEF StartPoll, StartLatePoll
<1>2. ASSUME NEW p \in Polls, NEW i \in 1..Len(pendingJobs), ClaimJob(p, i)
      PROVE  AgentInv'
  BY <1>2 DEF ClaimJob, FirstMatch
<1>3. ASSUME NEW p \in Polls,
             ClaimNothing(p) \/ Wake(p) \/ PollEnds(p) \/ DeliverJob(p) \/ LoseClient(p)
      PROVE  AgentInv'
  BY <1>3 DEF ClaimNothing, Wake, PollEnds, DeliverJob, LoseClient
<1>4. ASSUME NEW p \in Polls, WriteMessage(p)
      PROVE  AgentInv'
  BY <1>4 DEF WriteMessage
<1>5. ASSUME NEW k \in Jobs,
             \/ EnqueueJob(k) \/ NotifyPollers(k) \/ ReceiveResult(k) \/ PlanEvent(k) \/ JobRequest(k)
             \/ CompleteJob(k) \/ SendResult(k)
      PROVE  UNCHANGED pollVars
  BY <1>5 DEF EnqueueJob, NotifyPollers, ReceiveResult, PlanEvent, JobRequest, CompleteJob, SendResult
<1>6. ASSUME NEW s \in Sessions, CreateSession(s) \/ DeleteSession(s)
      PROVE  UNCHANGED pollVars
  BY <1>6 DEF CreateSession, DeleteSession
<1>7. ASSUME NEW k \in Jobs, NEW r \in Results, RunnerFinishes(k, r)
      PROVE  UNCHANGED pollVars
  BY <1>7 DEF RunnerFinishes
<1>8. CASE UNCHANGED pollVars
  BY <1>8 DEF pollVars
<1>9. CASE UNCHANGED vars
  BY <1>9, <1>8 DEF vars
<1> HIDE DEF AgentInv, TypeOK
<1> QED
  BY <1>1, <1>2, <1>3, <1>4, <1>5, <1>6, <1>7, <1>8, <1>9 DEF Next, Scan

-----------------------------------------------------------------------------
(***************************************************************************)
(* The refinement: Stage, as a function of the broker's state, changes the *)
(* way JobDispatch says.                                                   *)
(***************************************************************************)

\* Nothing is submitted, taken or finished in the beginning.
LEMMA DispatchInit == Init => Dispatch!Init
BY DEF Init, Dispatch!Init, Stage

\* What JobDispatch sees of a job changes only with these four variables.
LEMMA DispatchStutter ==
    UNCHANGED <<submitted, outcome, received, reported>> => UNCHANGED Dispatch!vars
BY DEF Dispatch!vars, Stage

\* Enqueuing a job is submitting it: nobody had its message, it had no result.
LEMMA EnqueueSubmits ==
    ASSUME DispatchInv, NEW k \in Jobs, EnqueueJob(k)
    PROVE  Dispatch!Submit(k)
<1>1. /\ UNCHANGED <<outcome, received, reported>>
      /\ k \notin submitted /\ submitted' = submitted \cup {k}
  BY DEF EnqueueJob, endVars, runnerVars
<1>2. ~Got(k) /\ outcome[k] = NoResult
  BY <1>1 DEF DispatchInv, MessageInv, PlacesInv, PlaceInv, Ending
<1>3. Stage(k) = "new" /\ Stage(k)' = "queued"
  BY <1>1, <1>2 DEF Stage, Got
<1>4. \A j \in Jobs \ {k} : Stage(j)' = Stage(j)
  BY <1>1 DEF Stage
<1> QED
  BY <1>1, <1>3, <1>4 DEF Dispatch!Submit

\* Writing the message to a client that waits starts the job on its session.
LEMMA WriteStarts ==
    ASSUME DispatchInv, NEW p \in Polls, p \in connected, WriteMessage(p),
           NEW k, k = env[p], NEW s, s = Owner[p]
    PROVE  Dispatch!Start(s, k)
<1>0. s \in Sessions /\ k \in Jobs /\ pc[p] = "writing"
  BY BrokerAssumption DEF DispatchInv, TypeOK, WriteMessage
<1>1. /\ UNCHANGED <<submitted, outcome, reported>>
      /\ received' = [received EXCEPT ![s] = @ \cup {k}]
  BY DEF WriteMessage, queueVars, endVars
<1>2. /\ received[s] = {}
      /\ agentName[p] = AgentOf[s]
      /\ MayRun(s, k)
  BY <1>0 DEF DispatchInv, SessionInv, AgentInv, Matches, MayRun
<1>3. k \in submitted /\ ~Got(k) /\ reported[k] = NoResult /\ outcome[k] = NoResult
  BY <1>0 DEF DispatchInv, MessageInv, Holds, ResultIsOwn
<1>4. received' = [received EXCEPT ![s] = {k}]
  BY <1>1, <1>2
<1>5. k \in received'[s] /\ \A t \in Sessions \ {s} : received'[t] = received[t]
  BY <1>0, <1>4 DEF DispatchInv, TypeOK
<1>6. Stage(k) = "queued"
  BY <1>3 DEF Stage, Got
<1>7. Stage(k)' = "running"
  BY <1>0, <1>1, <1>3, <1>5 DEF Stage
<1>8. \A j \in Jobs \ {k} : Stage(j)' = Stage(j)
  <2>1. \A j \in Jobs \ {k} : (\E t \in Sessions : j \in received[t])'
                             <=> \E t \in Sessions : j \in received[t]
    BY <1>0, <1>2, <1>4, <1>5 DEF DispatchInv, TypeOK
  <2> QED
    BY <1>1, <2>1 DEF Stage
<1> QED
  BY <1>0, <1>1, <1>2, <1>4, <1>6, <1>7, <1>8 DEF Dispatch!Start

\* A runner's result is a report of a running job.
LEMMA FinishReports ==
    ASSUME DispatchInv, NEW k \in Jobs, NEW r \in Results, RunnerFinishes(k, r)
    PROVE  Dispatch!Report(k, r)
<1>1. /\ UNCHANGED <<submitted, outcome, received>>
      /\ Got(k) /\ reported[k] = NoResult /\ reported' = [reported EXCEPT ![k] = r]
  BY DEF RunnerFinishes, queueVars, endVars, Got
<1>2. k \in submitted /\ outcome[k] = NoResult
  BY <1>1 DEF DispatchInv, MessageInv, ResultIsOwn
<1>3. Stage(k) = "running" /\ \A j \in Jobs : Stage(j)' = Stage(j)
  BY <1>1, <1>2 DEF Stage, Got
<1> QED
  BY <1>1, <1>3 DEF Dispatch!Report

\* What executeJob receives is what the job's runner reported, and the first it
\* receives.
LEMMA ReceiveFinishes ==
    ASSUME DispatchInv, NEW k \in Jobs, ReceiveResult(k)
    PROVE  Dispatch!Finish(k)
<1>1. /\ UNCHANGED <<submitted, received, reported>>
      /\ result[k] # NoResult /\ outcome' = [outcome EXCEPT ![k] = result[k]]
  BY DEF ReceiveResult, queueVars, runnerVars
<1>2. result[k] = reported[k] /\ reported[k] # NoResult /\ outcome[k] = NoResult
  BY <1>1 DEF DispatchInv, ResultIsOwn, PlacesInv, PlaceInv
<1>3. Got(k) /\ k \in submitted
  BY <1>2 DEF DispatchInv, MessageInv
<1>4. Stage(k) = "running" /\ Stage(k)' = "done" /\ \A j \in Jobs \ {k} : Stage(j)' = Stage(j)
  BY <1>1, <1>2, <1>3 DEF Stage, Got, DispatchInv, TypeOK
<1> QED
  BY <1>1, <1>2, <1>4 DEF Dispatch!Finish

\* Every step of the broker is one of JobDispatch, or none of it sees it.
LEMMA DispatchStep == DispatchInv /\ [Next]_vars => [Dispatch!Next]_(Dispatch!vars)
<1> SUFFICES ASSUME DispatchInv, [Next]_vars
             PROVE  Dispatch!Next \/ UNCHANGED Dispatch!vars
  OBVIOUS
<1>1. ASSUME NEW k \in Jobs, EnqueueJob(k) \/ ReceiveResult(k)
      PROVE  Dispatch!Next
  BY <1>1, EnqueueSubmits, ReceiveFinishes DEF Dispatch!Next
<1>2. ASSUME NEW k \in Jobs, NEW r \in Results, RunnerFinishes(k, r)
      PROVE  Dispatch!Next
  BY <1>2, FinishReports DEF Dispatch!Next
<1>3. ASSUME NEW p \in Polls, WriteMessage(p)
      PROVE  Dispatch!Next \/ UNCHANGED Dispatch!vars
  <2>1. CASE p \in connected
    <3>1. Owner[p] \in Sessions /\ env[p] \in Jobs
      BY <1>3, BrokerAssumption DEF WriteMessage, DispatchInv, TypeOK
    <3> QED
      BY <2>1, <3>1, <1>3, WriteStarts DEF Dispatch!Next
  <2>2. CASE p \notin connected
    BY <2>2, <1>3, DispatchStutter DEF WriteMessage, queueVars, endVars
  <2> QED
    BY <2>1, <2>2
<1>4. ASSUME NEW p \in Polls,
             \/ StartPoll(p) \/ StartLatePoll(p) \/ Scan(p) \/ Wake(p)
             \/ PollEnds(p) \/ DeliverJob(p) \/ LoseClient(p)
      PROVE  UNCHANGED <<submitted, outcome, received, reported>>
  BY <1>4 DEF StartPoll, StartLatePoll, Scan, ClaimJob, ClaimNothing, Wake, PollEnds, DeliverJob,
              LoseClient, queueVars, endVars, runnerVars
<1>5. ASSUME NEW k \in Jobs,
             \/ NotifyPollers(k) \/ PlanEvent(k) \/ JobRequest(k) \/ CompleteJob(k) \/ SendResult(k)
      PROVE  UNCHANGED <<submitted, outcome, received, reported>>
  BY <1>5 DEF NotifyPollers, PlanEvent, JobRequest, CompleteJob, SendResult, queueVars, endVars, runnerVars
<1>6. ASSUME NEW s \in Sessions, CreateSession(s) \/ DeleteSession(s)
      PROVE  UNCHANGED <<submitted, outcome, received, reported>>
  BY <1>6 DEF CreateSession, DeleteSession, queueVars, endVars
<1>7. CASE UNCHANGED vars
  BY <1>7, DispatchStutter DEF vars, queueVars, endVars, runnerVars
<1> QED
  BY <1>1, <1>2, <1>3, <1>4, <1>5, <1>6, <1>7, DispatchStutter DEF Next

\* Seen from outside the broker dispatches jobs as JobDispatch says, whatever the
\* interleaving of handlers, as long as no runner reports through PATCH jobrequests.
THEOREM BrokerImplementsDispatch ==
    ASSUME "jobrequests" \notin Reports
    PROVE  Spec => ImplementsDispatch
<1>1. Init => PlacesInv /\ SessionInv /\ MessageInv /\ AgentInv
  BY PlacesInvInit, SessionInvInit, DispatchInvInit
<1>2. Spec => []TypeOK /\ []ResultIsOwn
  BY TypeCorrect, OwnResult
<1>3. Spec => []DispatchInv
  BY <1>1, <1>2, PlacesInvStep, SessionInvStep, MessageInvStep, AgentInvStep, PTL
     DEF Spec, DispatchInv
<1>4. Spec => Dispatch!Init /\ [][Dispatch!Next]_(Dispatch!vars)
  BY <1>3, DispatchInit, DispatchStep, PTL DEF Spec
<1> QED
  BY <1>4 DEF ImplementsDispatch, Dispatch!Spec

-----------------------------------------------------------------------------
(***************************************************************************)
(* What a runner is told of a finished job.  JobRequestStatus answers from *)
(* completedRequests unless the job is active, so what is needed is that   *)
(* the result on its way was recorded with it, and never again.            *)
(***************************************************************************)
StatusInv == \A j \in Jobs : Ending(j) => completedRequests[j] = reported[j]

\* Every step keeps StatusInv if plan events are the only reports.
LEMMA StatusInvStep ==
    ASSUME Reports \subseteq {"planevents"}
    PROVE  TypeOK /\ ResultIsOwn /\ StatusInv /\ [Next]_vars => StatusInv'
<1> SUFFICES ASSUME TypeOK, ResultIsOwn, StatusInv, [Next]_vars
             PROVE  StatusInv'
  OBVIOUS
<1>1. ASSUME NEW k \in Jobs, PlanEvent(k)
      PROVE  StatusInv'
  BY <1>1 DEF PlanEvent, EndJob, StatusInv, Ending, TypeOK, runnerVars
<1>2. ASSUME NEW k \in Jobs, SendResult(k) \/ ReceiveResult(k)
      PROVE  StatusInv'
  BY <1>2 DEF SendResult, ReceiveResult, StatusInv, Ending, TypeOK, jobVars, runnerVars
<1>3. ASSUME NEW k \in Jobs, NEW r \in Results, RunnerFinishes(k, r)
      PROVE  StatusInv'
  BY <1>3 DEF RunnerFinishes, StatusInv, Ending, ResultIsOwn, TypeOK, jobVars, endVars
<1>4. ASSUME NEW k \in Jobs, JobRequest(k) \/ CompleteJob(k)
      PROVE  FALSE
  BY <1>4 DEF JobRequest, CompleteJob
<1>5. CASE UNCHANGED <<completedRequests, endVars, reported>>
  BY <1>5 DEF StatusInv, Ending, endVars
<1>6. ASSUME NEW k \in Jobs, EnqueueJob(k) \/ NotifyPollers(k)
      PROVE  UNCHANGED <<completedRequests, endVars, reported>>
  BY <1>6 DEF EnqueueJob, NotifyPollers, jobVars, runnerVars
<1>7. ASSUME NEW s \in Sessions, CreateSession(s) \/ DeleteSession(s)
      PROVE  UNCHANGED <<completedRequests, endVars, reported>>
  BY <1>7 DEF CreateSession, DeleteSession, jobVars
<1>8. ASSUME NEW p \in Polls,
             \/ StartPoll(p) \/ StartLatePoll(p) \/ Scan(p) \/ Wake(p)
             \/ PollEnds(p) \/ DeliverJob(p) \/ WriteMessage(p) \/ LoseClient(p)
      PROVE  UNCHANGED <<completedRequests, endVars, reported>>
  BY <1>8 DEF StartPoll, StartLatePoll, Scan, ClaimJob, ClaimNothing, Wake, PollEnds, DeliverJob,
              WriteMessage, LoseClient, jobVars, runnerVars
<1>9. CASE UNCHANGED vars
  BY <1>9, <1>5 DEF vars, jobVars, runnerVars
<1> QED
  BY <1>1, <1>2, <1>3, <1>4, <1>5, <1>6, <1>7, <1>8, <1>9 DEF Next

\* GET jobrequests/{j} tells the result the orchestrator got, once it got it: with
\* plan events as the only reports, and for the results the broker tells apart.
THEOREM FinishedJobsAreToldTruly ==
    ASSUME Reports \subseteq {"planevents"},
           Results \subseteq {"succeeded", "failed", "cancelled"}
    PROVE  Spec => []StatusIsTruthful
<1>1. Init => StatusInv
  BY DEF Init, StatusInv, Ending
<1>2. TypeOK /\ PlacesInv /\ ResultIsOwn /\ StatusInv => StatusIsTruthful
  <2> SUFFICES ASSUME TypeOK, PlacesInv, ResultIsOwn, StatusInv,
                      NEW j \in Jobs, outcome[j] # NoResult
               PROVE  JobRequestStatus(j) = outcome[j]
    BY DEF StatusIsTruthful
  <2>1. completedRequests[j] = outcome[j] /\ outcome[j] \in Results
    BY DEF StatusInv, Ending, ResultIsOwn, TypeOK
  <2>2. j \notin activeJobs
    BY DEF PlacesInv, PlaceInv, Active, Ending
  <2> QED
    BY <2>1, <2>2 DEF JobRequestStatus
<1>3. Spec => []TypeOK /\ []ResultIsOwn
  BY TypeCorrect, OwnResult
<1> QED
  BY <1>1, <1>2, <1>3, StatusInvStep, PlacesInvInit, PlacesInvStep, PTL DEF Spec
=============================================================================
