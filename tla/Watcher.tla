------------------------------ MODULE Watcher ------------------------------
(***************************************************************************)
(* Watch mode, src/internal/orchestrator/watcher.go: the loop over file    *)
(* events, the debounce timer whose callback runs in a goroutine of its    *)
(* own, and the runs it cancels and starts.                                *)
(*                                                                         *)
(* Abstractions.  A change is in a directory; a new directory is watched   *)
(* once the event of its creation was handled.  A run reads the files when *)
(* it starts.  Runs end, at the latest by the timeouts of their jobs, see  *)
(* JobExecution.  The event queue of the kernel is not bounded and the     *)
(* channels of the watcher are not closed.                                 *)
(*                                                                         *)
(* The counter of the WaitGroup is the number of runs under way.  Wait     *)
(* goes through when it is 0 and else sleeps; the run that brings it to 0  *)
(* wakes all who sleep; one who comes back and finds that the group was    *)
(* used again panics, and with it the program.                             *)
(***************************************************************************)
EXTENDS Naturals, FiniteSets, SequencesExt

CONSTANTS Dirs,        \* directories of the repository
          NewDirs,     \* those created while it is watched
          IgnoredDirs, \* shouldIgnoreDir
          MaxChanges   \* bound: file changes and new directories

ASSUME WatchAssumption == MaxChanges \in Nat

VARIABLES
    loop,      \* where WatchAndRun is
    ctxDone,
    exists,    \* directories there are
    watched,   \* directories fsnotify watches
    events,    \* events not handled yet: records of directory and kind
    timer,     \* the debounce timer
    callbacks, \* [fired timers -> where their function is]
    runs,      \* runs started: records of status and changes made before
    current,   \* the run runCancel cancels
    changes,   \* relevant changes made so far
    overlap,   \* two callbacks have been under way at once
    panicked   \* a Wait came back to a WaitGroup that was used again

watchVars == <<loop, ctxDone, exists, watched, events, timer, callbacks, runs, current,
               changes, overlap, panicked>>

Active == {r \in DOMAIN runs : runs[r].status \in {"running", "cancelled"}}
UnderWay(cs) == {c \in DOMAIN cs : cs[c] # "done"}

\* runWg.Wait, and then next.
AfterWait(next) == IF Active = {} THEN next ELSE "asleep"

\* The rest of a Wait that was asleep.
Reused == Active # {}

WatchInit ==
    /\ loop      = "select"
    /\ ctxDone   = FALSE
    /\ exists    = Dirs \ NewDirs
    /\ watched   = (Dirs \ NewDirs) \ IgnoredDirs
    /\ events    = <<>>
    /\ timer     = "none"
    /\ callbacks = <<>>
    /\ runs      = <<[status |-> "running", seen |-> 0]>>
    /\ current   = 1
    /\ changes   = 0
    /\ overlap   = FALSE
    /\ panicked  = FALSE
-----------------------------------------------------------------------------
(* The files.                                                              *)

Counted(d) == IF d \in IgnoredDirs THEN changes ELSE changes + 1

WriteFile(d) ==
    /\ ~panicked /\ changes < MaxChanges
    /\ d \in exists
    /\ changes' = Counted(d)
    /\ events' = IF d \in watched THEN Append(events, [dir |-> d, kind |-> "write"]) ELSE events
    /\ UNCHANGED <<loop, ctxDone, exists, watched, timer, callbacks, runs, current, overlap, panicked>>

\* The directory above is watched.
MakeDir(d) ==
    /\ ~panicked /\ changes < MaxChanges
    /\ d \in NewDirs \ exists
    /\ exists' = exists \cup {d}
    /\ changes' = Counted(d)
    /\ events' = Append(events, [dir |-> d, kind |-> "create"])
    /\ UNCHANGED <<loop, ctxDone, watched, timer, callbacks, runs, current, overlap, panicked>>
-----------------------------------------------------------------------------
(* The loop.                                                               *)

\* addWatchDirs
Watching(e) == IF e.kind = "create" THEN watched \cup {e.dir} ELSE watched

\* Mutant: only the first change sets the timer.
SetOnce == IF timer = "none" THEN "armed" ELSE timer

\* Stop has no effect on a timer that has fired.
Reset == "armed"

HandleEvent ==
    /\ ~panicked
    /\ loop = "select"
    /\ events # <<>>
    /\ LET e == Head(events) IN
          IF e.dir \in IgnoredDirs          \* isRelevantChange
          THEN UNCHANGED <<watched, timer>>
          ELSE watched' = Watching(e) /\ timer' = Reset
    /\ events' = Tail(events)
    /\ UNCHANGED <<loop, ctxDone, exists, callbacks, runs, current, changes, overlap, panicked>>

Cancelled(r) == [runs EXCEPT ![r].status = IF @ = "running" THEN "cancelled" ELSE @]

\* The context of every run is a child of ctx.
CtxEnds ==
    /\ ~panicked /\ ~ctxDone
    /\ ctxDone' = TRUE
    /\ runs' = [r \in DOMAIN runs |->
                   [runs[r] EXCEPT !.status = IF @ = "running" THEN "cancelled" ELSE @]]
    /\ UNCHANGED <<loop, exists, watched, events, timer, callbacks, current, changes, overlap, panicked>>

LoopStops ==
    /\ ~panicked
    /\ loop = "select" /\ ctxDone
    /\ loop' = "stopping"
    /\ runs' = Cancelled(current)
    /\ UNCHANGED <<ctxDone, exists, watched, events, timer, callbacks, current, changes, overlap, panicked>>

LoopWaits ==
    /\ ~panicked
    /\ loop = "stopping"
    /\ loop' = AfterWait("returned")
    /\ UNCHANGED <<ctxDone, exists, watched, events, timer, callbacks, runs, current, changes, overlap, panicked>>

LoopWakes ==
    /\ ~panicked
    /\ loop = "woken"
    /\ loop' = IF Reused THEN loop ELSE "returned"
    /\ panicked' = Reused
    /\ UNCHANGED <<ctxDone, exists, watched, events, timer, callbacks, runs, current, changes, overlap>>
-----------------------------------------------------------------------------
(* The timer's function: cancel, wait, start.                              *)

TimerFires ==
    /\ ~panicked
    /\ timer = "armed"
    /\ timer' = "fired"
    /\ callbacks' = Append(callbacks, "cancel")
    /\ overlap' = (overlap \/ UnderWay(callbacks) # {})
    /\ UNCHANGED <<loop, ctxDone, exists, watched, events, runs, current, changes, panicked>>

CancelRun(c) ==
    /\ ~panicked
    /\ callbacks[c] = "cancel"
    /\ callbacks' = [callbacks EXCEPT ![c] = "wait"]
    /\ runs' = Cancelled(current)
    /\ UNCHANGED <<loop, ctxDone, exists, watched, events, timer, current, changes, overlap, panicked>>

WaitForRuns(c) ==
    /\ ~panicked
    /\ callbacks[c] = "wait"
    /\ callbacks' = [callbacks EXCEPT ![c] = AfterWait("start")]
    /\ UNCHANGED <<loop, ctxDone, exists, watched, events, timer, runs, current, changes, overlap, panicked>>

WakeUp(c) ==
    /\ ~panicked
    /\ callbacks[c] = "woken"
    /\ callbacks' = [callbacks EXCEPT ![c] = IF Reused THEN @ ELSE "start"]
    /\ panicked' = Reused
    /\ UNCHANGED <<loop, ctxDone, exists, watched, events, timer, runs, current, changes, overlap>>

\* Mutant: the context of a new run is not a child of ctx.
FreshRunDetached == [status |-> "running", seen |-> changes]

FreshRun == [status |-> IF ctxDone THEN "cancelled" ELSE "running", seen |-> changes]

StartRun(c) ==
    /\ ~panicked
    /\ callbacks[c] = "start"
    /\ callbacks' = [callbacks EXCEPT ![c] = "done"]
    /\ runs' = Append(runs, FreshRun)
    /\ current' = Len(runs')
    /\ UNCHANGED <<loop, ctxDone, exists, watched, events, timer, changes, overlap, panicked>>

\* Whoever sleeps in Wait is woken by the last run.
Woken(place) == IF place = "asleep" THEN "woken" ELSE place

RunEnds(r) ==
    /\ ~panicked
    /\ r \in Active
    /\ runs' = [runs EXCEPT ![r].status = "done"]
    /\ IF Active = {r}
       THEN /\ loop' = Woken(loop)
            /\ callbacks' = [c \in DOMAIN callbacks |-> Woken(callbacks[c])]
       ELSE UNCHANGED <<loop, callbacks>>
    /\ UNCHANGED <<ctxDone, exists, watched, events, timer, current, changes, overlap, panicked>>

WatchStep ==
    \/ HandleEvent \/ LoopStops \/ LoopWaits \/ LoopWakes \/ TimerFires
    \/ \E c \in DOMAIN callbacks : CancelRun(c) \/ WaitForRuns(c) \/ WakeUp(c) \/ StartRun(c)
    \/ \E r \in DOMAIN runs : RunEnds(r)

WatchNext ==
    \/ \E d \in Dirs : WriteFile(d) \/ MakeDir(d)
    \/ CtxEnds
    \/ WatchStep

WatchSpec == WatchInit /\ [][WatchNext]_watchVars
-----------------------------------------------------------------------------
(* Properties.                                                             *)

\* The values the variables take.
WatchTypeOK ==
    /\ loop \in {"select", "stopping", "asleep", "woken", "returned"}
    /\ timer \in {"none", "armed", "fired"}
    /\ watched \subseteq exists
    /\ \A c \in DOMAIN callbacks :
          callbacks[c] \in {"cancel", "wait", "asleep", "woken", "start", "done"}
    /\ current \in DOMAIN runs
    /\ changes \in 0..MaxChanges

\* As long as no timer fires while the function of an earlier one is under way, one run at a time
\* is under way, and no callback finds its WaitGroup used again when it comes back from Wait: only
\* WatchAndRun itself, on its way out, may, when a callback starts a run behind its back.
OneRunAtATime == ~overlap => /\ Cardinality(Active) <= 1
                             /\ panicked => loop = "woken"

\* A run that is under way after WatchAndRun has returned, which the function of a timer may have
\* started behind its back, is on its way out.
ReturnLeavesOnlyCancelled ==
    loop = "returned" => \A r \in Active : runs[r].status = "cancelled"

\* However events, timers, runs and the end of the context interleave: while timers do not overlap
\* runs do not pile up and a panic is one of WatchAndRun on its way out, and no run goes on after it
\* has returned.
WatchInv == WatchTypeOK /\ OneRunAtATime /\ ReturnLeavesOnlyCancelled

\* Every relevant change is followed by a run that starts after it, unless ions is interrupted or
\* panics, also a change in a new directory that was made before the directory was watched.
ChangeIsRun ==
    \A n \in 1..MaxChanges :
        changes = n ~> ctxDone \/ panicked \/ \E r \in DOMAIN runs : runs[r].seen >= n

\* "cancels in-flight runs when new changes arrive" (src/internal/orchestrator/watcher.go:17):
\* of the runs under way only the latest may go on.
EarlierRunsCancelled ==
    \A r \in Active : runs[r].status = "running" => r = Len(runs)

\* An interrupted watch waits for its runs and returns (src/internal/orchestrator/watcher.go:64-67);
\* it does not panic as long as timers do not overlap.
InterruptReturns == panicked => overlap
=============================================================================
