--------------------------- MODULE RunnerInstall ---------------------------
(***************************************************************************)
(* Installation of the GitHub runner, src/internal/runner/manager.go: what *)
(* a run does to have one (EnsureInstalled with its daily look for an      *)
(* update) and what "ions runner install" does, with downloads that fail,  *)
(* a process that is killed, directories that the user deletes and an      *)
(* archive that changes upstream.                                          *)
(*                                                                         *)
(* Abstractions.  An archive is its checksum; a version's directory is     *)
(* absent, partly extracted or holds an archive.  One ions process at a    *)
(* time, with one run (not watching); config.json is written whole.        *)
(***************************************************************************)
EXTENDS Naturals, FiniteSets, FiniteSetsExt

CONSTANTS Versions,     \* numbers from 1, in the order of their names
          MaxRepublish, \* bound: archives that change
          MaxFailures   \* bound: downloads and requests that fail, kills

ASSUME InstallAssumption ==
    /\ Versions \subseteq Nat \ {0}
    /\ MaxRepublish \in Nat
    /\ MaxFailures \in Nat

VARIABLES
    config,    \* config.json
    dirs,      \* [Versions -> NoDir, PartialDir or a checksum]
    upstream,  \* [Versions -> checksum of the archive to download]
    task,      \* Install: where it is, its version, whether a run called it
    pending,   \* the goroutine that looks for an update: the config it read
    using,     \* version a run works with
    accepted,  \* [Versions -> checksums that were installed]
    cutOff,    \* versions whose installation was cut off by a kill
    failures

installVars == <<config, dirs, upstream, task, pending, using, accepted, cutOff, failures>>

NoVersion  == 0
NoSum      == 0
NoDir      == 0
PartialDir == 1
Sums       == 2..(2 + MaxRepublish)
NoConfig   == [version |-> NoVersion, sha |-> NoSum, checked |-> FALSE]
Idle       == [at |-> "idle", version |-> NoVersion, run |-> FALSE]

InstallInit ==
    /\ config   = NoConfig
    /\ dirs     = [v \in Versions |-> NoDir]
    /\ upstream = [v \in Versions |-> 2]
    /\ task     = Idle
    /\ pending  = NoConfig
    /\ using    = NoVersion
    /\ accepted = [v \in Versions |-> {}]
    /\ cutOff   = {}
    /\ failures = 0

Free    == task = Idle /\ using = NoVersion
Present == {v \in Versions : dirs[v] # NoDir}
Fault   == failures < MaxFailures /\ failures' = failures + 1

SaveConfig(v, sum) == config' = [NoConfig EXCEPT !.version = v, !.sha = sum]
SetDir(v, d)       == dirs' = [dirs EXCEPT ![v] = d]
Begin(v, run)      == task' = [at |-> "stat", version |-> v, run |-> run]
Continue(l)        == task' = [task EXCEPT !.at = l]
Fail               == task' = Idle /\ UNCHANGED using
Succeed            == task' = Idle /\ using' = IF task.run THEN task.version ELSE using
-----------------------------------------------------------------------------
\* The version in the configuration, else the last of the directories.
InstalledVersion ==
    IF config.version # NoVersion THEN config.version ELSE Max({NoVersion} \cup Present)

\* EnsureInstalled with a runner at hand; it may go and look for an update.
UseInstalled ==
    /\ Free /\ InstalledVersion \in Present
    /\ using' = InstalledVersion
    /\ pending' = IF config.checked THEN NoConfig ELSE [config EXCEPT !.checked = TRUE]
    /\ UNCHANGED <<config, dirs, upstream, task, accepted, cutOff, failures>>

\* Otherwise the latest version is installed, whichever that is by now.
InstallLatest ==
    /\ Free /\ InstalledVersion \notin Present
    /\ \E v \in Versions : Begin(v, TRUE)
    /\ UNCHANGED <<config, dirs, upstream, pending, using, accepted, cutOff, failures>>

\* The goroutine writes the configuration it read when it was started.
CheckForUpdate ==
    /\ pending # NoConfig
    /\ config' = pending
    /\ pending' = NoConfig
    /\ UNCHANGED <<dirs, upstream, task, using, accepted, cutOff, failures>>

\* "ions runner install"; --latest installs even what is installed.
CommandInstall(v, latest) ==
    /\ Free /\ (latest \/ InstalledVersion # v)
    /\ Begin(v, FALSE)
    /\ UNCHANGED <<config, dirs, upstream, pending, using, accepted, cutOff, failures>>

\* The process of the run ends, and with it the goroutine.
UserRunEnds ==
    /\ using # NoVersion
    /\ using' = NoVersion /\ pending' = NoConfig
    /\ UNCHANGED <<config, dirs, upstream, task, accepted, cutOff, failures>>
-----------------------------------------------------------------------------
(* Install.                                                                *)

\* A directory of that name is taken for an installation.
AlreadyInstalled ==
    /\ task.at = "stat" /\ dirs[task.version] # NoDir
    /\ SaveConfig(task.version, NoSum)
    /\ Succeed
    /\ UNCHANGED <<dirs, upstream, pending, accepted, cutOff, failures>>

Download ==
    /\ task.at = "stat" /\ dirs[task.version] = NoDir
    /\ SetDir(task.version, PartialDir)
    /\ Continue("extract")
    /\ UNCHANGED <<config, upstream, pending, using, accepted, cutOff, failures>>

DownloadFails ==
    /\ task.at = "stat" /\ dirs[task.version] = NoDir
    /\ Fault /\ Fail
    /\ UNCHANGED <<config, dirs, upstream, pending, accepted, cutOff>>

Extract ==
    /\ task.at = "extract"
    /\ SetDir(task.version, upstream[task.version])
    /\ Continue("verify")
    /\ UNCHANGED <<config, upstream, pending, using, accepted, cutOff, failures>>

ExtractFails ==
    /\ task.at = "extract"
    /\ Fault /\ Fail
    /\ SetDir(task.version, NoDir)
    /\ UNCHANGED <<config, upstream, pending, accepted, cutOff>>

\* The checksum in the configuration, if it is one of this version.
Mismatch ==
    /\ config.sha # NoSum /\ config.version = task.version
    /\ config.sha # dirs[task.version]

\* Mutant: a mismatch is reported, the directory stays.
RejectKeeping ==
    /\ task.at = "verify" /\ Mismatch
    /\ Fail
    /\ UNCHANGED <<config, dirs, upstream, pending, accepted, cutOff, failures>>

Reject ==
    /\ task.at = "verify" /\ Mismatch
    /\ SetDir(task.version, NoDir)
    /\ Fail
    /\ UNCHANGED <<config, upstream, pending, accepted, cutOff, failures>>

Accept ==
    /\ task.at = "verify" /\ ~Mismatch
    /\ SaveConfig(task.version, dirs[task.version])
    /\ accepted' = [accepted EXCEPT ![task.version] = @ \cup {dirs[task.version]}]
    /\ Succeed
    /\ UNCHANGED <<dirs, upstream, pending, cutOff, failures>>
-----------------------------------------------------------------------------
(* What happens around it.                                                 *)

Kill ==
    /\ task # Idle /\ Fault
    /\ cutOff' = IF dirs[task.version] # NoDir THEN cutOff \cup {task.version} ELSE cutOff
    /\ task' = Idle /\ pending' = NoConfig
    /\ UNCHANGED <<config, dirs, upstream, using, accepted>>

UserDeletes(v) ==
    /\ Free /\ dirs[v] # NoDir
    /\ SetDir(v, NoDir)
    /\ cutOff' = cutOff \ {v}
    /\ UNCHANGED <<config, upstream, task, pending, using, accepted, failures>>

Republish(v) ==
    /\ upstream[v] < 2 + MaxRepublish
    /\ upstream' = [upstream EXCEPT ![v] = @ + 1]
    /\ UNCHANGED <<config, dirs, task, pending, using, accepted, cutOff, failures>>

DayPasses ==
    /\ config.checked
    /\ config' = [config EXCEPT !.checked = FALSE]
    /\ UNCHANGED <<dirs, upstream, task, pending, using, accepted, cutOff, failures>>

InstallNext ==
    \/ UseInstalled \/ InstallLatest \/ CheckForUpdate \/ UserRunEnds
    \/ AlreadyInstalled \/ Download \/ DownloadFails \/ Extract \/ ExtractFails \/ Reject \/ Accept
    \/ Kill \/ DayPasses
    \/ \E v \in Versions : \/ UserDeletes(v) \/ Republish(v)
                           \/ \E latest \in BOOLEAN : CommandInstall(v, latest)

InstallSpec == InstallInit /\ [][InstallNext]_installVars
-----------------------------------------------------------------------------
Configs == [version : {NoVersion} \cup Versions, sha : {NoSum} \cup Sums, checked : BOOLEAN]

InstallTypeOK ==
    /\ config \in Configs /\ pending \in Configs
    /\ dirs \in [Versions -> {NoDir, PartialDir} \cup Sums]
    /\ upstream \in [Versions -> Sums]
    /\ task \in [at : {"idle", "stat", "extract", "verify"}, version : {NoVersion} \cup Versions,
                 run : BOOLEAN]
    /\ task.at = "extract" => dirs[task.version] = PartialDir
    /\ task.at = "verify" => dirs[task.version] \in Sums
    /\ using \in {NoVersion} \cup Versions
    /\ accepted \in [Versions -> SUBSET Sums]
    /\ cutOff \subseteq Present
    /\ failures \in 0..MaxFailures

\* A run works with a whole installation, however many downloads broke before,
\* unless ions was killed while it installed that version.
RunsCompleteRunner == using # NoVersion => dirs[using] \in Sums \/ using \in cutOff

\* A run never works with an archive other than the one whose checksum the
\* configuration holds for it, with the same exception.
RunsVerifiedRunner ==
    using # NoVersion /\ config.version = using /\ config.sha # NoSum =>
        dirs[using] = config.sha \/ using \in cutOff

\* A run works with a complete runner whose checksum was compared, however many installations broke
\* off before, of this version or another (EnsureInstalled, Install).
InstallInv == InstallTypeOK /\ RunsCompleteRunner /\ RunsVerifiedRunner

\* Install's comment: "If the same version is re-installed, the new checksum is
\* compared against the stored one to detect tampering."  So no version is ever
\* accepted with two checksums.
TamperingDetected == \A v \in Versions : Cardinality(accepted[v]) <= 1
=============================================================================
