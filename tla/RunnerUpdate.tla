----------------------------- MODULE RunnerUpdate -----------------------------
(***************************************************************************)
(* The update of the runner itself, and the daemon it runs, over the files    *)
(* of one plugin (PluginInstall).  The update poll stages a newer release     *)
(* beside the canonical executable; a takeover started from the staged copy   *)
(* gets the ownership from the daemon, records its version, is copied onto    *)
(* the canonical path and executes itself again from there (download.rs and   *)
(* daemon.rs; how the daemons hand over is RunnerHandoff's and DaemonGuard's).*)
(*                                                                         *)
(* A daemon runs the canonical executable or a staged copy, "new", or "new2"  *)
(* when it runs a staged copy itself.  A release is never put over a local    *)
(* build.  Left out: builds published again under the version that runs,      *)
(* downloads that fail (nothing is left behind) and frozen updates.           *)
(***************************************************************************)
EXTENDS PluginInstall

CONSTANTS Runners      \* versions of the runner, 1..n

ASSUME RunnerUpdateAssumption ==
    IsFiniteSet(Runners) /\ Runners # {} /\ Runners = 1..Cardinality(Runners)

Slots == {"new", "new2"}
Exes == Runners \cup {Missing, Local}

VARIABLES
    latest,     \* the newest release of the runner
    canonical,  \* the executable at the canonical path
    prevExe,    \* its backup
    staged,     \* the staged copies
    marker,     \* agentplug-runner.version, the version recorded as running
    from,       \* the path the daemon was started from, and restarts from
    pending,    \* the slot of the staged copy the daemon is to hand over to
    takeover,   \* the takeover process: where it is, and its slot
    gap         \* history: a crash hit between the backup and the replacement

runnerVars == <<latest, canonical, prevExe, staged, marker, from, pending, takeover, gap>>
vars == <<pluginVars, runnerVars>>

None == "none"
NoTakeover == [pc |-> "none", slot |-> None]

RunnerTypeOK ==
    /\ latest \in Runners
    /\ canonical \in Exes /\ prevExe \in Exes /\ running \in Exes
    /\ staged \in [Slots -> Runners \cup {Missing}]
    /\ marker \in Exes
    /\ from \in Slots \cup {"exe"} /\ pending \in Slots \cup {None}
    /\ takeover \in [pc : {"none", "waiting", "record", "promote", "replace", "reexec", "boot"},
                     slot : Slots \cup {None}]
    /\ gap \in BOOLEAN

RunnerInit ==
    /\ latest = 1 /\ canonical = 1 /\ prevExe = Missing
    /\ staged = [s \in Slots |-> Missing]
    /\ running = 1 /\ marker = 1 /\ from = "exe"
    /\ pending = None /\ takeover = NoTakeover /\ gap = FALSE

\* What the plugin's files see of a step of the runner.
PluginKept == UNCHANGED <<published, files, job, loaded, rollback, cut, lost>>
FilesKept == UNCHANGED <<published, wasm, version, prev, prevVersion, backoff, job, loaded,
                         rollback, cut, lost>>
Quiet == events' = events

Serves == Up /\ takeover.pc \in {"none", "waiting"}
TakeoverAt(pc) == takeover.pc = pc
TakeoverGoes(pc) == takeover' = [takeover EXCEPT !.pc = pc]
\* The release the takeover process is.
Incoming == staged[takeover.slot]

-----------------------------------------------------------------------------
PublishRunner ==
    /\ latest + 1 \in Runners /\ Event /\ latest' = latest + 1
    /\ PluginKept
    /\ UNCHANGED <<running, canonical, prevExe, staged, marker, from, pending, takeover, gap>>

\* A developer puts a local build on the canonical path.
BuildLocally ==
    /\ canonical # Local /\ Event /\ canonical' = Local
    /\ PluginKept
    /\ UNCHANGED <<running, latest, prevExe, staged, marker, from, pending, takeover, gap>>

\* installed_runner_blocks_promotion
Blocks == canonical = Local

\* self_update_blocked_reason: a local build runs, or is installed where this copy would go,
\* or the release is no newer than what runs.
Blocked == running = Local \/ (from # "exe" /\ Blocks) \/ latest <= running

\* stage_runner_self_update: a marker that already names the release is the leftover of a
\* takeover that was not completed, and is corrected.
Stage ==
    LET slot == IF from = "exe" THEN "new" ELSE "new2" IN
    /\ Serves /\ TakeoverAt("none") /\ ~Blocked
    /\ pending = None \/ staged[slot] # latest
    /\ marker' = IF marker = latest THEN running ELSE marker
    /\ staged' = [staged EXCEPT ![slot] = latest] /\ pending' = slot
    /\ Quiet /\ PluginKept
    /\ UNCHANGED <<running, latest, canonical, prevExe, from, takeover, gap>>

StartTakeover ==
    /\ Serves /\ TakeoverAt("none") /\ pending # None
    /\ takeover' = [pc |-> "waiting", slot |-> pending]
    /\ Quiet /\ PluginKept
    /\ UNCHANGED <<running, latest, canonical, prevExe, staged, marker, from, pending, gap>>

\* The takeover is not ready in time, and the pending update is given up.
TakeoverFails ==
    /\ TakeoverAt("waiting") /\ Event
    /\ takeover' = NoTakeover /\ pending' = None
    /\ PluginKept
    /\ UNCHANGED <<running, latest, canonical, prevExe, staged, marker, from, gap>>

\* The daemon released the ownership, or is dead: its threads end wherever they are.
TakesOver ==
    /\ TakeoverAt("waiting")
    /\ running' = Incoming /\ from' = takeover.slot /\ pending' = None
    /\ TakeoverGoes("record")
    /\ Quiet /\ DaemonGone
    /\ UNCHANGED <<latest, canonical, prevExe, staged, marker, gap>>

-----------------------------------------------------------------------------
\* run_takeover, once it owns the daemon.

\* Mutant: the versions the old runner could not load stay on the list.
RecordOnly ==
    /\ TakeoverAt("record") /\ TakeoverGoes("promote")
    /\ marker' = running /\ bad' = bad
    /\ Quiet /\ FilesKept
    /\ UNCHANGED <<running, latest, canonical, prevExe, staged, from, pending, gap>>

\* A new runner may load what the old one could not.
RecordVersion ==
    /\ TakeoverAt("record") /\ TakeoverGoes("promote")
    /\ marker' = running /\ bad' = {}
    /\ Quiet /\ FilesKept
    /\ UNCHANGED <<running, latest, canonical, prevExe, staged, from, pending, gap>>

RecordingFails ==
    /\ TakeoverAt("record") /\ Event /\ TakeoverGoes("promote")
    /\ PluginKept
    /\ UNCHANGED <<running, latest, canonical, prevExe, staged, marker, from, pending, gap>>

\* promote_staged_exe_to_canonical

\* A local build stays where it is, and the daemon stays on the staged copy.
PromotionRefused ==
    /\ TakeoverAt("promote") /\ Blocks /\ TakeoverGoes("boot")
    /\ Quiet /\ PluginKept
    /\ UNCHANGED <<running, latest, canonical, prevExe, staged, marker, from, pending, gap>>

\* Mutant: whatever is installed is moved out of the way.
BackUpAny ==
    /\ TakeoverAt("promote")
    /\ prevExe' = IF canonical = Missing THEN prevExe ELSE canonical
    /\ canonical' = Missing
    /\ TakeoverGoes("replace")
    /\ Quiet /\ PluginKept
    /\ UNCHANGED <<running, latest, staged, marker, from, pending, gap>>

BackUp ==
    /\ TakeoverAt("promote") /\ ~Blocks
    /\ prevExe' = IF canonical = Missing THEN prevExe ELSE canonical
    /\ canonical' = Missing
    /\ TakeoverGoes("replace")
    /\ Quiet /\ PluginKept
    /\ UNCHANGED <<running, latest, staged, marker, from, pending, gap>>

BackUpFails ==
    /\ TakeoverAt("promote") /\ ~Blocks /\ canonical # Missing /\ Event
    /\ TakeoverGoes("boot")
    /\ PluginKept
    /\ UNCHANGED <<running, latest, canonical, prevExe, staged, marker, from, pending, gap>>

Replace ==
    /\ TakeoverAt("replace")
    /\ canonical' = running /\ TakeoverGoes("reexec")
    /\ Quiet /\ PluginKept
    /\ UNCHANGED <<running, latest, prevExe, staged, marker, from, pending, gap>>

\* Mutant: the backup of a replacement that failed stays a backup.
ReplaceGivesUp ==
    /\ TakeoverAt("replace") /\ Event /\ TakeoverGoes("boot")
    /\ PluginKept
    /\ UNCHANGED <<running, latest, canonical, prevExe, staged, marker, from, pending, gap>>

\* The copy or its rename fails, and the backup moves back.
ReplaceFails ==
    /\ TakeoverAt("replace") /\ Event /\ TakeoverGoes("boot")
    /\ canonical' = IF prevExe = Missing THEN canonical ELSE prevExe
    /\ prevExe' = Missing
    /\ PluginKept
    /\ UNCHANGED <<running, latest, staged, marker, from, pending, gap>>

\* reexec_from_canonical_and_exit: the new process is a daemon like any other.
Reexec ==
    /\ TakeoverAt("reexec")
    /\ running' = canonical /\ from' = "exe" /\ TakeoverGoes("boot")
    /\ Quiet /\ PluginKept
    /\ UNCHANGED <<latest, canonical, prevExe, staged, marker, pending, gap>>

-----------------------------------------------------------------------------
\* The start of a daemon: run_daemon corrects the marker, and a staged copy that is not the
\* canonical executable is handed over to, whatever its version.

\* Mutant: a staged copy stays beside the executable it became.
StagedKept == staged

\* staged_runner_awaiting_handoff removes a staged copy that is the canonical executable.
StagedNew == IF from # "new" /\ staged["new"] = canonical
               THEN [staged EXCEPT !["new"] = Missing] ELSE staged
Adopts == IF from # "new" /\ StagedNew["new"] # Missing THEN "new" ELSE None

\* A client starts the canonical executable; the guard, the one its daemon ran from.
Start(path) ==
    LET exe == IF path = "exe" THEN canonical ELSE staged[path] IN
    /\ ~Up /\ TakeoverAt("none") /\ exe # Missing
    /\ path \in {"exe", from}
    /\ running' = exe /\ from' = path /\ takeover' = [NoTakeover EXCEPT !.pc = "boot"]
    /\ Quiet /\ PluginKept
    /\ UNCHANGED <<latest, canonical, prevExe, staged, marker, pending, gap>>

Boot ==
    /\ TakeoverAt("boot")
    /\ IF takeover.slot = None \/ from = "exe"
         THEN marker' = running /\ bad' = (IF marker = running THEN bad ELSE {})
         ELSE UNCHANGED <<marker, bad>>
    /\ staged' = StagedNew /\ pending' = Adopts /\ takeover' = NoTakeover
    /\ Quiet /\ FilesKept
    /\ UNCHANGED <<running, latest, canonical, prevExe, from, gap>>

\* The daemon dies, the takeover that became the daemon too; one that waits lives on.
DaemonDies ==
    /\ Up /\ Event /\ DaemonGone
    /\ running' = Missing /\ pending' = None
    /\ takeover' = IF TakeoverAt("waiting") THEN takeover ELSE NoTakeover
    /\ gap' = (gap \/ TakeoverAt("replace"))
    /\ UNCHANGED <<latest, canonical, prevExe, staged, marker, from>>

RunnerStep ==
    \/ PublishRunner \/ BuildLocally
    \/ Stage \/ StartTakeover \/ TakeoverFails \/ TakesOver
    \/ RecordVersion \/ RecordingFails
    \/ PromotionRefused \/ BackUp \/ BackUpFails \/ Replace \/ ReplaceFails \/ Reexec
    \/ \E path \in Slots \cup {"exe"} : Start(path)
    \/ Boot \/ DaemonDies

Init == PluginInit /\ RunnerInit
Next == \/ PluginStep /\ UNCHANGED runnerVars
        \/ RunnerStep

\* The poll, the dispatches and every process go on; nothing that fails must.
Fairness ==
    /\ WF_vars(Poll /\ UNCHANGED runnerVars)
    /\ WF_vars((EnsureMissing \/ CooldownEnds) /\ UNCHANGED runnerVars)
    /\ WF_vars(Load /\ UNCHANGED runnerVars)
    /\ \A i \in Installers : WF_vars(InstallStep(i) /\ UNCHANGED runnerVars)
    /\ \A t \in Threads : WF_vars(RollbackStep(t) /\ UNCHANGED runnerVars)
    /\ WF_vars(RunnerStep /\ Quiet)

Spec == Init /\ [][Next]_vars /\ Fairness

-----------------------------------------------------------------------------
\* A crash or a failure never leaves half a plugin under its name: a download is renamed
\* into place, and only the in-place copy of a snapshot can be cut.
NeverTorn == wasm # Torn \/ cut

\* The canonical executable is only ever missing between the backup and the replacement of a
\* promotion, or after a crash there.
RunnerInPlace == canonical = Missing => TakeoverAt("replace") \/ gap

\* What is on disk is always whole: the plugin, and the executable the guard starts
\* (install_file_atomically, promote_installed_runner_binary).
InstallIntact == PluginTypeOK /\ RunnerTypeOK /\ NeverTorn /\ RunnerInPlace

\* record_plugin_load_failure_and_rollback: in the end the plugin is one the runner can load,
\* as long as a version that worked was kept as .prev and the version blamed was the one that
\* failed.
WorksInTheEnd == <>[](CanRun(wasm) \/ lost \/ cut \/ prev = Missing)

\* In the end the newest release is installed, unless some build of its version really could
\* not be loaded: a version is not held against a runner that never tried it, as its start
\* clears the list of known bad ones.  A plugin without a version file is never polled.
Tainted(v) == \E b \in Builds : VersionOf[b] = v /\ ~CanRun(b)
NewestInTheEnd ==
    <>[](\/ wasm = published \/ Tainted(VersionOf[published])
         \/ version = Missing \/ marker # running \/ lost \/ cut)

\* installed_runner_blocks_promotion: an update does not replace a local build, but one that
\* was put there between the backup and the replacement.
LocalBuildStays == [][canonical = Local /\ canonical' # Local => TakeoverAt("replace")]_vars

\* The daemon ends up serving as the newest runner, or beside a local build, and no staged
\* copy keeps it handing over to itself.
RunnerSettles == <>[](Serves /\ (running = latest \/ canonical = Local))
=============================================================================
