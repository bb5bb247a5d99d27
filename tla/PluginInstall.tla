---------------------------- MODULE PluginInstall ----------------------------
(***************************************************************************)
(* The installation of one plugin (agentplug-runner/src/download.rs): the     *)
(* plugin's wasm file, its version file, the .prev snapshots of both and the  *)
(* list of versions known to be bad.  Nothing locks them.  The update poll    *)
(* and the main loop of the daemon and a command line install through the     *)
(* same steps, and a dispatch whose plugin cannot be instantiated rolls back. *)
(*                                                                         *)
(* A build stands for the bytes of a release asset; two builds may carry the  *)
(* same version (a tag published again).  Release 0 is no file, a torn file   *)
(* is one whose copy was cut.  A build needs a runner of some version to be   *)
(* instantiated; which runner runs is the business of RunnerUpdate.          *)
(*                                                                         *)
(* Left out: the build record, local sideloads (a version file that is no     *)
(* release, which the poll leaves alone) and the payload cache's bookkeeping. *)
(***************************************************************************)
EXTENDS Integers, FiniteSets

CONSTANTS Builds,      \* in order of publication, 1..n
          VersionOf,   \* the version a build is published as
          NeedsRunner, \* the first version of the runner that can instantiate a build
          Threads,     \* dispatch threads of the daemon
          MaxEvents    \* publications, failures and crashes

ASSUME PluginInstallAssumption ==
    /\ IsFiniteSet(Builds) /\ Builds # {} /\ Builds = 1..Cardinality(Builds)
    /\ DOMAIN VersionOf = Builds /\ \A b \in Builds : VersionOf[b] \in Nat \ {0}
    /\ \A b, c \in Builds : b <= c => VersionOf[b] <= VersionOf[c]
    /\ DOMAIN NeedsRunner = Builds /\ \A b \in Builds : NeedsRunner[b] \in Nat \ {0}
    /\ MaxEvents \in Nat

Missing == 0
Torn == -1
Local == -2     \* the version of a local build of the runner, which loads every build here
Files == Builds \cup {Missing, Torn}
Versions == {VersionOf[b] : b \in Builds}
Installers == {"poll", "main", "cli"}

VARIABLES
    published,   \* the newest build of the release page
    wasm,        \* <plugin>.wasm
    version,     \* <plugin>.version
    prev,        \* <plugin>.wasm.prev
    prevVersion, \* <plugin>.version.prev
    bad,         \* <plugin>.known-bad-versions.json
    backoff,     \* <plugin>.install-backoff-ts is younger than the cooldown
    job,         \* where each installer is, and the version or build it installs
    loaded,      \* the bytes of the daemon's module
    rollback,    \* where each dispatch thread is in a rollback, and the build that failed
    running,     \* the version of the runner that serves, Missing when none does
    events,
    cut,         \* history: a crash cut the copy of a snapshot, or of its way back
    lost         \* history: a version was blamed for another, or an unproven one became .prev

files == <<wasm, version, prev, prevVersion, bad, backoff>>
pluginVars == <<published, files, job, loaded, rollback, running, events, cut, lost>>

Idle == [pc |-> "idle", goal |-> 0]
Calm == [pc |-> "idle", failed |-> Missing]
Restoring == [Calm EXCEPT !.pc = "restore"]

PluginTypeOK ==
    /\ published \in Builds
    /\ wasm \in Files /\ prev \in Files /\ loaded \in Files
    /\ version \in Versions \cup {Missing} /\ prevVersion \in Versions \cup {Missing}
    /\ bad \subseteq Versions
    /\ backoff \in BOOLEAN
    /\ job \in [Installers -> [pc : {"idle", "sha", "place", "record", "undo"}, goal : Nat]]
    /\ rollback \in [Threads -> [pc : {"idle", "blame", "restore", "version"}, failed : Files]]
    /\ running \in Int /\ events \in 0..MaxEvents
    /\ cut \in BOOLEAN /\ lost \in BOOLEAN

PluginInit ==
    /\ published = 1
    /\ wasm = Missing /\ version = Missing /\ prev = Missing /\ prevVersion = Missing
    /\ bad = {} /\ backoff = FALSE
    /\ job = [i \in Installers |-> Idle]
    /\ loaded = Missing
    /\ rollback = [t \in Threads |-> Calm]
    /\ events = 0 /\ cut = FALSE /\ lost = FALSE

Event == events < MaxEvents /\ events' = events + 1
Goes(i, pc, goal) == job' = [job EXCEPT ![i] = [pc |-> pc, goal |-> goal]]
At(i, pc) == job[i].pc = pc
Ends(i) == job' = [job EXCEPT ![i] = Idle]
Up == running # Missing
CanRun(b) == b \in Builds /\ (running = Local \/ NeedsRunner[b] <= running)

\* The asset a tag serves now: the last build published as version v.
Served(v) == CHOOSE b \in Builds :
                /\ b <= published /\ VersionOf[b] = v
                /\ \A c \in Builds : c <= published /\ VersionOf[c] = v => c <= b

-----------------------------------------------------------------------------
\* A release appears; the same version may be published again.
Publish ==
    /\ published + 1 \in Builds /\ Event
    /\ published' = published + 1
    /\ UNCHANGED <<files, job, loaded, rollback, running, cut, lost>>

\* refresh_plugin_if_stale: a newer version, or other bytes under the same one, is
\* installed unless that version is known to be bad; nothing is done for a downgrade.
Drifted == wasm # Missing /\ wasm # Served(VersionOf[published])
Stale == \/ VersionOf[published] > version
         \/ VersionOf[published] = version /\ Drifted

Poll ==
    /\ Up /\ At("poll", "idle") /\ version # Missing
    /\ Stale /\ VersionOf[published] \notin bad
    /\ Goes("poll", "sha", VersionOf[published])
    /\ UNCHANGED <<published, files, loaded, rollback, running, events, cut, lost>>

\* get_or_compile asks for the plugin with no version: only a missing file is installed,
\* and not within the cooldown of a failure.
EnsureMissing ==
    /\ Up /\ At("main", "idle") /\ wasm = Missing /\ ~backoff
    /\ Goes("main", "sha", VersionOf[published])
    /\ UNCHANGED <<published, files, loaded, rollback, running, events, cut, lost>>

CooldownEnds ==
    /\ backoff /\ backoff' = FALSE
    /\ UNCHANGED <<published, wasm, version, prev, prevVersion, bad, job, loaded, rollback, running,
                   events, cut, lost>>

\* The install command names any published version, older and known-bad ones included.
Install(v) ==
    /\ At("cli", "idle") /\ Event
    /\ v \in {VersionOf[b] : b \in 1..published}
    /\ Goes("cli", "sha", v)
    /\ UNCHANGED <<published, files, loaded, rollback, running, cut, lost>>

-----------------------------------------------------------------------------
\* ensure_plugin_installed_via_github, and the direct download of the latest release that
\* takes its place when the api fails.

\* The wanted version is there, with the bytes its release serves.
AlreadyInstalled(i) ==
    /\ At(i, "sha") /\ wasm = Served(job[i].goal) /\ version = job[i].goal
    /\ Ends(i)
    /\ UNCHANGED <<published, files, loaded, rollback, running, events, cut, lost>>

\* The checksum of the release is read and snapshot_prev_wasm_and_version makes what is
\* installed the .prev, a plugin that was never loaded too.
Snapshot(i) ==
    /\ At(i, "sha") /\ ~(wasm = Served(job[i].goal) /\ version = job[i].goal)
    /\ prev' = IF wasm = Missing THEN prev ELSE wasm
    /\ prevVersion' = IF version = Missing THEN prevVersion ELSE version
    /\ lost' = (lost \/ (wasm # Missing /\ ~CanRun(wasm)))
    /\ Goes(i, "place", Served(job[i].goal))
    /\ UNCHANGED <<published, wasm, version, bad, backoff, loaded, rollback, running, events, cut>>

\* Verified bytes, hard-linked from the payload cache or downloaded, are renamed into place.
Place(i) ==
    /\ At(i, "place")
    /\ wasm' = job[i].goal
    /\ Goes(i, "record", job[i].goal)
    /\ UNCHANGED <<published, version, prev, prevVersion, bad, backoff, loaded, rollback, running,
                   events, cut, lost>>

Record(i) ==
    /\ At(i, "record")
    /\ version' = VersionOf[job[i].goal]
    /\ backoff' = (backoff /\ i # "main")
    /\ Ends(i)
    /\ UNCHANGED <<published, wasm, prev, prevVersion, bad, loaded, rollback, running, events, cut, lost>>

\* record_plugin_install: the version file cannot be written, the snapshot is copied back.
RecordFails(i) ==
    /\ At(i, "record") /\ Event
    /\ Goes(i, "undo", 0)
    /\ UNCHANGED <<published, files, loaded, rollback, running, cut, lost>>

Undo(i) ==
    /\ At(i, "undo")
    /\ wasm' = prev /\ version' = prevVersion
    /\ backoff' = (backoff \/ i = "main")
    /\ Ends(i)
    /\ UNCHANGED <<published, prev, prevVersion, bad, loaded, rollback, running, events, cut, lost>>

\* The network fails, or the bytes are not those of the checksum.
FetchFails(i) ==
    /\ At(i, "sha") \/ At(i, "place")
    /\ Event
    /\ backoff' = (backoff \/ i = "main")
    /\ Ends(i)
    /\ UNCHANGED <<published, wasm, version, prev, prevVersion, bad, loaded, rollback, running, cut, lost>>

-----------------------------------------------------------------------------
\* The daemon compiles the file it finds, as long as its bytes compile, and instantiates
\* its module for the dispatches.
Load ==
    /\ Up /\ wasm \in Builds /\ loaded # wasm
    /\ loaded' = wasm
    /\ UNCHANGED <<published, files, job, rollback, running, events, cut, lost>>

InstantiateFails(t) ==
    /\ rollback[t].pc = "idle" /\ Up /\ loaded \in Builds /\ ~CanRun(loaded)
    /\ rollback' = [rollback EXCEPT ![t] = [pc |-> "blame", failed |-> loaded]]
    /\ UNCHANGED <<published, files, job, loaded, running, events, cut, lost>>

\* Mutant: a failed version is rolled back and not remembered.
BlameNothing(t) ==
    /\ rollback[t].pc = "blame"
    /\ rollback' = [rollback EXCEPT ![t] = IF prev = Missing THEN Calm ELSE Restoring]
    /\ UNCHANGED <<published, files, job, loaded, running, events, cut, lost>>

\* record_plugin_load_failure_and_rollback blames the version of the file of that moment.
Blame(t) ==
    /\ rollback[t].pc = "blame"
    /\ bad' = bad \cup ({version} \ {Missing})
    /\ lost' = (lost \/ version # VersionOf[rollback[t].failed])
    /\ rollback' = [rollback EXCEPT ![t] = IF prev = Missing THEN Calm ELSE Restoring]
    /\ UNCHANGED <<published, wasm, version, prev, prevVersion, backoff, job, loaded, running, events,
                   cut>>

Restore(t) ==
    /\ rollback[t].pc = "restore"
    /\ wasm' = prev
    /\ rollback' = [rollback EXCEPT ![t].pc = "version"]
    /\ UNCHANGED <<published, version, prev, prevVersion, bad, backoff, job, loaded, running, events, cut, lost>>

\* The rename of the restored file fails; the next dispatch that fails tries again.
RestoreFails(t) ==
    /\ rollback[t].pc = "restore" /\ Event
    /\ rollback' = [rollback EXCEPT ![t] = Calm]
    /\ UNCHANGED <<published, files, job, loaded, running, cut, lost>>

RestoreVersion(t) ==
    /\ rollback[t].pc = "version"
    /\ version' = IF prevVersion = Missing THEN version ELSE prevVersion
    /\ rollback' = [rollback EXCEPT ![t] = Calm]
    /\ UNCHANGED <<published, wasm, prev, prevVersion, bad, backoff, job, loaded, running, events, cut, lost>>

-----------------------------------------------------------------------------
\* A download goes to a temporary file first and leaves nothing behind; snapshots are
\* copied in place, in both directions, and leave a torn file.
Dies(gone) ==
    /\ \/ UNCHANGED <<wasm, prev, cut>>
       \/ /\ wasm # Missing /\ \E i \in gone : At(i, "sha")
          /\ prev' = Torn /\ cut' = TRUE /\ UNCHANGED wasm
       \/ /\ prev # Missing /\ \E i \in gone : At(i, "undo")
          /\ wasm' = Torn /\ cut' = TRUE /\ UNCHANGED prev
    /\ job' = [i \in Installers |-> IF i \in gone THEN Idle ELSE job[i]]
    /\ UNCHANGED <<published, version, prevVersion, bad, backoff, lost>>

CommandDies ==
    /\ ~At("cli", "idle") /\ Event /\ Dies({"cli"})
    /\ UNCHANGED <<loaded, rollback, running>>

\* The daemon is gone in the middle of anything; the next one loads the file anew.
DaemonGone ==
    /\ Dies({"poll", "main"})
    /\ loaded' = Missing
    /\ rollback' = [t \in Threads |-> Calm]

-----------------------------------------------------------------------------
InstallStep(i) == AlreadyInstalled(i) \/ Snapshot(i) \/ Place(i) \/ Record(i) \/ Undo(i)
RollbackStep(t) == InstantiateFails(t) \/ Blame(t) \/ Restore(t) \/ RestoreVersion(t)

PluginStep ==
    \/ Publish \/ Poll \/ EnsureMissing \/ CooldownEnds \/ Load
    \/ \E v \in Versions : Install(v)
    \/ \E i \in Installers : InstallStep(i) \/ RecordFails(i) \/ FetchFails(i)
    \/ \E t \in Threads : RollbackStep(t) \/ RestoreFails(t)
    \/ CommandDies
=============================================================================
