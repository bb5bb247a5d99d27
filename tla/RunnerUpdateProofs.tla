------------------------- MODULE RunnerUpdateProofs -------------------------
(* What the installation of a plugin and the update of the runner guarantee *)
(* for any builds, versions, runners, dispatch threads and number of        *)
(* failures: files are whole, an executable is in place, a local build      *)
(* stays.                                                                   *)
EXTENDS RunnerUpdate, FiniteSetTheorems, WellFoundedInduction, TLAPS

\* Who has asked for a version asked for a published one, and who has its build a build.
GoalsPublished ==
    \A i \in Installers :
        /\ At(i, "sha") => job[i].goal \in {VersionOf[b] : b \in 1..published}
        /\ At(i, "place") \/ At(i, "record") => job[i].goal \in Builds

\* What comes back by an undo or a rollback is whole, too.
SnapshotWhole == prev # Torn \/ cut

PluginWhole == PluginTypeOK /\ GoalsPublished /\ NeverTorn /\ SnapshotWhole

\* What a failed replacement moves back is there.
BackupKept == TakeoverAt("replace") => prevExe # Missing \/ gap

\* The staged copy that is to be started, or that waits, is there.
StagedThere ==
    /\ pending # None => staged[pending] # Missing
    /\ TakeoverAt("waiting") => takeover.slot \in Slots /\ staged[takeover.slot] # Missing

\* The takeover that promotes itself is the runner that serves.
TakeoverRuns == takeover.pc \in {"record", "promote", "replace", "reexec"} => Up

Whole ==
    /\ PluginWhole /\ RunnerTypeOK
    /\ RunnerInPlace /\ BackupKept /\ StagedThere /\ TakeoverRuns

----
(* The files of the plugin.                                                *)

LEMMA Numbers ==
    /\ Builds \subseteq Nat \ {0} /\ \A b \in Builds : 1..b \subseteq Builds
    /\ \A b \in Builds : VersionOf[b] \in Nat \ {0}
    /\ Runners \subseteq Nat \ {0} /\ 1 \in Builds /\ 1 \in Runners
<1>1. Cardinality(Builds) \in Nat /\ Cardinality(Runners) \in Nat
  BY PluginInstallAssumption, RunnerUpdateAssumption, FS_CardinalityType
<1>2. Cardinality(Builds) # 0 /\ Cardinality(Runners) # 0
  BY PluginInstallAssumption, RunnerUpdateAssumption, FS_EmptySet
<1>3. /\ Builds = 1..Cardinality(Builds) /\ Runners = 1..Cardinality(Runners)
      /\ \A b \in Builds : VersionOf[b] \in Nat \ {0}
  BY PluginInstallAssumption, RunnerUpdateAssumption
<1> DEFINE m == Cardinality(Builds)
           n == Cardinality(Runners)
<1>4. /\ Builds = 1..m /\ Runners = 1..n /\ m \in Nat /\ n \in Nat /\ m # 0 /\ n # 0
  BY <1>1, <1>2, <1>3
<1> HIDE DEF m, n
<1> QED BY <1>3, <1>4

\* A version that was published has an asset: the last of its builds.
LEMMA ServedIsBuild ==
    ASSUME published \in Builds, NEW v \in {VersionOf[b] : b \in 1..published}
    PROVE  Served(v) \in Builds /\ VersionOf[Served(v)] = v
<1> DEFINE builds == {b \in Builds : b <= published /\ VersionOf[b] = v}
           behind == {published - b : b \in builds}
           R == OpToRel(<, Nat)
<1>1. builds # {}
  BY Numbers
<1>2. behind \subseteq Nat /\ behind # {}
  BY <1>1, Numbers
<1>3. PICK m \in behind : \A n \in behind : ~(<<n, m>> \in R)
  BY <1>2, NatLessThanWellFounded, WFMin
<1>4. ASSUME NEW n \in behind PROVE m <= n
  <2>1. R = {ss \in Nat \X Nat : ss[1] < ss[2]}
    BY DEF OpToRel
  <2> HIDE DEF R
  <2>2. m \in Nat /\ n \in Nat
    BY <1>2
  <2>3. <<n, m>> \in Nat \X Nat /\ (n < m => <<n, m>> \in R)
    BY <2>1, <2>2
  <2> HIDE DEF behind
  <2> QED BY <1>3, <1>4, <2>2, <2>3
<1>5. PICK b \in builds : m = published - b
  OBVIOUS
<1>6. ASSUME NEW c \in builds PROVE c <= b
  <2>1. published - c \in behind
    OBVIOUS
  <2>2. published \in Nat /\ b \in Nat /\ c \in Nat
    BY Numbers
  <2>3. published - b <= published - c
    BY <1>4, <1>5, <2>1
  <2> QED BY <2>2, <2>3
<1>7. \E x \in Builds : /\ x <= published /\ VersionOf[x] = v
                        /\ \A c \in Builds : c <= published /\ VersionOf[c] = v => c <= x
  BY <1>5, <1>6
<1> QED BY <1>7 DEF Served

\* A process that dies leaves a file cut only where it copied in place.
LEMMA DiesKeeps ==
    ASSUME PluginWhole, NEW gone, Dies(gone), running' \in Int, events' \in 0..MaxEvents,
           loaded' \in Files,
           rollback' \in [Threads -> [pc : {"idle", "blame", "restore", "version"}, failed : Files]]
    PROVE  PluginWhole'
<1> USE DEF PluginWhole, PluginTypeOK, GoalsPublished, NeverTorn, SnapshotWhole, Dies, At
<1>1. Idle \in [pc : {"idle", "sha", "place", "record", "undo"}, goal : Nat]
  BY DEF Idle
<1>2. job' \in [Installers -> [pc : {"idle", "sha", "place", "record", "undo"}, goal : Nat]]
  BY <1>1
<1>3. /\ wasm' \in Files /\ prev' \in Files /\ cut' \in BOOLEAN
      /\ (wasm' # Torn \/ cut') /\ (prev' # Torn \/ cut')
  BY DEF Files
<1>4. GoalsPublished'
  BY DEF Idle
<1> QED BY <1>2, <1>3, <1>4

LEMMA PluginStepKeeps ==
    ASSUME PluginWhole, PluginStep
    PROVE  PluginWhole'
<1> USE DEF PluginWhole, PluginTypeOK, GoalsPublished, NeverTorn, SnapshotWhole, At
<1> DEFINE Jobs == [pc : {"idle", "sha", "place", "record", "undo"}, goal : Nat]
           Rollbacks == [pc : {"idle", "blame", "restore", "version"}, failed : Files]
<1>1. /\ published \in Nat \ {0} /\ 1..published \subseteq Builds
      /\ MaxEvents \in Nat
  BY Numbers, PluginInstallAssumption
<1>2. /\ Idle \in Jobs /\ Calm \in Rollbacks /\ Restoring \in Rollbacks
      /\ \A r \in Rollbacks, s \in {"version"} : [r EXCEPT !.pc = s] \in Rollbacks
  BY DEF Idle, Calm, Restoring, Files
<1>3. ASSUME NEW v \in {VersionOf[b] : b \in 1..published}, NEW i \in Installers,
             Goes(i, "sha", v), UNCHANGED <<published, files, loaded, rollback, running, cut, lost>>,
             events' \in 0..MaxEvents
      PROVE  PluginWhole'
  <2>1. v \in Nat
    BY <1>1, Numbers
  <2>2. job' \in [Installers -> Jobs]
    BY <1>3, <2>1 DEF Goes
  <2> QED BY <1>3, <2>2 DEF Goes, files
<1>4. CASE Publish
  <2>1. 1..published \subseteq 1..published'
    BY <1>1, <1>4 DEF Publish
  <2> QED BY <1>1, <1>4, <2>1 DEF Publish, Event, files
<1>5. CASE Poll \/ EnsureMissing
  <2>1. VersionOf[published] \in {VersionOf[b] : b \in 1..published}
    BY <1>1
  <2> QED BY <1>3, <1>5, <2>1 DEF Poll, EnsureMissing, Installers
<1>6. CASE \E v \in Versions : Install(v)
  BY <1>1, <1>3, <1>6 DEF Install, Event, Installers
<1>7. CASE CooldownEnds \/ Load
  BY <1>7 DEF CooldownEnds, Load, files, Files
<1>8. ASSUME NEW i \in Installers, AlreadyInstalled(i) \/ FetchFails(i)
      PROVE  PluginWhole'
  <2>1. /\ job' = [job EXCEPT ![i] = Idle]
        /\ UNCHANGED <<published, wasm, version, prev, prevVersion, bad, loaded, rollback,
                       running, cut, lost>>
    BY <1>8 DEF AlreadyInstalled, FetchFails, Ends, files
  <2>3. events' \in 0..MaxEvents
    BY <1>1, <1>8 DEF AlreadyInstalled, FetchFails, Event
  <2>4. backoff' \in BOOLEAN
    BY <1>8, Zenon DEF AlreadyInstalled, FetchFails, files
  <2>2. job' \in [Installers -> Jobs]
    BY <1>2, <2>1
  <2> QED BY <2>1, <2>2, <2>3, <2>4 DEF Idle
<1>9. ASSUME NEW i \in Installers, Snapshot(i)
      PROVE  PluginWhole'
  <2>1. Served(job[i].goal) \in Builds
    BY <1>9, ServedIsBuild DEF Snapshot
  <2>2. job' \in [Installers -> Jobs]
    BY <1>9, <2>1, Numbers DEF Snapshot, Goes
  <2>3. GoalsPublished'
    BY <1>9, <2>1 DEF Snapshot, Goes
  <2> QED BY <1>9, <2>2, <2>3 DEF Snapshot
<1>10. ASSUME NEW i \in Installers, Place(i)
       PROVE  PluginWhole'
  <2>1. job[i].goal \in Builds /\ job[i].goal \in Nat /\ job[i].goal # Torn
    BY <1>10, Numbers DEF Place, Torn
  <2>2. job' \in [Installers -> Jobs]
    BY <1>10, <2>1 DEF Place, Goes
  <2> QED BY <1>10, <2>1, <2>2 DEF Place, Goes, Files
<1>11. ASSUME NEW i \in Installers, Record(i)
       PROVE  PluginWhole'
  <2>1. VersionOf[job[i].goal] \in Versions
    BY <1>11 DEF Record, Versions
  <2>2. job' \in [Installers -> Jobs]
    BY <1>2, <1>11 DEF Record, Ends
  <2> QED BY <1>11, <2>1, <2>2 DEF Record, Ends, Idle
<1>12. ASSUME NEW i \in Installers, RecordFails(i)
       PROVE  PluginWhole'
  <2>1. job' \in [Installers -> Jobs]
    BY <1>12 DEF RecordFails, Goes
  <2> QED BY <1>1, <1>12, <2>1 DEF RecordFails, Event, Goes, files
<1>13. ASSUME NEW i \in Installers, Undo(i)
       PROVE  PluginWhole'
  <2>1. job' \in [Installers -> Jobs]
    BY <1>2, <1>13 DEF Undo, Ends
  <2> QED BY <1>13, <2>1 DEF Undo, Ends, Idle
<1>14. ASSUME NEW t \in Threads, RollbackStep(t) \/ RestoreFails(t)
       PROVE  PluginWhole'
  <2>1. rollback' \in [Threads -> Rollbacks]
    <3>1. PICK r \in Rollbacks : rollback' = [rollback EXCEPT ![t] = r]
      BY <1>2, <1>14
         DEF RollbackStep, InstantiateFails, Blame, Restore, RestoreVersion, RestoreFails, Files
    <3> QED BY <3>1
  <2>2. /\ wasm' \in {wasm, prev} /\ version' \in Versions \cup {Missing}
        /\ bad' \subseteq Versions
        /\ UNCHANGED <<published, prev, prevVersion, backoff, job, loaded, running, cut>>
    BY <1>14
       DEF RollbackStep, InstantiateFails, Blame, Restore, RestoreVersion, RestoreFails, files
  <2>3. events' \in 0..MaxEvents
    BY <1>1, <1>14
       DEF RollbackStep, InstantiateFails, Blame, Restore, RestoreVersion, RestoreFails, Event
  <2>4. lost' \in BOOLEAN
    BY <1>14, Zenon
       DEF RollbackStep, InstantiateFails, Blame, Restore, RestoreVersion, RestoreFails
  <2> QED BY <2>1, <2>2, <2>3, <2>4
<1>15. CASE CommandDies
  <2>1. /\ Dies({"cli"}) /\ events' \in 0..MaxEvents
        /\ UNCHANGED <<loaded, rollback, running>>
    BY <1>1, <1>15 DEF CommandDies, Event
  <2> QED BY <2>1, DiesKeeps
<1> QED BY <1>4, <1>5, <1>6, <1>7, <1>8, <1>9, <1>10, <1>11, <1>12, <1>13, <1>14, <1>15
        DEF PluginStep, InstallStep

----
(* The files of the runner.                                                *)

\* A step of the runner that leaves the plugin alone but for the list of bad versions.
LEMMA PluginUntouched ==
    ASSUME PluginWhole, running' \in Int, events' \in 0..MaxEvents, bad' \subseteq Versions, FilesKept
    PROVE  PluginWhole'
BY DEF PluginWhole, PluginTypeOK, GoalsPublished, NeverTorn, SnapshotWhole, At, FilesKept

\* The daemon is gone: the plugin's files are those of processes that died.
LEMMA PluginOutlives ==
    ASSUME PluginWhole, running' \in Int, events' \in 0..MaxEvents, DaemonGone
    PROVE  PluginWhole'
<1>1. loaded' \in Files
  BY DEF DaemonGone, Files
<1>2. rollback' \in [Threads -> [pc : {"idle", "blame", "restore", "version"}, failed : Files]]
  BY DEF DaemonGone, Calm, Files
<1> QED BY <1>1, <1>2, DiesKeeps DEF DaemonGone

RunnerWhole == RunnerTypeOK /\ RunnerInPlace /\ BackupKept /\ StagedThere /\ TakeoverRuns

LEMMA RunnerKeeps ==
    ASSUME RunnerWhole, RunnerStep \/ UNCHANGED <<running, runnerVars>>
    PROVE  RunnerWhole'
<1> USE Numbers DEF RunnerWhole, RunnerTypeOK, RunnerInPlace, BackupKept, StagedThere, TakeoverRuns,
        Exes, TakeoverAt, TakeoverGoes, Up, Missing, Local
<1>1. CASE UNCHANGED <<running, runnerVars>>
  BY <1>1 DEF runnerVars
<1>2. CASE PublishRunner \/ BuildLocally
  BY <1>2 DEF PublishRunner, BuildLocally
<1>3. CASE Stage
  BY <1>3 DEF Stage, Slots, None
<1>4. CASE StartTakeover \/ TakeoverFails
  BY <1>4 DEF StartTakeover, TakeoverFails, NoTakeover, Slots, None
<1>5. CASE TakesOver
  BY <1>5 DEF TakesOver, Incoming, Slots, None
<1>6. CASE RecordVersion \/ RecordingFails
  BY <1>6 DEF RecordVersion, RecordingFails
<1>7. CASE PromotionRefused \/ BackUpFails
  BY <1>7 DEF PromotionRefused, BackUpFails
<1>8. CASE BackUp
  BY <1>8 DEF BackUp
<1>9. CASE Replace \/ ReplaceFails
  BY <1>9 DEF Replace, ReplaceFails
<1>10. CASE Reexec
  BY <1>10 DEF Reexec
<1>11. ASSUME NEW path \in Slots \cup {"exe"}, Start(path)
       PROVE  RunnerWhole'
  BY <1>11 DEF Start, NoTakeover, Slots, None
<1>12. CASE Boot
  BY <1>12 DEF Boot, StagedNew, Adopts, NoTakeover, Slots, None
<1>13. CASE DaemonDies
  BY <1>13 DEF DaemonDies, NoTakeover, Slots, None
<1> QED BY <1>1, <1>2, <1>3, <1>4, <1>5, <1>6, <1>7, <1>8, <1>9, <1>10, <1>11, <1>12, <1>13
        DEF RunnerStep

LEMMA WholeInit == Init => Whole
<1> SUFFICES ASSUME Init PROVE Whole
  OBVIOUS
<1>1. PluginWhole
  <2>1. /\ Idle \in [pc : {"idle", "sha", "place", "record", "undo"}, goal : Nat]
        /\ Calm \in [pc : {"idle", "blame", "restore", "version"}, failed : Files]
    BY DEF Idle, Calm, Files
  <2>2. GoalsPublished
    BY DEF Init, PluginInit, GoalsPublished, At, Idle
  <2>3. PluginTypeOK
    <3>1. /\ job \in [Installers -> [pc : {"idle", "sha", "place", "record", "undo"}, goal : Nat]]
          /\ rollback \in [Threads -> [pc : {"idle", "blame", "restore", "version"}, failed : Files]]
      BY <2>1 DEF Init, PluginInit
    <3>2. published \in Builds /\ running \in Int /\ events \in 0..MaxEvents
      BY Numbers, PluginInstallAssumption DEF Init, PluginInit, RunnerInit
    <3> QED BY <3>1, <3>2 DEF Init, PluginInit, PluginTypeOK, Files
  <2> QED BY <2>2, <2>3 DEF Init, PluginInit, PluginWhole, NeverTorn, SnapshotWhole, Missing, Torn
<1>2. RunnerWhole
  BY Numbers DEF Init, RunnerInit, RunnerWhole, RunnerTypeOK, RunnerInPlace, BackupKept, StagedThere,
     TakeoverRuns, Exes, TakeoverAt, NoTakeover, None, Slots, Missing, Up
<1> QED BY <1>1, <1>2 DEF Whole, RunnerWhole

LEMMA WholeStep ==
    ASSUME Whole, [Next]_vars
    PROVE  Whole'
<1>1. RunnerWhole /\ PluginWhole
  BY DEF Whole, RunnerWhole
<1>2. RunnerStep \/ UNCHANGED <<running, runnerVars>>
  <2>1. PluginStep => UNCHANGED running
    BY DEF PluginStep, Publish, Poll, EnsureMissing, CooldownEnds, Load, Install, InstallStep,
       AlreadyInstalled, Snapshot, Place, Record, Undo, RecordFails, FetchFails, RollbackStep,
       InstantiateFails, Blame, Restore, RestoreVersion, RestoreFails, CommandDies
  <2> QED BY <2>1 DEF Next, vars, pluginVars
<1>3. RunnerWhole'
  BY <1>1, <1>2, RunnerKeeps
<1>4. running' \in Int
  BY <1>3, Numbers DEF RunnerWhole, RunnerTypeOK, Exes, Missing, Local
<1>5. PluginWhole'
  <2>1. CASE PluginStep
    BY <1>1, <2>1, PluginStepKeeps
  <2>2. CASE UNCHANGED vars
    BY <1>1, <2>2 DEF vars, pluginVars, files, PluginWhole, PluginTypeOK, GoalsPublished, NeverTorn,
       SnapshotWhole, At
  <2>3. CASE RunnerStep
    <3>1. /\ events \in 0..MaxEvents /\ MaxEvents \in Nat /\ bad \subseteq Versions
          /\ Event => events' \in 0..MaxEvents
          /\ Quiet => events' \in 0..MaxEvents
      BY <1>1, PluginInstallAssumption DEF PluginWhole, PluginTypeOK, Event, Quiet
    <3>2. PluginKept => FilesKept /\ bad' = bad
      BY DEF PluginKept, FilesKept, files
    <3>3. CASE TakesOver \/ DaemonDies
      BY <1>1, <1>4, <3>1, <3>3, PluginOutlives DEF TakesOver, DaemonDies
    <3>4. CASE RecordVersion \/ Boot
      BY <1>1, <1>4, <3>1, <3>4, PluginUntouched DEF RecordVersion, Boot
    <3>5. CASE \/ PublishRunner \/ BuildLocally \/ Stage \/ StartTakeover \/ TakeoverFails
               \/ RecordingFails \/ PromotionRefused \/ BackUp \/ BackUpFails \/ Replace
               \/ ReplaceFails \/ Reexec \/ \E path \in Slots \cup {"exe"} : Start(path)
      <4>1. PluginKept /\ events' \in 0..MaxEvents
        BY <3>1, <3>5 DEF PublishRunner, BuildLocally, Stage, StartTakeover, TakeoverFails,
           RecordingFails, PromotionRefused, BackUp, BackUpFails, Replace, ReplaceFails, Reexec, Start
      <4> QED BY <1>1, <1>4, <3>1, <3>2, <4>1, PluginUntouched
    <3> QED BY <2>3, <3>3, <3>4, <3>5 DEF RunnerStep
  <2> QED BY <2>1, <2>2, <2>3 DEF Next
<1> QED BY <1>3, <1>5 DEF Whole, RunnerWhole

LEMMA WholeHolds == Spec => []Whole
<1>1. Whole /\ [Next]_vars => Whole'
  BY WholeStep
<1> QED BY WholeInit, <1>1, PTL DEF Spec

----
(* The theorems.                                                           *)

\* What is on disk is whole, whoever installs, rolls back, promotes and dies when: a plugin
\* is torn only after a crash in the middle of an in-place copy, and the executable is
\* missing only inside a promotion or after a crash there (install_file_atomically,
\* snapshot_prev_wasm_and_version, promote_staged_exe_to_canonical).
THEOREM FilesAreIntact == Spec => []InstallIntact
<1>1. Whole => InstallIntact
  BY DEF Whole, PluginWhole, InstallIntact
<1> QED BY <1>1, WholeHolds, PTL

\* No update replaces a local build, unless it was put there between the backup and the
\* replacement of a promotion (installed_runner_blocks_promotion).
THEOREM LocalBuildsStay == Spec => LocalBuildStays
<1>1. [Next]_vars => [canonical = Local /\ canonical' # Local => TakeoverAt("replace")]_vars
  <2> SUFFICES ASSUME Next, canonical = Local, canonical' # Local
               PROVE  TakeoverAt("replace")
    OBVIOUS
  <2>1. RunnerStep
    BY DEF Next, runnerVars
  <2> QED BY <2>1 DEF RunnerStep, PublishRunner, BuildLocally, Stage, StartTakeover, TakeoverFails,
             TakesOver, RecordVersion, RecordingFails, PromotionRefused, BackUp, BackUpFails, Blocks,
             Replace, ReplaceFails, Reexec, Start, Boot, DaemonDies
<1> QED BY <1>1, PTL DEF Spec, LocalBuildStays
=============================================================================
