------------------------ MODULE RunnerHandoffProofs ------------------------
(* What a daemon that is replaced guarantees about the programs it runs,    *)
(* for any number of runs and workers.                                      *)
EXTENDS RunnerHandoff, TLAPS

\* The registry, the result store and the two sets of stopped tasks hold runs whose thread
\* is over: what a thread hands to the registry is in none of them.
Over == {r \in Runs : at[r] = "over"}

TasksAreOver == registry \cup stopping \cup stopped \cup results \subseteq Over

\* A task whose stop was answered is out of the registry, so no later attempt of a handoff
\* saves it again.
StopIsFinal == stopped \cap registry = {} /\ StoppedStaysStopped

\* A task id that was given out is that of an entry, or accounted for; those that a guard
\* found on record have a result on disk in place of the entry.
PromisesKept ==
    /\ promised \subseteq registry \cup stopping \cup stopped \cup expired
    /\ guarded \subseteq results \cup stopping \cup stopped \cup expired

\* A program that is waited for, registered or being stopped has been started.
Started ==
    /\ \A r \in registry \cup stopping : child[r] # "none"
    /\ \A r \in Runs : at[r] \in {"waiting", "decides"} => child[r] # "none"

\* Who is between its admission and its start holds the lock for reading, and so nobody
\* holds it for writing.
StartsAdmitted ==
    /\ readers = {r \in Runs : at[r] = "admitted"}
    /\ readers # {} => ~writer

TaskInv ==
    /\ TasksTypeOK
    /\ TasksAreOver /\ StopIsFinal /\ PromisesKept /\ Started /\ StartsAdmitted

\* Admission is closed for good by the exit of the daemon only.
ClosedAtExit == closed => up # "up"

\* The safety part of DrainEnds: while admission is closed for a forced swap, the clock that
\* opens it again runs, or is over.
DrainIsTimed == draining => drainClock # "none"

HandInv == TypeOK /\ TaskInv /\ ClosedAtExit /\ StagedIsAwaited

----
(* The tasks.                                                              *)

\* A poll forgets entries that it expires, and starts nothing.
LEMMA PollEffect ==
    ASSUME TasksTypeOK, Started, Poll
    PROVE  /\ ended' \subseteq Runs
           /\ child' \in [Runs -> {"none", "live", "gone"}]
           /\ pipes' \in [Runs -> {"none", "open", "closed"}]
           /\ registry' \subseteq registry
           /\ expired \subseteq expired' /\ expired' \subseteq Runs
           /\ registry \subseteq registry' \cup expired'
           /\ \A r \in Runs : child'[r] = "none" <=> child[r] = "none"
<1> USE DEF TasksTypeOK
<1>1. PICK late \in SUBSET registry : \E closes \in SUBSET late : PollAll(late, closes)
  BY DEF Poll
<1>2. PICK closes \in SUBSET late : PollAll(late, closes)
  BY <1>1
<1> DEFINE killed == {r \in late : IF r \in ended THEN DrainsPending(pipes[r])
                                   ELSE child[r] = "live"}
<1>3. /\ ended' = ended \cup {r \in registry : child[r] = "gone" \/ r \in killed}
      /\ child' = [r \in Runs |-> IF r \in killed THEN "gone" ELSE child[r]]
  BY <1>2 DEF PollAll
<1>4. pipes' \in [Runs -> {"none", "open", "closed"}]
  BY <1>2 DEF PollAll
<1>5. killed \subseteq registry
  OBVIOUS
<1> HIDE DEF killed
<1>6. PICK gone \in SUBSET Completed : Expire(gone)
  BY DEF Poll
<1>7. registry' = registry \ gone /\ expired' = expired \cup gone /\ gone \subseteq registry
  BY <1>6 DEF Expire, Completed
<1> QED BY <1>3, <1>4, <1>5, <1>7 DEF Started

\* The steps of the runs and of the registry.
LEMMA TasksKeep ==
    ASSUME TaskInv, guarded' = guarded, Reap \/ \E r \in Runs : RunStep(r)
    PROVE  TaskInv'
<1> USE DEF TaskInv, TasksTypeOK, TasksAreOver, StopIsFinal, StoppedStaysStopped,
            PromisesKept, Started, StartsAdmitted, Over, admissionVars, entryVars
<1>1. CASE Reap
  BY <1>1, PollEffect DEF Reap
<1>2. ASSUME NEW r \in Runs, Admit(r) \/ Refuse(r) \/ StartFails(r)
      PROVE  TaskInv'
  BY <1>2 DEF Admit, Refuse, StartFails, Goes
<1>3. ASSUME NEW r \in Runs, StartExec(r)
      PROVE  TaskInv'
  BY <1>3 DEF StartExec, Goes
<1>4. ASSUME NEW r \in Runs, StartSpawn(r)
      PROVE  TaskInv'
  BY <1>4 DEF StartSpawn, Goes
<1>5. ASSUME NEW r \in Runs, Exits(r) \/ PipesClose(r)
      PROVE  TaskInv'
  BY <1>5 DEF Exits, PipesClose
<1>6. ASSUME NEW r \in Runs, WindowEnds(r) \/ KillForeground(r) \/ AnswerRun(r)
      PROVE  TaskInv'
  BY <1>6 DEF WindowEnds, KillForeground, AnswerRun, Goes
<1>7. ASSUME NEW r \in Runs, AdoptRunning(r) \/ AdoptDescendant(r)
      PROVE  TaskInv'
  BY <1>7 DEF AdoptRunning, AdoptDescendant, Adopt, Goes
<1>8. ASSUME NEW r \in Runs, StopRemoves(r)
      PROVE  TaskInv'
  BY <1>8 DEF StopRemoves
<1>9. ASSUME NEW r \in Runs, StopKills(r)
      PROVE  TaskInv'
  BY <1>9 DEF StopKills
<1>10. ASSUME NEW r \in Runs, StopResult(r) \/ Prune(r)
       PROVE  TaskInv'
  BY <1>10 DEF StopResult, Prune
<1> QED BY <1>1, <1>2, <1>3, <1>4, <1>5, <1>6, <1>7, <1>8, <1>9, <1>10 DEF RunStep

\* A guard that is taken finds every task id on record in the results, or accounted for.
LEMMA GuardKeeps ==
    ASSUME TaskInv, TakeGuard
    PROVE  TaskInv'
BY PollEffect DEF TaskInv, TasksTypeOK, TasksAreOver, StopIsFinal, StoppedStaysStopped,
   PromisesKept, Started, StartsAdmitted, Over, TakeGuard, PrepareSucceeds

\* One that is refused may have saved some of the results, of entries only.
LEMMA RefusalKeeps ==
    ASSUME TaskInv, GuardRefused, draining' \in BOOLEAN
    PROVE  TaskInv'
<1> USE DEF TaskInv, TasksTypeOK, TasksAreOver, StopIsFinal, StoppedStaysStopped,
            PromisesKept, Started, StartsAdmitted, Over, GuardRefused
<1>1. CASE readers # {} /\ UNCHANGED <<child, pipes, registry, ended, expired, results>>
  BY <1>1
<1>2. CASE Poll /\ UNCHANGED results
  BY <1>2, PollEffect
<1>3. CASE Poll /\ \E saved \in SUBSET registry' : results' = results \cup saved
  BY <1>3, PollEffect
<1> QED BY <1>1, <1>2, <1>3 DEF PrepareFails

\* The entries that block are ended, and do not come back.
LEMMA EndPendingKeeps ==
    ASSUME TaskInv, EndPending, guarded' = guarded
    PROVE  TaskInv'
<1> DEFINE gone == {r \in registry : Blocking(r, ended, pipes)}
<1>1. gone \subseteq registry
  OBVIOUS
<1>2. /\ registry' = registry \ gone
      /\ child' = [r \in Runs |-> IF r \in gone THEN "gone" ELSE child[r]]
      /\ pipes' = [r \in Runs |-> IF r \in gone THEN "none" ELSE pipes[r]]
      /\ results' = results \ gone
      /\ stopped' = stopped \cup gone
      /\ UNCHANGED <<at, admissionVars, ended, stopping, expired, promised>>
  BY DEF EndPending
<1> HIDE DEF gone
<1> QED BY <1>1, <1>2 DEF TaskInv, TasksTypeOK, TasksAreOver, StopIsFinal,
    StoppedStaysStopped, PromisesKept, Started, StartsAdmitted, Over, admissionVars

----
(* The main loop, the ticker and the takeover processes.                   *)

\* What they do to the tasks: a batch claims runs that are idle, the lock is given back,
\* the drain begins or ends, and the exit closes admission.
LEMMA LoopKeepsTasks ==
    ASSUME TaskInv,
           UNCHANGED <<readers, child, pipes, entryVars, promised, guarded>>,
           closed' \in BOOLEAN, draining' \in BOOLEAN, writer' \in {writer, FALSE},
           \/ UNCHANGED at
           \/ \E claimed \in SUBSET Idle :
                 at' = [r \in Runs |-> IF r \in claimed THEN "claimed" ELSE at[r]]
    PROVE  TaskInv'
<1> USE DEF TaskInv, entryVars
<1>1. /\ at' \in [Runs -> {"idle", "claimed", "admitted", "waiting", "decides", "over"}]
      /\ \A r \in Runs : at'[r] = at[r] \/ (at[r] = "idle" /\ at'[r] = "claimed")
  <2>1. CASE UNCHANGED at
    BY <2>1 DEF TasksTypeOK
  <2>2. ASSUME NEW claimed \in SUBSET Idle,
               at' = [r \in Runs |-> IF r \in claimed THEN "claimed" ELSE at[r]]
        PROVE  /\ at' \in [Runs -> {"idle", "claimed", "admitted", "waiting", "decides",
                                    "over"}]
               /\ \A r \in Runs : at'[r] = at[r] \/ (at[r] = "idle" /\ at'[r] = "claimed")
    BY <2>2 DEF Idle, TasksTypeOK
  <2> QED BY <2>1, <2>2
<1>2. TasksTypeOK'
  <2>1. writer' \in BOOLEAN
    BY DEF TasksTypeOK
  <2> QED BY <1>1, <2>1 DEF TasksTypeOK
<1>3. TasksAreOver' /\ Started' /\ readers' = {r \in Runs : at'[r] = "admitted"}
  BY <1>1 DEF TasksAreOver, Over, Started, StartsAdmitted, TasksTypeOK
<1>4. readers' # {} => ~writer'
  BY DEF StartsAdmitted
<1>5. StopIsFinal' /\ PromisesKept'
  BY DEF StopIsFinal, StoppedStaysStopped, PromisesKept
<1> QED BY <1>2, <1>3, <1>4, <1>5 DEF StartsAdmitted

LEMMA StepKeepsTasks ==
    ASSUME HandInv, [Next]_vars
    PROVE  TaskInv'
<1> USE DEF HandInv
<1>1. CASE Tasks
  BY <1>1, TasksKeep DEF Tasks, mainVars
<1>2. CASE PrepareForReady \/ PrepareSwap
  BY <1>2, GuardKeeps DEF PrepareForReady, PrepareSwap
<1>3. CASE ReadyNotPrepared \/ SwapNotPrepared
  BY <1>3, RefusalKeeps DEF ReadyNotPrepared, SwapNotPrepared, TypeOK, TasksTypeOK
<1>4. CASE GraceIsOver \/ StopRequestEndsTasks
  BY <1>4, EndPendingKeeps DEF GraceIsOver, StopRequestEndsTasks, mainVars
<1>5. CASE \E r \in Runs : NextDaemonAnswers(r)
  <2>1. \E r \in Runs : RunStep(r)
    BY <1>5 DEF NextDaemonAnswers, RunStep
  <2> QED BY <1>5, <2>1, TasksKeep DEF NextDaemonAnswers, mainVars
<1>6. CASE Batch
  <2>1. \E claimed \in SUBSET Idle :
           at' = [r \in Runs |-> IF r \in claimed THEN "claimed" ELSE at[r]]
    BY <1>6 DEF Batch
  <2>2. UNCHANGED <<readers, writer, closed, draining, child, pipes, entryVars, promised,
                    guarded>>
    BY <1>6 DEF Batch, admissionVars
  <2> QED BY <2>1, <2>2, LoopKeepsTasks DEF TypeOK, TasksTypeOK
<1>7. CASE \/ HandOver \/ Drain \/ RefuseStaged \/ SpawnSuccessor \/ StillAwaiting
           \/ MissesWindow \/ \E s \in Successors : ReadyIsGone(s)
  <2>1. /\ UNCHANGED <<at, readers, child, pipes, entryVars, promised, guarded>>
        /\ closed' \in BOOLEAN /\ draining' \in BOOLEAN /\ writer' \in {writer, FALSE}
    BY <1>7 DEF HandOver, Commit, Drain, DrainActive, RefuseStaged, SpawnSuccessor,
                StillAwaiting, MissesWindow, SwapFails, DropGuard, ReadyIsGone, TypeOK,
                TasksTypeOK
  <2> QED BY <2>1, LoopKeepsTasks
<1>8. ASSUME UNCHANGED <<taskVars, guarded>>
      PROVE  TaskInv'
  <2>1. /\ UNCHANGED <<at, readers, child, pipes, entryVars, promised, guarded>>
        /\ UNCHANGED <<writer, closed, draining>>
    BY <1>8 DEF taskVars, admissionVars
  <2> QED BY <2>1, LoopKeepsTasks DEF TypeOK, TasksTypeOK
<1>9. CASE \/ NoReadySuccessor \/ TooBusyForSuccessor \/ NoSwap \/ ReleaseToAwaited
           \/ \E s \in Successors : ReleaseToReady(s)
  BY <1>8, <1>9 DEF NoReadySuccessor, TooBusyForSuccessor, NoSwap, ReleaseToAwaited,
                    ReleaseToReady
<1>10. CASE Times \/ Leaves \/ TickerClaims \/ TickerExits \/ Starts
  BY <1>8, <1>10 DEF Times, PendingStarves, DrainIsOver, BackoffEnds, Leaves, TickerClaims,
                     TickerExits, Starts
<1>11. CASE \/ \E r \in Runs : EntryReleased(r) \/ BackgroundConvert(r)
            \/ \E s \in Successors : SaysReady(s) \/ TakesOver(s) \/ GivesUp(s)
  BY <1>8, <1>11 DEF EntryReleased, BackgroundConvert, SaysReady, TakesOver, GivesUp
<1>12. CASE UNCHANGED vars
  BY <1>8, <1>12 DEF vars, mainVars
<1> QED BY <1>1, <1>2, <1>3, <1>4, <1>5, <1>6, <1>7, <1>9, <1>10, <1>11, <1>12
        DEF Next, Running, Main, Handing, Swapping

LEMMA StepKeepsMain ==
    ASSUME HandInv, TasksTypeOK', [Next]_vars
    PROVE  TypeOK' /\ ClosedAtExit' /\ StagedIsAwaited'
<1> USE DEF HandInv, TypeOK, ClosedAtExit, StagedIsAwaited, Successors, mainVars, tickVars,
            ownerVars, swapVars
<1>1. CASE up # "up" /\ UNCHANGED mainVars
  BY <1>1
<1>2. CASE Tasks
  <2>1. closed' = closed
    BY <1>2 DEF Tasks, Reap, RunStep, Admit, Refuse, StartExec, StartSpawn, StartFails,
       Exits, PipesClose, WindowEnds, AdoptRunning, AdoptDescendant, Adopt, KillForeground,
       AnswerRun, StopRemoves, StopKills, StopResult, Prune, admissionVars
  <2> QED BY <1>2, <2>1 DEF Tasks
<1>3. CASE Batch \/ (\E r \in Runs : EntryReleased(r) \/ BackgroundConvert(r))
  <2>1. /\ inflight' \subseteq Runs /\ anyWork' \in BOOLEAN /\ closed' = closed
        /\ tick' = tick \/ (tick = "batch" /\ tick' = "ready")
        /\ UNCHANGED <<up, ownerVars, marker, proc, swapVars, guarded>>
    <3>1. CASE Batch
      BY <3>1 DEF Batch, Idle, admissionVars
    <3>2. CASE \E r \in Runs : EntryReleased(r) \/ BackgroundConvert(r)
      BY <3>2 DEF EntryReleased, BackgroundConvert, taskVars, admissionVars
    <3> QED BY <1>3, <3>1, <3>2
  <2> QED BY <2>1
<1>4. CASE NoReadySuccessor \/ TooBusyForSuccessor \/ NoSwap \/ Leaves
  BY <1>4 DEF NoReadySuccessor, TooBusyForSuccessor, NoSwap, Leaves, Goto, taskVars,
              admissionVars
<1>5. CASE PrepareForReady \/ PrepareSwap \/ ReadyNotPrepared \/ SwapNotPrepared
  <2>1. guarded' \subseteq Runs /\ closed' = closed
    BY <1>5 DEF PrepareForReady, PrepareSwap, ReadyNotPrepared, SwapNotPrepared, TakeGuard,
                GuardRefused, TasksTypeOK
  <2>2. UNCHANGED <<up, anyWork, inflight, ownerVars, marker, proc, swapVars>>
    BY <1>5 DEF PrepareForReady, PrepareSwap, ReadyNotPrepared, SwapNotPrepared, Goto
  <2>3. tick \in {"ready", "prepare"}
    BY <1>5 DEF PrepareForReady, PrepareSwap, ReadyNotPrepared, SwapNotPrepared
  <2>4. tick' \in {"reserve_staged", "reserve_user", "attempt", "drain", "batch"}
    <3>1. CASE PrepareForReady
      <4>1. marker \in Successors
        BY <3>1 DEF PrepareForReady, MayHandOff, MarkerLives
      <4>2. tick' = Reserving[marker]
        BY <3>1 DEF PrepareForReady, Goto
      <4> QED BY <4>1, <4>2 DEF Reserving
    <3>2. CASE PrepareSwap \/ ReadyNotPrepared \/ SwapNotPrepared
      BY <3>2 DEF PrepareSwap, ReadyNotPrepared, SwapNotPrepared, Goto
    <3> QED BY <1>5, <3>1, <3>2
  <2> QED BY <2>1, <2>2, <2>3, <2>4
<1>6. ASSUME NEW s \in Successors, ReleaseToReady(s) \/ ReadyIsGone(s)
      PROVE  TypeOK' /\ ClosedAtExit' /\ StagedIsAwaited'
  BY <1>6 DEF ReleaseToReady, ReadyIsGone, ReserveAndRelease, Reserving, Goto, taskVars,
              admissionVars
<1>7. CASE HandOver
  BY <1>7 DEF HandOver
<1>8. CASE Drain \/ GraceIsOver \/ StopRequestEndsTasks
  BY <1>8 DEF Drain, Received, GraceIsOver, StopRequestEndsTasks, EndPending, Goto,
              admissionVars
<1>9. CASE RefuseStaged
  <2>1. tick = "attempt" /\ ~awaiting
    BY <1>9 DEF RefuseStaged
  <2>2. /\ UNCHANGED <<closed, up, inflight, ownerVars, drainClock, guarded>>
        /\ tick' = "batch" /\ anyWork' = anyWork
        /\ awaiting' = FALSE /\ backoff' = TRUE
        /\ pending' = pending \/ pending' = "none"
    BY <1>9 DEF RefuseStaged, SwapFails, DropGuard, Goto
  <2>3. (marker' = marker \/ marker' = "none") /\ proc' = proc
    BY <1>9 DEF RefuseStaged
  <2>4. ClosedAtExit' /\ StagedIsAwaited'
    BY <2>1, <2>2, <2>3
  <2>5. /\ pending' \in {"none", "fresh", "starved"}
        /\ marker' \in {"none"} \cup Successors
    BY <2>2, <2>3
  <2>6. UNCHANGED <<up, inflight, owner, reserved, proc, drainClock, guarded>>
    BY <2>2, <2>3
  <2>7. TypeOK'
    BY <2>2, <2>5, <2>6
  <2> QED BY <2>4, <2>7
<1>10. CASE SpawnSuccessor \/ StillAwaiting
  <2>1. CASE SpawnSuccessor
    <3>1. proc' \in [Successors -> {"none", "starting", "waiting", "serving"}]
      BY <2>1 DEF SpawnSuccessor
    <3> QED BY <2>1, <3>1 DEF SpawnSuccessor, DropGuard, Goto
  <2>2. CASE StillAwaiting
    BY <2>2 DEF StillAwaiting, DropGuard, Goto
  <2> QED BY <1>10, <2>1, <2>2
<1>11. CASE ReleaseToAwaited
  BY <1>11 DEF ReleaseToAwaited, ReserveAndRelease, Goto, taskVars, admissionVars
<1>12. CASE MissesWindow
  <2>1. /\ UNCHANGED <<closed, up, inflight, ownerVars, drainClock, guarded>>
        /\ tick' = "batch" /\ anyWork' = anyWork
        /\ awaiting' = FALSE /\ backoff' = TRUE
        /\ pending' = pending \/ pending' = "none"
    BY <1>12 DEF MissesWindow, SwapFails, DropGuard, Goto
  <2>2. marker' = "none" /\ proc' = [proc EXCEPT !["staged"] = "none"]
    BY <1>12 DEF MissesWindow
  <2>3. /\ proc' \in [Successors -> {"none", "starting", "waiting", "serving"}]
        /\ proc'["staged"] = "none"
    BY <2>2
  <2>4. ClosedAtExit' /\ StagedIsAwaited'
    BY <2>1, <2>3
  <2>5. pending' \in {"none", "fresh", "starved"}
    BY <2>1
  <2>6. UNCHANGED <<up, inflight, owner, reserved, drainClock, guarded>>
    BY <2>1
  <2>7. TypeOK'
    BY <2>1, <2>2, <2>3, <2>5, <2>6
  <2> QED BY <2>4, <2>7
<1>13. CASE Times \/ TickerClaims \/ TickerExits
  <2>1. CASE PendingStarves \/ DrainIsOver \/ BackoffEnds
    <3>1. /\ pending' \in {"none", "fresh", "starved"}
          /\ drainClock' \in {"none", "on", "over"}
          /\ backoff' \in BOOLEAN
          /\ UNCHANGED <<closed, up, tick, anyWork, inflight, ownerVars, marker, proc,
                         awaiting, guarded>>
      BY <2>1 DEF PendingStarves, DrainIsOver, BackoffEnds, taskVars, admissionVars
    <3> QED BY <3>1
  <2>2. CASE TickerClaims \/ TickerExits
    BY <2>2 DEF TickerClaims, TickerExits, taskVars, admissionVars
  <2> QED BY <1>13, <2>1, <2>2 DEF Times
<1>14. ASSUME NEW s \in Successors, Starts \/ SaysReady(s) \/ TakesOver(s) \/ GivesUp(s)
       PROVE  TypeOK' /\ ClosedAtExit' /\ StagedIsAwaited'
  BY <1>14 DEF Starts, SaysReady, TakesOver, GivesUp, taskVars, admissionVars
<1>15. CASE UNCHANGED vars
  BY <1>15 DEF vars, taskVars, admissionVars
<1>16. CASE up = "handed" /\ \E r \in Runs : NextDaemonAnswers(r)
  BY <1>1, <1>16 DEF NextDaemonAnswers
<1> QED BY <1>2, <1>3, <1>4, <1>5, <1>6, <1>7, <1>8, <1>9, <1>10, <1>11, <1>12, <1>13,
           <1>14, <1>15, <1>16 DEF Next, Running, Main, Handing, Swapping

LEMMA HandInvHolds == Spec => []HandInv
<1>1. Init => HandInv
  <2> SUFFICES ASSUME Init PROVE HandInv
    OBVIOUS
  <2> USE DEF Init
  <2>1. TasksInit /\ closed = FALSE
    BY DEF TasksInit
  <2>2. TasksTypeOK
    BY <2>1 DEF TasksInit, TasksTypeOK
  <2>3. TypeOK
    <3>1. proc \in [Successors -> {"none", "starting", "waiting", "serving"}]
      OBVIOUS
    <3> QED BY <2>2, <3>1 DEF TypeOK, Successors
  <2>4. TasksAreOver /\ Started /\ StartsAdmitted
    BY <2>1 DEF TasksInit, TasksAreOver, Over, Started, StartsAdmitted
  <2>5. StopIsFinal /\ PromisesKept
    BY <2>1 DEF TasksInit, StopIsFinal, StoppedStaysStopped, PromisesKept
  <2>6. ClosedAtExit /\ StagedIsAwaited
    <3>1. proc["staged"] = "none"
      BY DEF Successors
    <3> QED BY <2>1, <3>1 DEF ClosedAtExit, StagedIsAwaited
  <2> QED BY <2>2, <2>3, <2>4, <2>5, <2>6 DEF HandInv, TaskInv
<1>2. HandInv /\ [Next]_vars => HandInv'
  BY StepKeepsTasks, StepKeepsMain DEF HandInv, TaskInv
<1> QED BY <1>1, <1>2, PTL DEF Spec

----
(* The theorems.                                                           *)

\* The variables keep their types, for any runs and workers.
THEOREM HandoffTypeCorrect == Spec => []TypeOK
<1>1. HandInv => TypeOK
  BY DEF HandInv
<1> QED BY <1>1, HandInvHolds, PTL

\* A forced swap never closes admission without a bound: the clock that will open it again is
\* set with it, and unset only after it (forced_swap_drain_active, begin_admission_drain).
THEOREM DrainsAreTimed == Spec => []DrainIsTimed
<1>1. Init => DrainIsTimed
  BY DEF Init, TasksInit, DrainIsTimed
<1>2. DrainIsTimed /\ [Next]_vars => DrainIsTimed'
  <2> SUFFICES ASSUME DrainIsTimed, [Next]_vars, draining' PROVE drainClock' # "none"
    BY DEF DrainIsTimed
  <2> USE DEF DrainIsTimed
  <2>1. ASSUME UNCHANGED <<draining, drainClock>> PROVE drainClock' # "none"
    BY <2>1
  <2>2. ASSUME draining' = FALSE PROVE FALSE
    BY <2>2
  <2>3. CASE Tasks \/ \E r \in Runs : NextDaemonAnswers(r)
    <3>1. UNCHANGED <<draining, drainClock>>
      BY <2>3 DEF Tasks, NextDaemonAnswers, mainVars, swapVars, Reap, RunStep, Admit, Refuse,
         StartExec, StartSpawn, StartFails, Exits, PipesClose, WindowEnds, AdoptRunning,
         AdoptDescendant, Adopt, KillForeground, AnswerRun, StopRemoves, StopKills, StopResult,
         Prune, admissionVars
    <3> QED BY <2>1, <3>1
  <2>4. CASE Drain
    <3>1. DrainActive(pending')
      BY <2>4 DEF Drain
    <3>2. drainClock' = IF pending' = "none" THEN "none"
                        ELSE IF DrainActive(pending') THEN "on" ELSE drainClock
      BY <2>4 DEF Drain
    <3> QED BY <3>1, <3>2 DEF DrainActive
  <2>5. CASE DrainIsOver
    BY <2>5 DEF DrainIsOver
  <2>6. CASE RefuseStaged \/ MissesWindow
    BY <2>2, <2>6 DEF RefuseStaged, MissesWindow, SwapFails
  <2>7. CASE SwapNotPrepared
    BY <2>7 DEF SwapNotPrepared, swapVars
  <2>8. CASE \/ Batch \/ Handing \/ GraceIsOver \/ NoSwap \/ PrepareSwap \/ SpawnSuccessor
             \/ ReleaseToAwaited \/ StillAwaiting
    <3>1. CASE Handing
      <4>1. CASE HandOver
        BY <2>1, <4>1 DEF HandOver, swapVars
      <4>2. CASE NoReadySuccessor \/ TooBusyForSuccessor \/ PrepareForReady \/ ReadyNotPrepared
        BY <2>1, <4>2 DEF NoReadySuccessor, TooBusyForSuccessor, PrepareForReady, TakeGuard,
           ReadyNotPrepared, swapVars, taskVars, admissionVars
      <4>3. CASE \E s \in Successors : ReleaseToReady(s) \/ ReadyIsGone(s)
        BY <2>1, <4>3 DEF ReleaseToReady, ReadyIsGone, swapVars, taskVars, admissionVars
      <4> QED BY <3>1, <4>1, <4>2, <4>3 DEF Handing
    <3>2. CASE Batch \/ GraceIsOver \/ NoSwap \/ PrepareSwap
      BY <2>1, <3>2 DEF Batch, GraceIsOver, EndPending, NoSwap, PrepareSwap, TakeGuard, mainVars,
         swapVars, taskVars, admissionVars
    <3>3. CASE SpawnSuccessor \/ ReleaseToAwaited \/ StillAwaiting
      BY <2>1, <3>3 DEF SpawnSuccessor, ReleaseToAwaited, StillAwaiting, swapVars, taskVars,
         admissionVars
    <3> QED BY <2>8, <3>1, <3>2, <3>3
  <2>9. CASE \/ PendingStarves \/ BackoffEnds \/ StopRequestEndsTasks \/ Leaves \/ TickerClaims
             \/ TickerExits \/ Starts \/ UNCHANGED vars
    BY <2>1, <2>9 DEF PendingStarves, BackoffEnds, StopRequestEndsTasks, EndPending, Leaves,
       TickerClaims, TickerExits, Starts, vars, mainVars, swapVars, taskVars, admissionVars
  <2>10. CASE \/ \E r \in Runs : EntryReleased(r) \/ BackgroundConvert(r)
              \/ \E s \in Successors : SaysReady(s) \/ TakesOver(s) \/ GivesUp(s)
    BY <2>1, <2>10 DEF EntryReleased, BackgroundConvert, SaysReady, TakesOver, GivesUp,
       swapVars, taskVars, admissionVars
  <2> QED BY <2>3, <2>4, <2>5, <2>6, <2>7, <2>8, <2>9, <2>10
          DEF Next, Running, Main, Times, Swapping
<1> QED BY <1>1, <1>2, PTL DEF Spec

\* A handoff loses none of the task ids that were given out when its guard was taken: each
\* has a result for the next daemon, or is over by a stop or by its retention
\* (prepare_task_handoff, TaskHandoff::commit, stop, expire_completed, prune_if_expired).
THEOREM HandoffKeepsAnswers == Spec => []AnswersSurvive
<1>1. HandInv => AnswersSurvive
  BY DEF HandInv, TaskInv, PromisesKept, AnswersSurvive
<1> QED BY <1>1, HandInvHolds, PTL

\* A task that was stopped is not reported as one that ended, however stops, attempts of a
\* handoff and the exit follow on each other.
THEOREM StopsAreFinal == Spec => []StoppedStaysStopped
<1>1. HandInv => StoppedStaysStopped
  BY DEF HandInv, TaskInv, StopIsFinal
<1> QED BY <1>1, HandInvHolds, PTL

\* A staged successor does not outlive the update it was started for without the daemon
\* awaiting it or leaving to it (attempt_self_update_handoff).
THEOREM StagedSuccessorIsAwaited == Spec => []StagedIsAwaited
<1>1. HandInv => StagedIsAwaited
  BY DEF HandInv
<1> QED BY <1>1, HandInvHolds, PTL

\* The registry that a guard rests on is not overtaken: no program starts while the guard
\* is held, or after the exit has closed admission (admit_execution, begin_handoff).
THEOREM GuardExcludesStarts == Spec => NoStartUnderGuard
<1>1. HandInv /\ [Next]_vars =>
        [\A r \in Runs : child[r] = "none" /\ child'[r] # "none" => ~writer /\ ~closed]_vars
  <2> SUFFICES ASSUME HandInv, Next, NEW r \in Runs, child[r] = "none", child'[r] # "none"
               PROVE  ~writer /\ ~closed
    OBVIOUS
  <2> USE DEF HandInv, TaskInv, TasksTypeOK, Started
  <2>1. ASSUME NEW q \in Runs, StartExec(q) \/ StartSpawn(q), up = "up"
        PROVE  ~writer /\ ~closed
    BY <2>1 DEF StartExec, StartSpawn, StartsAdmitted, ClosedAtExit
  <2>2. ASSUME Poll PROVE FALSE
    BY <2>2, PollEffect
  <2>3. ASSUME EndPending PROVE FALSE
    BY <2>3 DEF EndPending
  <2>4. ASSUME UNCHANGED child PROVE FALSE
    BY <2>4
  <2>5. ASSUME NEW q \in Runs, Exits(q) \/ KillForeground(q) \/ StopKills(q) PROVE FALSE
    BY <2>5 DEF Exits, KillForeground, StopKills
  <2>6. CASE Tasks /\ up = "up"
    BY <2>1, <2>2, <2>4, <2>5, <2>6 DEF Tasks, Reap, RunStep, Admit, Refuse, StartFails,
       PipesClose, WindowEnds, AdoptRunning, AdoptDescendant, Adopt, AnswerRun, StopRemoves,
       StopResult, Prune
  <2>7. CASE PrepareForReady \/ PrepareSwap \/ ReadyNotPrepared \/ SwapNotPrepared
    BY <2>2, <2>4, <2>7 DEF PrepareForReady, PrepareSwap, ReadyNotPrepared, SwapNotPrepared,
       TakeGuard, GuardRefused, PrepareSucceeds, PrepareFails
  <2>8. CASE GraceIsOver \/ StopRequestEndsTasks
    BY <2>3, <2>8 DEF GraceIsOver, StopRequestEndsTasks
  <2>9. CASE \/ Batch \/ NoReadySuccessor \/ TooBusyForSuccessor \/ HandOver \/ Drain
             \/ NoSwap \/ RefuseStaged \/ SpawnSuccessor \/ ReleaseToAwaited
             \/ StillAwaiting \/ MissesWindow
    BY <2>4, <2>9 DEF Batch, NoReadySuccessor, TooBusyForSuccessor, HandOver, Drain, NoSwap,
       RefuseStaged, SpawnSuccessor, ReleaseToAwaited, StillAwaiting, MissesWindow,
       SwapFails, taskVars
  <2>10. CASE Times \/ Leaves \/ TickerClaims \/ TickerExits \/ Starts
    BY <2>4, <2>10 DEF Times, PendingStarves, DrainIsOver, BackoffEnds, Leaves, TickerClaims,
       TickerExits, Starts, taskVars
  <2>11. CASE \/ \E q \in Runs : EntryReleased(q) \/ BackgroundConvert(q)
                                 \/ NextDaemonAnswers(q)
              \/ \E s \in Successors : \/ ReleaseToReady(s) \/ ReadyIsGone(s)
                                       \/ SaysReady(s) \/ TakesOver(s) \/ GivesUp(s)
    BY <2>4, <2>11 DEF EntryReleased, BackgroundConvert, NextDaemonAnswers, StopResult,
       Prune, ReleaseToReady, ReadyIsGone, SaysReady, TakesOver, GivesUp, taskVars
  <2> QED BY <2>6, <2>7, <2>8, <2>9, <2>10, <2>11 DEF Next, Running, Main, Handing, Swapping
<1> QED BY <1>1, HandInvHolds, PTL DEF Spec, NoStartUnderGuard
=============================================================================
