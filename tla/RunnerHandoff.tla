--------------------------- MODULE RunnerHandoff ---------------------------
(* The main loop of a daemon that is to be replaced by another one, with    *)
(* the programs it runs (BackgroundTasks).  Every tick serves a batch of    *)
(* dispatches, hands over to a takeover process that says it is ready, and  *)
(* tries one step of a staged update of the runner: start the staged binary *)
(* as a successor, await its readiness marker for ten seconds, reserve the  *)
(* ownership for it, release it and exit.  A staged update that has starved *)
(* closes admission to new programs for a bounded time; one that has waited *)
(* for ten minutes ends the tasks that block it.  The heartbeat ticker is a *)
(* thread of its own: it ends the process when the ownership is gone.       *)
(*                                                                          *)
(* Times are choices: how long the daemon has been idle, or a takeover has  *)
(* waited, is asked once, where it is compared.                             *)
EXTENDS BackgroundTasks

CONSTANT MaxClaims     \* bound: how many of the runs are ever claimed

VARIABLES
    up,          \* whether the daemon runs, or how it ended
    tick,        \* where the main loop is
    anyWork,     \* any_work of this tick
    inflight,    \* IN_FLIGHT: the runs whose dispatch the daemon waits for
    owner,       \* whom daemon.owner names
    reserved,    \* whom the handoff reservation names
    marker,      \* whose readiness marker daemon-takeover-ready.json is
    proc,        \* the takeover processes: the staged one, and one of the user
    pending,     \* pending_self_update, with how long it has waited
    awaiting,    \* HANDOFF_AWAITING
    backoff,     \* the staged version is inside its retry backoff
    drainClock,  \* forced_swap_drain_started: not set, running, over
    guarded      \* history: the runs promised an answer when a guard was taken

Successors == {"staged", "user"}

tickVars == <<tick, anyWork>>
ownerVars == <<owner, reserved>>
swapVars == <<pending, awaiting, backoff, drainClock>>
mainVars == <<up, tickVars, inflight, ownerVars, marker, proc, swapVars, guarded>>
vars == <<taskVars, mainVars>>

TypeOK ==
    /\ TasksTypeOK
    /\ up \in {"up", "handed", "lost", "idle"}
    /\ tick \in {"batch", "ready", "reserve_staged", "reserve_user", "drain",
                 "prepare", "attempt", "commit"}
    /\ anyWork \in BOOLEAN
    /\ inflight \subseteq Runs
    /\ owner \in {"me", "none"} \cup Successors
    /\ reserved \in {"none"} \cup Successors
    /\ marker \in {"none"} \cup Successors
    /\ proc \in [Successors -> {"none", "starting", "waiting", "serving"}]
    /\ pending \in {"none", "fresh", "starved"}
    /\ awaiting \in BOOLEAN /\ backoff \in BOOLEAN
    /\ drainClock \in {"none", "on", "over"}
    /\ guarded \subseteq Runs

Init ==
    /\ TasksInit
    /\ up = "up"
    /\ tick = "batch" /\ anyWork = FALSE
    /\ inflight = {}
    /\ owner = "me" /\ reserved = "none" /\ marker = "none"
    /\ proc = [s \in Successors |-> "none"]
    /\ pending \in {"none", "fresh", "starved"}   \* a staged binary found at boot keeps its age
    /\ awaiting = FALSE /\ backoff = FALSE /\ drainClock = "none"
    /\ guarded = {}

Alive(s) == proc[s] \in {"starting", "waiting", "serving"}

MarkerLives == marker # "none" /\ Alive(marker)

----
(* The dispatches of the runs.                                             *)

Idle == {r \in Runs : at[r] = "idle"}

\* dispatch-batch: the workers claim what is there and count it as work; a claim that the
\* drain or a cap rejects counts as well.
Batch ==
    /\ tick = "batch"
    /\ \E claimed \in SUBSET Idle :
          /\ Cardinality((Runs \ Idle) \cup claimed) <= MaxClaims
          /\ at' = [r \in Runs |-> IF r \in claimed THEN "claimed" ELSE at[r]]
          /\ inflight' = inflight \cup claimed
          /\ anyWork' \in {claimed # {}, TRUE}
    /\ tick' = "ready"
    /\ UNCHANGED <<admissionVars, child, pipes, entryVars, promised,
                   up, ownerVars, marker, proc, swapVars, guarded>>

\* The dispatch of a run that is over is answered, and its entry released.
EntryReleased(r) ==
    /\ r \in inflight
    /\ at[r] = "over"
    /\ inflight' = inflight \ {r}
    /\ UNCHANGED <<taskVars, up, tickVars, ownerVars, marker, proc, swapVars, guarded>>

\* background-convert takes the entry away while the thread of the run goes on.
BackgroundConvert(r) ==
    /\ r \in inflight
    /\ at[r] # "over"
    /\ inflight' = inflight \ {r}
    /\ UNCHANGED <<taskVars, up, tickVars, ownerVars, marker, proc, swapVars, guarded>>

\* The steps of the runs and of the registry, by the threads of this daemon.
RunStep(r) ==
    \/ Admit(r) \/ Refuse(r) \/ StartExec(r) \/ StartSpawn(r) \/ StartFails(r)
    \/ Exits(r) \/ PipesClose(r) \/ WindowEnds(r) \/ AdoptRunning(r) \/ KillForeground(r)
    \/ AnswerRun(r) \/ AdoptDescendant(r)
    \/ StopRemoves(r) \/ StopKills(r) \/ StopResult(r) \/ Prune(r)

Tasks == (Reap \/ \E r \in Runs : RunStep(r)) /\ UNCHANGED mainVars

----
(* hand_off_to_ready_successor.                                            *)

Goto(t) == tick' = t /\ UNCHANGED anyWork

\* ready_takeover_successor removes the marker of a process that is gone.
NoReadySuccessor ==
    /\ tick = "ready"
    /\ ~MarkerLives
    /\ marker' = "none"
    /\ Goto("drain")
    /\ UNCHANGED <<taskVars, up, inflight, ownerVars, proc, swapVars, guarded>>

\* A dispatch is in flight, and the takeover is not forced and has not waited a minute; the
\* staged successor is not forced and misses its window before.
TooBusyForSuccessor ==
    /\ tick = "ready"
    /\ MarkerLives
    /\ inflight # {}
    /\ Goto("drain")
    /\ UNCHANGED <<taskVars, up, inflight, ownerVars, marker, proc, swapVars, guarded>>

MayHandOff == MarkerLives /\ (inflight = {} \/ marker = "user")

\* A guard is taken: what has been promised until now is on record.
TakeGuard ==
    /\ PrepareSucceeds
    /\ guarded' = promised
    /\ UNCHANGED <<at, readers, closed, draining, stopping, stopped, promised>>

GuardRefused ==
    /\ PrepareFails
    /\ UNCHANGED <<at, readers, writer, closed, stopping, stopped, promised, guarded>>

\* The pid of the marker is kept for the reservation.
Reserving == [s \in Successors |-> IF s = "staged" THEN "reserve_staged" ELSE "reserve_user"]

PrepareForReady ==
    /\ tick = "ready"
    /\ MayHandOff
    /\ TakeGuard
    /\ Goto(Reserving[marker])
    /\ UNCHANGED <<up, inflight, ownerVars, marker, proc, swapVars>>

ReadyNotPrepared ==
    /\ tick = "ready"
    /\ MayHandOff
    /\ GuardRefused
    /\ Goto("drain")
    /\ UNCHANGED <<draining, up, inflight, ownerVars, marker, proc, swapVars>>

\* reserve_ownership_for_handoff wants a live process; release_ownership_for_handoff
\* removes the owner file if it still names this daemon.
ReserveAndRelease(s) ==
    /\ Alive(s)
    /\ reserved' = s
    /\ owner' = IF owner = "me" THEN "none" ELSE owner

ReleaseToReady(s) ==
    /\ tick = Reserving[s]
    /\ ReserveAndRelease(s)
    /\ Goto("commit")
    /\ UNCHANGED <<taskVars, up, inflight, marker, proc, swapVars, guarded>>

ReadyIsGone(s) ==
    /\ tick = Reserving[s]
    /\ ~Alive(s)
    /\ writer' = FALSE
    /\ Goto("drain")
    /\ UNCHANGED <<at, readers, closed, draining, child, pipes, entryVars, promised,
                   up, inflight, ownerVars, marker, proc, swapVars, guarded>>

\* The claims in flight are queued again for the successor, and the daemon exits.
HandOver ==
    /\ tick = "commit"
    /\ Commit
    /\ up' = "handed"
    /\ UNCHANGED <<at, readers, draining, child, pipes, entryVars, promised,
                   tickVars, inflight, ownerVars, marker, proc, swapVars, guarded>>

----
(* The staged update of the runner.                                        *)

\* SELF_UPDATE_MAX_STARVED_MS after the staging.
PendingStarves ==
    /\ pending = "fresh"
    /\ pending' = "starved"
    /\ UNCHANGED <<taskVars, up, tickVars, inflight, ownerVars, marker, proc, awaiting,
                   backoff, drainClock, guarded>>

\* FORCED_SWAP_DRAIN_MAX_MS, and HANDOFF_RETRY_BACKOFF.
DrainIsOver ==
    /\ drainClock = "on"
    /\ drainClock' = "over"
    /\ UNCHANGED <<taskVars, up, tickVars, inflight, ownerVars, marker, proc, pending,
                   awaiting, backoff, guarded>>

BackoffEnds ==
    /\ backoff
    /\ backoff' = FALSE
    /\ UNCHANGED <<taskVars, up, tickVars, inflight, ownerVars, marker, proc, pending,
                   awaiting, drainClock, guarded>>

\* A staged binary of the update poll is dropped inside the backoff of its version.
Received ==
    \/ UNCHANGED pending
    \/ pending = "none" /\ ~backoff /\ pending' = "fresh"

\* Mutant: the drain has no bound.
DrainWhileStarved(p) == p = "starved"

\* forced_swap_drain_active: the backoff does not matter.
DrainActive(p) == p = "starved" /\ drainClock # "over"

\* begin_admission_drain or end_admission_drain, every tick.
Drain ==
    /\ tick = "drain"
    /\ Received
    /\ draining' = DrainActive(pending')
    /\ drainClock' = IF pending' = "none" THEN "none"
                     ELSE IF DrainActive(pending') THEN "on" ELSE drainClock
    /\ Goto("prepare")
    /\ UNCHANGED <<at, readers, writer, closed, child, pipes, entryVars, promised,
                   up, inflight, ownerVars, marker, proc, awaiting, backoff, guarded>>

\* stop_pending_tasks: the entries that block a handoff are ended one by one.
EndPending ==
    LET gone == {r \in registry : Blocking(r, ended, pipes)}
    IN  /\ gone # {}
        /\ registry' = registry \ gone
        /\ child' = [r \in Runs |-> IF r \in gone THEN "gone" ELSE child[r]]
        /\ pipes' = [r \in Runs |-> IF r \in gone THEN "none" ELSE pipes[r]]
        /\ results' = results \ gone
        /\ stopped' = stopped \cup gone
        /\ UNCHANGED <<at, admissionVars, ended, stopping, expired, promised>>

\* SELF_UPDATE_DETACHED_GRACE_MS after the staging.
GraceIsOver ==
    /\ tick = "prepare"
    /\ pending = "starved" /\ ~backoff
    /\ EndPending
    /\ UNCHANGED mainVars

\* A forced swap ignores any_work.
MayPrepare ==
    /\ pending # "none" /\ ~backoff
    /\ DrainActive(pending) \/ ~anyWork
    /\ inflight = {}

NoSwap ==
    /\ tick = "prepare"
    /\ ~MayPrepare
    /\ Goto("batch")
    /\ UNCHANGED <<taskVars, up, inflight, ownerVars, marker, proc, swapVars, guarded>>

PrepareSwap ==
    /\ tick = "prepare"
    /\ MayPrepare
    /\ TakeGuard
    /\ Goto("attempt")
    /\ UNCHANGED <<up, inflight, ownerVars, marker, proc, swapVars>>

\* An error of the result store also ends the drain.
SwapNotPrepared ==
    /\ tick = "prepare"
    /\ MayPrepare
    /\ GuardRefused
    /\ draining' \in {draining, FALSE}
    /\ Goto("batch")
    /\ UNCHANGED <<up, inflight, ownerVars, marker, proc, swapVars>>

\* The guard is dropped after a step of attempt_self_update_handoff that returns false.
DropGuard ==
    /\ writer' = FALSE
    /\ Goto("batch")

\* A failed swap backs off and ends its drain; the staged file is there or not.
SwapFails ==
    /\ awaiting' = FALSE
    /\ backoff' = TRUE
    /\ draining' = FALSE
    /\ pending' \in {pending, "none"}
    /\ DropGuard
    /\ UNCHANGED <<at, readers, closed, child, pipes, entryVars, promised,
                   up, inflight, ownerVars, drainClock, guarded>>

\* The self-check refuses the binary, or the successor cannot be spawned.
RefuseStaged ==
    /\ tick = "attempt"
    /\ ~awaiting
    /\ SwapFails
    /\ marker' \in {marker, "none"}
    /\ UNCHANGED proc

SpawnSuccessor ==
    /\ tick = "attempt"
    /\ ~awaiting
    /\ marker' = "none"
    /\ proc' = [proc EXCEPT !["staged"] = "starting"]
    /\ awaiting' = TRUE
    /\ DropGuard
    /\ UNCHANGED <<at, readers, closed, draining, child, pipes, entryVars, promised,
                   up, inflight, ownerVars, pending, backoff, drainClock, guarded>>

\* Any takeover of that version may have written the marker.
ReleaseToAwaited ==
    /\ tick = "attempt"
    /\ awaiting
    /\ marker # "none"
    /\ ReserveAndRelease(marker)
    /\ awaiting' = FALSE
    /\ pending' = "none"
    /\ Goto("commit")
    /\ UNCHANGED <<taskVars, up, inflight, marker, proc, backoff, drainClock, guarded>>

StillAwaiting ==
    /\ tick = "attempt"
    /\ awaiting
    /\ ~MarkerLives
    /\ DropGuard
    /\ UNCHANGED <<at, readers, closed, draining, child, pipes, entryVars, promised,
                   up, inflight, ownerVars, marker, proc, swapVars, guarded>>

\* Mutant: the successor that missed its window is left alone.
MissesWindowAlive ==
    /\ tick = "attempt"
    /\ awaiting
    /\ ~MarkerLives
    /\ marker' = "none"
    /\ UNCHANGED proc
    /\ SwapFails

\* The window is over: stop_handoff_successor kills it and removes the marker.
MissesWindow ==
    /\ tick = "attempt"
    /\ awaiting
    /\ ~MarkerLives
    /\ proc' = [proc EXCEPT !["staged"] = "none"]
    /\ marker' = "none"
    /\ SwapFails

----
(* The rest of a tick, the ticker and the takeover processes.              *)

\* A stop request has waited for STOP_REQUEST_DETACHED_GRACE_MS.
StopRequestEndsTasks ==
    /\ tick = "batch"
    /\ EndPending
    /\ UNCHANGED mainVars

\* A stop request is honoured after a minute without work, and an hour without any ends the
\* daemon as well; the first releases the ownership, both leave the tasks to themselves.
Leaves ==
    /\ tick = "batch"
    /\ ~anyWork
    /\ inflight = {}
    /\ up' = "idle"
    /\ owner' \in IF owner = "me" THEN {"me", "none"} ELSE {owner}
    /\ UNCHANGED <<taskVars, tickVars, inflight, reserved, marker, proc, swapVars, guarded>>

\* holds_heartbeat_authority: no owner is claimed back, unless the reservation of a live
\* process blocks it; with the ownership gone the ticker hands the claims over and exits.
Blocked(s) == reserved \notin {"none", s} /\ Alive(reserved)

TickerClaims ==
    /\ owner = "none"
    /\ ~Blocked("me")
    /\ owner' = "me"
    /\ UNCHANGED <<taskVars, up, tickVars, inflight, reserved, marker, proc, swapVars,
                   guarded>>

TickerExits ==
    /\ owner \in Successors \/ (owner = "none" /\ Blocked("me"))
    /\ up' = "lost"
    /\ UNCHANGED <<taskVars, tickVars, inflight, ownerVars, marker, proc, swapVars, guarded>>

\* run_takeover: the user starts one; it builds its engine, writes the marker, waits for the
\* ownership, and gives up after two minutes.
Starts ==
    /\ proc["user"] = "none"
    /\ proc' = [proc EXCEPT !["user"] = "starting"]
    /\ UNCHANGED <<taskVars, up, tickVars, inflight, ownerVars, marker, swapVars, guarded>>

SaysReady(s) ==
    /\ proc[s] = "starting"
    /\ proc' = [proc EXCEPT ![s] = "waiting"]
    /\ marker' = s
    /\ UNCHANGED <<taskVars, up, tickVars, inflight, ownerVars, swapVars, guarded>>

TakesOver(s) ==
    /\ proc[s] = "waiting"
    /\ owner = "none"
    /\ ~Blocked(s)
    /\ owner' = s
    /\ proc' = [proc EXCEPT ![s] = "serving"]
    /\ marker' = "none"
    /\ UNCHANGED <<taskVars, up, tickVars, inflight, reserved, swapVars, guarded>>

GivesUp(s) ==
    /\ proc[s] \in {"starting", "waiting"}
    /\ proc' = [proc EXCEPT ![s] = "none"]
    /\ UNCHANGED <<taskVars, up, tickVars, inflight, ownerVars, marker, swapVars, guarded>>

\* The daemon that took over answers from task-results/.
NextDaemonAnswers(r) ==
    /\ \/ StopResult(r)
       \/ Prune(r)
    /\ UNCHANGED mainVars

Handing ==
    \/ NoReadySuccessor \/ TooBusyForSuccessor \/ PrepareForReady \/ ReadyNotPrepared
    \/ \E s \in Successors : ReleaseToReady(s) \/ ReadyIsGone(s)
    \/ HandOver

Swapping ==
    \/ Drain \/ GraceIsOver \/ NoSwap \/ PrepareSwap \/ SwapNotPrepared
    \/ RefuseStaged \/ SpawnSuccessor \/ ReleaseToAwaited \/ StillAwaiting \/ MissesWindow

Main == Batch \/ Handing \/ Swapping

Times == PendingStarves \/ DrainIsOver \/ BackoffEnds

Running ==
    /\ up = "up"
    /\ \/ Main \/ Times \/ Tasks
       \/ StopRequestEndsTasks \/ Leaves
       \/ TickerClaims \/ TickerExits \/ Starts
       \/ \E r \in Runs : EntryReleased(r) \/ BackgroundConvert(r)
       \/ \E s \in Successors : SaysReady(s) \/ TakesOver(s) \/ GivesUp(s)

Next ==
    \/ Running
    \/ up = "handed" /\ \E r \in Runs : NextDaemonAnswers(r)

Spec ==
    /\ Init /\ [][Next]_vars
    /\ WF_vars(up = "up" /\ Main)
    /\ WF_vars(up = "up" /\ DrainIsOver)

----
(* Properties.                                                             *)

\* The task ids that were given out when the handoff took its guard can be answered by the
\* daemon that takes over: the result is on disk, unless the task is being stopped or was, or
\* its retention is over.
AnswersSurvive ==
    up = "handed" => guarded \subseteq results \cup stopping \cup stopped \cup expired

\* A task whose stop was answered leaves no result behind that the next daemon would
\* report as an ordinary end, whichever attempt of a handoff saved it in between.
StoppedStaysStopped == stopped \cap results = {}

\* No program is started once a guard is held, and none after admission is closed: the
\* check of the registry that the guard rests on would be stale.
NoStartUnderGuard ==
    [][\A r \in Runs :
          child[r] = "none" /\ child'[r] # "none" => ~writer /\ ~closed]_vars

\* A staged successor that runs is one the daemon awaits or hands over to: none is left to
\* take the ownership after the update was given up.
StagedIsAwaited ==
    up = "up" /\ proc["staged"] \in {"starting", "waiting"} => awaiting \/ tick = "commit"

\* A forced swap closes admission for a bounded time: the daemon opens it again, or is gone.
DrainEnds == draining ~> ~draining \/ up # "up"

=============================================================================
