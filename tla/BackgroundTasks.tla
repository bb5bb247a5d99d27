--------------------------- MODULE BackgroundTasks ---------------------------
(* The programs a daemon runs for its guests.  An exec_js run waits for its *)
(* child in the foreground and hands it to the task registry when the wait  *)
(* is over; task-spawn registers its child at once.  The registry polls its *)
(* entries, kills them at their deadline, and gives up a task that is       *)
(* stopped.  A handoff of the daemon closes admission and writes the result *)
(* of every completed task to a file that the next daemon answers from.     *)
(*                                                                          *)
(* The module has no next-state relation of its own: RunnerHandoff composes *)
(* these steps with the main loop of the daemon that owns the tasks.        *)
EXTENDS Naturals, FiniteSets

CONSTANTS
    Execs,     \* runs of exec_js
    Spawns,    \* runs of task-spawn
    Workers    \* gm_pool_size: how many foreground children there may be

ASSUME RunsAssumption == Execs \cap Spawns = {} /\ Workers \in Nat \ {0}

Runs == Execs \cup Spawns

VARIABLES
    at,         \* how far the thread of each run is
    readers,    \* the runs that hold the admission lock for reading
    writer,     \* whether a TaskHandoff holds it for writing
    closed,     \* EXECUTION_CLOSED
    draining,   \* ADMISSION_DRAINING
    child,      \* the direct child of each run
    pipes,      \* its output drains: none (or taken by the entry), open, closed
    registry,   \* the runs that have a TaskEntry
    ended,      \* the entries that are finished (exited, or killed at their deadline)
    stopping,   \* taken out of the registry by stop, not yet killed
    results,    \* the runs that have a record in task-results/
    expired,    \* history: forgotten RETENTION_MS after the end
    promised,   \* history: the runs whose caller was given a task id
    stopped     \* history: the runs whose stop was answered

admissionVars == <<readers, writer, closed, draining>>
entryVars == <<registry, ended, stopping, results, expired, stopped>>
taskVars == <<at, admissionVars, child, pipes, entryVars, promised>>

TasksTypeOK ==
    /\ at \in [Runs -> {"idle", "claimed", "admitted", "waiting", "decides", "over"}]
    /\ readers \subseteq Runs
    /\ writer \in BOOLEAN /\ closed \in BOOLEAN /\ draining \in BOOLEAN
    /\ child \in [Runs -> {"none", "live", "gone"}]
    /\ pipes \in [Runs -> {"none", "open", "closed"}]
    /\ registry \subseteq Runs /\ stopping \subseteq Runs \ registry
    /\ ended \subseteq Runs /\ results \subseteq Runs /\ expired \subseteq Runs
    /\ promised \subseteq Runs /\ stopped \subseteq Runs

TasksInit ==
    /\ at = [r \in Runs |-> "idle"]
    /\ readers = {} /\ writer = FALSE /\ closed = FALSE /\ draining = FALSE
    /\ child = [r \in Runs |-> "none"]
    /\ pipes = [r \in Runs |-> "none"]
    /\ registry = {} /\ stopping = {}
    /\ ended = {} /\ results = {} /\ expired = {}
    /\ promised = {} /\ stopped = {}

----
(* A run, from its dispatch to its reply.                                  *)

Goes(r, s) == at' = [at EXCEPT ![r] = s]

Foreground == {r \in Execs : at[r] \in {"waiting", "decides"}}

\* admit_execution: the read lock is free of a writer, and the flags are read under it.
MayStart == ~closed /\ ~draining

Admit(r) ==
    /\ at[r] = "claimed"
    /\ ~writer
    /\ MayStart
    /\ Goes(r, "admitted")
    /\ readers' = readers \cup {r}
    /\ UNCHANGED <<writer, closed, draining, child, pipes, entryVars, promised>>

Refuse(r) ==
    /\ at[r] = "claimed"
    /\ ~writer
    /\ ~MayStart
    /\ Goes(r, "over")
    /\ UNCHANGED <<admissionVars, child, pipes, entryVars, promised>>

\* exec_js gets a worker, waiting for one with the read lock held, starts its child and gives
\* the lock back.
StartExec(r) ==
    /\ r \in Execs /\ at[r] = "admitted"
    /\ Cardinality(Foreground) < Workers
    /\ child' = [child EXCEPT ![r] = "live"]
    /\ pipes' = [pipes EXCEPT ![r] = "open"]
    /\ Goes(r, "waiting")
    /\ readers' = readers \ {r}
    /\ UNCHANGED <<writer, closed, draining, entryVars, promised>>

\* task-spawn registers its child before it gives the lock back.
StartSpawn(r) ==
    /\ r \in Spawns /\ at[r] = "admitted"
    /\ child' = [child EXCEPT ![r] = "live"]
    /\ pipes' = [pipes EXCEPT ![r] = "open"]
    /\ Goes(r, "over")
    /\ registry' = registry \cup {r}
    /\ promised' = promised \cup {r}
    /\ readers' = readers \ {r}
    /\ UNCHANGED <<writer, closed, draining, ended, stopping, results, expired, stopped>>

\* The command cannot be spawned, or its containment cannot be established.
StartFails(r) ==
    /\ at[r] = "admitted"
    /\ r \in Execs => Cardinality(Foreground) < Workers
    /\ Goes(r, "over")
    /\ readers' = readers \ {r}
    /\ UNCHANGED <<writer, closed, draining, child, pipes, entryVars, promised>>

\* The child exits; a descendant may keep its pipes open.
Exits(r) ==
    /\ child[r] = "live"
    /\ child' = [child EXCEPT ![r] = "gone"]
    /\ \/ pipes' = [pipes EXCEPT ![r] = "closed"]
       \/ UNCHANGED pipes
    /\ UNCHANGED <<at, admissionVars, entryVars, promised>>

PipesClose(r) ==
    /\ child[r] = "gone"
    /\ pipes[r] = "open"
    /\ pipes' = [pipes EXCEPT ![r] = "closed"]
    /\ UNCHANGED <<at, admissionVars, child, entryVars, promised>>

\* wait_sync_window gives up: the window is over, or the host is draining.
WindowEnds(r) ==
    /\ at[r] = "waiting"
    /\ child[r] = "live"
    /\ Goes(r, "decides")
    /\ UNCHANGED <<admissionVars, child, pipes, entryVars, promised>>

\* adopt_running: the caller gets a task id for a child that goes on.
Adopt(r) ==
    /\ registry' = registry \cup {r}
    /\ promised' = promised \cup {r}
    /\ Goes(r, "over")
    /\ UNCHANGED <<admissionVars, child, pipes, ended, stopping, results, expired, stopped>>

AdoptRunning(r) ==
    /\ at[r] = "decides"
    /\ ~draining
    /\ Adopt(r)

\* limit_ms is over, or the host drains: the child is killed and the run answered.
KillForeground(r) ==
    /\ at[r] = "decides"
    /\ child' = [child EXCEPT ![r] = "gone"]
    /\ pipes' = [pipes EXCEPT ![r] = "none"]
    /\ Goes(r, "over")
    /\ UNCHANGED <<admissionVars, entryVars, promised>>

\* The child has exited in the window: with its pipes closed the run is answered, with a
\* descendant still writing it goes on as a task.
AnswerRun(r) ==
    /\ at[r] = "waiting"
    /\ child[r] = "gone"
    /\ pipes[r] = "closed"
    /\ pipes' = [pipes EXCEPT ![r] = "none"]
    /\ Goes(r, "over")
    /\ UNCHANGED <<admissionVars, child, entryVars, promised>>

AdoptDescendant(r) ==
    /\ at[r] = "waiting"
    /\ child[r] = "gone"
    /\ pipes[r] = "open"
    /\ Adopt(r)

----
(* The registry.  Deadlines and retention are choices of the poll that asks *)
(* for them.                                                               *)

\* drains_pending and is_handoff_blocking of an entry.
DrainsPending(p) == p # "none"
Blocking(r, over, p) == r \notin over \/ DrainsPending(p[r])

\* poll_entry of every entry: `late' are past their timeout_ms, and the kill closes the pipes
\* of `closes'; an entry that is finished takes the output of its closed pipes.
PollAll(late, closes) ==
    LET killed == {r \in late : IF r \in ended THEN DrainsPending(pipes[r])
                                ELSE child[r] = "live"}
        over   == ended \cup {r \in registry : child[r] = "gone" \/ r \in killed}
        shut   == {r \in registry : pipes[r] = "closed" \/ r \in killed \cap closes}
    IN  /\ ended' = over
        /\ child' = [r \in Runs |-> IF r \in killed THEN "gone" ELSE child[r]]
        /\ pipes' = [r \in Runs |->
                        IF r \notin shut THEN pipes[r]
                        ELSE IF r \in over THEN "none" ELSE "closed"]

\* expire_completed, after the poll.
Completed == {r \in registry : ~Blocking(r, ended', pipes')}

Expire(gone) ==
    /\ registry' = registry \ gone
    /\ expired' = expired \cup gone

Poll ==
    /\ \E late \in SUBSET registry : \E closes \in SUBSET late : PollAll(late, closes)
    /\ \E gone \in SUBSET Completed : Expire(gone)

\* The reaper, every two seconds; list and output poll in the same way.
Reap ==
    /\ Poll
    /\ UNCHANGED <<at, admissionVars, stopping, results, promised, stopped>>

\* stop: the entry leaves the registry at once,
StopRemoves(r) ==
    /\ r \in registry
    /\ registry' = registry \ {r}
    /\ stopping' = stopping \cup {r}
    /\ UNCHANGED <<at, admissionVars, child, pipes, ended, results, expired, promised,
                   stopped>>

\* Mutant: the saved result stays.
StopKeepsResult(r) ==
    /\ r \in stopping
    /\ stopping' = stopping \ {r}
    /\ child' = [child EXCEPT ![r] = "gone"]
    /\ pipes' = [pipes EXCEPT ![r] = "none"]
    /\ stopped' = stopped \cup {r}
    /\ UNCHANGED <<at, admissionVars, registry, ended, results, expired, promised>>

\* its group is killed, and the result that a handoff may have written is removed.
StopKills(r) ==
    /\ r \in stopping
    /\ stopping' = stopping \ {r}
    /\ child' = [child EXCEPT ![r] = "gone"]
    /\ pipes' = [pipes EXCEPT ![r] = "none"]
    /\ results' = results \ {r}
    /\ stopped' = stopped \cup {r}
    /\ UNCHANGED <<at, admissionVars, registry, ended, expired, promised>>

\* stop of a task that only the result store knows (the daemon after a handoff).
StopResult(r) ==
    /\ r \in results \ (registry \cup stopping)
    /\ results' = results \ {r}
    /\ stopped' = stopped \cup {r}
    /\ UNCHANGED <<at, admissionVars, child, pipes, registry, ended, stopping, expired,
                   promised>>

\* prune_if_expired, on the way of a read or of the next save.
Prune(r) ==
    /\ r \in results
    /\ results' = results \ {r}
    /\ expired' = expired \cup {r}
    /\ UNCHANGED <<at, admissionVars, child, pipes, registry, ended, stopping, promised,
                   stopped>>

----
(* prepare_task_handoff, under the lock of the registry: a poll, and then   *)
(* one of three outcomes.  A guard keeps admission closed until it is       *)
(* dropped, or committed.                                                   *)

Unfinished == {r \in registry' : Blocking(r, ended', pipes')}

\* Mutants: the entries are saved without the check that they are finished, and the
\* programs that are being started are not waited for.
PrepareUnfinished ==
    /\ readers = {} /\ ~writer
    /\ Poll
    /\ results' = results \cup Completed
    /\ writer' = TRUE

PrepareUnlocked ==
    /\ ~writer
    /\ Poll
    /\ Unfinished = {}
    /\ results' = results \cup registry'
    /\ writer' = TRUE

PrepareSucceeds ==
    /\ readers = {} /\ ~writer
    /\ Poll
    /\ Unfinished = {}
    /\ results' = results \cup registry'
    /\ writer' = TRUE

\* Somebody executes, an entry is not finished, or the store refuses (and may have
\* written some of the records).
PrepareFails ==
    \/ /\ readers # {}
       /\ UNCHANGED <<child, pipes, registry, ended, expired, results>>
    \/ /\ readers = {} /\ ~writer
       /\ Poll
       /\ IF Unfinished # {} THEN UNCHANGED results
          ELSE /\ registry' # {}
               /\ \E saved \in SUBSET registry' : results' = results \cup saved

\* TaskHandoff::commit; a guard that is dropped instead changes nothing but the lock.
Commit ==
    /\ closed' = TRUE
    /\ writer' = FALSE

=============================================================================
