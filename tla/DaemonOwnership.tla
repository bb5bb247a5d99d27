-------------------------- MODULE DaemonOwnership --------------------------
(* How the processes of one install directory agree on the one that serves. *)
(* The owner file names it; its status record, renewed by its ticker, says  *)
(* that it runs.  A process claims the owner file by creating it, or takes  *)
(* it over from an owner that is dead or stale, under a lock that only the  *)
(* takers know.  Neither the creation nor a release goes through that lock: *)
(* for a while two processes may hold that they own the file, and the next  *)
(* tick of the one it does not name sends it away.                          *)
(*                                                                          *)
(* The module has no next-state relation of its own: DaemonGuard composes   *)
(* it with the guards and clients that start the processes.                 *)
EXTENDS Naturals, FiniteSets

CONSTANTS
    Daemons,      \* process ids
    MaxEvents     \* bound: crashes, hangs, stops, takeovers, and times that a process is so
                  \* slow that what it wrote goes stale

ASSUME OwnershipAssumption ==
    "none" \notin Daemons /\ MaxEvents \in Nat

VARIABLES
    pc,        \* where each process is
    mode,      \* why it claims: to boot, to take over (again, from the installed path), or in
               \* a tick
    seen,      \* the owner it has judged stale
    owner,     \* whom the owner file names
    young,     \* the owner file is younger than DAEMON_STALE_MS
    status,    \* who wrote daemon-status.json
    fresh,     \* not longer than DAEMON_STALE_MS ago
    taker,     \* who holds takeover.lock
    reserved,  \* whom the handoff reservation names
    backoff,   \* a wasted start is on record
    marker,    \* there is an intentional-exit marker
    events,
    excused    \* history: a process was too slow, or the owner file was removed

fileVars == <<owner, young, status, fresh, taker, reserved>>
noteVars == <<backoff, marker>>
eventVars == <<events, excused>>
ownVars == <<pc, mode, seen, fileVars, noteVars, eventVars>>

Claiming == {"link", "judge", "lock", "rename", "reread"}

OwnershipTypeOK ==
    /\ pc \in [Daemons -> {"starting", "waiting", "denied", "confirm", "booted",
                           "serving", "removing", "hung", "dead"}
                          \cup Claiming]
    /\ mode \in [Daemons -> {"boot", "takeover", "again", "orphaned", "displaced"}]
    /\ seen \in [Daemons -> Daemons \cup {"none"}]
    /\ {owner, status, taker, reserved} \subseteq Daemons \cup {"none"}
    /\ young \in BOOLEAN /\ fresh \in BOOLEAN
    /\ backoff \in BOOLEAN /\ marker \in BOOLEAN
    /\ events \in 0..MaxEvents /\ excused \in BOOLEAN

OwnershipInit ==
    /\ pc = [d \in Daemons |-> "dead"]
    /\ mode = [d \in Daemons |-> "boot"]
    /\ seen = [d \in Daemons |-> "none"]
    /\ owner = "none" /\ young = FALSE
    /\ status = "none" /\ fresh = FALSE
    /\ taker = "none" /\ reserved = "none"
    /\ backoff = FALSE /\ marker = FALSE
    /\ events = 0 /\ excused = FALSE

Alive(d) == d # "none" /\ pc[d] # "dead"

Runs(d) == Alive(d) /\ pc[d] # "hung"

\* A process id that is free, and that nothing names any more.
Startable(d) ==
    pc[d] = "dead" /\ d \notin {owner, status, reserved} /\ \A e \in Daemons : seen[e] # d

Happens == events < MaxEvents /\ events' = events + 1

Goes(d, s) == pc' = [pc EXCEPT ![d] = s]

\* The owner's own record, and recent: what is_daemon_fresh and the refusal of a start ask.
OwnerBeats == fresh /\ status = owner /\ Alive(owner)

\* is_daemon_fresh does not ask who owns the file.
DaemonFresh == fresh /\ Alive(status)

----
(* claim_ownership.                                                        *)

\* It returns TRUE: a boot, which ends the backoff, and a takeover go on with their first
\* heartbeat, a tick with the daemon's work.
Granted(d) ==
    /\ Goes(d, CASE mode[d] \in {"boot", "takeover", "again"} -> "booted"
                 [] mode[d] \in {"orphaned", "displaced"} -> "confirm")
    /\ backoff' = (backoff /\ mode[d] # "boot")

Denied(d) == Goes(d, "denied") /\ UNCHANGED backoff

Answer(d, granted) == IF granted THEN Granted(d) ELSE Denied(d)

\* A reservation of another live process blocks; then the file is linked if there is none.
Link(d) ==
    /\ pc[d] = "link"
    /\ IF reserved # d /\ Alive(reserved)
       THEN Denied(d) /\ UNCHANGED <<owner, young>>
       ELSE IF owner = "none"
       THEN Granted(d) /\ owner' = d /\ young' = TRUE
       ELSE Goes(d, "judge") /\ UNCHANGED <<owner, young, backoff>>
    /\ UNCHANGED <<mode, seen, status, fresh, taker, reserved, marker, eventVars>>

\* Mutant: only a dead owner is replaced.
OwnerDead == ~Alive(owner)

\* A record of another process says nothing of the owner: the age of the file does.
OwnerStale ==
    \/ ~Alive(owner)
    \/ IF status = owner THEN ~fresh ELSE ~young

\* The owner is judged twice: the first time only to return early.
Judge(d) ==
    /\ pc[d] = "judge"
    /\ IF OwnerStale
       THEN Goes(d, "lock") /\ seen' = [seen EXCEPT ![d] = owner] /\ UNCHANGED backoff
       ELSE Answer(d, owner = d) /\ UNCHANGED seen
    /\ UNCHANGED <<mode, fileVars, marker, eventVars>>

\* What was judged is forgotten when the claim returns.
Forgets(d) == seen' = [seen EXCEPT ![d] = "none"]

\* TAKEOVER_LOCK_WAIT_MS pass.
LockTimesOut(d) ==
    /\ pc[d] = "lock"
    /\ taker # "none"
    /\ Denied(d)
    /\ Forgets(d)
    /\ UNCHANGED <<mode, fileVars, marker, eventVars>>

\* Mutant: the file is not read again under the lock.
TakesBlindly(d) ==
    /\ pc[d] = "lock"
    /\ taker = "none"
    /\ Goes(d, "rename") /\ taker' = d
    /\ UNCHANGED <<mode, seen, owner, young, status, fresh, reserved, noteVars, eventVars>>

\* install_stale_owner, under the lock: the file must still name the owner that was judged.
TakeLock(d) ==
    /\ pc[d] = "lock"
    /\ taker = "none"
    /\ IF owner = seen[d] THEN Goes(d, "rename") /\ taker' = d /\ UNCHANGED <<seen, backoff>>
       ELSE Denied(d) /\ Forgets(d) /\ UNCHANGED taker
    /\ UNCHANGED <<mode, owner, young, status, fresh, reserved, marker, eventVars>>

Rename(d) ==
    /\ pc[d] = "rename"
    /\ owner' = d /\ young' = TRUE
    /\ Goes(d, "reread")
    /\ UNCHANGED <<mode, seen, status, fresh, taker, reserved, noteVars, eventVars>>

Reread(d) ==
    /\ pc[d] = "reread"
    /\ Answer(d, owner = d)
    /\ Forgets(d)
    /\ taker' = "none"
    /\ UNCHANGED <<mode, owner, young, status, fresh, reserved, marker, eventVars>>

Claim(d) ==
    Link(d) \/ Judge(d) \/ TakeLock(d) \/ LockTimesOut(d) \/ Rename(d) \/ Reread(d)

----
(* The life of a daemon.                                                   *)

\* run_daemon: a start that the owner's record refuses is wasted.
Refused(d) ==
    /\ pc[d] = "starting"
    /\ OwnerBeats
    /\ Goes(d, "dead")
    /\ backoff' = TRUE
    /\ UNCHANGED <<mode, seen, fileVars, marker, eventVars>>

Boot(d) ==
    /\ pc[d] = "starting"
    /\ ~OwnerBeats
    /\ Goes(d, "link")
    /\ mode' = [mode EXCEPT ![d] = "boot"]
    /\ UNCHANGED <<seen, fileVars, noteVars, eventVars>>

\* claim_ownership_when_free: again, unless the owner is alive or the time is over.
ClaimsAgain(d) ==
    /\ pc[d] = "denied"
    /\ mode[d] = "boot"
    /\ ~Alive(owner)
    /\ Goes(d, "link")
    /\ UNCHANGED <<mode, seen, fileVars, noteVars, eventVars>>

BootFails(d) ==
    /\ pc[d] = "denied"
    /\ mode[d] = "boot"
    /\ Alive(owner)
    /\ Goes(d, "dead")
    /\ backoff' = TRUE
    /\ UNCHANGED <<mode, seen, fileVars, marker, eventVars>>

\* write_daemon_heartbeat: the whole status file is replaced by a rename, whoever wrote
\* the one before; its contents matter only in whose they are.
WritesHeartbeat(d) == status' = d /\ fresh' = TRUE

\* Mutant: the first heartbeat is left to the ticker.
ServesUnannounced(d) ==
    /\ pc[d] = "booted"
    /\ Goes(d, "serving")
    /\ mode' = [mode EXCEPT ![d] = "boot"]
    /\ UNCHANGED <<seen, fileVars, noteVars, eventVars>>

\* The engine is built; the first heartbeat is written.
FirstBeat(d) ==
    /\ pc[d] = "booted"
    /\ Goes(d, "serving")
    /\ mode' = [mode EXCEPT ![d] = "boot"]
    /\ WritesHeartbeat(d)
    /\ UNCHANGED <<seen, owner, young, taker, reserved, noteVars, eventVars>>

\* Mutant: a tick asks for an owner, not for which.
TicksOnAnyOwner(d) ==
    /\ pc[d] = "serving"
    /\ IF owner # "none"
       THEN WritesHeartbeat(d) /\ UNCHANGED <<pc, mode>>
       ELSE /\ Goes(d, "link")
            /\ mode' = [mode EXCEPT ![d] = "orphaned"]
            /\ UNCHANGED <<status, fresh>>
    /\ UNCHANGED <<seen, owner, young, taker, reserved, noteVars, eventVars>>

\* A tick of the ticker: holds_heartbeat_authority, and write_daemon_heartbeat with it.
Tick(d) ==
    /\ pc[d] = "serving"
    /\ IF owner = d
       THEN WritesHeartbeat(d) /\ UNCHANGED <<pc, mode>>
       ELSE /\ Goes(d, "link")
            /\ mode' = [mode EXCEPT ![d] = IF owner = "none" THEN "orphaned" ELSE "displaced"]
            /\ UNCHANGED <<status, fresh>>
    /\ UNCHANGED <<seen, owner, young, taker, reserved, noteVars, eventVars>>

\* Every exit by design marks itself.
Leaves(d) == Goes(d, "dead") /\ mode' = [mode EXCEPT ![d] = "boot"] /\ marker' = TRUE

\* A tick that found another owner reads the file once more.
Confirm(d) ==
    /\ pc[d] = "confirm"
    /\ IF owner = d \/ mode[d] = "orphaned"
       THEN Goes(d, "serving") /\ mode' = [mode EXCEPT ![d] = "boot"] /\ UNCHANGED marker
       ELSE Leaves(d)
    /\ UNCHANGED <<seen, fileVars, backoff, eventVars>>

AuthorityLost(d) ==
    /\ pc[d] = "denied"
    /\ mode[d] \in {"orphaned", "displaced"}
    /\ Leaves(d)
    /\ UNCHANGED <<seen, fileVars, backoff, eventVars>>

----
(* Handoff, stop and takeover.                                             *)

\* A takeover process waits for the owner file to be gone.
StartTakeover(d) ==
    /\ Startable(d)
    /\ Happens
    /\ Goes(d, "waiting")
    /\ mode' = [mode EXCEPT ![d] = "takeover"]
    /\ UNCHANGED <<seen, fileVars, noteVars, excused>>

TakesOver(d) ==
    /\ pc[d] = "waiting"
    /\ owner = "none"
    /\ Goes(d, "link")
    /\ UNCHANGED <<mode, seen, fileVars, noteVars, eventVars>>

WaitsOn(d) ==
    /\ pc[d] = "denied"
    /\ mode[d] \in {"takeover", "again"}
    /\ Goes(d, "waiting")
    /\ UNCHANGED <<mode, seen, fileVars, noteVars, eventVars>>

\* Its wait is over, and the old daemon never released the ownership.
GivesUp(d) ==
    /\ pc[d] = "waiting"
    /\ owner # "none"
    /\ Goes(d, "dead")
    /\ mode' = [mode EXCEPT ![d] = "boot"]
    /\ UNCHANGED <<seen, fileVars, noteVars, eventVars>>

\* release_ownership_for_handoff reads the owner file, and removes it if it names the daemon.
Releases(d) ==
    IF owner = d THEN Goes(d, "removing") /\ UNCHANGED <<mode, marker>> ELSE Leaves(d)

\* The old daemon reserves the ownership for a takeover that is ready, and releases it.
HandsOver(d) ==
    /\ pc[d] = "serving"
    /\ \E e \in Daemons : pc[e] = "waiting" /\ reserved' = e
    /\ Releases(d)
    /\ UNCHANGED <<seen, owner, young, status, fresh, taker, backoff, eventVars>>

\* A stop request is honoured.
Stops(d) ==
    /\ pc[d] = "serving"
    /\ Happens
    /\ Releases(d)
    /\ UNCHANGED <<seen, fileVars, backoff, excused>>

\* Self-recycling exits when idle, and leaves the owner file behind.
Recycles(d) ==
    /\ pc[d] = "serving"
    /\ Happens
    /\ Leaves(d)
    /\ UNCHANGED <<seen, fileVars, backoff, excused>>

\* It removes the file, whomever it names by then.
Removes(d) ==
    /\ pc[d] = "removing"
    /\ owner' = "none" /\ young' = FALSE
    /\ Leaves(d)
    /\ excused' = TRUE
    /\ UNCHANGED <<seen, status, fresh, taker, reserved, backoff, events>>

\* A takeover that promoted its binary releases the ownership again, and starts once more
\* from the installed path.
Reexec(d, e) ==
    /\ pc[d] = "booted"
    /\ mode[d] = "takeover"
    /\ Startable(e)
    /\ owner' = IF owner = d THEN "none" ELSE owner
    /\ pc' = [pc EXCEPT ![d] = "dead", ![e] = "waiting"]
    /\ mode' = [mode EXCEPT ![d] = "boot", ![e] = "again"]
    /\ excused' = TRUE
    /\ UNCHANGED <<seen, young, status, fresh, taker, reserved, noteVars, events>>

----
(* Crashes, and the passing of time.                                       *)

Crash(d) ==
    /\ Alive(d)
    /\ Happens
    /\ Goes(d, "dead")
    /\ taker' = IF taker = d THEN "none" ELSE taker
    /\ Forgets(d)
    /\ mode' = [mode EXCEPT ![d] = "boot"]
    /\ UNCHANGED <<owner, young, status, fresh, reserved, noteVars, excused>>

\* A process that serves stops to run, and is not dead.
Hang(d) ==
    /\ pc[d] = "serving"
    /\ Happens
    /\ Goes(d, "hung")
    /\ UNCHANGED <<mode, seen, fileVars, noteVars, excused>>

\* The record of a process that is not dead grows old; if it runs, it was too slow.
RecordAges ==
    /\ fresh /\ Alive(status)
    /\ fresh' = FALSE
    /\ IF Runs(status) THEN Happens /\ excused' = TRUE ELSE UNCHANGED eventVars
    /\ UNCHANGED <<pc, mode, seen, owner, young, status, taker, reserved, noteVars>>

\* So does the file, where that is asked: while the record is another's.  An owner that has
\* not written its own yet was too slow.
FileAges ==
    /\ young /\ Alive(owner) /\ status # owner
    /\ young' = FALSE
    /\ IF pc[owner] \in {"reread", "confirm", "booted"}
       THEN Happens /\ excused' = TRUE ELSE UNCHANGED eventVars
    /\ UNCHANGED <<pc, mode, seen, owner, status, fresh, taker, reserved, noteVars>>

\* A takeover that does not serve yet when its reservation is over was too slow.
ReservationAges ==
    /\ reserved # "none"
    /\ reserved' = "none"
    /\ IF Alive(reserved) /\ pc[reserved] # "serving" THEN Happens ELSE UNCHANGED events
    /\ UNCHANGED <<pc, mode, seen, owner, young, status, fresh, taker, noteVars, excused>>

TimePasses == RecordAges \/ FileAges \/ ReservationAges

\* The steps a process takes by itself, but for its first heartbeat.
LivesOn(d) ==
    \/ Claim(d)
    \/ Refused(d) \/ Boot(d) \/ ClaimsAgain(d) \/ BootFails(d)
    \/ Tick(d) \/ Confirm(d) \/ AuthorityLost(d)
    \/ TakesOver(d) \/ WaitsOn(d) \/ GivesUp(d) \/ Removes(d)

Chosen(d) ==
    \/ StartTakeover(d) \/ HandsOver(d) \/ Stops(d) \/ Recycles(d) \/ Crash(d) \/ Hang(d)
    \/ \E e \in Daemons : Reexec(d, e)

=============================================================================
