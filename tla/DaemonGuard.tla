---------------------------- MODULE DaemonGuard ----------------------------
(* The guards that restart a daemon whose record is stale, the clients that *)
(* start one when they find none, and the daemons of DaemonOwnership that   *)
(* both start.  A guard lock names one guard, a spawn lock one client: both *)
(* are files that the next one removes or replaces when it holds the one it *)
(* finds for abandoned, so the exclusion is made good afterwards: a guard   *)
(* the lock does not name leaves, a daemon the owner file does not name too.*)
EXTENDS DaemonOwnership

CONSTANTS
    Guards, Clients

ASSUME GuardAssumption == "none" \notin Guards \cup Clients

VARIABLES
    gpc,        \* where each guard is
    glock,      \* whom daemon-guard.lock names
    pulse,      \* who wrote daemon-guard.owner.json
    pulseFresh, \* within GUARD_HEARTBEAT_STALE_MS
    grace,      \* the guard lock is younger than GUARD_CLAIM_GRACE_MS
    cpc,        \* where each client is
    dlock,      \* who created daemon.lock
    dlockOld    \* it is older than SPAWN_LOCK_STALE

guardVars == <<gpc, glock, pulse, pulseFresh, grace>>
clientVars == <<cpc, dlock, dlockOld>>
vars == <<ownVars, guardVars, clientVars>>

TypeOK ==
    /\ OwnershipTypeOK
    /\ gpc \in [Guards -> {"claiming", "claimed", "naming", "watching", "awaiting", "gone"}]
    /\ {glock, pulse} \subseteq Guards \cup {"none"}
    /\ pulseFresh \in BOOLEAN /\ grace \in BOOLEAN
    /\ cpc \in [Clients -> {"idle", "awaiting"}]
    /\ dlock \in Clients \cup {"none"} /\ dlockOld \in BOOLEAN

Init ==
    /\ OwnershipInit
    /\ gpc = [g \in Guards |-> "gone"]
    /\ glock = "none" /\ pulse = "none" /\ pulseFresh = FALSE /\ grace = FALSE
    /\ cpc = [c \in Clients |-> "idle"]
    /\ dlock = "none" /\ dlockOld = FALSE

----
(* The guard.                                                              *)

GuardAlive(g) == g # "none" /\ gpc[g] # "gone"

GuardGoes(g, s) == gpc' = [gpc EXCEPT ![g] = s]

\* live_guard_pid: the lock names a live process, which renews its record or has just claimed.
LiveGuard ==
    /\ GuardAlive(glock)
    /\ IF pulse = glock THEN pulseFresh ELSE grace

\* ensure_daemon_guard, called by a daemon that is about to serve.
ArmsGuard(d) ==
    IF LiveGuard \/ owner \notin {d, "none"} THEN UNCHANGED guardVars
    ELSE \/ \E g \in Guards :
              /\ ~GuardAlive(g) /\ g \notin {glock, pulse}
              /\ GuardGoes(g, "claiming")
              /\ UNCHANGED <<glock, pulse, pulseFresh, grace>>
         \/ /\ \A g \in Guards : GuardAlive(g) \/ g \in {glock, pulse}
            /\ UNCHANGED guardVars

\* claim_guard_lock asks for a live guard,
GuardAsks(g) ==
    /\ gpc[g] = "claiming"
    /\ GuardGoes(g, IF LiveGuard THEN "gone" ELSE "claimed")
    /\ UNCHANGED <<ownVars, glock, pulse, pulseFresh, grace, clientVars>>

\* renames its own lock into place, whatever is there by then,
GuardRenames(g) ==
    /\ gpc[g] = "claimed"
    /\ glock' = g /\ grace' = TRUE
    /\ GuardGoes(g, "naming")
    /\ UNCHANGED <<ownVars, pulse, pulseFresh, clientVars>>

\* and writes its record if the lock still names it.
GuardStarts(g) ==
    /\ gpc[g] = "naming"
    /\ IF glock = g
       THEN /\ GuardGoes(g, "watching")
            /\ pulse' = g /\ pulseFresh' = TRUE
       ELSE GuardGoes(g, "gone") /\ UNCHANGED <<pulse, pulseFresh>>
    /\ UNCHANGED <<ownVars, glock, grace, clientVars>>

\* Mutant: a guard leaves only a lock that no live guard holds.
LeavesNoGuard(g) ==
    /\ gpc[g] = "watching"
    /\ glock # g /\ ~LiveGuard
    /\ GuardGoes(g, "gone")
    /\ UNCHANGED <<ownVars, glock, pulse, pulseFresh, grace, clientVars>>

\* A round of run_daemon_guard starts with the lock, which must name this guard still,
Displaced(g) ==
    /\ gpc[g] = "watching"
    /\ glock # g
    /\ GuardGoes(g, "gone")
    /\ UNCHANGED <<ownVars, glock, pulse, pulseFresh, grace, clientVars>>

\* and renews the record of the guard.
Polls(g) ==
    /\ gpc[g] = "watching"
    /\ glock = g
    /\ pulse' = g /\ pulseFresh' = TRUE
    /\ UNCHANGED <<glock, grace, clientVars>>

SeesFresh(g) ==
    /\ Polls(g)
    /\ DaemonFresh
    /\ UNCHANGED <<ownVars, gpc>>

\* After an exit by design that the guard honours, because it is recent or no record was
\* fresh since; after ten minutes without an owner.  The restarts are not counted.
StandsDown(g) ==
    /\ Polls(g)
    /\ ~DaemonFresh
    /\ marker \/ ~Alive(owner)
    /\ GuardGoes(g, "gone")
    /\ UNCHANGED ownVars

\* spawn_detached_daemon; it fails when no more processes can be started.
Spawns ==
    \/ \E d \in Daemons : Startable(d) /\ Goes(d, "starting")
    \/ (\A d \in Daemons : ~Startable(d)) /\ UNCHANGED pc

\* The wait for a start ends with a fresh record, or when the time is over: not before the
\* processes that were started know whether they own the file.
WaitOver == DaemonFresh \/ \A d \in Daemons : pc[d] \notin Claiming \cup {"starting", "denied"}

\* wasted_daemon_start_backoff_remaining_ms: only against an owner that lives.  The window of
\* a recorded start may be over.
BacksOff(g) ==
    /\ Polls(g)
    /\ ~DaemonFresh
    /\ backoff /\ Alive(owner)
    /\ UNCHANGED <<ownVars, gpc>>

Restarts(g) ==
    /\ Polls(g)
    /\ ~DaemonFresh
    /\ Spawns
    /\ GuardGoes(g, "awaiting")
    /\ UNCHANGED <<mode, seen, fileVars, noteVars, eventVars>>

\* GUARD_START_WAIT_MS at most.
GuardWaited(g) ==
    /\ gpc[g] = "awaiting"
    /\ WaitOver
    /\ GuardGoes(g, "watching")
    /\ UNCHANGED <<ownVars, glock, pulse, pulseFresh, grace, clientVars>>

GuardStep(g) ==
    \/ GuardAsks(g) \/ GuardRenames(g) \/ GuardStarts(g) \/ Displaced(g)
    \/ SeesFresh(g) \/ StandsDown(g) \/ BacksOff(g) \/ Restarts(g) \/ GuardWaited(g)

GuardCrashes(g) ==
    /\ GuardAlive(g)
    /\ Happens
    /\ GuardGoes(g, "gone")
    /\ UNCHANGED <<pc, mode, seen, fileVars, noteVars, excused,
                   glock, pulse, pulseFresh, grace, clientVars>>

\* The guard does not run for two minutes, or not for one between its claim and its record.
PulseAges ==
    /\ Happens
    /\ GuardAlive(glock)
    /\ IF pulse = glock THEN pulseFresh ELSE grace
    /\ pulseFresh' = (pulseFresh /\ pulse # glock)
    /\ grace' = (grace /\ pulse = glock)
    /\ UNCHANGED <<pc, mode, seen, fileVars, noteVars, excused,
                   gpc, glock, pulse, clientVars>>

----
(* The client: ensure_daemon_running.                                      *)

ClientGoes(c, s) == cpc' = [cpc EXCEPT ![c] = s]

\* Nothing is to be done for a fresh record, or while the backoff lasts, which may be over.
\* Whoever creates the spawn lock spawns.
CreatesLock(c) ==
    /\ cpc[c] = "idle"
    /\ ~DaemonFresh
    /\ dlock = "none"
    /\ dlock' = c /\ dlockOld' = FALSE
    /\ Spawns
    /\ ClientGoes(c, "awaiting")
    /\ UNCHANGED <<mode, seen, fileVars, noteVars, eventVars, guardVars>>

\* The loser waits six seconds for a fresh record, and removes a lock that is old by then.
FindsLock(c) ==
    /\ cpc[c] = "idle"
    /\ ~DaemonFresh
    /\ dlock # "none" /\ dlockOld
    /\ dlock' = "none" /\ dlockOld' = FALSE
    /\ UNCHANGED <<ownVars, guardVars, cpc>>

\* After ten seconds at most the client removes the lock, whoever created it.
RemovesLock(c) ==
    /\ cpc[c] = "awaiting"
    /\ WaitOver
    /\ ClientGoes(c, "idle")
    /\ dlock' = "none" /\ dlockOld' = FALSE
    /\ UNCHANGED <<ownVars, guardVars>>

ClientStep(c) == CreatesLock(c) \/ FindsLock(c) \/ RemovesLock(c)

ClientCrashes(c) ==
    /\ cpc[c] = "awaiting"
    /\ Happens
    /\ ClientGoes(c, "idle")
    /\ UNCHANGED <<pc, mode, seen, fileVars, noteVars, excused,
                   guardVars, dlock, dlockOld>>

AtWork(c) == c # "none" /\ cpc[c] = "awaiting"

SpawnLockAges ==
    /\ dlock # "none" /\ ~dlockOld
    /\ dlockOld' = TRUE
    /\ IF AtWork(dlock) THEN Happens ELSE UNCHANGED events
    /\ UNCHANGED <<pc, mode, seen, fileVars, noteVars, excused,
                   guardVars, cpc, dlock>>

----
(* The composition.                                                        *)

\* A daemon arms the guard before it serves.
OwnStep(d) ==
    \/ FirstBeat(d) /\ ArmsGuard(d) /\ UNCHANGED clientVars
    \/ LivesOn(d) /\ UNCHANGED <<guardVars, clientVars>>

Next ==
    \/ \E d \in Daemons : OwnStep(d)
    \/ \E d \in Daemons : Chosen(d) /\ UNCHANGED <<guardVars, clientVars>>
    \/ TimePasses /\ UNCHANGED <<guardVars, clientVars>>
    \/ \E g \in Guards : GuardStep(g) \/ GuardCrashes(g)
    \/ \E c \in Clients : ClientStep(c) \/ ClientCrashes(c)
    \/ PulseAges \/ SpawnLockAges

\* The processes run; the records of those that do not grow old; dispatches keep coming.
Fairness ==
    /\ \A d \in Daemons : WF_vars(OwnStep(d))
    /\ \A g \in Guards : WF_vars(GuardStep(g))
    /\ \A c \in Clients : WF_vars(ClientStep(c))
    /\ WF_vars(TimePasses /\ UNCHANGED <<guardVars, clientVars, events>>)
    /\ WF_vars(SpawnLockAges /\ UNCHANGED events)

Spec == Init /\ [][Next]_vars /\ Fairness

----
(* Properties.                                                             *)

\* install_stale_owner replaces the owner that was judged, under the lock: unless a record
\* went stale under a process that runs, or the owner file was given up in between, it is
\* never taken from a daemon that runs.
NotRobbed ==
    [][owner' # owner /\ owner' # "none" /\ Runs(owner) => excused]_vars

\* Until something excuses it there is one daemon that serves, however the starts, claims,
\* takeovers and crashes interleave: the owner file and the ticks agree on it at every moment.
ServesAlone ==
    ~excused => \A d, e \in Daemons : pc[d] = "serving" /\ pc[e] = "serving" => d = e

\* Nor does a guard or a client start a second process beside a daemon that serves: the
\* record by which they judge that there is none is the server's own.
StartsAreNeeded ==
    [][(\E d \in Daemons : pc[d] = "dead" /\ pc'[d] = "starting")
          => excused \/ \A e \in Daemons : pc[e] # "serving"]_vars

\* The three together: a daemon that serves is the only one, is left its owner file, and has
\* no other started beside it (claim_ownership, is_daemon_fresh, ensure_daemon_running).
ServesUndisturbed == []ServesAlone /\ NotRobbed /\ StartsAreNeeded

\* Whatever happens between the steps of a claim, a process the owner file does not name
\* does not serve for long: the next tick sends it away.
OneServes ==
    []<>(\A d, e \in Daemons : pc[d] = "serving" /\ pc[e] = "serving" => d = e)

\* "exiting so exactly one watcher remains": in the end at most one guard is left.
OneWatcher == []<>(\A g, h \in Guards : GuardAlive(g) /\ GuardAlive(h) => g = h)

\* While dispatches keep coming a daemon serves again and again, whatever crashed, hung or
\* left a lock behind: no stale owner file, takeover lock, reservation, spawn lock or backoff
\* stops it for ever.
ServiceReturns == []<>DaemonFresh

=============================================================================
