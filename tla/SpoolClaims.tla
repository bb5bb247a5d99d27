----------------------------- MODULE SpoolClaims -----------------------------
(* The spool of one project: a request file is claimed by a rename, run by  *)
(* a thread of the daemon, answered in the out directory, and released.  A  *)
(* daemon may crash, or hand its claims over to a successor and exit while  *)
(* its threads still run; the orphan sweep of the next daemon answers what  *)
(* nobody seems to be running.                                              *)
(*                                                                          *)
(* Daemons are numbered in the order in which they own the project.  The    *)
(* files are shared; a thread, and its entry in in_flight_map, belong to    *)
(* one daemon.  Each step below is one file operation or one map operation. *)
EXTENDS Naturals

CONSTANTS
    Requests,
    Daemons,      \* how many daemons there are, one after the other
    MaxClaims     \* bound: how often one request is claimed

ASSUME BoundsAssumption == Daemons \in Nat \ {0} /\ MaxClaims \in Nat \ {0}

VARIABLES
    direct,       \* requests without a run slot and a claim heartbeat: browser_lease_,
                  \* plugin-refresh and background-convert
    file,         \* of each request: its request file, then its claim file, or a file
                  \* whose name is not that of a request
    old,          \* requests older than MIN_ORPHAN_CLAIM_AGE_MS (the mtime is kept)
    reply,        \* what the out file of each request says
    marker,       \* its heartbeat file: absent, fresh or stale
    inherited,    \* what handoff-inherited-claims.json names
    daemon,       \* what each daemon is doing
    in_flight,    \* <<d, r>>: r is a key of in_flight_map in daemon d
    at, by,       \* of each thread: how far it is, and its daemon
    beats,        \* the threads that have a heartbeat thread
    claims,       \* how often each request has been claimed
    requeue,      \* what a leaving daemon still has to give back
    todo, judged, \* claims that a sweep has still to look at, or has condemned
    runs,         \* history: how often the verb of each request was started
    handed,       \* history: requests that a handoff or its sweep gave back
    left          \* history: requests whose claim a dying thread left behind, or
                  \* whose dispatch was converted to the background

claimVars == <<direct, file, old, reply, marker>>
threadVars == <<at, by, beats, claims, in_flight, runs>>
sweepVars == <<todo, judged>>
vars == <<claimVars, threadVars, sweepVars, inherited, daemon, requeue, handed, left>>

Threads == Requests \X (1 .. MaxClaims)
Ids == 1 .. Daemons

TypeOK ==
    /\ direct \subseteq Requests
    /\ file \in [Requests -> {"unsent", "queued", "claimed", "none", "stray", "aside"}]
    /\ old \subseteq {r \in Requests : file[r] # "unsent"}
    /\ reply \in [Requests -> {"none", "answer", "orphaned", "reaped"}]
    /\ marker \in [Requests -> {"none", "fresh", "stale"}]
    /\ inherited \subseteq Requests
    /\ daemon \in [Ids -> {"off", "sweeping", "serving", "leaving", "gone"}]
    /\ in_flight \subseteq Ids \X Requests
    /\ at \in [Threads -> {"none", "claimed", "queued", "beating", "running",
                           "refused", "answered", "released", "over"}]
    /\ by \in [Threads -> Ids]
    /\ beats \subseteq Threads
    /\ claims \in [Requests -> 0 .. MaxClaims]
    /\ requeue \subseteq Requests
    /\ todo \subseteq Requests /\ judged \subseteq Requests
    /\ todo \cup judged # {} => \E d \in Ids : daemon[d] = "sweeping"
    /\ runs \in [Requests -> Nat]
    /\ handed \subseteq Requests /\ left \subseteq Requests

Init ==
    /\ direct = {}
    /\ file = [r \in Requests |-> "unsent"]
    /\ old = {}
    /\ reply = [r \in Requests |-> "none"]
    /\ marker = [r \in Requests |-> "none"]
    /\ inherited = {}
    /\ daemon = [d \in Ids |-> IF d = 1 THEN "serving" ELSE "off"]
    /\ in_flight = {}
    /\ at = [t \in Threads |-> "none"]
    /\ by = [t \in Threads |-> 1]
    /\ beats = {}
    /\ claims = [r \in Requests |-> 0]
    /\ requeue = {}
    /\ todo = {} /\ judged = {}
    /\ runs = [r \in Requests |-> 0]
    /\ handed = {} /\ left = {}

----
Up(d) == daemon[d] \in {"sweeping", "serving", "leaving"}

Live(t) == at[t] \notin {"none", "over"}
Of(r) == {t \in Threads : t[1] = r}

File(r, f) == file' = [file EXCEPT ![r] = f]
Mark(r, m) == marker' = [marker EXCEPT ![r] = m]
Reply(r, s) == reply' = [reply EXCEPT ![r] = s]
Goes(t, s) == at' = [at EXCEPT ![t] = s]
Forget(d, r) == in_flight' = in_flight \ {<<d, r>>}

Submit(r) ==
    /\ file[r] = "unsent"
    /\ \/ File(r, "queued") /\ direct' \in {direct, direct \cup {r}}
       \/ File(r, "stray") /\ UNCHANGED direct
    /\ UNCHANGED <<old, reply, marker, threadVars, sweepVars, inherited, daemon,
                   requeue, handed, left>>

\* A minute passes.
Age(r) ==
    /\ file[r] # "unsent"
    /\ r \notin old
    /\ old' = old \cup {r}
    /\ UNCHANGED <<direct, file, reply, marker, threadVars, sweepVars, inherited,
                   daemon, requeue, handed, left>>

\* CLAIM_HEARTBEAT_STALE_MS pass: three beats, so nobody renews the marker.
Stale(r) ==
    /\ marker[r] = "fresh"
    /\ \A t \in Of(r) : t \notin beats
    /\ Mark(r, "stale")
    /\ UNCHANGED <<direct, file, old, reply, threadVars, sweepVars, inherited, daemon,
                   requeue, handed, left>>

\* Mutant: a claim does not keep its reply.
LiveQueued == {r \in Requests : file[r] = "queued"}

\* live_out_stems
LiveStems == {r \in Requests : file[r] \in {"queued", "claimed", "stray"}}

\* reap_spool_out_files, after two minutes or more: how old and how many the replies
\* are is left open.  (No sweep takes that long.)
Reap(r) ==
    /\ reply[r] \in {"answer", "orphaned"}
    /\ r \notin LiveStems
    /\ r \notin todo \cup judged
    /\ Reply(r, "reaped")
    /\ UNCHANGED <<direct, file, old, marker, threadVars, sweepVars, inherited, daemon,
                   requeue, handed, left>>

----
(* The claim loop and the threads of a daemon.                             *)

\* dispatch_project: the rename, with no look at in_flight_map,
Claim(d, r) ==
    /\ daemon[d] = "serving"
    /\ file[r] = "queued"
    /\ claims[r] < MaxClaims
    /\ File(r, "claimed")
    /\ claims' = [claims EXCEPT ![r] = @ + 1]
    /\ LET t == <<r, claims[r] + 1>>
       IN  Goes(t, "claimed") /\ by' = [by EXCEPT ![t] = d]
    /\ UNCHANGED <<direct, old, reply, marker, beats, in_flight, runs, sweepVars,
                   inherited, daemon, requeue, handed, left>>

\* then the entry in the map and the thread.
Register(t) ==
    /\ at[t] = "claimed"
    /\ in_flight' = in_flight \cup {<<by[t], t[1]>>}
    /\ Goes(t, "queued")
    /\ UNCHANGED <<claimVars, by, beats, claims, runs, sweepVars, inherited, daemon,
                   requeue, handed, left>>

\* The request is not of the session its name says, gm is not loaded, or there is no
\* thread to be had: the claim loop answers (the entry comes and goes within the step).
AnswerAtOnce(t) ==
    /\ at[t] = "claimed"
    /\ Reply(t[1], "answer")
    /\ Goes(t, "answered")
    /\ UNCHANGED <<direct, file, old, marker, by, beats, claims, in_flight, runs, sweepVars,
                   inherited, daemon, requeue, handed, left>>

\* acquire_gm_dispatch_run_slot returns and ClaimHeartbeat::start.
Beat(t) ==
    /\ at[t] = "queued"
    /\ t[1] \notin direct
    /\ Mark(t[1], "fresh")
    /\ Goes(t, "beating")
    /\ beats' = beats \cup {t}
    /\ UNCHANGED <<direct, file, old, reply, by, claims, in_flight, runs, sweepVars,
                   inherited, daemon, requeue, handed, left>>

\* The heartbeat thread writes its file again while there is a claim.
Renew(t) ==
    /\ t \in beats
    /\ file[t[1]] = "claimed"
    /\ marker[t[1]] # "fresh"
    /\ Mark(t[1], "fresh")
    /\ UNCHANGED <<direct, file, old, reply, threadVars, sweepVars, inherited, daemon,
                   requeue, handed, left>>

\* It ends when there is none, and removes its file whoever's it is (the look and
\* the removal, two instructions apart, are one step).
LastBeat(t) ==
    /\ t \in beats
    /\ file[t[1]] # "claimed"
    /\ beats' = beats \ {t}
    /\ Mark(t[1], "none")
    /\ UNCHANGED <<direct, file, old, reply, at, by, claims, in_flight, runs, sweepVars,
                   inherited, daemon, requeue, handed, left>>

\* The lane and the tool queue are won.
Run(t) ==
    /\ at[t] = "beating"
    /\ Goes(t, "running")
    /\ runs' = [runs EXCEPT ![t[1]] = @ + 1]
    /\ UNCHANGED <<claimVars, by, beats, claims, in_flight, sweepVars, inherited,
                   daemon, requeue, handed, left>>

\* They are not, or the request is a direct one: write_spool_out_and_release_claim
\* forgets the claim before it writes.
Refuse(t) ==
    /\ \/ at[t] = "beating" /\ UNCHANGED runs
       \/ at[t] = "queued" /\ t[1] \in direct /\ runs' = [runs EXCEPT ![t[1]] = @ + 1]
    /\ Forget(by[t], t[1])
    /\ Goes(t, "refused")
    /\ UNCHANGED <<claimVars, by, beats, claims, sweepVars, inherited, daemon, requeue,
                   handed, left>>

\* write_spool_out_confirmed
WriteOut(t) ==
    /\ at[t] \in {"running", "refused"}
    /\ Reply(t[1], "answer")
    /\ Goes(t, "answered")
    /\ UNCHANGED <<direct, file, old, marker, by, beats, claims, in_flight, runs,
                   sweepVars, inherited, daemon, requeue, handed, left>>

\* Mutant: the claim goes before the reply is out.
ReleaseEarly(t) ==
    /\ at[t] \in {"running", "answered"}
    /\ IF file[t[1]] = "claimed" THEN File(t[1], "none") ELSE UNCHANGED file
    /\ Goes(t, "released")
    /\ UNCHANGED <<direct, old, reply, marker, by, beats, claims, in_flight, runs,
                   sweepVars, inherited, daemon, requeue, handed, left>>

\* The claim file is removed, whoever's it is now.
Release(t) ==
    /\ at[t] = "answered"
    /\ IF file[t[1]] = "claimed" THEN File(t[1], "none") ELSE UNCHANGED file
    /\ Goes(t, "released")
    /\ UNCHANGED <<direct, old, reply, marker, by, beats, claims, in_flight, runs,
                   sweepVars, inherited, daemon, requeue, handed, left>>

\* ClaimHeartbeat::drop
StopBeating(t) ==
    /\ beats' = beats \ {t}
    /\ IF t[1] \in direct THEN UNCHANGED marker ELSE Mark(t[1], "none")

\* The entry in the map, and the marker with the heartbeat.
End(t) ==
    /\ at[t] = "released"
    /\ Forget(by[t], t[1])
    /\ StopBeating(t)
    /\ Goes(t, "over")
    /\ UNCHANGED <<direct, file, old, reply, by, claims, runs, sweepVars, inherited,
                   daemon, requeue, handed, left>>

\* The thread dies of a panic that nothing catches, or the out file cannot be
\* written: the claim stays.
Fail(t) ==
    /\ at[t] \in {"beating", "running", "refused"}
    /\ Forget(by[t], t[1])
    /\ StopBeating(t)
    /\ Goes(t, "over")
    /\ left' = left \cup {t[1]}
    /\ UNCHANGED <<direct, file, old, reply, by, claims, runs, sweepVars, inherited,
                   daemon, requeue, handed>>

\* handle_background_convert
Convert(d, r) ==
    /\ daemon[d] = "serving"
    /\ <<d, r>> \in in_flight
    /\ Forget(d, r)
    /\ left' = left \cup {r}
    /\ UNCHANGED <<claimVars, at, by, beats, claims, runs, sweepVars, inherited, daemon,
                   requeue, handed>>

----
(* Daemons come and go.                                                    *)

\* The process of d ends and its threads with it.
Kill(d) ==
    /\ at' = [t \in Threads |-> IF by[t] = d /\ Live(t) THEN "over" ELSE at[t]]
    /\ beats' = {t \in beats : by[t] # d}
    /\ in_flight' = in_flight \ ({d} \X Requests)
    /\ left' = left \cup {r \in Requests : file[r] = "claimed"
                            /\ \E t \in Of(r) : by[t] = d /\ Live(t)}
                    \cup {r \in todo : file[r] = "aside" /\ daemon[d] = "sweeping"}
    /\ daemon' = [daemon EXCEPT ![d] = "gone"]

Crash(d) ==
    /\ Up(d)
    /\ d < Daemons
    /\ Kill(d)
    /\ requeue' = IF daemon[d] = "leaving" THEN {} ELSE requeue
    /\ IF daemon[d] = "sweeping" THEN todo' = {} /\ judged' = {} ELSE UNCHANGED sweepVars
    /\ UNCHANGED <<claimVars, by, claims, runs, inherited, handed>>

\* The in_flight keys are snapshotted: written out for the successor, and kept to
\* be given back.
Inherit(keys) == inherited' = keys /\ requeue' = keys

\* hand_off_to_ready_successor, forced or after its wait: between two batches
\* of claims, whatever the threads are doing.
HandOff(d) ==
    /\ daemon[d] = "serving"
    /\ d < Daemons
    /\ \A t \in Threads : at[t] = "claimed" => by[t] # d
    /\ Inherit({r \in Requests : <<d, r>> \in in_flight})
    /\ daemon' = [daemon EXCEPT ![d] = "leaving"]
    /\ UNCHANGED <<claimVars, threadVars, sweepVars, handed, left>>

\* requeue_claim, by a leaving daemon or by a sweep
GiveBack(r) ==
    /\ file[r] = "claimed"
    /\ File(r, "queued")
    /\ Mark(r, "none")
    /\ handed' = handed \cup {r}

\* requeue_claims_for_live_successor, after the ownership was released
Requeue(d, r) ==
    /\ daemon[d] = "leaving"
    /\ r \in requeue
    /\ requeue' = requeue \ {r}
    /\ GiveBack(r) \/ (file[r] # "claimed" /\ UNCHANGED <<file, marker, handed>>)
    /\ UNCHANGED <<direct, old, reply, threadVars, sweepVars, inherited, daemon, left>>

Exit(d) ==
    /\ daemon[d] = "leaving"
    /\ requeue = {}
    /\ Kill(d)
    /\ UNCHANGED <<claimVars, by, claims, runs, sweepVars, inherited, requeue, handed>>

\* A sweep goes through the claims that a directory listing shows, then through the
\* strays of another (here they are one).  With nothing inherited it passes over the
\* claims of a spool whose status file still names another live daemon
\* (live_foreign_spool_sweeper).
List(d) ==
    \/ todo' = {r \in Requests : file[r] \in {"claimed", "stray"}}
    \/ /\ inherited = {} /\ \E e \in Ids \ {d} : Up(e)
       /\ todo' = {r \in Requests : file[r] = "stray"}

\* The next daemon takes over and begins its boot sweep.
Start(d) ==
    /\ daemon[d] = "off"
    /\ daemon[d - 1] \in {"leaving", "gone"}
    /\ daemon' = [daemon EXCEPT ![d] = "sweeping"]
    /\ List(d)
    /\ UNCHANGED <<claimVars, threadVars, judged, inherited, requeue, handed, left>>

\* A lease attaches: the only other occasion for a sweep.
Attach(d) ==
    /\ daemon[d] = "serving"
    /\ \A t \in Threads : at[t] = "claimed" => by[t] # d
    /\ daemon' = [daemon EXCEPT ![d] = "sweeping"]
    /\ List(d)
    /\ UNCHANGED <<claimVars, threadVars, judged, inherited, requeue, handed, left>>

----
(* The orphan sweep.                                                       *)

Sweeps(d, r) ==
    /\ daemon[d] = "sweeping"
    /\ r \in todo /\ file[r] \notin {"stray", "aside"}
    /\ todo' = todo \ {r}
    /\ UNCHANGED <<direct, old, reply, threadVars, inherited, daemon, requeue, left>>

SweepInherited(d, r) ==
    /\ Sweeps(d, r)
    /\ r \in inherited
    /\ GiveBack(r)
    /\ UNCHANGED judged

\* A claim that has gone since it was listed has no age, and none is too young.
Spared(d, r) ==
    \/ <<d, r>> \in in_flight
    \/ marker[r] = "fresh"
    \/ file[r] = "claimed" /\ r \notin old

\* refresh_dispatch_wait_ledger: daemon e writes a row for every request and claim that
\* has no reply, and says which of them a thread of its own is on, or was when it wrote.
Rows(e) == IF Up(e) THEN {r \in Requests : file[r] # "unsent"} ELSE {}
Tracked(e) == {r \in Requests : \E t \in Of(r) : by[t] = e /\ at[t] # "none"}

\* live_dispatch_wait_owner: any row of another live daemon is a claim that it owns.
\* The ledger is written at intervals and may as well not name the claim.
Ledgered(d, r) == r \in Tracked(d) \/ \E e \in Ids \ {d} : r \in Rows(e)

SweepClaim(d, r) ==
    /\ Sweeps(d, r)
    /\ r \in inherited => file[r] # "claimed"
    /\ \/ ~Spared(d, r) /\ judged' = judged \cup {r}
       \/ (Spared(d, r) \/ Ledgered(d, r)) /\ UNCHANGED judged
    /\ UNCHANGED <<file, marker, handed>>

\* dispatch_orphaned, unless there is a reply.
Orphan(d, r) ==
    /\ daemon[d] = "sweeping"
    /\ r \in judged
    /\ judged' = judged \ {r}
    /\ IF reply[r] \in {"none", "reaped"} THEN Reply(r, "orphaned") ELSE UNCHANGED reply
    /\ IF file[r] = "claimed" THEN File(r, "none") ELSE UNCHANGED file
    /\ Mark(r, "none")
    /\ UNCHANGED <<direct, old, threadVars, todo, inherited, daemon, requeue, handed,
                   left>>

\* sweep_unconsumable_spool_files: a stray is moved to in-quarantine,
SetAside(d, r) ==
    /\ daemon[d] = "sweeping"
    /\ r \in todo /\ file[r] = "stray"
    /\ File(r, "aside")
    /\ UNCHANGED <<direct, old, reply, marker, threadVars, sweepVars, inherited, daemon,
                   requeue, handed, left>>

\* then answered with spool_filename_rejected.
Reject(d, r) ==
    /\ daemon[d] = "sweeping"
    /\ r \in todo /\ file[r] = "aside"
    /\ todo' = todo \ {r}
    /\ Reply(r, "answer")
    /\ UNCHANGED <<direct, file, old, marker, threadVars, judged, inherited, daemon,
                   requeue, handed, left>>

\* clear_handoff_inherited_claims; the claim loop follows.
Swept(d) ==
    /\ daemon[d] = "sweeping"
    /\ todo = {} /\ judged = {}
    /\ inherited' = {}
    /\ daemon' = [daemon EXCEPT ![d] = "serving"]
    /\ UNCHANGED <<claimVars, threadVars, sweepVars, requeue, handed, left>>

----
ThreadStep(t) ==
    \/ Register(t) \/ AnswerAtOnce(t) \/ Beat(t) \/ Run(t) \/ Refuse(t)
    \/ WriteOut(t) \/ Release(t) \/ End(t)

SweepStep(d) ==
    \/ Swept(d)
    \/ \E r \in Requests :
          \/ SweepInherited(d, r) \/ SweepClaim(d, r) \/ Orphan(d, r)
          \/ SetAside(d, r) \/ Reject(d, r)

DaemonStep(d) ==
    \/ Exit(d) \/ Start(d) \/ SweepStep(d)
    \/ \E r \in Requests : Claim(d, r) \/ Requeue(d, r)

Next ==
    \/ \E r \in Requests : Submit(r) \/ Age(r) \/ Stale(r) \/ Reap(r)
    \/ \E t \in Threads : ThreadStep(t) \/ Renew(t) \/ LastBeat(t) \/ Fail(t)
    \/ \E d \in Ids :
          \/ DaemonStep(d) \/ Crash(d) \/ HandOff(d) \/ Attach(d)
          \/ \E r \in Requests : Convert(d, r)

Spec == Init /\ [][Next]_vars

----
(* Properties.                                                             *)

\* No request is lost, whatever dies when: until it is answered there is its
\* request file or its claim file.
NothingLost ==
    \A r \in Requests : file[r] = "none" => reply[r] # "none"

\* An entry of in_flight_map is a live thread of its daemon (InFlightEntryRelease):
\* one that outlived it would shield the claim from every sweep, and use up one
\* of the project's 32 claims.
RegisteredIsLive ==
    \A d \in Ids, r \in Requests :
        <<d, r>> \in in_flight => \E t \in Of(r) : Live(t) /\ by[t] = d

\* A verb is not started twice on a crash, a failure or a sweep (its outcome is
\* unknown, and the caller is told so); only a handoff starts it again.
RunsOnce == \A r \in Requests : runs[r] <= 1 \/ r \in handed

\* The three together: a request is there until it is answered, in_flight_map says who
\* is at it, and it is not done twice (dispatch_project and the sweeps).
RequestSound == NothingLost /\ RegisteredIsLive /\ RunsOnce

\* A request that has been answered is never answered again with dispatch_orphaned,
\* whatever the reaper has removed: the reply of a claim that is still there is what
\* keeps the next sweep from doing so.
AnswerStands ==
    [][\A r \in Requests :
          reply[r] \in {"answer", "reaped"} => reply'[r] # "orphaned"]_vars

\* Every request is answered, through any handoff, unless a thread died on it.
Answered ==
    \A r \in Requests :
        file[r] = "queued" ~> reply[r] # "none" \/ r \in left
=============================================================================
