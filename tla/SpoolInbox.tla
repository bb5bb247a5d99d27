----------------------------- MODULE SpoolInbox -----------------------------
(* How the main loop of a daemon comes to claim a request: the directory    *)
(* watch, the marks of the projects whose spool has changed, the scan that  *)
(* is cached between two marks, the verdict that a verb directory is empty, *)
(* and the two agreeing looks at a file before it is claimed.  It runs with *)
(* SpoolClaims: a request is claimed for the first time by the loop below,  *)
(* which is followed as long as a request is still to come or to be claimed *)
(* for the first time.  (On Linux.  The requests of a project all have one  *)
(* verb, and land in its directory by a rename.)                            *)
EXTENDS SpoolClaims, FiniteSets

VARIABLES
    depth,        \* of the inbox: 2 with the verb directory, 1 with in/ only
    watched,      \* how deep the directory watch goes, or Closed, or Unwatched
    event,        \* the next wait will be told of a change, if the watch stays
    dirty,        \* the project is in spool_dirty_roots
    cache,        \* what root_scan_cache says of it; "none": nothing, or too old
    verdict,      \* empty_verb_dir_verdicts holds the directory's mtime
    touched,      \* its mtime is less than EMPTY_VERB_DIR_VERDICT_MIN_AGE ago
    seen,         \* requests whose length and mtime have been recorded
    hot,          \* its plugins are loaded, or its lease is new
    main,         \* where the main loop is
    probe,        \* what another thread has found in the inbox and not stored yet
    missed        \* history: a change of the inbox since the last scan left no mark

inboxVars == <<depth, watched, event, dirty, cache, verdict, touched, seen, hot, main,
               probe, missed>>
allVars == <<vars, inboxVars>>

Unwatched == 3
Closed == 4

InboxInit ==
    /\ Init
    /\ depth = 0 /\ touched = FALSE
    /\ watched = Closed /\ event = FALSE
    /\ dirty = FALSE /\ cache = "none" /\ verdict = FALSE /\ seen = {}
    /\ hot = TRUE /\ main = "select"
    /\ probe = "none" /\ missed = FALSE

----
\* A request is still to come, or to be claimed for the first time.
Arriving == \E r \in Requests : file[r] = "unsent" \/ (file[r] = "queued" /\ claims[r] = 0)

\* A new daemon has a memory of its own; and the loop is not followed after that.
Restart ==
    /\ watched' = Closed /\ event' = FALSE
    /\ dirty' = FALSE /\ cache' = "none" /\ verdict' = FALSE /\ seen' = {}
    /\ hot' = TRUE /\ main' = "select"
    /\ probe' = "none" /\ missed' = FALSE
    /\ depth' = depth
    /\ touched' = (touched /\ Arriving')
Keep == IF Arriving' THEN UNCHANGED inboxVars ELSE Restart

\* A change of the directory: its mtime tells two changes apart that are not of the
\* same moment.
Touch ==
    /\ touched' = TRUE
    /\ verdict' = (verdict /\ touched)

\* inotify tells of a change in the deepest directory that is watched; a project that
\* cannot be watched will be marked.
Tell ==
    /\ event' = (event \/ watched \in {depth, Unwatched})
    /\ missed' = (missed \/ watched \notin {depth, Unwatched})

\* The client makes the directories that are missing,
MakeDir ==
    /\ Arriving /\ depth < 2
    /\ depth' = depth + 1
    /\ touched' = (depth = 1)
    /\ Tell
    /\ UNCHANGED <<vars, watched, dirty, cache, verdict, seen, hot, main, probe>>

\* and renames its request into the last.
Put(r) ==
    /\ depth = 2
    /\ Submit(r)
    /\ Touch /\ Tell
    /\ UNCHANGED <<depth, watched, dirty, cache, seen, hot, main, probe>>

Settle ==
    /\ touched
    /\ touched' = FALSE
    /\ UNCHANGED <<vars, depth, watched, event, dirty, cache, verdict, seen, hot, main,
                   probe, missed>>

----
(* cached_root_scan                                                        *)

\* verb_dir_has_claimable_request
There == \E r \in Requests : file[r] = "queued"
Found == ~verdict /\ There

\* Mutant: an empty directory is judged whatever its age.
JudgedAtOnce == verdict' = (verdict \/ (depth = 2 /\ ~There))

Judged == verdict' = (verdict \/ (depth = 2 /\ ~There /\ ~touched))

Word(found) == IF found THEN "work" ELSE "idle"

\* Without a mark, a scan that is not too old is believed.
Known == ~dirty /\ cache # "none"
Says == IF Known THEN cache = "work" ELSE Found

Stored(word) == cache' = word /\ dirty' = FALSE

Scan ==
    IF Known THEN UNCHANGED <<dirty, cache, verdict, missed>>
    ELSE Stored(Word(Found)) /\ Judged /\ missed' = FALSE

\* Mutant: a scan is believed until there is a mark.
Trust ==
    /\ cache = "none"
    /\ UNCHANGED <<vars, inboxVars>>

\* SPOOL_SCAN_BACKSTOP_TTL
Expire ==
    /\ cache # "none"
    /\ cache' = "none"
    /\ UNCHANGED <<vars, depth, watched, event, dirty, verdict, touched, seen, hot, main,
                   probe, missed>>

\* The heartbeat ticker and the dispatch threads count the steps of the project:
\* they look into the inbox,
Probe(d) ==
    /\ daemon[d] = "serving" /\ Arriving
    /\ probe = "none" /\ ~Known
    /\ probe' = Word(Found)
    /\ Judged
    /\ UNCHANGED <<vars, depth, watched, event, dirty, cache, touched, seen, hot, main,
                   missed>>

\* then store what they saw and remove the mark, whenever it was made.
Store(d) ==
    /\ daemon[d] = "serving"
    /\ probe # "none"
    /\ Stored(probe)
    /\ missed' = (missed \/ dirty \/ probe # Word(Found))
    /\ probe' = "none"
    /\ UNCHANGED <<vars, depth, watched, event, verdict, touched, seen, hot, main>>

----
(* The main loop, as far as this project goes.                             *)

At(d, place) == daemon[d] = "serving" /\ Arriving /\ main = place

\* The project is visited when it is loaded, or when its inbox says so.
Select(d) ==
    /\ At(d, "select")
    /\ Scan
    /\ main' = IF hot \/ Says THEN "visit" ELSE "rest"
    /\ UNCHANGED <<vars, depth, watched, event, touched, seen, hot, probe>>

\* dispatch_project marks the project and scans, and makes in/.
Visit(d) ==
    /\ At(d, "visit")
    /\ Stored(Word(Found)) /\ Judged /\ missed' = FALSE
    /\ hot' = TRUE
    /\ main' = IF Found THEN "claim" ELSE "rest"
    /\ depth' = IF depth = 0 THEN 1 ELSE depth
    /\ event' = (event \/ (watched = 0 /\ depth = 0))
    /\ UNCHANGED <<vars, watched, touched, seen, probe>>

\* spool_in_file_write_has_settled: a second look finds what the first one found,
ClaimSettled(d, r) ==
    /\ At(d, "claim")
    /\ r \in seen
    /\ Claim(d, r)
    /\ IF ~Arriving' THEN Restart
       ELSE /\ seen' = seen \ {r}
            /\ Touch
            /\ event' = (event \/ watched = 2)
            /\ dirty' = TRUE
            /\ UNCHANGED <<depth, watched, cache, hot, main, probe, missed>>

\* and the first one is for the next visit.
Look(d) ==
    /\ At(d, "claim")
    /\ \A r \in seen : file[r] # "queued"
    /\ seen' = {r \in Requests : file[r] = "queued"}
    /\ main' = "rest"
    /\ UNCHANGED <<vars, depth, watched, event, dirty, cache, verdict, touched, hot, probe,
                   missed>>

\* idle_projects_to_evict, and the scan before the wait
Rest(d) ==
    /\ At(d, "rest")
    /\ UNCHANGED hot \/ (in_flight = {} /\ hot' = FALSE)
    /\ Scan
    /\ main' = "wait"
    /\ UNCHANGED <<vars, depth, watched, event, touched, seen, probe>>

\* IdleInDirWatch::sync closes the watch and opens it again when there are other
\* directories to be watched, unless it has just looked; what the old one had to
\* tell is lost.  wait marks the project if it was told of a change, or cannot be.
Wait(d) ==
    /\ At(d, "wait")
    /\ \/ watched' = watched /\ watched # Closed
       \/ watched # depth /\ watched' \in {depth, Unwatched}
    /\ dirty' = (dirty \/ watched' = Unwatched \/ (event /\ watched' = watched))
    /\ missed' = (missed \/ (event /\ watched' # watched))
    /\ event' = FALSE
    /\ main' = "select"
    /\ UNCHANGED <<vars, depth, cache, verdict, touched, seen, hot, probe>>

\* A visit does not come to an end: that of another project, or what this one does
\* before its claims.
Hang(d) ==
    /\ At(d, "visit")
    /\ d < Daemons
    /\ main' = "stuck"
    /\ UNCHANGED <<vars, depth, watched, event, dirty, cache, verdict, touched, seen, hot,
                   probe, missed>>

\* Or it does.
Unhang(d) ==
    /\ At(d, "stuck")
    /\ main' = "visit"
    /\ UNCHANGED <<vars, depth, watched, event, dirty, cache, verdict, touched, seen, hot,
                   probe, missed>>

\* The claim sweep watchdog takes the two looks itself; then the process exits.
Notice(d) ==
    /\ At(d, "stuck")
    /\ There /\ ~\E r \in seen : file[r] = "queued"
    /\ seen' = {r \in Requests : file[r] = "queued"}
    /\ UNCHANGED <<vars, depth, watched, event, dirty, cache, verdict, touched, hot, main,
                   probe, missed>>

Exit71(d) ==
    /\ At(d, "stuck")
    /\ \E r \in seen : file[r] = "queued"
    /\ Crash(d)
    /\ Restart

----
(* The rest of the daemon.                                                 *)

\* A new lease marks its project at the next poll of the registry; with that of another
\* project all are visited.
AttachMarks(d) ==
    /\ main = "select"
    /\ Attach(d)
    /\ IF ~Arriving' THEN Restart
       ELSE /\ dirty' \in {dirty, TRUE} /\ hot' = TRUE
            /\ UNCHANGED <<depth, watched, event, cache, verdict, touched, seen, main, probe,
                           missed>>

Succeeded(d) == (Crash(d) \/ Exit(d)) /\ Restart
Leaves(d) == (Arriving => main = "rest") /\ HandOff(d) /\ Restart

\* A request that was given back is claimed when the loop comes to it.
ClaimAgain(d, r) == claims[r] > 0 /\ Claim(d, r) /\ Keep

Boots(d) == Start(d) \/ SweepStep(d) \/ \E r \in Requests : Requeue(d, r)

Elsewhere ==
    /\ \/ \E r \in Requests : Age(r) \/ Stale(r) \/ Reap(r)
       \/ \E t \in Threads : ThreadStep(t) \/ Renew(t) \/ LastBeat(t) \/ Fail(t)
       \/ \E d \in Ids : Boots(d) \/ \E r \in Requests : Convert(d, r)
    /\ Keep

MainStep(d) ==
    \/ Select(d) \/ Visit(d) \/ Look(d) \/ Rest(d) \/ Wait(d)
    \/ \E r \in Requests : ClaimSettled(d, r) \/ ClaimAgain(d, r)

InboxNext ==
    \/ MakeDir \/ Settle \/ Expire \/ Elsewhere
    \/ \E r \in Requests : Put(r)
    \/ \E d \in Ids :
          \/ MainStep(d) \/ Probe(d) \/ Store(d) \/ Hang(d) \/ Unhang(d)
          \/ Notice(d) \/ Exit71(d) \/ AttachMarks(d) \/ Succeeded(d) \/ Leaves(d)

\* Threads run and daemons boot, leave and exit; a daemon that is gone is replaced (by
\* its guard, or by the next client).  The main loop takes its turns, however many leases
\* attach and visits hang; the watchdog runs and the cached scan grows old.
InboxFairness ==
    /\ \A t \in Threads : WF_allVars(ThreadStep(t) /\ Keep)
    /\ \A d \in Ids :
          /\ WF_allVars((Exit(d) /\ Restart) \/ (Boots(d) /\ Keep))
          /\ WF_allVars(Notice(d) \/ Exit71(d))
          /\ SF_allVars(MainStep(d))
    /\ WF_allVars(Expire)

InboxSpec == InboxInit /\ [][InboxNext]_allVars

InboxFairSpec == InboxSpec /\ InboxFairness

----
(* Properties.                                                             *)

\* A request that nobody has claimed is on the way to be noticed, wherever the loop is:
\* there is a mark, a scan that has seen it or none that is believed, or a change that the
\* watch will tell of, unless the change was missed in one of the three gaps that the
\* loop has: the watch was opened again, or did not reach the directory yet, or another
\* thread's scan took the mark away.
UnnoticedWasMissed ==
    \A r \in Requests :
        file[r] = "queued" /\ claims[r] = 0
          => dirty \/ event \/ cache # "idle" \/ missed
=============================================================================
