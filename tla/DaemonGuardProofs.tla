-------------------------- MODULE DaemonGuardProofs --------------------------
(* That the owner file is not taken from a daemon that runs, for any number *)
(* of processes, guards, clients and events.                                *)
EXTENDS DaemonGuard, TLAPS

\* The takers' lock is of the one that is about to replace the owner file, or has.
LockIsTakers == \A d \in Daemons : pc[d] \in {"rename", "reread"} => taker = d

\* Where a process is says whether the owner file names it, and whose record it left.  None
\* that serves loses the file, so none looks for another owner in a tick.
OwnerIsWhereItShould(d) ==
    /\ mode[d] \notin {"orphaned", "displaced"} /\ pc[d] # "confirm"
    /\ pc[d] \in {"starting", "waiting", "denied", "link", "judge", "lock", "rename"} =>
          owner # d
    /\ pc[d] \in {"reread", "booted", "serving", "removing"} => owner = d
    /\ pc[d] \in {"serving", "removing"} => status = d

\* What was judged stale does not run, will not run again, and is still the owner under the lock.
JudgedRight(d) ==
    /\ pc[d] \in {"judge", "lock", "rename"} => owner # "none"
    /\ pc[d] \in {"lock", "rename"} => ~Runs(seen[d])
    /\ pc[d] = "rename" => owner = seen[d]

\* The record of a process that runs is fresh, and an owner without one is young.
RunnersAreFresh ==
    /\ Runs(status) => fresh
    /\ Runs(owner) /\ status # owner => young

OwnerSafe ==
    /\ OwnershipTypeOK
    /\ LockIsTakers
    /\ ~excused => /\ \A d \in Daemons : OwnerIsWhereItShould(d) /\ JudgedRight(d)
                   /\ RunnersAreFresh

----
(* What single steps keep.                                                 *)

\* A process that is started is named by nothing, so whoever was judged stays judged.
LEMMA StartKeeps ==
    ASSUME OwnerSafe, NEW d \in Daemons, Startable(d),
           NEW s \in {"starting", "waiting"}, Goes(d, s),
           \/ UNCHANGED mode
           \/ mode' = [mode EXCEPT ![d] = "takeover"],
           UNCHANGED <<seen, fileVars, noteVars, excused>>, events' \in 0 .. MaxEvents
    PROVE  OwnerSafe'
<1> USE DEF OwnerSafe, OwnershipTypeOK, Goes, fileVars, noteVars
<1>1. OwnershipTypeOK'
  OBVIOUS
<1>2. LockIsTakers'
  BY DEF LockIsTakers
<1>3. d \notin {owner, status} /\ \A e \in Daemons : seen[e] # d
  BY DEF Startable
<1>4. \A x \in Daemons \cup {"none"} : x # d => Runs(x)' = Runs(x)
  BY OwnershipAssumption DEF Runs, Alive
<1>5. ASSUME ~excused PROVE RunnersAreFresh'
  BY <1>3, <1>4, <1>5 DEF RunnersAreFresh
<1>6. ASSUME ~excused, NEW e \in Daemons PROVE OwnerIsWhereItShould(e)'
  BY <1>3, <1>6 DEF OwnerIsWhereItShould
<1>7. ASSUME ~excused, NEW e \in Daemons PROVE JudgedRight(e)'
  BY <1>3, <1>4, <1>7 DEF JudgedRight, Claiming
<1> QED BY <1>1, <1>2, <1>5, <1>6, <1>7

\* Where a claim that returns TRUE goes on.
LEMMA GrantedGoes ==
    ASSUME OwnershipTypeOK, NEW d \in Daemons, Granted(d)
    PROVE  /\ Goes(d, IF mode[d] \in {"orphaned", "displaced"} THEN "confirm" ELSE "booted")
           /\ backoff' \in BOOLEAN
<1>1. mode[d] \in {"boot", "takeover", "again", "orphaned", "displaced"}
  BY DEF OwnershipTypeOK
<1>2. CASE mode[d] \in {"orphaned", "displaced"}
  BY <1>2 DEF Granted, OwnershipTypeOK
<1>3. CASE mode[d] \notin {"orphaned", "displaced"}
  BY <1>1, <1>3 DEF Granted, OwnershipTypeOK
<1> QED BY <1>2, <1>3

\* Steps of a claim.
LEMMA ClaimKeeps ==
    ASSUME OwnerSafe, NEW d \in Daemons, Claim(d)
    PROVE  OwnerSafe'
<1> USE OwnershipAssumption
    DEF OwnerSafe, OwnershipTypeOK, Goes, fileVars, noteVars, eventVars, Claiming
<1>1. CASE Link(d)
  <2>1. CASE Denied(d) /\ UNCHANGED <<owner, young>>
    BY <1>1, <2>1 DEF Link, Denied, LockIsTakers, OwnerIsWhereItShould, JudgedRight,
       RunnersAreFresh, Runs, Alive
  <2>2. CASE Granted(d) /\ owner = "none" /\ owner' = d /\ young' = TRUE
    <3>1. /\ pc' = [pc EXCEPT ![d] = IF mode[d] \in {"orphaned", "displaced"} THEN "confirm"
                                    ELSE "booted"]
          /\ backoff' \in BOOLEAN
      BY <2>2, GrantedGoes
    <3>2. pc[d] = "link" /\ UNCHANGED <<mode, seen, status, fresh, taker, reserved, marker, eventVars>>
      BY <1>1 DEF Link
    <3>3. OwnershipTypeOK' /\ LockIsTakers'
      BY <2>2, <3>1, <3>2 DEF LockIsTakers
    <3>4. ASSUME ~excused PROVE RunnersAreFresh'
      BY <2>2, <3>1, <3>2, <3>4 DEF RunnersAreFresh, Runs, Alive
    <3>5. ASSUME ~excused, NEW e \in Daemons PROVE OwnerIsWhereItShould(e)'
      BY <2>2, <3>1, <3>2, <3>5 DEF OwnerIsWhereItShould
    <3>6. ASSUME ~excused, NEW e \in Daemons PROVE JudgedRight(e)'
      BY <2>2, <3>1, <3>2, <3>6 DEF JudgedRight
    <3> QED BY <3>2, <3>3, <3>4, <3>5, <3>6
  <2>3. CASE Goes(d, "judge") /\ owner # "none" /\ UNCHANGED <<owner, young, backoff>>
    BY <1>1, <2>3 DEF Link, LockIsTakers, OwnerIsWhereItShould, JudgedRight,
       RunnersAreFresh, Runs, Alive
  <2> QED BY <1>1, <2>1, <2>2, <2>3 DEF Link
<1>2. CASE Judge(d)
  <2>1. CASE OwnerStale
    <3>1. /\ pc[d] = "judge" /\ pc' = [pc EXCEPT ![d] = "lock"]
          /\ seen' = [seen EXCEPT ![d] = owner]
          /\ UNCHANGED <<mode, fileVars, noteVars, eventVars>>
      BY <1>2, <2>1 DEF Judge
    <3>2. ~excused => ~Runs(owner)
      BY <2>1 DEF OwnerStale, RunnersAreFresh, Runs, Alive
    <3>3. \A x \in Daemons \cup {"none"} : Runs(x)' = Runs(x)
      BY <3>1 DEF Runs, Alive
    <3>4. OwnershipTypeOK' /\ LockIsTakers' /\ (~excused => RunnersAreFresh')
      BY <3>1, <3>3 DEF LockIsTakers, RunnersAreFresh
    <3>5. ASSUME ~excused, NEW e \in Daemons PROVE OwnerIsWhereItShould(e)'
      BY <3>1, <3>5 DEF OwnerIsWhereItShould
    <3>6. ASSUME ~excused, NEW e \in Daemons PROVE JudgedRight(e)'
      BY <3>1, <3>2, <3>3, <3>6 DEF JudgedRight
    <3> QED BY <3>1, <3>4, <3>5, <3>6
  <2>2. CASE ~OwnerStale
    <3>1. /\ pc[d] = "judge" /\ Answer(d, owner = d)
          /\ UNCHANGED <<mode, seen, fileVars, marker, eventVars>>
      BY <1>2, <2>2 DEF Judge
    <3>2. CASE owner = d
      BY <3>1, <3>2, GrantedGoes DEF Answer, LockIsTakers, OwnerIsWhereItShould
    <3>3. CASE owner # d
      BY <3>1, <3>3 DEF Answer, Denied, LockIsTakers, OwnerIsWhereItShould, JudgedRight,
         RunnersAreFresh, Runs, Alive
    <3> QED BY <3>2, <3>3
  <2> QED BY <2>1, <2>2
<1>3. CASE LockTimesOut(d) \/ TakeLock(d)
  BY <1>3 DEF LockTimesOut, TakeLock, Denied, Forgets, LockIsTakers,
     OwnerIsWhereItShould, JudgedRight, RunnersAreFresh, Runs, Alive
<1>4. CASE Rename(d)
  BY <1>4 DEF Rename, LockIsTakers, OwnerIsWhereItShould, JudgedRight,
     RunnersAreFresh, Runs, Alive
<1>5. CASE Reread(d)
  <2>1. /\ pc[d] = "reread" /\ Answer(d, owner = d)
        /\ seen' = [seen EXCEPT ![d] = "none"] /\ taker' = "none"
        /\ UNCHANGED <<mode, owner, young, status, fresh, reserved, marker, eventVars>>
    BY <1>5 DEF Reread, Forgets
  <2>2. \A e \in Daemons : pc[e] \in {"rename", "reread"} => e = d
    BY <2>1 DEF LockIsTakers
  <2>3. \E s \in {"booted", "confirm", "denied"} :
           /\ pc' = [pc EXCEPT ![d] = s] /\ backoff' \in BOOLEAN
           /\ ~excused => s = "booted"
    <3>1. CASE owner = d
      BY <2>1, <3>1, GrantedGoes DEF Answer, OwnerIsWhereItShould
    <3>2. CASE owner # d
      BY <2>1, <3>2 DEF Answer, Denied, OwnerIsWhereItShould
    <3> QED BY <3>1, <3>2
  <2>4. OwnershipTypeOK' /\ LockIsTakers'
    BY <2>1, <2>2, <2>3 DEF LockIsTakers
  <2>5. \A x \in Daemons \cup {"none"} : Runs(x)' = Runs(x)
    BY <2>1, <2>3 DEF Runs, Alive
  <2>6. ASSUME ~excused PROVE RunnersAreFresh'
    BY <2>1, <2>5, <2>6 DEF RunnersAreFresh
  <2>7. ASSUME ~excused, NEW e \in Daemons PROVE OwnerIsWhereItShould(e)'
    BY <2>1, <2>3, <2>7 DEF OwnerIsWhereItShould
  <2>8. ASSUME ~excused, NEW e \in Daemons PROVE JudgedRight(e)'
    BY <2>1, <2>3, <2>5, <2>8 DEF JudgedRight
  <2> QED BY <2>1, <2>4, <2>6, <2>7, <2>8
<1> QED BY <1>1, <1>2, <1>3, <1>4, <1>5 DEF Claim

\* A process that dies or hangs does not run any more, and what it held is free.
LEMMA EndKeeps ==
    ASSUME OwnerSafe, NEW d \in Daemons, NEW s \in {"dead", "hung"}, Goes(d, s),
           mode' \in {mode, [mode EXCEPT ![d] = "boot"]},
           seen' \in {seen, [seen EXCEPT ![d] = "none"]},
           taker' \in {taker, IF taker = d THEN "none" ELSE taker},
           UNCHANGED <<owner, young, status, fresh, reserved>>,
           backoff' \in BOOLEAN, marker' \in BOOLEAN, events' \in 0 .. MaxEvents,
           excused' = excused
    PROVE  OwnerSafe'
<1> USE OwnershipAssumption DEF OwnerSafe, OwnershipTypeOK, Goes
<1>1. OwnershipTypeOK' /\ LockIsTakers'
  BY DEF LockIsTakers
<1>2. \A x \in Daemons \cup {"none"} : Runs(x)' => Runs(x)
  BY DEF Runs, Alive
<1>3. ASSUME ~excused PROVE RunnersAreFresh'
  BY <1>2, <1>3 DEF RunnersAreFresh
<1>4. ASSUME ~excused, NEW e \in Daemons PROVE OwnerIsWhereItShould(e)'
  BY <1>4 DEF OwnerIsWhereItShould
<1>5. ASSUME ~excused, NEW e \in Daemons PROVE JudgedRight(e)'
  <2>1. pc'[e] = "judge" \/ pc'[e] \in {"lock", "rename"} => e # d /\ pc'[e] = pc[e]
    OBVIOUS
  <2>2. e # d => seen'[e] = seen[e]
    OBVIOUS
  <2> QED BY <1>2, <1>5, <2>1, <2>2 DEF JudgedRight
<1> QED BY <1>1, <1>3, <1>4, <1>5

\* The rest of the life of a daemon.
LEMMA LifeKeeps ==
    ASSUME OwnerSafe, NEW d \in Daemons,
           \/ Refused(d) \/ Boot(d) \/ ClaimsAgain(d) \/ BootFails(d) \/ FirstBeat(d)
           \/ Tick(d) \/ Confirm(d) \/ AuthorityLost(d)
           \/ TakesOver(d) \/ WaitsOn(d) \/ GivesUp(d) \/ Removes(d)
    PROVE  OwnerSafe'
<1> USE OwnershipAssumption
    DEF OwnerSafe, OwnershipTypeOK, Goes, fileVars, noteVars, eventVars, Claiming, LockIsTakers
<1>1. CASE Refused(d) \/ BootFails(d) \/ GivesUp(d)
  <2>1. /\ Goes(d, "dead")
        /\ UNCHANGED <<seen, taker, owner, young, status, fresh, reserved, marker, events,
                       excused>>
    BY <1>1 DEF Refused, BootFails, GivesUp
  <2>2. /\ mode' \in {mode, [mode EXCEPT ![d] = "boot"]}
        /\ backoff' \in BOOLEAN
    BY <1>1 DEF Refused, BootFails, GivesUp
  <2>3. marker' \in BOOLEAN /\ events' \in 0 .. MaxEvents
    BY <2>1
  <2> HIDE DEF OwnerSafe, OwnershipTypeOK, Goes, LockIsTakers
  <2> QED BY <2>1, <2>2, <2>3, EndKeeps
<1>2. CASE Boot(d) \/ ClaimsAgain(d) \/ TakesOver(d) \/ WaitsOn(d)
  BY <1>2 DEF Boot, ClaimsAgain, TakesOver, WaitsOn, OwnerIsWhereItShould, JudgedRight,
     RunnersAreFresh, Runs, Alive
<1>3. CASE FirstBeat(d)
  BY <1>3 DEF FirstBeat, WritesHeartbeat, OwnerIsWhereItShould, JudgedRight,
     RunnersAreFresh, Runs, Alive
<1>4. CASE Tick(d)
  <2>1. CASE owner = d
    BY <1>4, <2>1 DEF Tick, WritesHeartbeat, OwnerIsWhereItShould, JudgedRight, RunnersAreFresh,
       Runs, Alive
  <2>2. CASE owner # d
    BY <1>4, <2>2 DEF Tick, OwnerIsWhereItShould
  <2> QED BY <2>1, <2>2
<1>5. CASE Confirm(d)
  BY <1>5 DEF Confirm, Leaves, OwnerIsWhereItShould
<1>6. CASE AuthorityLost(d)
  BY <1>6, EndKeeps DEF AuthorityLost, Leaves
<1>7. CASE Removes(d)
  <2>1. /\ pc' = [pc EXCEPT ![d] = "dead"] /\ mode' = [mode EXCEPT ![d] = "boot"]
        /\ owner' = "none" /\ young' = FALSE /\ marker' = TRUE /\ excused'
        /\ UNCHANGED <<seen, status, fresh, taker, reserved, backoff, events>>
    BY <1>7 DEF Removes, Leaves
  <2>2. excused' \in BOOLEAN
    BY <1>7 DEF Removes
  <2>3. OwnershipTypeOK'
    BY <2>1, <2>2
  <2>4. LockIsTakers'
    BY <2>1
  <2> QED BY <2>1, <2>3, <2>4
<1> QED BY <1>1, <1>2, <1>3, <1>4, <1>5, <1>6, <1>7

\* A release leads to the removal of the file by its owner, or to the end.
LEMMA ReleasesKeeps ==
    ASSUME OwnerSafe, NEW d \in Daemons, pc[d] = "serving", Releases(d),
           reserved' \in Daemons \cup {"none"}, events' \in 0 .. MaxEvents,
           UNCHANGED <<seen, owner, young, status, fresh, taker, backoff, excused>>
    PROVE  OwnerSafe'
<1> USE OwnershipAssumption DEF OwnerSafe, OwnershipTypeOK, Goes, LockIsTakers
<1>1. CASE owner = d
  BY <1>1 DEF Releases, OwnerIsWhereItShould, JudgedRight, RunnersAreFresh, Runs, Alive
<1>2. CASE owner # d
  <2>1. pc' = [pc EXCEPT ![d] = "dead"] /\ mode' = [mode EXCEPT ![d] = "boot"] /\ marker' = TRUE
    BY <1>2 DEF Releases, Leaves
  <2> QED BY <1>2, <2>1 DEF OwnerIsWhereItShould
<1> QED BY <1>1, <1>2

LEMMA ChosenKeeps ==
    ASSUME OwnerSafe, NEW d \in Daemons, Chosen(d)
    PROVE  OwnerSafe'
<1>1. events \in 0 .. MaxEvents /\ (Happens => events' \in 0 .. MaxEvents)
  BY OwnershipAssumption DEF OwnerSafe, OwnershipTypeOK, Happens
<1>2. backoff \in BOOLEAN /\ marker \in BOOLEAN
  BY DEF OwnerSafe, OwnershipTypeOK
<1>3. CASE StartTakeover(d)
  BY <1>1, <1>3, StartKeeps DEF StartTakeover
<1>4. CASE HandsOver(d) \/ Stops(d)
  BY <1>1, <1>4, ReleasesKeeps DEF HandsOver, Stops, eventVars, fileVars,
     OwnerSafe, OwnershipTypeOK
<1>5. CASE Recycles(d)
  BY <1>1, <1>2, <1>5, EndKeeps DEF Recycles, Leaves, fileVars
<1>6. CASE Crash(d)
  BY <1>1, <1>2, <1>6, EndKeeps DEF Crash, Forgets, noteVars
<1>7. CASE Hang(d)
  BY <1>1, <1>2, <1>7, EndKeeps DEF Hang, fileVars, noteVars
<1>8. ASSUME NEW e \in Daemons, Reexec(d, e) PROVE OwnerSafe'
  <2>1. d # e /\ pc[e] = "dead"
    BY <1>8 DEF Reexec, Startable
  <2> QED BY <1>8, <2>1 DEF Reexec, noteVars, OwnerSafe, OwnershipTypeOK, LockIsTakers
<1> QED BY <1>3, <1>4, <1>5, <1>6, <1>7, <1>8 DEF Chosen

LEMMA TimeKeeps ==
    ASSUME OwnerSafe, TimePasses
    PROVE  OwnerSafe'
<1> USE OwnershipAssumption
    DEF OwnerSafe, OwnershipTypeOK, LockIsTakers, Happens, noteVars, eventVars
<1>1. CASE RecordAges
  <2>1. /\ fresh' = FALSE /\ events' \in 0 .. MaxEvents
        /\ excused' \in BOOLEAN /\ (excused' <=> excused \/ Runs(status))
        /\ UNCHANGED <<pc, mode, seen, owner, young, status, taker, reserved, backoff, marker>>
    <3>1. CASE Runs(status)
      BY <1>1, <3>1 DEF RecordAges
    <3>2. CASE ~Runs(status)
      BY <1>1, <3>2 DEF RecordAges
    <3> QED BY <3>1, <3>2
  <2>2. \A x \in Daemons \cup {"none"} : Runs(x)' = Runs(x)
    BY <2>1 DEF Runs, Alive
  <2>3. ~excused' => RunnersAreFresh'
    BY <2>1, <2>2 DEF RunnersAreFresh
  <2>4. ASSUME ~excused, NEW d \in Daemons PROVE OwnerIsWhereItShould(d)' /\ JudgedRight(d)'
    BY <2>1, <2>2, <2>4 DEF OwnerIsWhereItShould, JudgedRight
  <2> QED BY <2>1, <2>3, <2>4
<1>2. CASE FileAges
  <2>1. /\ young' = FALSE /\ events' \in 0 .. MaxEvents /\ owner \in Daemons /\ status # owner
        /\ excused' \in BOOLEAN
        /\ excused' <=> excused \/ pc[owner] \in {"reread", "confirm", "booted"}
        /\ UNCHANGED <<pc, mode, seen, owner, status, fresh, taker, reserved, backoff, marker>>
    <3>1. owner \in Daemons /\ status # owner
      BY <1>2 DEF FileAges, Alive
    <3>2. CASE pc[owner] \in {"reread", "confirm", "booted"}
      BY <1>2, <3>1, <3>2 DEF FileAges
    <3>3. CASE pc[owner] \notin {"reread", "confirm", "booted"}
      BY <1>2, <3>1, <3>3 DEF FileAges
    <3> QED BY <3>2, <3>3
  <2>2. \A x \in Daemons \cup {"none"} : Runs(x)' = Runs(x)
    BY <2>1 DEF Runs, Alive
  <2>3. ~excused' => ~Runs(owner)
    <3> SUFFICES ASSUME ~excused' PROVE pc[owner] \in {"dead", "hung"}
      BY DEF Runs, Alive
    <3>1. OwnerIsWhereItShould(owner)
      BY <2>1
    <3> QED BY <2>1, <3>1 DEF OwnerIsWhereItShould, Claiming
  <2>4. ~excused' => RunnersAreFresh'
    BY <2>1, <2>2, <2>3 DEF RunnersAreFresh
  <2>5. ASSUME ~excused, NEW d \in Daemons PROVE OwnerIsWhereItShould(d)' /\ JudgedRight(d)'
    BY <2>1, <2>2, <2>5 DEF OwnerIsWhereItShould, JudgedRight
  <2> QED BY <2>1, <2>4, <2>5
<1>3. CASE ReservationAges
  BY <1>3 DEF ReservationAges, OwnerIsWhereItShould, JudgedRight, RunnersAreFresh, Runs, Alive
<1> QED BY <1>1, <1>2, <1>3 DEF TimePasses

\* Guards and clients start processes, and touch nothing else of the daemons.
LEMMA SpawnKeeps ==
    ASSUME OwnerSafe, Spawns, UNCHANGED <<mode, seen, fileVars, noteVars, eventVars>>
    PROVE  OwnerSafe'
<1>1. ASSUME NEW d \in Daemons, Startable(d), Goes(d, "starting") PROVE OwnerSafe'
  BY <1>1, StartKeeps DEF eventVars, OwnerSafe, OwnershipTypeOK
<1>2. CASE UNCHANGED pc
  BY <1>2 DEF OwnerSafe, OwnershipTypeOK, LockIsTakers, OwnerIsWhereItShould, JudgedRight,
     RunnersAreFresh, Runs, Alive, fileVars, noteVars, eventVars
<1> QED BY <1>1, <1>2 DEF Spawns

LEMMA StepKeeps ==
    ASSUME OwnerSafe, [Next]_vars
    PROVE  OwnerSafe'
<1>1. ASSUME UNCHANGED <<pc, mode, seen, fileVars, noteVars, excused>>,
             events' \in 0 .. MaxEvents
      PROVE  OwnerSafe'
  BY <1>1 DEF OwnerSafe, OwnershipTypeOK, LockIsTakers, OwnerIsWhereItShould, JudgedRight,
     RunnersAreFresh, Runs, Alive, fileVars, noteVars
<1>2. events \in 0 .. MaxEvents /\ (Happens => events' \in 0 .. MaxEvents)
  BY OwnershipAssumption DEF OwnerSafe, OwnershipTypeOK, Happens
<1>3. CASE UNCHANGED ownVars
  BY <1>1, <1>2, <1>3 DEF ownVars, eventVars
<1>4. CASE UNCHANGED vars
  BY <1>3, <1>4 DEF vars
<1>5. ASSUME NEW d \in Daemons, OwnStep(d) PROVE OwnerSafe'
  BY <1>5, ClaimKeeps, LifeKeeps DEF OwnStep, LivesOn
<1>6. ASSUME NEW d \in Daemons, Chosen(d) PROVE OwnerSafe'
  BY <1>6, ChosenKeeps
<1>7. CASE TimePasses
  BY <1>7, TimeKeeps
<1>8. ASSUME NEW g \in Guards, GuardStep(g) PROVE OwnerSafe'
  <2>1. CASE Restarts(g)
    BY <2>1, SpawnKeeps DEF Restarts
  <2>2. CASE ~Restarts(g)
    BY <1>3, <1>8, <2>2 DEF GuardStep, GuardAsks, GuardRenames, GuardStarts, Displaced, SeesFresh,
       StandsDown, BacksOff, GuardWaited
  <2> QED BY <2>1, <2>2
<1>9. ASSUME NEW g \in Guards, GuardCrashes(g) PROVE OwnerSafe'
  BY <1>1, <1>2, <1>9 DEF GuardCrashes
<1>10. ASSUME NEW c \in Clients, ClientStep(c) PROVE OwnerSafe'
  BY <1>3, <1>10, SpawnKeeps DEF ClientStep, CreatesLock, FindsLock, RemovesLock
<1>11. ASSUME NEW c \in Clients, ClientCrashes(c) PROVE OwnerSafe'
  BY <1>1, <1>2, <1>11 DEF ClientCrashes
<1>12. CASE PulseAges \/ SpawnLockAges
  BY <1>1, <1>2, <1>12 DEF PulseAges, SpawnLockAges
<1> QED BY <1>4, <1>5, <1>6, <1>7, <1>8, <1>9, <1>10, <1>11, <1>12 DEF Next

----
(* What changes the owner file, and what starts a process.                 *)

\* Only the rename of a taker replaces an owner.
LEMMA OnlyRenameReplaces ==
    ASSUME Next, owner' # owner, owner # "none", owner' # "none"
    PROVE  \E d \in Daemons : Rename(d)
<1>1. ASSUME UNCHANGED ownVars PROVE FALSE
  BY <1>1 DEF ownVars, fileVars
<1>2. ASSUME NEW d \in Daemons, OwnStep(d) PROVE Rename(d)
  <2>1. ~FirstBeat(d)
    BY DEF FirstBeat
  <2>2. ~Link(d) /\ ~Judge(d) /\ ~TakeLock(d) /\ ~LockTimesOut(d) /\ ~Reread(d)
    BY DEF Link, Judge, TakeLock, LockTimesOut, Reread, fileVars
  <2>3. ~Refused(d) /\ ~Boot(d) /\ ~ClaimsAgain(d) /\ ~BootFails(d) /\ ~Tick(d) /\ ~Confirm(d)
        /\ ~AuthorityLost(d) /\ ~TakesOver(d) /\ ~WaitsOn(d) /\ ~GivesUp(d) /\ ~Removes(d)
    BY DEF Refused, Boot, ClaimsAgain, BootFails, Tick, Confirm, AuthorityLost, TakesOver,
       WaitsOn, GivesUp, Removes, fileVars
  <2> QED BY <1>2, <2>1, <2>2, <2>3 DEF OwnStep, LivesOn, Claim
<1>3. ASSUME NEW d \in Daemons, Chosen(d) PROVE FALSE
  BY <1>3 DEF Chosen, StartTakeover, HandsOver, Stops, Recycles, Crash, Hang, Reexec, fileVars
<1>4. ~TimePasses
  BY DEF TimePasses, RecordAges, FileAges, ReservationAges
<1>5. ASSUME NEW g \in Guards, GuardStep(g) \/ GuardCrashes(g) PROVE FALSE
  BY <1>1, <1>5 DEF GuardStep, GuardAsks, GuardRenames, GuardStarts, Displaced, SeesFresh,
     StandsDown, BacksOff, Restarts, GuardWaited, GuardCrashes, fileVars
<1>6. ASSUME NEW c \in Clients, ClientStep(c) \/ ClientCrashes(c) PROVE FALSE
  BY <1>1, <1>6 DEF ClientStep, CreatesLock, FindsLock, RemovesLock, ClientCrashes, fileVars
<1>7. ~PulseAges /\ ~SpawnLockAges
  BY DEF PulseAges, SpawnLockAges, fileVars
<1> QED BY <1>2, <1>3, <1>4, <1>5, <1>6, <1>7 DEF Next

\* Whoever starts a process found no fresh record.
LEMMA StartsUnderNoFresh ==
    ASSUME OwnerSafe, Next, NEW d \in Daemons, pc[d] = "dead", pc'[d] = "starting"
    PROVE  ~DaemonFresh
<1> USE DEF OwnerSafe, OwnershipTypeOK
<1>1. ASSUME UNCHANGED pc PROVE FALSE
  BY <1>1
<1>2. ASSUME NEW e \in Daemons, NEW s, Goes(e, s), s # "starting" PROVE FALSE
  BY <1>2 DEF Goes
<1>3. ASSUME NEW e \in Daemons, OwnStep(e) PROVE FALSE
  <2>1. CASE Claim(e)
    BY <1>1, <1>2, <2>1 DEF Claim, Link, Judge, TakeLock, LockTimesOut, Rename, Reread, Answer,
       Granted, Denied
  <2>2. CASE FirstBeat(e) \/ Tick(e) \/ Confirm(e) \/ AuthorityLost(e) \/ Removes(e)
    BY <1>1, <1>2, <2>2 DEF FirstBeat, Tick, Confirm, AuthorityLost, Removes, Leaves
  <2>3. CASE \/ Refused(e) \/ Boot(e) \/ ClaimsAgain(e) \/ BootFails(e)
             \/ TakesOver(e) \/ WaitsOn(e) \/ GivesUp(e)
    BY <1>2, <2>3 DEF Refused, Boot, ClaimsAgain, BootFails, TakesOver, WaitsOn, GivesUp
  <2> QED BY <1>3, <2>1, <2>2, <2>3 DEF OwnStep, LivesOn
<1>4. ASSUME NEW e \in Daemons, Chosen(e) PROVE FALSE
  <2>1. CASE \/ StartTakeover(e) \/ HandsOver(e) \/ Stops(e) \/ Recycles(e) \/ Crash(e)
             \/ Hang(e)
    BY <1>2, <2>1 DEF StartTakeover, HandsOver, Stops, Releases, Recycles, Crash, Hang, Leaves
  <2>2. CASE \E f \in Daemons : Reexec(e, f)
    BY <2>2 DEF Reexec
  <2> QED BY <1>4, <2>1, <2>2 DEF Chosen
<1>5. ~TimePasses
  BY <1>1 DEF TimePasses, RecordAges, FileAges, ReservationAges
<1>6. ASSUME NEW g \in Guards, GuardStep(g) \/ GuardCrashes(g) PROVE ~DaemonFresh
  BY <1>1, <1>6 DEF GuardStep, GuardAsks, GuardRenames, GuardStarts, Displaced, SeesFresh,
     StandsDown, BacksOff, Restarts, GuardWaited, GuardCrashes, ownVars
<1>7. ASSUME NEW c \in Clients, ClientStep(c) \/ ClientCrashes(c) PROVE ~DaemonFresh
  BY <1>1, <1>7 DEF ClientStep, CreatesLock, FindsLock, RemovesLock, ClientCrashes, ownVars
<1>8. ~PulseAges /\ ~SpawnLockAges
  BY <1>1 DEF PulseAges, SpawnLockAges
<1> QED BY <1>3, <1>4, <1>5, <1>6, <1>7, <1>8 DEF Next

LEMMA OwnerSafeInit == Init => OwnerSafe
<1> SUFFICES ASSUME Init PROVE OwnerSafe
  OBVIOUS
<1> USE OwnershipAssumption DEF Init, OwnershipInit
<1>1. OwnershipTypeOK
  <2>1. events \in 0 .. MaxEvents
    OBVIOUS
  <2>2. /\ pc \in [Daemons -> {"dead"}] /\ mode \in [Daemons -> {"boot"}]
        /\ seen \in [Daemons -> {"none"}]
    OBVIOUS
  <2> QED BY <2>1, <2>2 DEF OwnershipTypeOK
<1>2. LockIsTakers /\ RunnersAreFresh
  BY DEF LockIsTakers, RunnersAreFresh, Runs, Alive
<1>3. \A d \in Daemons : OwnerIsWhereItShould(d) /\ JudgedRight(d)
  BY DEF OwnerIsWhereItShould, JudgedRight
<1> QED BY <1>1, <1>2, <1>3 DEF OwnerSafe

LEMMA OwnerSafeHolds == Spec => []OwnerSafe
BY OwnerSafeInit, StepKeeps, PTL DEF Spec

----
(* The types of the guards and clients.                                    *)

LEMMA GuardTypeStep ==
    ASSUME TypeOK, Next
    PROVE  /\ gpc' \in [Guards -> {"claiming", "claimed", "naming", "watching", "awaiting",
                                   "gone"}]
           /\ glock' \in Guards \cup {"none"} /\ pulse' \in Guards \cup {"none"}
           /\ pulseFresh' \in BOOLEAN /\ grace' \in BOOLEAN
<1> USE DEF TypeOK, guardVars, GuardGoes
<1>1. ASSUME NEW d \in Daemons, ArmsGuard(d) PROVE UNCHANGED guardVars \/ \E g \in Guards :
             GuardGoes(g, "claiming") /\ UNCHANGED <<glock, pulse, pulseFresh, grace>>
  BY <1>1 DEF ArmsGuard
<1>2. CASE \E d \in Daemons : OwnStep(d)
  BY <1>1, <1>2 DEF OwnStep
<1>3. CASE TimePasses /\ UNCHANGED <<guardVars, clientVars>>
  BY <1>3
<1>4. CASE \E d \in Daemons : Chosen(d) /\ UNCHANGED <<guardVars, clientVars>>
  BY <1>4
<1>5. ASSUME NEW g \in Guards, GuardAsks(g) \/ GuardRenames(g) \/ GuardStarts(g)
                               \/ Displaced(g) \/ GuardWaited(g) \/ GuardCrashes(g)
      PROVE  UNCHANGED gpc \/ \E s \in {"gone", "claimed", "naming", "watching"} : GuardGoes(g, s)
  BY <1>5 DEF GuardAsks, GuardRenames, GuardStarts, Displaced, GuardWaited, GuardCrashes
<1>6. ASSUME NEW g \in Guards, GuardAsks(g) \/ GuardRenames(g) \/ GuardStarts(g)
                               \/ Displaced(g) \/ GuardWaited(g) \/ GuardCrashes(g)
      PROVE  /\ glock' \in {glock, g} /\ pulse' \in {pulse, g}
             /\ pulseFresh' \in {pulseFresh, TRUE} /\ grace' \in {grace, TRUE}
  BY <1>6 DEF GuardAsks, GuardRenames, GuardStarts, Displaced, GuardWaited, GuardCrashes
<1>7. ASSUME NEW g \in Guards,
             SeesFresh(g) \/ StandsDown(g) \/ BacksOff(g) \/ Restarts(g)
      PROVE  /\ UNCHANGED gpc \/ GuardGoes(g, "gone") \/ GuardGoes(g, "awaiting")
             /\ UNCHANGED <<glock, grace>> /\ pulse' = g /\ pulseFresh' = TRUE
  BY <1>7 DEF SeesFresh, StandsDown, BacksOff, Restarts, Polls
<1>8. CASE \E g \in Guards : GuardStep(g) \/ GuardCrashes(g)
  <2>1. PICK g \in Guards : GuardStep(g) \/ GuardCrashes(g)
    BY <1>8
  <2>2. CASE SeesFresh(g) \/ StandsDown(g) \/ BacksOff(g) \/ Restarts(g)
    BY <1>7, <2>2
  <2>3. CASE ~(SeesFresh(g) \/ StandsDown(g) \/ BacksOff(g) \/ Restarts(g))
    BY <1>5, <1>6, <2>1, <2>3 DEF GuardStep
  <2> QED BY <2>2, <2>3
<1>9. CASE \E c \in Clients : ClientStep(c) \/ ClientCrashes(c)
  BY <1>9 DEF ClientStep, CreatesLock, FindsLock, RemovesLock, ClientCrashes
<1>10. CASE PulseAges
  BY <1>10 DEF PulseAges
<1>11. CASE SpawnLockAges
  BY <1>11 DEF SpawnLockAges
<1> QED BY <1>2, <1>3, <1>4, <1>8, <1>9, <1>10, <1>11 DEF Next

LEMMA ClientTypeStep ==
    ASSUME TypeOK, Next
    PROVE  /\ cpc' \in [Clients -> {"idle", "awaiting"}]
           /\ dlock' \in Clients \cup {"none"} /\ dlockOld' \in BOOLEAN
<1> USE DEF TypeOK, clientVars, ClientGoes
<1>1. CASE UNCHANGED clientVars
  BY <1>1
<1>2. ASSUME NEW g \in Guards, GuardStep(g) \/ GuardCrashes(g) PROVE UNCHANGED clientVars
  BY <1>2 DEF GuardStep, GuardAsks, GuardRenames, GuardStarts, Displaced, SeesFresh,
     StandsDown, BacksOff, Restarts, Polls, GuardWaited, GuardCrashes
<1>3. ASSUME NEW c \in Clients, ClientStep(c) \/ ClientCrashes(c)
      PROVE  /\ UNCHANGED cpc \/ ClientGoes(c, "idle") \/ ClientGoes(c, "awaiting")
             /\ dlock' \in {dlock, c, "none"} /\ dlockOld' \in {dlockOld, FALSE}
  BY <1>3 DEF ClientStep, CreatesLock, FindsLock, RemovesLock, ClientCrashes
<1>4. CASE \E c \in Clients : ClientStep(c) \/ ClientCrashes(c)
  BY <1>3, <1>4
<1>5. CASE PulseAges \/ SpawnLockAges
  BY <1>5 DEF PulseAges, SpawnLockAges
<1> QED BY <1>1, <1>2, <1>4, <1>5 DEF Next, OwnStep

----
(* The theorems.                                                           *)

\* Every variable keeps its type, for any processes, guards, clients and events.
THEOREM GuardTypeCorrect == Spec => []TypeOK
<1>1. Init => TypeOK
  <2> SUFFICES ASSUME Init PROVE TypeOK
    OBVIOUS
  <2>1. OwnershipTypeOK
    BY OwnerSafeInit DEF OwnerSafe
  <2> QED BY <2>1 DEF Init, TypeOK
<1>2. OwnerSafe /\ TypeOK /\ [Next]_vars => TypeOK'
  <2> SUFFICES ASSUME OwnerSafe, TypeOK, [Next]_vars PROVE TypeOK'
    OBVIOUS
  <2>1. OwnershipTypeOK'
    BY StepKeeps DEF OwnerSafe
  <2>2. CASE Next
    BY <2>1, <2>2, GuardTypeStep, ClientTypeStep DEF TypeOK
  <2>3. CASE UNCHANGED vars
    BY <2>1, <2>3 DEF TypeOK, vars, guardVars, clientVars
  <2> QED BY <2>2, <2>3
<1> QED BY <1>1, <1>2, OwnerSafeHolds, PTL DEF Spec

\* A daemon that runs, and whose record was renewed in time, keeps the owner file, whoever else
\* starts, takes over, crashes or waits for the lock (claim_ownership, install_stale_owner).
THEOREM OwnersAreNotRobbed == Spec => NotRobbed
<1>1. OwnerSafe /\ [Next]_vars =>
         [owner' # owner /\ owner' # "none" /\ Runs(owner) => excused]_vars
  <2> SUFFICES ASSUME OwnerSafe, Next, owner' # owner, owner' # "none", Runs(owner)
               PROVE  excused
    OBVIOUS
  <2>1. PICK d \in Daemons : Rename(d)
    BY OnlyRenameReplaces DEF Runs, Alive
  <2> QED BY <2>1 DEF Rename, OwnerSafe, JudgedRight
<1> QED BY <1>1, OwnerSafeHolds, PTL DEF Spec, NotRobbed

\* Until a process was too slow, or an owner file was removed, there is never more than one
\* daemon that serves: OneServes holds without its "for long" (claim_ownership,
\* holds_heartbeat_authority).
THEOREM OneServesAtATime == Spec => []ServesAlone
<1>1. OwnerSafe => ServesAlone
  BY DEF OwnerSafe, OwnerIsWhereItShould, ServesAlone
<1> QED BY <1>1, OwnerSafeHolds, PTL

\* Until then neither a guard nor a client starts a process beside a daemon that serves: the
\* record they judge it by is its own, and fresh (run_daemon_guard, ensure_daemon_running).
THEOREM NoneStartsBesideAServer == Spec => StartsAreNeeded
<1>1. ASSUME OwnerSafe, Next, NEW d \in Daemons, pc[d] = "dead", pc'[d] = "starting"
      PROVE  ~DaemonFresh
  BY <1>1, StartsUnderNoFresh
<1>2. ASSUME OwnerSafe, ~excused, NEW e \in Daemons, pc[e] = "serving"
      PROVE  DaemonFresh
  <2>1. status = e /\ Runs(e)
    BY <1>2, OwnershipAssumption DEF OwnerSafe, OwnerIsWhereItShould, Runs, Alive
  <2> QED BY <1>2, <2>1 DEF OwnerSafe, RunnersAreFresh, DaemonFresh, Runs
<1>3. OwnerSafe /\ [Next]_vars =>
         [(\E d \in Daemons : pc[d] = "dead" /\ pc'[d] = "starting")
             => excused \/ \A e \in Daemons : pc[e] # "serving"]_vars
  BY <1>1, <1>2
<1> QED BY <1>3, OwnerSafeHolds, PTL DEF Spec, StartsAreNeeded

\* Together: until a process was too slow or an owner file was removed, a daemon that serves is
\* the only one, is left its owner file, and has no other started beside it.
THEOREM ServersAreUndisturbed == Spec => ServesUndisturbed
BY OneServesAtATime, OwnersAreNotRobbed, NoneStartsBesideAServer, PTL DEF ServesUndisturbed
=============================================================================
