---------------------------- MODULE BrowserLease ----------------------------
(***************************************************************************)
(* The lease on the one accelerated browser of a repository identity        *)
(* (agentplug-host/src/browser_lease.rs) and the browser calls that use it  *)
(* (browser.rs, browser_cdp_call).  The lease is the file owner.json: its   *)
(* creation is the claim, a heartbeat thread renews it while somebody       *)
(* attends it, a waiter evicts a holder that went stale, and housekeeping   *)
(* closes a browser that was left idle.  One daemon runs at a time; the     *)
(* file, the record of an idle browser and Chrome itself outlive it.        *)
(*                                                                         *)
(* Every browser is headful, on the lease's own profile and launched by the *)
(* lease: attached endpoints and profiles named by a caller are left out.   *)
(***************************************************************************)
EXTENDS Naturals, FiniteSets

CONSTANTS Calls,        \* browser calls: one agent id each, released when they end
          Clients,      \* agents of the lease verbs, which acquire, hold and release
          Browsers,     \* Chrome processes
          MaxExits,     \* how often the daemon crashes or shuts down
          None

ASSUME BrowserLeaseAssumption ==
    /\ Calls \cap Clients = {} /\ Browsers # {}
    /\ MaxExits \in Nat
    /\ None \notin Calls \cup Clients \cup Browsers

Agents == Calls \cup Clients
Holder == [owner : Agents \cup {None}, proc : 0..MaxExits, fresh : BOOLEAN]
IdleStates == {"no", "idle", "expired"}
Entry == [browser : Browsers, idle : IdleStates]
AgentStates == {"out", "claim", "write", "evict", "attach", "ready", "use"}
Thread == [pc : AgentStates, browser : Browsers \cup {None}, prior : Agents \cup {None}]

ASSUME NoneIsNoRecord == None \notin Holder \cup Entry

VARIABLES
    file,       \* owner.json; owner None: created and not yet written
    record,     \* browser.json: the browser kept idle
    chrome,     \* the Chrome process on the lease's profile: a launch sweeps the profile first
    proc,       \* the pid of the daemon
    claimed,    \* CLAIMED holds the root
    attended,   \* ATTENDED is within the ttl
    beating,    \* HEARTBEATS holds the root
    refresh,    \* what a heartbeat read and has not written back yet
    tracked,    \* BROWSERS of the root
    agent,      \* the threads of the calls and clients
    closing,    \* housekeeping took this browser out of the map and closes it
    overrun     \* history: a claim was taken from an agent that was using it

memory == <<claimed, attended, beating, tracked>>
browserVars == <<file, record, chrome, proc, memory, refresh, agent, closing, overrun>>

BrowserTypeOK ==
    /\ file \in Holder \cup {None}
    /\ record \in Entry \cup {None}
    /\ chrome \in Browsers \cup {None}
    /\ proc \in 0..MaxExits
    /\ claimed \in BOOLEAN /\ attended \in BOOLEAN /\ beating \in BOOLEAN
    /\ refresh \in Holder \cup {None}
    /\ tracked \in Entry \cup {None}
    /\ agent \in [Agents -> Thread]
    /\ closing \in Browsers \cup {None}
    /\ overrun \in BOOLEAN

Out == [pc |-> "out", browser |-> None, prior |-> None]

BrowserInit ==
    /\ file = None /\ record = None /\ chrome = None /\ proc = 0
    /\ claimed = FALSE /\ attended = FALSE /\ beating = FALSE
    /\ refresh = None /\ tracked = None
    /\ agent = [a \in Agents |-> Out]
    /\ closing = None /\ overrun = FALSE

-----------------------------------------------------------------------------
Readable == file # None /\ file.owner # None
ClaimIsOurs == Readable /\ file.proc = proc
OwnedBy(a) == Readable /\ file.owner = a
Owner == IF file = None THEN None ELSE file.owner
Claim(a) == [owner |-> a, proc |-> proc, fresh |-> TRUE]
Unwritten == [owner |-> None, proc |-> proc, fresh |-> TRUE]

\* A WaitTicket is held until the acquire returns.
HasWaiter == \E a \in Agents : agent[a].pc \notin {"out", "use"}
\* A call uses its browser until it ends, a client as long as the lease is its own.
Using(a) == agent[a].pc = "use" /\ (a \in Calls \/ (OwnedBy(a) /\ attended))

Goes(a, pc) == agent' = [agent EXCEPT ![a].pc = pc]
Leaves(a) == agent' = [agent EXCEPT ![a] = Out]

\* release_claim: the file goes when its pid is this process, whoever its owner is.
ReleaseClaim ==
    /\ claimed' = FALSE /\ beating' = FALSE
    /\ file' = IF ClaimIsOurs THEN None ELSE file

\* write_browser_record, close_browser and reap_stale_browsers: the last two leave no Chrome
\* on the profile, which only one can use at a time.
IdleRecord == [browser |-> tracked.browser, idle |-> "idle"]
Closes == chrome' = None
Sweeps == chrome' = None

\* release: the browser is idle from now on, and its record is written.
Release ==
    /\ ReleaseClaim
    /\ IF tracked = None
         THEN UNCHANGED <<tracked, record>>
         ELSE /\ tracked' = [tracked EXCEPT !.idle = "idle"]
              /\ record' = IdleRecord

\* release_owned: nothing happens unless the file names the agent.
ReleaseOwned(a) ==
    IF OwnedBy(a) THEN Release ELSE UNCHANGED <<claimed, beating, file, tracked, record>>

\* drop_shared_browser: the browser of the map is closed and its record forgotten.
Dropped ==
    /\ IF tracked = None THEN UNCHANGED chrome ELSE Closes
    /\ tracked' = None /\ record' = None

\* History: somebody loses the claim or the browser it is using or being given.
Holding == {"write", "attach", "ready", "use"}
TakenFrom(others) == overrun' = (overrun \/ \E b \in others : agent[b].pc \in Holding)

-----------------------------------------------------------------------------
\* claim_session.

\* An agent id is of one call (next_agent_id): nothing of an earlier one is left.
Unnamed(c) == /\ \A holder \in {file, refresh} \ {None} : holder.owner # c
              /\ \A a \in Agents : agent[a].prior # c

\* The call enters, and a claim this process lost meanwhile is forgotten; a client that
\* still holds the lease attends to it and goes straight on.
Begin(a) ==
    /\ agent[a].pc = "out" \/ (a \in Clients /\ agent[a].pc = "use")
    /\ a \in Calls => Unnamed(a)
    /\ tracked' = IF tracked = None THEN None ELSE [tracked EXCEPT !.idle = "no"]
    /\ LET kept == claimed /\ ClaimIsOurs
           again == kept /\ OwnedBy(a)
       IN  /\ claimed' = kept
           /\ beating' = ((beating /\ (kept \/ ~claimed)) \/ again)
           /\ attended' = (attended \/ again)
           /\ agent' = [agent EXCEPT ![a] = [Out EXCEPT !.pc = IF again THEN "attach" ELSE "claim"]]
    /\ UNCHANGED <<file, record, chrome, proc, refresh, closing, overrun>>

\* create_new succeeds for one of them; the holder is written after.
Create(a) ==
    /\ agent[a].pc = "claim" /\ file = None
    /\ file' = Unwritten
    /\ Goes(a, "write")
    /\ UNCHANGED <<record, chrome, proc, memory, refresh, closing, overrun>>

WriteClaim(a) ==
    /\ agent[a].pc = "write"
    /\ file' = IF file = Unwritten THEN Claim(a) ELSE file
    /\ claimed' = TRUE /\ attended' = TRUE /\ beating' = TRUE
    /\ Goes(a, "attach")
    /\ UNCHANGED <<record, chrome, proc, tracked, refresh, closing, overrun>>

\* The wait ends with an error.
WaitTimesOut(a) ==
    /\ agent[a].pc = "claim" /\ file # None
    /\ Leaves(a)
    /\ UNCHANGED <<file, record, chrome, proc, memory, refresh, closing, overrun>>

\* reset_session: the holder outlived the wait, its browser is closed under it and the
\* wait begins again.
ResetWedged(v) ==
    /\ v \in Clients /\ agent[v].pc = "claim" /\ file # None /\ tracked # None
    /\ Dropped
    /\ TakenFrom(Agents \ {v})
    /\ UNCHANGED <<file, proc, claimed, attended, beating, refresh, agent, closing>>

\* Mutant: every holder a poll meets is evicted, however fresh its heartbeat.
JudgesAny(a) ==
    /\ agent[a].pc = "claim" /\ file # None
    /\ agent' = [agent EXCEPT ![a] = [@ EXCEPT !.pc = "evict", !.prior = file.owner]]
    /\ UNCHANGED <<file, record, chrome, proc, memory, refresh, closing, overrun>>

\* The poll reads the holder, and finds its heartbeat older than its ttl.
JudgeStale(a) ==
    /\ agent[a].pc = "claim" /\ file # None /\ ~file.fresh
    /\ agent' = [agent EXCEPT ![a] = [@ EXCEPT !.pc = "evict", !.prior = file.owner]]
    /\ UNCHANGED <<file, record, chrome, proc, memory, refresh, closing, overrun>>

\* evict_stale_holder: Chrome goes, then the file, whosever it is by now; a client may
\* have renewed its lease since it was judged.
Evict(a) ==
    /\ agent[a].pc = "evict"
    /\ Sweeps
    /\ file' = None
    /\ IF Owner # agent[a].prior \/ Owner = None \/ (attended /\ Owner \in Clients)
         THEN TakenFrom(Agents \ {a})
         ELSE UNCHANGED overrun
    /\ agent' = [agent EXCEPT ![a] = [@ EXCEPT !.pc = "claim", !.prior = None]]
    /\ UNCHANGED <<record, proc, memory, refresh, closing>>

-----------------------------------------------------------------------------
\* attach_after_claim.

\* What an attach finds: its browser in the map, or the idle one of the record.
Adoptable == record # None /\ record.browser = chrome /\ record.idle # "expired"
Found == IF tracked # None THEN tracked.browser
         ELSE IF Adoptable THEN record.browser ELSE None

\* The agent becomes active on browser b and the holder's record says so (publish_holder);
\* a call whose caller gave up releases what it still owns.
Joins(a, b) ==
    /\ record' = None
    /\ tracked' = [browser |-> b, idle |-> "no"]
    /\ UNCHANGED <<claimed, beating>>
    /\ file' = IF ClaimIsOurs THEN [file EXCEPT !.fresh = TRUE] ELSE file
    /\ agent' = [agent EXCEPT ![a] =
           [@ EXCEPT !.pc = "use", !.browser = IF a \in Calls THEN b ELSE None]]

Reuse(a) ==
    /\ agent[a].pc = "attach"
    /\ Found # None /\ Found = chrome
    /\ Joins(a, Found)
    /\ UNCHANGED <<chrome, proc, attended, refresh, closing, overrun>>

\* A browser that is gone, or idle for too long, is closed and forgotten; what else runs on
\* the profile is swept, then Chrome starts and its port is awaited.
Launch(a, b) ==
    /\ agent[a].pc = "attach"
    /\ Found = None \/ Found # chrome
    /\ b \notin {chrome, closing}
    /\ tracked' = None /\ record' = None
    /\ chrome' = b
    /\ agent' = [agent EXCEPT ![a] = [@ EXCEPT !.pc = "ready", !.browser = b]]
    /\ UNCHANGED <<file, proc, claimed, attended, beating, refresh, closing, overrun>>

Ready(a) ==
    /\ agent[a].pc = "ready" /\ agent[a].browser = chrome
    /\ Joins(a, agent[a].browser)
    /\ UNCHANGED <<chrome, proc, attended, refresh, closing, overrun>>

\* Chrome does not answer: it is closed and the claim released.
LaunchFails(a) ==
    /\ agent[a].pc = "ready"
    /\ Closes
    /\ ReleaseClaim /\ Leaves(a)
    /\ IF ClaimIsOurs /\ ~OwnedBy(a) THEN TakenFrom(Agents \ {a}) ELSE UNCHANGED overrun
    /\ UNCHANGED <<record, proc, attended, tracked, refresh, closing>>

\* reconnect: the browser is closed under the lease and opened again.
Reconnect(v) ==
    /\ v \in Clients /\ agent[v].pc = "attach" /\ tracked # None
    /\ Dropped
    /\ UNCHANGED <<file, proc, claimed, attended, beating, refresh, agent, closing, overrun>>

\* reset_session with the claim: every browser of the profile goes, and the claim with it.
Reset(v) ==
    /\ v \in Clients /\ agent[v].pc = "attach"
    /\ Sweeps /\ tracked' = None /\ record' = None
    /\ ReleaseClaim /\ Leaves(v)
    /\ IF ClaimIsOurs /\ ~OwnedBy(v) THEN TakenFrom(Agents \ {v}) ELSE UNCHANGED overrun
    /\ UNCHANGED <<proc, attended, refresh, closing>>

-----------------------------------------------------------------------------
\* The use of the browser.

\* browser_cdp_call stops waiting for its worker and releases the lease under it.
CallTimesOut(c) ==
    /\ c \in Calls /\ agent[c].pc \in {"attach", "ready"}
    /\ ReleaseOwned(c)
    /\ overrun' = TRUE
    /\ UNCHANGED <<chrome, proc, attended, agent, refresh, closing>>

\* The steps end, or were never begun because the caller had given up.
CallEnds(c) ==
    /\ c \in Calls /\ agent[c].pc = "use"
    /\ ReleaseOwned(c) /\ Leaves(c)
    /\ UNCHANGED <<chrome, proc, attended, refresh, closing, overrun>>

\* A client releases what it holds, or is never heard of again.
ClientReleases(v) ==
    /\ v \in Clients /\ agent[v].pc = "use" /\ OwnedBy(v)
    /\ Release /\ Leaves(v)
    /\ UNCHANGED <<chrome, proc, attended, refresh, closing, overrun>>

ClientAbandons(v) ==
    /\ v \in Clients /\ agent[v].pc = "use"
    /\ Leaves(v)
    /\ UNCHANGED <<file, record, chrome, proc, memory, refresh, closing, overrun>>

-----------------------------------------------------------------------------
\* The heartbeat thread: read the holder, check the attendance, write the holder back.

\* Mutant: the heartbeat renews the file whether anybody attends the lease or not.
RenewsAlways ==
    /\ beating /\ refresh = None
    /\ IF ClaimIsOurs
         THEN refresh' = [file EXCEPT !.fresh = TRUE] /\ UNCHANGED beating
         ELSE beating' = FALSE /\ UNCHANGED refresh
    /\ UNCHANGED <<file, record, chrome, proc, claimed, attended, tracked, agent, closing, overrun>>

HeartbeatReads ==
    /\ beating /\ refresh = None
    /\ IF ClaimIsOurs /\ attended
         THEN refresh' = [file EXCEPT !.fresh = TRUE] /\ UNCHANGED beating
         ELSE beating' = FALSE /\ UNCHANGED refresh
    /\ UNCHANGED <<file, record, chrome, proc, claimed, attended, tracked, agent, closing, overrun>>

\* A rename over whatever is there, even if the lease was released or claimed in between.
HeartbeatWrites ==
    /\ refresh # None
    /\ file' = refresh /\ refresh' = None
    /\ overrun' = (overrun \/ ~OwnedBy(refresh.owner))
    /\ UNCHANGED <<record, chrome, proc, memory, agent, closing>>

\* Mutant: a running call does not attend its lease.
LapsesUnderCalls ==
    /\ attended
    /\ \A a \in Agents : agent[a].pc \notin {"write", "attach", "ready"}
    /\ attended' = FALSE
    /\ UNCHANGED <<file, record, chrome, proc, claimed, beating, tracked, refresh, agent, closing, overrun>>

\* Time: nobody acquired the lease for a ttl, and no call is running or being given it.
AttendanceLapses ==
    /\ attended
    /\ \A a \in Agents : agent[a].pc \notin {"write", "attach", "ready"}
    /\ \A c \in Calls : agent[c].pc # "use"
    /\ attended' = FALSE
    /\ UNCHANGED <<file, record, chrome, proc, claimed, beating, tracked, refresh, agent,
                   closing, overrun>>

\* Time: the file was not renewed for a ttl, which a heartbeat would have done; a file left
\* unwritten is stale after five seconds.
FileLapses ==
    /\ file # None /\ file.fresh /\ refresh = None
    /\ IF ClaimIsOurs THEN ~attended \/ ~beating ELSE TRUE
    /\ \A a \in Agents : agent[a].pc \notin {"write", "attach", "ready"}
    /\ file' = [file EXCEPT !.fresh = FALSE]
    /\ UNCHANGED <<record, chrome, proc, memory, refresh, agent, closing, overrun>>

-----------------------------------------------------------------------------
\* Housekeeping, the end of the daemon, and the user.

\* Time: a browser was idle for the whole window.
Lapses(entry) == IF entry # None /\ entry.idle = "idle" THEN [entry EXCEPT !.idle = "expired"]
                 ELSE entry

IdleExpires ==
    /\ <<tracked, record>> # <<Lapses(tracked), Lapses(record)>>
    /\ tracked' = Lapses(tracked) /\ record' = Lapses(record)
    /\ UNCHANGED <<file, chrome, proc, claimed, attended, beating, refresh, agent, closing, overrun>>

\* A browser that is neither leased nor waited for is taken out of the map when it has
\* exited or was idle for too long; one whose lease was lost goes too.
HousekeepingDecides ==
    /\ closing = None
    /\ LET over == IF tracked = None \/ (claimed /\ ClaimIsOurs) \/ HasWaiter THEN FALSE
                   ELSE tracked.browser # chrome \/ tracked.idle = "expired"
           lost == claimed /\ ~ClaimIsOurs
       IN  /\ over \/ lost
           /\ closing' = IF tracked = None THEN None ELSE tracked.browser
           /\ tracked' = None
           /\ claimed' = (claimed /\ ~lost) /\ beating' = (beating /\ ~lost)
    /\ UNCHANGED <<file, record, chrome, proc, attended, refresh, agent, overrun>>

\* The close asks Chrome to exit, waits, sweeps the profile, and gives up the claim.
HousekeepingCloses ==
    /\ closing # None
    /\ closing' = None
    /\ Closes /\ record' = None
    /\ ReleaseClaim
    /\ TakenFrom({b \in Agents : agent[b].browser # closing})
    /\ UNCHANGED <<proc, attended, tracked, refresh, agent>>

\* reap_idle_untracked: a Chrome of the profile nobody knows of.
Tracked == IF tracked = None THEN {} ELSE {tracked.browser}
LiveFile == file # None /\ file.fresh

ReapUntracked ==
    /\ chrome \notin Tracked \cup {None}
    /\ ~claimed /\ ~HasWaiter /\ ~LiveFile
    /\ chrome' = None
    /\ UNCHANGED <<file, record, proc, memory, refresh, agent, closing, overrun>>

\* adopt_kept_browsers: a new daemon takes over the record of an idle browser.
AdoptKept ==
    /\ tracked = None /\ ~claimed /\ ~HasWaiter /\ record # None
    /\ IF Adoptable
         THEN /\ tracked' = record
              /\ UNCHANGED <<record, chrome>>
         ELSE /\ record' = None
              /\ chrome' = IF record.browser = chrome THEN None ELSE chrome
              /\ UNCHANGED tracked
    /\ UNCHANGED <<file, proc, claimed, attended, beating, refresh, agent, closing, overrun>>

\* The memory of the daemon is gone; another one starts.
Restarts ==
    /\ proc < MaxExits /\ proc' = proc + 1
    /\ claimed' = FALSE /\ attended' = FALSE /\ beating' = FALSE
    /\ tracked' = None /\ refresh' = None /\ closing' = None
    /\ agent' = [a \in Agents |-> Out]

Crash ==
    /\ Restarts
    /\ UNCHANGED <<file, record, chrome, overrun>>

\* shutdown_shared_browsers: an idle browser is kept for the next daemon, unless an agent
\* that never released it is still in its list; a busy or expired one is closed; a claim that is left is released with its browser.
Shutdown ==
    /\ Restarts
    /\ \E kept \in BOOLEAN :
           /\ kept => /\ tracked # None /\ ~claimed /\ ~HasWaiter
                      /\ tracked.idle = "idle"
           /\ record' = IF kept THEN IdleRecord
                        ELSE IF tracked = None THEN record ELSE None
           /\ chrome' = IF tracked # None /\ ~kept THEN None
                        ELSE IF claimed /\ ClaimIsOurs THEN None ELSE chrome
           /\ file' = IF ClaimIsOurs /\ (claimed \/ (tracked # None /\ ~kept)) THEN None ELSE file
    /\ UNCHANGED overrun

WindowCloses ==
    /\ chrome # None
    /\ chrome' = None
    /\ UNCHANGED <<file, record, proc, memory, refresh, agent, closing, overrun>>

-----------------------------------------------------------------------------
Claims(a) == \/ Create(a) \/ WriteClaim(a) \/ JudgeStale(a) \/ Evict(a)
Attaches(a) == \/ Reuse(a) \/ Ready(a) \/ LaunchFails(a)
               \/ \E b \in Browsers : Launch(a, b)

BrowserNext ==
    \/ \E a \in Agents : Begin(a) \/ WaitTimesOut(a) \/ Claims(a) \/ Attaches(a)
    \/ \E c \in Calls : CallTimesOut(c) \/ CallEnds(c)
    \/ \E v \in Clients : \/ ResetWedged(v) \/ Reset(v) \/ Reconnect(v)
                          \/ ClientReleases(v) \/ ClientAbandons(v)
    \/ HeartbeatReads \/ HeartbeatWrites \/ AttendanceLapses \/ FileLapses
    \/ IdleExpires \/ HousekeepingDecides \/ HousekeepingCloses \/ AdoptKept
    \/ ReapUntracked
    \/ Crash \/ Shutdown \/ WindowCloses

\* Waits, attaches and calls go on, calls keep coming, and the threads and the clock run; a
\* wait that finds a stale holder at its first poll judges it before its deadline.
BrowserSpec ==
    /\ BrowserInit /\ [][BrowserNext]_browserVars
    /\ \A v \in Clients : WF_browserVars(Claims(v) \/ Attaches(v))
    /\ \A c \in Calls : /\ WF_browserVars(Begin(c) \/ Claims(c) \/ Attaches(c) \/ CallEnds(c))
                       /\ SF_browserVars(JudgeStale(c))
    /\ WF_browserVars(HeartbeatReads \/ HeartbeatWrites)
    /\ WF_browserVars(AttendanceLapses) /\ WF_browserVars(FileLapses)

----
(* Properties.                                                             *)

\* The lease is exclusive (create_claim, release_owned): two agents use the browser of one
\* identity at the same time only after an eviction hit a newer claim, a close of
\* housekeeping gave up the claim of a new holder, or a call was answered while its attach
\* went on.
OneUserUnlessOverrun == Cardinality({a \in Agents : Using(a)}) <= 1 \/ overrun

\* A Chrome is not killed under a running call by the eviction, sweep or close of another
\* (evict_stale_holder, launch, housekeeping, reap_untracked): only by the user, by a
\* forced reset, or in one of the same windows.
UserKeepsBrowser ==
    [][\A c \in Calls :
          agent[c].pc = "use" /\ agent'[c].pc = "use"
          /\ agent[c].browser = chrome /\ agent[c].browser # chrome'
          => WindowCloses \/ overrun']_browserVars

\* As long as calls come, the lease is again and again free or in the hands of an agent
\* that uses it: an abandoned or lost claim goes stale and is evicted (attend, holder_live,
\* claim_session), also after a crash of the daemon at any step.
LeaseComesFree == []<>(file = None \/ \E a \in Agents : Using(a))
=============================================================================
