--------------------------- MODULE PluginDispatch ---------------------------
(* The dispatch command of the runner asks a daemon to run a plugin's verb: *)
(* it leaves a request file, a daemon claims it by a rename, writes an out  *)
(* file and removes the claim.  The caller polls; when nobody claims the    *)
(* request it takes it back, by a rename too, and runs the verb itself.     *)
(*                                                                          *)
(* Each step below is one file operation.  There may be several daemons, as *)
(* during a handoff, and each of them handles one request at a time.  A     *)
(* caller's task name is its own, so the files of two callers never meet.   *)
EXTENDS Naturals

CONSTANTS
    Callers, Daemons,
    Nobody,
    ClaimWait,    \* AGENTPLUG_DISPATCH_CLAIM_WAIT_MS
    Timeout       \* AGENTPLUG_DISPATCH_CLAIMED_TIMEOUT_MS

ASSUME NobodyAssumption == Nobody \notin Callers \cup Daemons
ASSUME TimesAssumption == ClaimWait \in Nat /\ Timeout \in Nat

VARIABLES
    request,    \* the callers whose request file is there
    claim,      \* the daemon in the name of each claim file, or Nobody
    out,        \* what each out file says
    caller,     \* how far each caller is
    clock,      \* its patience: time since it sent the request, or saw it claimed
    daemon,     \* how far each daemon is with a request
    serves,     \* and the caller whose request it is
    result,     \* what it is about to write
    runs        \* history: how often the verb of each caller was started

callerVars == <<caller, clock>>
daemonVars == <<daemon, serves, result>>
vars == <<request, claim, out, callerVars, daemonVars, runs>>

Bodies == {"none", "result", "error"}

TypeOK ==
    /\ request \subseteq {c \in Callers : claim[c] = Nobody}
    /\ claim \in [Callers -> Daemons \cup {Nobody}]
    /\ out \in [Callers -> Bodies]
    /\ caller \in [Callers -> {"new", "waiting", "reclaiming", "claimed", "answered", "failed",
                               "local", "ran", "reclaim_failed", "owner_dead", "in_flight",
                               "died"}]
    /\ clock \in [Callers -> 0 .. ClaimWait + Timeout]
    /\ daemon \in [Daemons -> {"idle", "claimed", "running", "ran", "written", "dead"}]
    /\ serves \in [Daemons -> Callers \cup {Nobody}]
    /\ \A d \in Daemons : serves[d] = Nobody <=> daemon[d] \in {"idle", "dead"}
    /\ result \in [Daemons -> Bodies]
    /\ runs \in [Callers -> Nat]

Init ==
    /\ request = {}
    /\ claim = [c \in Callers |-> Nobody]
    /\ out = [c \in Callers |-> "none"]
    /\ caller = [c \in Callers |-> "new"]
    /\ clock = [c \in Callers |-> 0]
    /\ daemon = [d \in Daemons |-> "idle"]
    /\ serves = [d \in Daemons |-> Nobody]
    /\ result = [d \in Daemons |-> "none"]
    /\ runs = [c \in Callers |-> 0]

----
(* try_dispatch_via_daemon                                                 *)

Goes(c, s) == caller' = [caller EXCEPT ![c] = s]
Waits(c) == caller[c] \in {"waiting", "reclaiming", "claimed"}

\* The staged request appears by a rename.
Send(c) ==
    /\ caller[c] = "new"
    /\ request' = request \cup {c}
    /\ Goes(c, "waiting")
    /\ UNCHANGED <<claim, out, clock, daemonVars, runs>>

\* No lease, no daemon, or no request file.
DoWithout(c) ==
    /\ caller[c] = "new"
    /\ Goes(c, "local")
    /\ UNCHANGED <<request, claim, out, clock, daemonVars, runs>>

\* take_plugin_dispatch_answer
Answer(c) == Goes(c, IF out[c] = "result" THEN "answered" ELSE "failed")
Take(c) ==
    /\ out[c] # "none"
    /\ out' = [out EXCEPT ![c] = "none"]
    /\ Answer(c)

TakeAnswer(c) ==
    /\ caller[c] \in {"waiting", "claimed"}
    /\ Take(c)
    /\ UNCHANGED <<request, claim, clock, daemonVars, runs>>

\* The request file has gone.
SeeClaimed(c) ==
    /\ caller[c] = "waiting"
    /\ c \notin request
    /\ Goes(c, "claimed")
    /\ clock' = [clock EXCEPT ![c] = 0]
    /\ UNCHANGED <<request, claim, out, daemonVars, runs>>

\* find_plugin_dispatch_claim finds none after claim_wait_ms,
Overdue(c) ==
    /\ caller[c] = "waiting"
    /\ clock[c] >= ClaimWait
    /\ claim[c] = Nobody
    /\ Goes(c, "reclaiming")
    /\ UNCHANGED <<request, claim, out, clock, daemonVars, runs>>

\* Mutant: the request file is left where it is.
ReclaimInPlace(c) ==
    /\ caller[c] = "reclaiming"
    /\ c \in request
    /\ Goes(c, "local")
    /\ UNCHANGED <<request, claim, out, clock, daemonVars, runs>>

\* and reclaim_unclaimed_plugin_dispatch renames the request away: it is nobody's.
Reclaim(c) ==
    /\ caller[c] = "reclaiming"
    /\ c \in request
    /\ request' = request \ {c}
    /\ Goes(c, "local")
    /\ UNCHANGED <<claim, out, clock, daemonVars, runs>>

\* The rename fails: the request has just been claimed, or the file system
\* refuses.  Or there is a claim, made since the request was last seen.
ReclaimFails(c) ==
    /\ \/ caller[c] = "reclaiming"
       \/ caller[c] = "waiting" /\ clock[c] >= ClaimWait /\ claim[c] # Nobody
    /\ Goes(c, IF clock[c] >= ClaimWait + Timeout THEN "reclaim_failed" ELSE "waiting")
    /\ UNCHANGED <<request, claim, out, clock, daemonVars, runs>>

\* The owner check: the claimer is dead, and still there is no answer.
OwnerDead(c) ==
    /\ caller[c] = "claimed"
    /\ claim[c] # Nobody
    /\ daemon[claim[c]] = "dead"
    /\ \/ Take(c) /\ UNCHANGED claim
       \/ /\ out[c] = "none"
          /\ claim' = [claim EXCEPT ![c] = Nobody]
          /\ Goes(c, "owner_dead")
          /\ UNCHANGED out
    /\ UNCHANGED <<request, clock, daemonVars, runs>>

\* Mutant: the caller waits as long as there is a claim.
GiveUpUnclaimed(c) ==
    /\ caller[c] = "claimed"
    /\ clock[c] >= Timeout
    /\ claim[c] = Nobody
    /\ Goes(c, "in_flight")
    /\ UNCHANGED <<request, claim, out, clock, daemonVars, runs>>

\* claimed_still_in_flight
GiveUp(c) ==
    /\ caller[c] = "claimed"
    /\ clock[c] >= Timeout
    /\ Goes(c, "in_flight")
    /\ UNCHANGED <<request, claim, out, clock, daemonVars, runs>>

\* The caller runs the verb in its own process, if it can load the plugin.
RunLocally(c) ==
    /\ caller[c] = "local"
    /\ runs' \in {runs, [runs EXCEPT ![c] = @ + 1]}
    /\ Goes(c, "ran")
    /\ UNCHANGED <<request, claim, out, clock, daemonVars>>

Tick(c) ==
    /\ Waits(c)
    /\ clock[c] < ClaimWait + Timeout
    /\ clock' = [clock EXCEPT ![c] = @ + 1]
    /\ UNCHANGED <<request, claim, out, caller, daemonVars, runs>>

\* The caller is interrupted; its files stay.
Die(c) ==
    /\ Waits(c)
    /\ Goes(c, "died")
    /\ UNCHANGED <<request, claim, out, clock, daemonVars, runs>>

----
(* dispatch_project, once the spool has no work.                           *)

Does(d, s) == daemon' = [daemon EXCEPT ![d] = s]

Claim(d, c) ==
    /\ daemon[d] = "idle"
    /\ c \in request
    /\ request' = request \ {c}
    /\ claim' = [claim EXCEPT ![c] = d]
    /\ Does(d, "claimed")
    /\ serves' = [serves EXCEPT ![d] = c]
    /\ UNCHANGED <<out, callerVars, result, runs>>

\* The plugin is not compiled yet, or cannot be instantiated.
Decline(d) ==
    /\ daemon[d] = "claimed"
    /\ Does(d, "ran")
    /\ result' = [result EXCEPT ![d] = "error"]
    /\ UNCHANGED <<request, claim, out, callerVars, serves, runs>>

\* The tool queue is won (it has no time limit here).
Run(d) ==
    /\ daemon[d] = "claimed"
    /\ Does(d, "running")
    /\ runs' = [runs EXCEPT ![serves[d]] = @ + 1]
    /\ UNCHANGED <<request, claim, out, callerVars, serves, result>>

Return(d) ==
    /\ daemon[d] = "running"
    /\ Does(d, "ran")
    /\ \E body \in {"result", "error"} : result' = [result EXCEPT ![d] = body]
    /\ UNCHANGED <<request, claim, out, callerVars, serves, runs>>

\* write_pd_out renames the written file into place; nothing happens when it
\* cannot.
WriteOut(d) ==
    /\ daemon[d] = "ran"
    /\ out' \in {out, [out EXCEPT ![serves[d]] = result[d]]}
    /\ Does(d, "written")
    /\ UNCHANGED <<request, claim, callerVars, serves, result, runs>>

\* The claim goes, written or not.
Unclaim(d) ==
    /\ daemon[d] = "written"
    /\ claim' = [claim EXCEPT ![serves[d]] = Nobody]
    /\ Does(d, "idle")
    /\ serves' = [serves EXCEPT ![d] = Nobody]
    /\ result' = [result EXCEPT ![d] = "none"]
    /\ UNCHANGED <<request, out, callerVars, runs>>

\* The daemon exits or is killed, in the middle of a dispatch or not.
Crash(d) ==
    /\ daemon[d] # "dead"
    /\ Does(d, "dead")
    /\ serves' = [serves EXCEPT ![d] = Nobody]
    /\ result' = [result EXCEPT ![d] = "none"]
    /\ UNCHANGED <<request, claim, out, callerVars, runs>>

----
CallerStep(c) ==
    \/ Send(c) \/ DoWithout(c) \/ TakeAnswer(c) \/ SeeClaimed(c) \/ Overdue(c)
    \/ Reclaim(c) \/ ReclaimFails(c) \/ OwnerDead(c) \/ GiveUp(c) \/ RunLocally(c)

DaemonStep(d) ==
    \/ Decline(d) \/ Run(d) \/ Return(d) \/ WriteOut(d) \/ Unclaim(d) \/ Crash(d)
    \/ \E c \in Callers : Claim(d, c)

Next ==
    \/ \E c \in Callers : CallerStep(c) \/ Tick(c) \/ Die(c)
    \/ \E d \in Daemons : DaemonStep(d)

\* Callers run and time passes for them.  Daemons may hang or be absent.
Fairness == \A c \in Callers : WF_vars(CallerStep(c)) /\ WF_vars(Tick(c))

Spec == Init /\ [][Next]_vars

FairSpec == Spec /\ Fairness

----
(* Properties.                                                             *)

\* What a caller knows when try_dispatch_via_daemon has returned.
Outcome(c) ==
    CASE Waits(c) \/ caller[c] \in {"new", "died"} -> "pending"
      [] caller[c] \in {"local", "ran"} -> "alone"
      [] caller[c] \in {"reclaim_failed", "owner_dead", "in_flight"} -> "unverified"
      [] OTHER -> caller[c]

call == INSTANCE RemoteCall WITH outcome <- [c \in Callers |-> Outcome(c)]

\* The protocol of the files implements a remote call: the verb runs once at
\* most, in a daemon or in the caller, whatever crashes or gives up when.
Promise == call!Spec

\* An answer is left unread only by a caller that gave up on a live claim or
\* died: one that was told that the owner is dead has no answer coming, and
\* neither has one that ran the verb itself.
NoAnswerMissed ==
    \A c \in Callers :
        (\/ out[c] # "none"
         \/ \E d \in Daemons : serves[d] = c /\ daemon[d] \in {"claimed", "running", "ran"})
            => Waits(c) \/ caller[c] \in {"reclaim_failed", "in_flight", "died"}

\* Every caller returns, although daemons may hang, die, or write nothing.
CallerReturns ==
    \A c \in Callers : Waits(c) ~> ~Waits(c)
=============================================================================
