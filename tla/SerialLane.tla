----------------------------- MODULE SerialLane -----------------------------
(* One serial lane of one project (GmFairnessGuard): the dispatches that    *)
(* must not run together queue for it, hold it and give it back, and a      *)
(* watchdog takes it from a holder that has had it for long.                *)
(*                                                                          *)
(* The owners map and the waiters map have a mutex each; a step is one      *)
(* critical section, and a claim is between two of them in the phases       *)
(* "admitted", "starved" and "displaced".  Times are kept as ages, and ages *)
(* above every threshold are not told apart.                                *)
(*                                                                          *)
(* The VecDeque of waiters is a set of tickets ordered by rank: a ticket    *)
(* pushed at the back has its token as rank, one pushed at the front the    *)
(* negative of its token.                                                   *)
EXTENDS Integers

CONSTANTS
    Claims,       \* the claimed dispatches, one thread each
    Nobody,       \* the claimant of a ticket that is not active
    Identities,   \* hashes of verb and body: a re-dispatch has the same one
    IdentityOf,   \* the identity of each claim
    Network,      \* identities of git_push, git_pull and git_fetch
    Budget,       \* how long each claim may wait
    Stale,        \* LANE_TICKET_STALE_MS
    Yield,        \* LANE_NETWORK_YIELD_MS
    Ttl,          \* LANE_TICKET_TTL_MS
    MinHeld,      \* LANE_HOLD_STUCK_MIN_MS
    MaxAge        \* bound: ages stop growing here, above every threshold

ASSUME NobodyAssumption == Nobody \notin Claims
ASSUME IdentityAssumption ==
    IdentityOf \in [Claims -> Identities] /\ Network \subseteq Identities
ASSUME TimesAssumption ==
    /\ {Stale, Yield, Ttl, MinHeld, MaxAge} \subseteq Nat
    /\ \A t \in {Stale, Yield, Ttl, MinHeld} : t <= MaxAge
\* By their defaults, 30 and 180 seconds (AGENTPLUG_LANE_HOLD_STUCK_MIN_MS may lower the
\* second).  Only FirstIsAwake needs it.
ASSUME StaleAssumption == Stale <= MinHeld
ASSUME BudgetAssumption ==
    Budget \in [Claims -> Nat] /\ \A c \in Claims : Budget[c] <= Ttl

VARIABLES
    owner,       \* token of the entry in the owners map, 0 when there is none
    held,        \* age of that entry, else 0
    waiters,     \* the tickets in the waiters map
    next_token,
    phase,       \* where each claim is
    token,       \* its token, 0 before it has one and when it is done
    waited,      \* how long it has been in the queue, else 0
    awake        \* waiters that will look at the lane again

laneVars == <<owner, held, waiters, next_token, phase, token, waited, awake>>

lane == <<owner, held>>
queue == <<waiters, next_token>>

Phases == {"new", "waiting", "admitted", "holding", "running", "starved",
           "displaced", "done"}

Tickets == [token : Nat \ {0}, rank : Int, identity : Identities,
            claimed : Nat, seen : Nat, by : Claims \cup {Nobody}]

LaneTypeOK ==
    /\ owner \in Nat
    /\ held \in Nat
    /\ waiters \subseteq Tickets
    /\ \A v \in waiters : v.token < next_token /\ v.rank \in {v.token, -v.token}
    /\ next_token \in Nat \ {0}
    /\ phase \in [Claims -> Phases]
    /\ token \in [Claims -> Nat]
    /\ waited \in [Claims -> Nat]
    /\ awake \subseteq Claims

LaneInit ==
    /\ owner = 0
    /\ held = 0
    /\ waiters = {}
    /\ next_token = 1
    /\ phase = [c \in Claims |-> "new"]
    /\ token = [c \in Claims |-> 0]
    /\ waited = [c \in Claims |-> 0]
    /\ awake = {}

----
Waiting == {c \in Claims : phase[c] = "waiting"}
Running == {c \in Claims : phase[c] = "running"}

Becomes(c, p) == phase' = [phase EXCEPT ![c] = p]

\* acquire_within or the whole dispatch returns: its locals are gone.
Waited(c) == waited' = [waited EXCEPT ![c] = 0]
Ends(c) == Becomes(c, "done") /\ token' = [token EXCEPT ![c] = 0]

Give == owner' = 0 /\ held' = 0

\* gm_project_step_released().notify_all()
NotifyAll == awake' = awake \cup Waiting

Ahead(w) == {v \in waiters : v.rank < w.rank}

\* A ticket is passed when nobody refreshed it for long, or when it is a young
\* network claim and the one behind it is not.
Passable(v, w) ==
    \/ v.seen >= Stale
    \/ /\ v.identity \in Network
       /\ w.identity \notin Network
       /\ v.claimed < Yield

\* lane_admissible
Admissible(t) ==
    \E w \in waiters : w.token = t /\ \A v \in Ahead(w) : Passable(v, w)

Spent(c) == waited[c] >= Budget[c]

Older(age) == IF age < MaxAge THEN age + 1 ELSE age

LaneTick ==
    /\ held' = IF owner = 0 THEN 0 ELSE Older(held)
    /\ waiters' = {[v EXCEPT !.claimed = Older(@), !.seen = Older(@)] : v \in waiters}
    /\ waited' = [c \in Claims |-> IF phase[c] = "waiting" THEN Older(waited[c]) ELSE 0]
    /\ UNCHANGED <<owner, next_token, phase, token, awake>>

Kept == {v \in waiters : v.seen < Ttl}

\* The tickets an earlier dispatch of this identity left behind.
Parked(c) == {v \in Kept : v.identity = IdentityOf[c] /\ v.by = Nobody}

First(ws) == {w \in ws : \A v \in ws : w.rank <= v.rank}

\* A parked ticket of the same identity is taken over where it stands.
TakeOver(c) == \E w \in First(Parked(c)) :
    /\ waiters' = (Kept \ {w}) \cup {[w EXCEPT !.seen = 0, !.by = c]}
    /\ token' = [token EXCEPT ![c] = w.token]
    /\ UNCHANGED next_token

PushBack(c) ==
    /\ waiters' = Kept \cup {[token |-> next_token, rank |-> next_token,
                              identity |-> IdentityOf[c], claimed |-> 0,
                              seen |-> 0, by |-> c]}
    /\ token' = [token EXCEPT ![c] = next_token]
    /\ next_token' = next_token + 1

\* The first half of acquire_within: expired tickets are dropped and the claim
\* joins the queue.
Enqueue(c) ==
    /\ phase[c] = "new"
    /\ TakeOver(c) \/ (Parked(c) = {} /\ PushBack(c))
    /\ Becomes(c, "waiting")
    /\ awake' = awake \cup {c}
    /\ UNCHANGED <<lane, waited>>

Free(c) == owner = 0 /\ Admissible(token[c])

\* One turn of the wait loop that finds the lane free.
Admit(c) ==
    /\ phase[c] = "waiting"
    /\ c \in awake
    /\ Free(c)
    /\ owner' = token[c]
    /\ held' = 0
    /\ Becomes(c, "admitted")
    /\ Waited(c)
    /\ awake' = awake \ {c}
    /\ UNCHANGED <<queue, token>>

\* Mutant: the budget is not looked at.
RefuseForever(c) ==
    /\ phase[c] = "waiting"
    /\ c \in awake
    /\ ~Free(c)
    /\ awake' = awake \ {c}
    /\ UNCHANGED <<lane, queue, phase, token, waited>>

\* A turn that does not: the claim sleeps, or gives up when its budget is spent.
Refuse(c) ==
    /\ phase[c] = "waiting"
    /\ c \in awake
    /\ ~Free(c)
    /\ IF Spent(c) THEN Becomes(c, "starved") /\ Waited(c) ELSE UNCHANGED <<phase, waited>>
    /\ awake' = awake \ {c}
    /\ UNCHANGED <<lane, queue, token>>

\* wait_timeout returns: notified for another lane, spuriously, or on time.
Wake(c) ==
    /\ phase[c] = "waiting"
    /\ c \notin awake
    /\ awake' = awake \cup {c}
    /\ UNCHANGED <<lane, queue, phase, token, waited>>

\* Mutant: every ticket of the same verb and body is removed.
SettleByIdentity(c) ==
    /\ phase[c] = "admitted"
    /\ waiters' = {v \in waiters : v.identity # IdentityOf[c]}
    /\ Becomes(c, "holding")
    /\ UNCHANGED <<lane, next_token, token, waited, awake>>

\* The admitted claim removes its own ticket.
Settle(c) ==
    /\ phase[c] = "admitted"
    /\ waiters' = {v \in waiters : v.token # token[c]}
    /\ Becomes(c, "holding")
    /\ UNCHANGED <<lane, next_token, token, waited, awake>>

\* A starved claim leaves its ticket behind for a re-dispatch.
Park(c) ==
    /\ phase[c] = "starved"
    /\ waiters' = {IF v.token = token[c] THEN [v EXCEPT !.by = Nobody] ELSE v : v \in waiters}
    /\ Ends(c)
    /\ NotifyAll
    /\ UNCHANGED <<lane, next_token, waited>>

\* still_owns() holds just before the verb runs.
Run(c) ==
    /\ phase[c] = "holding"
    /\ owner = token[c]
    /\ Becomes(c, "running")
    /\ UNCHANGED <<lane, queue, token, waited, awake>>

\* It does not: requeue_lane_claimer_front puts a ticket at the head for the
\* next dispatch of the same verb and body.
Displace(c) ==
    /\ phase[c] = "holding"
    /\ owner # token[c]
    /\ IF \E v \in waiters : v.identity = IdentityOf[c]
       THEN UNCHANGED queue
       ELSE /\ waiters' = waiters \cup
                 {[token |-> next_token, rank |-> -next_token,
                   identity |-> IdentityOf[c], claimed |-> 0,
                   seen |-> 0, by |-> Nobody]}
            /\ next_token' = next_token + 1
    /\ Becomes(c, "displaced")
    /\ UNCHANGED <<lane, token, waited, awake>>

\* Mutant: nobody is told.
DropSilently(c) ==
    /\ phase[c] \in {"holding", "running", "displaced"}
    /\ IF owner = token[c] THEN Give ELSE UNCHANGED lane
    /\ Ends(c)
    /\ UNCHANGED <<queue, waited, awake>>

\* Drop of the guard: after the run, after a displacement, or when the tool
\* queue starved the holder.
Drop(c) ==
    /\ phase[c] \in {"holding", "running", "displaced"}
    /\ IF owner = token[c] THEN Give ELSE UNCHANGED lane
    /\ Ends(c)
    /\ NotifyAll
    /\ UNCHANGED <<queue, waited>>

\* release_dead_lane_owners and release_abandoned_lane_owners take away a hold
\* of the minimum age.  Which hold they judge dead is the caller's.
Revoke ==
    /\ owner # 0
    /\ held >= MinHeld
    /\ Give
    /\ NotifyAll
    /\ UNCHANGED <<queue, phase, token, waited>>

LaneNext ==
    \/ LaneTick
    \/ Revoke
    \/ \E c \in Claims :
          \/ Enqueue(c) \/ Admit(c) \/ Refuse(c) \/ Wake(c) \/ Settle(c)
          \/ Park(c) \/ Run(c) \/ Displace(c) \/ Drop(c)

\* Time passes, a woken thread runs, and wait_timeout returns in the end.
LaneFairness ==
    /\ WF_laneVars(LaneTick)
    /\ \A c \in Claims :
          /\ WF_laneVars(Admit(c) \/ Refuse(c))
          /\ WF_laneVars(Wake(c) /\ Spent(c))

LaneSpec == LaneInit /\ [][LaneNext]_laneVars

FairLaneSpec == LaneSpec /\ LaneFairness

----
(* Properties.                                                             *)

\* The claims that entered the lane and have not given it back.
Entered == {c \in Claims : phase[c] \in {"admitted", "holding", "running", "displaced"}}

\* The lane is never leaked: its owner is a claim that still has the guard to
\* drop (LaneOwner, GmFairnessGuard).
OwnerWillDrop == owner # 0 => \E c \in Entered : token[c] = owner

\* Tokens identify: of the claims that wait for the lane or are in it no two
\* have the same, so still_owns() and Drop never take one for another.
Live == Entered \cup {c \in Claims : phase[c] \in {"waiting", "starved"}}

TokensDistinct ==
    /\ \A c, d \in Live : token[c] = token[d] => c = d
    /\ \A v, w \in waiters : v.token = w.token => v = w

\* A claim within its budget has its ticket in the queue, active and its own.
WaiterKeepsTicket ==
    \A c \in Waiting : ~Spent(c) =>
        \E v \in waiters : v.token = token[c] /\ v.by = c

\* The three together: the lane has an owner that will give it back, the tokens say
\* whose it is, and who waits has a place (GmFairnessGuard).
LaneSound == LaneTypeOK /\ OwnerWillDrop /\ TokensDistinct /\ WaiterKeepsTicket

\* No wake-up is lost: the first in line of a free lane is about to look at it.
\* (With a budget as long as the time to live, as the git lane has, the ticket
\* in front may expire without a notification.)
FirstIsAwake ==
    \A c \in Waiting \ awake : \A w \in waiters :
        w.token = token[c] /\ owner = 0 /\ ~Spent(c) /\ Budget[c] + Stale <= Ttl
            => Ahead(w) # {}

\* A hold ends by its holder's drop, or by its age; never by another's drop.
HoldEndsByHolderOrAge ==
    [][owner # 0 /\ owner' # owner =>
          \/ held >= MinHeld
          \/ \E c \in Entered : token[c] = owner /\ phase'[c] = "done"]_laneVars

\* A waiter is admitted or gives up; its budget is measured on a clock that
\* nothing stops.
LaneWaitEnds == \A c \in Claims : phase[c] = "waiting" ~> phase[c] # "waiting"

=============================================================================
