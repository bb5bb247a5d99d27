----------------------------- MODULE GmDispatch -----------------------------
(* The dispatch threads of one project: each takes a run slot, waits for    *)
(* the serial lane of its verb and then for the queue of the verb, runs the *)
(* verb, answers, and gives everything back in the opposite order.  A       *)
(* watchdog takes a lane from a holder it believes to be idle.              *)
(*                                                                          *)
(* It composes one lane (SerialLane) and one tool queue (ToolQueue).  A     *)
(* dispatch outside Claims has another lane, free for it; one outside       *)
(* Dispatches has a verb that nobody else uses.                             *)
EXTENDS SerialLane, ToolQueue, FiniteSets

CONSTANTS
    Tasks,       \* the claimed requests, one thread each
    ToolBudget,  \* the same budget once more, for the wait at the tool queue
    Raw,         \* tasks of libsql and bert, whose lane is the inner verb's
    ReadOnly,    \* tasks of STATE_READ_VERBS
    Hung,        \* tasks whose verb never returns
    Converted,   \* tasks that a background-convert request names
    Limit,       \* run slots: GM_PROCESSOR_CAPACITY, between 1 and 4
    RunMax       \* LANE_HOLD_RUNNING_MAX_MS

ASSUME TasksAssumption ==
    Claims \cup Dispatches \cup Raw \cup ReadOnly \cup Hung \cup Converted \subseteq Tasks
ASSUME ToolBudgetAssumption ==
    /\ ToolBudget \in [Dispatches -> Nat]
    /\ \A c \in Claims \cap Dispatches : ToolBudget[c] = Budget[c]
ASSUME AllBounded == Bounded = Dispatches
ASSUME LimitAssumption == Limit \in 1 .. 4 /\ RunMax \in Nat

VARIABLES
    at,            \* how far each thread is in its closure
    stage,         \* DispatchWaitRecord: its stage, "none" without a record
    since,         \* and how long it has been that
    registered,    \* the keys in the in_flight map
    verdict,       \* token of the hold that the watchdog is about to remove, or 0
    taken          \* history: in what state the watchdog took a task's hold

watchVars == <<verdict, taken>>
vars == <<at, stage, since, registered, watchVars, laneVars, queueVars>>

Places == {"spawned", "lane", "tool", "passed", "running", "leaving", "dropping", "done"}
\* "no"; "waiting" for the tool queue; later, and reported as "idle" or "busy".
Takings == {"no", "waiting", "idle", "busy"}

TypeOK ==
    /\ at \in [Tasks -> Places]
    /\ stage \in [Tasks -> {"none", "lane", "tool", "running"}]
    /\ since \in [Tasks -> 0 .. MaxAge]
    /\ registered \subseteq {c \in Tasks : at[c] # "done"}
    /\ verdict \in Nat
    /\ taken \in [Tasks -> Takings]
    /\ LaneTypeOK
    /\ QueueTypeOK

Init ==
    /\ at = [c \in Tasks |-> "spawned"]
    /\ stage = [c \in Tasks |-> "none"]
    /\ since = [c \in Tasks |-> 0]
    /\ registered = Tasks
    /\ verdict = 0
    /\ taken = [c \in Tasks |-> "no"]
    /\ LaneInit
    /\ QueueInit

----
\* Mutant: a slot is not given back.
EverInSlot == {c \in Tasks : at[c] # "spawned"}

\* The threads counted in GM_DISPATCH_RUNNING.
InSlot == {c \in Tasks : at[c] \notin {"spawned", "done"}}

Goes(c, p) == at' = [at EXCEPT ![c] = p]

\* note_dispatch_stage and forget_dispatch_wait_record
Note(c, s) == stage' = [stage EXCEPT ![c] = s] /\ since' = [since EXCEPT ![c] = 0]
Forget(c) == Note(c, "none")

Tick ==
    /\ LaneTick
    /\ since' = [c \in Tasks |-> IF stage[c] = "none" THEN 0 ELSE Older(since[c])]
    /\ UNCHANGED <<at, stage, registered, watchVars, queueVars>>

\* acquire_gm_dispatch_run_slot, which has no time limit, and the entry of
\* run_gm_dispatch_to_file into the queue of its lane.
TakeSlot(c) ==
    /\ at[c] = "spawned"
    /\ Cardinality(InSlot) < Limit
    /\ Goes(c, "lane")
    /\ Note(c, "lane")
    /\ IF c \in Claims THEN Enqueue(c) ELSE UNCHANGED laneVars
    /\ UNCHANGED <<registered, watchVars, queueVars>>

WaitForLane(c) ==
    /\ at[c] = "lane"
    /\ c \in Claims
    /\ Admit(c) \/ Refuse(c) \/ Settle(c)
    /\ UNCHANGED <<at, stage, since, registered, watchVars, queueVars>>

\* Between notifications a sleeper is left alone until its time is up (what
\* earlier wake-ups change is SerialLane's subject).
WakeAtLane(c) ==
    /\ at[c] = "lane"
    /\ c \in Claims
    /\ waited[c] >= Budget[c]
    /\ Wake(c)
    /\ UNCHANGED <<at, stage, since, registered, watchVars, queueVars>>

\* lane_starved_answer
StarveAtLane(c) ==
    /\ at[c] = "lane"
    /\ c \in Claims
    /\ Park(c)
    /\ Forget(c)
    /\ Goes(c, "leaving")
    /\ UNCHANGED <<registered, watchVars, queueVars>>

WinLane(c) ==
    /\ at[c] = "lane"
    /\ c \in Claims => phase[c] = "holding"
    /\ IF c \in Dispatches THEN Enter(c) ELSE UNCHANGED queueVars
    /\ Note(c, "tool")
    /\ Goes(c, "tool")
    /\ UNCHANGED <<registered, watchVars, laneVars>>

WaitForTool(c) ==
    /\ at[c] = "tool"
    /\ c \in Dispatches
    /\ \/ Serve(c)
       \/ since[c] >= ToolBudget[c] /\ GiveUp(c)
       \/ Panic(c)
    /\ UNCHANGED <<at, stage, since, registered, watchVars, laneVars>>

\* tool_queue_starved_answer.  A panic in the queue is outside catch_unwind: no
\* answer is written and the wait record stays.
StarveAtTool(c) ==
    /\ at[c] = "tool"
    /\ c \in Dispatches
    /\ place[c] \in {"starved", "panicked"}
    /\ IF place[c] = "starved" THEN Forget(c) ELSE UNCHANGED <<stage, since>>
    /\ Goes(c, "leaving")
    /\ UNCHANGED <<registered, watchVars, laneVars, queueVars>>

HasTool(c) == c \in Dispatches => place[c] = "holding"

\* Mutant: the lane is not kept for the run.
PassAndGive(c) ==
    /\ at[c] = "tool" /\ HasTool(c)
    /\ IF c \in Claims
       THEN Give /\ NotifyAll /\ phase' = [phase EXCEPT ![c] = "running"]
            /\ owner = token[c] /\ UNCHANGED <<waiters, next_token, token, waited>>
       ELSE UNCHANGED laneVars
    /\ Goes(c, "passed")
    /\ UNCHANGED <<stage, since, registered, watchVars, queueVars>>
\* still_owns() holds.
Pass(c) ==
    /\ at[c] = "tool"
    /\ HasTool(c)
    /\ IF c \in Claims THEN Run(c) ELSE UNCHANGED laneVars
    /\ Goes(c, "passed")
    /\ UNCHANGED <<stage, since, registered, watchVars, queueVars>>

\* lane_displaced_answer
AnswerDisplaced(c) ==
    /\ at[c] = "tool"
    /\ HasTool(c)
    /\ c \in Claims
    /\ Displace(c)
    /\ Forget(c)
    /\ Goes(c, "leaving")
    /\ UNCHANGED <<registered, watchVars, queueVars>>

\* The stage is noted only after the store lock and the holder record.
Start(c) ==
    /\ at[c] = "passed"
    /\ Note(c, "running")
    /\ Goes(c, "running")
    /\ UNCHANGED <<registered, watchVars, laneVars, queueVars>>

\* The verb returned, failed or panicked and its answer is out.
Finish(c) ==
    /\ at[c] = "running"
    /\ c \notin Hung
    /\ registered' = registered \ {c}
    /\ Forget(c)
    /\ Goes(c, "leaving")
    /\ UNCHANGED <<watchVars, laneVars, queueVars>>

DropTool(c) ==
    /\ at[c] = "leaving"
    /\ IF c \in Dispatches /\ place[c] = "holding" THEN Release(c) ELSE UNCHANGED queueVars
    /\ Goes(c, "dropping")
    /\ UNCHANGED <<stage, since, registered, watchVars, laneVars>>

\* The lane, then the slot and the in_flight entry.
DropLane(c) ==
    /\ at[c] = "dropping"
    /\ IF c \in Claims /\ phase[c] # "done" THEN Drop(c) ELSE UNCHANGED laneVars
    /\ registered' = registered \ {c}
    /\ Goes(c, "done")
    /\ UNCHANGED <<stage, since, watchVars, queueVars>>

\* handle_background_convert removes the in_flight entry of whatever dispatch
\* a request names, a running one included.
Convert(c) ==
    /\ c \in registered \cap Converted
    /\ registered' = registered \ {c}
    /\ UNCHANGED <<at, stage, since, watchVars, laneVars, queueVars>>

----
HasWaiters == waiters # {}

\* lane_holder_stuck_reason.  A raw dispatch holds the lane under its inner
\* verb, and neither its record nor its entry is found under that name.
Stuck(c) ==
    CASE c \in Raw -> "gone"
      [] c \notin Raw /\ stage[c] = "none" ->
            IF c \in registered THEN "live" ELSE "gone"
      [] c \notin Raw /\ stage[c] = "running" ->
            IF since[c] >= MinHeld /\ c \notin registered THEN "worker_not_alive"
            ELSE IF since[c] >= (IF c \in ReadOnly THEN MinHeld ELSE RunMax) /\ HasWaiters
                 THEN "past_max" ELSE "live"
      [] OTHER -> IF since[c] >= MinHeld THEN "before_running" ELSE "live"

\* release_dead_lane_owners: the verdict is reached without the owners' lock,
Judge ==
    /\ verdict = 0
    /\ owner # 0
    /\ held >= MinHeld
    /\ \E c \in Claims : token[c] = owner /\ Stuck(c) # "live"
    /\ verdict' = owner
    /\ UNCHANGED <<at, stage, since, registered, taken, laneVars, queueVars>>

\* and carried out under it if the token is still the owner's.  The reason is
\* worked out afterwards (release_stuck_lane_holders).
Remove ==
    /\ verdict # 0
    /\ verdict' = 0
    /\ IF owner # verdict
       THEN UNCHANGED <<laneVars, stage, since, taken>>
       ELSE /\ Revoke
            /\ \E c \in Claims :
                  LET why == IF Stuck(c) = "live" THEN "gone" ELSE Stuck(c)
                  IN  /\ token[c] = owner
                      /\ taken' = [taken EXCEPT ![c] =
                            IF at[c] \in {"lane", "tool"} THEN "waiting"
                            ELSE IF why = "past_max" THEN "busy" ELSE "idle"]
                      /\ IF why = "worker_not_alive" THEN Forget(c)
                         ELSE UNCHANGED <<stage, since>>
    /\ UNCHANGED <<at, registered, queueVars>>

Step(c) ==
    \/ TakeSlot(c) \/ WaitForLane(c) \/ StarveAtLane(c) \/ WinLane(c)
    \/ WaitForTool(c) \/ StarveAtTool(c) \/ Pass(c) \/ AnswerDisplaced(c)
    \/ Start(c) \/ Finish(c) \/ DropTool(c) \/ DropLane(c)

Next ==
    \/ Tick
    \/ Judge
    \/ Remove
    \/ \E c \in Tasks : Step(c) \/ WakeAtLane(c) \/ Convert(c)

\* Threads run, time passes and timed waits return.  Nothing makes the watchdog
\* run: it is called from other dispatches' bookkeeping.
Fairness ==
    /\ WF_vars(Tick)
    /\ \A c \in Tasks :
          /\ WF_vars(Step(c))
          /\ WF_vars(WakeAtLane(c))

Spec == Init /\ [][Next]_vars

FairSpec == Spec /\ Fairness

----
(* Properties.                                                             *)

Executing == {c \in Tasks : at[c] \in {"passed", "running"}}

Lost(c) == taken[c] # "no"

\* The promise of the lane, end to end: two of its dispatches execute together
\* only when the watchdog took the hold of one of them.
OneWriter ==
    \A c, d \in Executing \cap Claims : c = d \/ Lost(c) \/ Lost(d)

\* A hold taken while its claim still waited for the tool queue is not used:
\* the claim is answered as displaced (still_owns).
DisplacedNeverRuns ==
    \A c \in Executing : taken[c] # "waiting"

\* Even then the queue of a verb keeps its dispatches apart, until a timed-out
\* wait cuts it.
SameVerbApart ==
    cut = {} => \A c, d \in Executing \cap Dispatches : c = d

\* The wait record of a dispatch goes with it, unless its thread died in the
\* tool queue: what the watchdog reads of a task is of a live thread.
RecordsEnd ==
    \A c \in Tasks : at[c] \in {"dropping", "done"} /\ stage[c] # "none" =>
        c \in Dispatches /\ place[c] = "panicked"

\* All of it, for the dispatches of one project whatever the watchdog takes
\* (run_gm_dispatch_to_file).
DispatchesSound ==
    TypeOK /\ OneWriter /\ DisplacedNeverRuns /\ SameVerbApart /\ RecordsEnd

\* Every dispatch ends, answered or panicked, although one that hangs keeps its
\* run slot, its lane and its tool queue for good, as long as a slot is left.
OthersEnd ==
    \A c \in Tasks \ Hung : <>(at[c] = "done")

=============================================================================
