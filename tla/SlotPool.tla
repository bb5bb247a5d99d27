------------------------------ MODULE SlotPool ------------------------------
(* The pool of instances of one plugin.  A dispatch first waits for a slot, *)
(* in the queue of its cost class; holding the slot, it asks for admission  *)
(* to its band, for a short while; when there is no room it gives the slot  *)
(* back and starts over, until its deadline.  A hold of the general band    *)
(* that is over age stops counting while its dispatch runs on.              *)
(*                                                                          *)
(* A step is one critical section under the lock of the ticket queue, or    *)
(* the drop of a slot.  The tickets of a class, from now_serving to         *)
(* next_ticket, are a sequence; abandoned ones are Gone.                    *)
EXTENDS Naturals, FiniteSets, Sequences

CONSTANTS
    Dispatches,
    Heavies, Gits, Blockings, Shorts,    \* what they are; the rest are cheap
    Hung,                                \* those that never return
    Size,                                \* the number of slots
    MaxHeavy,                            \* MAX_CONCURRENT_HEAVY_DISPATCHES
    Gone

ASSUME DispatchesAssumption == IsFiniteSet(Dispatches) /\ Gone \notin Dispatches
ASSUME KindsAssumption ==
    /\ Heavies \cup Gits \cup Blockings \cup Shorts \cup Hung \subseteq Dispatches
    /\ Gits \cap (Heavies \cup Blockings \cup Shorts) = {}
    /\ Heavies \cap (Blockings \cup Shorts) = {}
    /\ Blockings \cap Shorts = {}
ASSUME SizeAssumption == Size \in Nat \ {0} /\ MaxHeavy \in Nat \ {0}

AtLeastOne(n) == IF n < 1 THEN 1 ELSE n
Least(m, n) == IF m < n THEN m ELSE n

Reserved == AtLeastOne(Size \div 4)
NonShortLimit == AtLeastOne(Size - Reserved)
HeavyLimit == AtLeastOne(Least(NonShortLimit - 1, Least(Size - 1, MaxHeavy)))
BlockingLimit == AtLeastOne(Size - Reserved)
GitBandLimit == AtLeastOne(Reserved - 1)

Classes == {"Cheap", "Heavy", "Short"}
Bands == {"General", "GitBand", "Blocking"}

VARIABLES
    at,                   \* how far each dispatch is
    queue,                \* the tickets of each class
    hold,                 \* the id of the hold of each dispatch, 0 for none
    band,                 \* and its kind
    next_holder_id,
    non_short_inflight, heavy_inflight, git_band_inflight, blocking_inflight,
    over_age,             \* the dispatches whose hold is, or was reclaimed, over age
    overdue               \* those that wait past their deadline

holdVars == <<hold, band, next_holder_id, over_age>>
inflightVars == <<non_short_inflight, heavy_inflight, git_band_inflight, blocking_inflight>>
poolVars == <<at, queue, holdVars, inflightVars, overdue>>

Places == {"new", "queued", "slot", "denied", "running", "returned", "done", "refused"}

PoolTypeOK ==
    /\ at \in [Dispatches -> Places]
    /\ queue \in [Classes -> Seq(Dispatches \cup {Gone})]
    /\ hold \in [Dispatches -> 0 .. next_holder_id]
    /\ band \in [Dispatches -> Bands]
    /\ next_holder_id \in Nat
    /\ non_short_inflight \in 0 .. NonShortLimit /\ heavy_inflight \in 0 .. HeavyLimit
    /\ git_band_inflight \in 0 .. GitBandLimit /\ blocking_inflight \in 0 .. BlockingLimit
    /\ over_age \subseteq Dispatches
    /\ overdue \subseteq Dispatches

PoolInit ==
    /\ at = [d \in Dispatches |-> "new"]
    /\ queue = [c \in Classes |-> <<>>]
    /\ hold = [d \in Dispatches |-> 0]
    /\ band = [d \in Dispatches |-> "General"]
    /\ next_holder_id = 0
    /\ non_short_inflight = 0 /\ heavy_inflight = 0
    /\ git_band_inflight = 0 /\ blocking_inflight = 0
    /\ over_age = {}
    /\ overdue = {}

----
(* acquire_slot_until                                                      *)

\* A dispatch has a deadline as long as it is in the loop of dispatch.
Waiting == {"new", "queued", "slot", "denied"}
Moves(d, s) ==
    /\ at' = [at EXCEPT ![d] = s]
    /\ overdue' = IF s \in Waiting THEN overdue ELSE overdue \ {d}

\* cost_class_for_dispatch
Class(d) == IF d \in Heavies THEN "Heavy" ELSE IF d \in Shorts THEN "Short" ELSE "Cheap"

\* skip_abandoned
Skip(q) ==
    LET live == {i \in DOMAIN q : q[i] # Gone}
        i == CHOOSE i \in live : \A j \in live : i <= j
    IN IF live = {} THEN <<>> ELSE SubSeq(q, i, Len(q))

FreeSlot == Cardinality({d \in Dispatches : at[d] \in {"slot", "running"}}) < Size

Enter(d) ==
    /\ at[d] = "new"
    /\ queue' = [queue EXCEPT ![Class(d)] = Append(@, d)]
    /\ Moves(d, "queued")
    /\ UNCHANGED <<holdVars, inflightVars>>

Take(d) ==
    /\ at[d] = "queued"
    /\ Head(Skip(queue[Class(d)])) = d
    /\ FreeSlot
    /\ queue' = [queue EXCEPT ![Class(d)] = Tail(Skip(@))]
    /\ Moves(d, "slot")
    /\ UNCHANGED <<holdVars, inflightVars>>

\* Mutant: skip_abandoned goes on to the last ticket.
AbandonHead(q, d) ==
    IF Head(q) = d THEN <<>>
    ELSE [i \in DOMAIN q |-> IF q[i] = d THEN Gone ELSE q[i]]

\* ClassTicketQueue::abandon
Abandon(q, d) ==
    IF Head(q) = d THEN Skip(Tail(q))
    ELSE [i \in DOMAIN q |-> IF q[i] = d THEN Gone ELSE q[i]]

\* The deadline is over, and the try before has failed.
GiveUp(d) ==
    /\ at[d] = "queued"
    /\ d \in overdue
    /\ queue' = [queue EXCEPT ![Class(d)] = Abandon(@, d)]
    /\ Moves(d, "refused")
    /\ UNCHANGED <<holdVars, inflightVars>>

\* The slot was evicted and cannot be filled again.
RefillFails(d) ==
    /\ at[d] = "slot"
    /\ Moves(d, "refused")
    /\ UNCHANGED <<queue, holdVars, inflightVars>>

----
(* admit_verb_within_lane and admit_blocking_within, with the slot held.   *)

Holders == {d \in Dispatches : hold[d] # 0}
Unmetered(d) == d \in Shorts \/ Size < 2
Limited(d) == ~Unmetered(d) /\ d \notin Blockings

RoomInGeneral(d) ==
    /\ non_short_inflight < NonShortLimit
    /\ d \in Heavies => heavy_inflight < HeavyLimit
RoomInGitBand(d) == d \in Gits /\ git_band_inflight < GitBandLimit

\* register_holder
Register(d, b) ==
    /\ next_holder_id' = next_holder_id + 1
    /\ hold' = [hold EXCEPT ![d] = next_holder_id + 1]
    /\ band' = [band EXCEPT ![d] = b]
    /\ Moves(d, "running")
    /\ UNCHANGED <<queue, over_age>>

Pass(d) ==
    /\ at[d] = "slot"
    /\ Unmetered(d)
    /\ Moves(d, "running")
    /\ UNCHANGED <<queue, holdVars, inflightVars>>

AdmitGeneral(d) ==
    /\ at[d] = "slot"
    /\ Limited(d) /\ RoomInGeneral(d)
    /\ non_short_inflight' = non_short_inflight + 1
    /\ heavy_inflight' = heavy_inflight + (IF d \in Heavies THEN 1 ELSE 0)
    /\ Register(d, "General")
    /\ UNCHANGED <<git_band_inflight, blocking_inflight>>

AdmitGit(d) ==
    /\ at[d] = "slot"
    /\ Limited(d) /\ ~RoomInGeneral(d) /\ RoomInGitBand(d)
    /\ git_band_inflight' = git_band_inflight + 1
    /\ Register(d, "GitBand")
    /\ UNCHANGED <<non_short_inflight, heavy_inflight, blocking_inflight>>

AdmitBlocking(d) ==
    /\ at[d] = "slot"
    /\ d \in Blockings /\ ~Unmetered(d)
    /\ blocking_inflight < BlockingLimit
    /\ blocking_inflight' = blocking_inflight + 1
    /\ Register(d, "Blocking")
    /\ UNCHANGED <<non_short_inflight, heavy_inflight, git_band_inflight>>

\* saturating_sub(1)
Less(n) == IF n = 0 THEN 0 ELSE n - 1

\* What the removal of the hold of a dispatch takes from the counters.
Uncount(d) ==
    /\ non_short_inflight' = IF band[d] = "General" THEN Less(non_short_inflight)
                                                    ELSE non_short_inflight
    /\ heavy_inflight' = IF band[d] = "General" /\ d \in Heavies THEN Less(heavy_inflight)
                                                                  ELSE heavy_inflight
    /\ git_band_inflight' = IF band[d] = "GitBand" THEN Less(git_band_inflight)
                                                   ELSE git_band_inflight
    /\ blocking_inflight' = IF band[d] = "Blocking" THEN Less(blocking_inflight)
                                                    ELSE blocking_inflight

\* release_holder: nothing happens when the id is gone.
ReleaseHolder(d) ==
    IF hold[d] = 0 THEN UNCHANGED <<hold, inflightVars>>
    ELSE hold' = [hold EXCEPT ![d] = 0] /\ Uncount(d)

\* release_over_age_admission_hold, by a dispatch that found no room.
ReclaimOverAge(d) ==
    /\ at[d] = "slot"
    /\ Limited(d)
    /\ non_short_inflight + git_band_inflight + blocking_inflight < Size
    /\ \E e \in Holders \cap over_age :
          /\ band[e] = "General"
          /\ \A f \in Holders : band[f] = "General" => hold[e] <= hold[f]
          /\ ReleaseHolder(e)
    /\ UNCHANGED <<at, queue, band, next_holder_id, over_age, overdue>>

\* SLOT_HELD_ADMISSION_WAIT_MS later there is still no room: the slot is dropped.
Deny(d) ==
    /\ at[d] = "slot"
    /\ \/ Limited(d) /\ ~RoomInGeneral(d) /\ ~RoomInGitBand(d)
       \/ d \in Blockings /\ ~Unmetered(d) /\ blocking_inflight >= BlockingLimit
    /\ Moves(d, "denied")
    /\ UNCHANGED <<queue, holdVars, inflightVars>>

\* Mutant: the deadline is left to the wait for a slot.
RefuseOverBound(d) ==
    /\ at[d] = "denied"
    /\ Holders \cap over_age # {}
    /\ Moves(d, "refused")
    /\ UNCHANGED <<queue, holdVars, inflightVars>>

\* over_bound_refusal, or the deadline is over.
Refuse(d) ==
    /\ at[d] = "denied"
    /\ Holders \cap over_age # {} \/ d \in overdue
    /\ Moves(d, "refused")
    /\ UNCHANGED <<queue, holdVars, inflightVars>>

StartsOver(d) ==
    /\ at[d] = "denied"
    /\ Holders \cap over_age = {}
    /\ d \notin overdue
    /\ Moves(d, "new")
    /\ UNCHANGED <<queue, holdVars, inflightVars>>

----
\* The verb returns, fails or unwinds: the slot is dropped first,
Return(d) ==
    /\ at[d] = "running"
    /\ d \notin Hung
    /\ Moves(d, "returned")
    /\ UNCHANGED <<queue, holdVars, inflightVars>>

\* Mutant: a hold is known by its band; some hold of it is removed.
LeaveBand(d) ==
    /\ at[d] = "returned"
    /\ \/ Unmetered(d) /\ UNCHANGED <<hold, inflightVars>>
       \/ \E e \in Holders : ~Unmetered(d) /\ band[e] = band[d] /\ ReleaseHolder(e)
    /\ Moves(d, "done")
    /\ over_age' = over_age \ {d}
    /\ UNCHANGED <<queue, band, next_holder_id>>

\* and then the admission.
Leave(d) ==
    /\ at[d] = "returned"
    /\ ReleaseHolder(d)
    /\ Moves(d, "done")
    /\ over_age' = over_age \ {d}
    /\ UNCHANGED <<queue, band, next_holder_id>>

\* ADMISSION_HOLD_MAX_MS passes for a hold, and before for those before it.
Age(d) ==
    /\ d \in Holders \ over_age
    /\ \A e \in Holders \ over_age : hold[d] <= hold[e]
    /\ over_age' = over_age \cup {d}
    /\ UNCHANGED <<at, queue, hold, band, next_holder_id, inflightVars, overdue>>

\* The deadline of a dispatch passes.
Expire(d) ==
    /\ at[d] \in Waiting
    /\ d \notin overdue
    /\ overdue' = overdue \cup {d}
    /\ UNCHANGED <<at, queue, holdVars, inflightVars>>

ThreadStep(d) ==
    \/ Enter(d) \/ Take(d) \/ GiveUp(d) \/ Deny(d) \/ Refuse(d) \/ StartsOver(d)
    \/ Pass(d) \/ AdmitGeneral(d) \/ AdmitGit(d) \/ AdmitBlocking(d) \/ Return(d) \/ Leave(d)

PoolNext ==
    \E d \in Dispatches :
        ThreadStep(d) \/ RefillFails(d) \/ ReclaimOverAge(d) \/ Age(d) \/ Expire(d)

\* Threads run, and deadlines pass.
Fairness == \A d \in Dispatches : WF_poolVars(ThreadStep(d)) /\ WF_poolVars(Expire(d))

PoolSpec == PoolInit /\ [][PoolNext]_poolVars

FairSpec == PoolSpec /\ Fairness

----
(* Properties.                                                             *)

InBand(b) == {d \in Holders : band[d] = b}

\* The counters that the limits are tested against are the numbers of the holds,
\* however a hold ended: a hold reclaimed over age is not counted off again when
\* its dispatch returns.
CountersAreHolds ==
    /\ non_short_inflight = Cardinality(InBand("General"))
    /\ heavy_inflight = Cardinality(InBand("General") \cap Heavies)
    /\ git_band_inflight = Cardinality(InBand("GitBand"))
    /\ blocking_inflight = Cardinality(InBand("Blocking"))

\* A metered dispatch that runs is counted, unless it was over age in the general
\* band: nobody else's end frees its admission.  And who is not running, nor just
\* back, holds none.
OwnHold ==
    \A d \in Dispatches :
        /\ at[d] = "running" /\ hold[d] = 0 /\ ~Unmetered(d) =>
              d \in over_age /\ band[d] = "General"
        /\ at[d] \notin {"running", "returned"} => hold[d] = 0

\* The two together: the limits are tested against holds of dispatches that are
\* there, each counted once (AdmissionHolder).
AdmissionSound == CountersAreHolds /\ OwnHold

\* A queue of tickets orders those that wait: each has one ticket, and nobody else any.
TicketsOf(q, waiting) ==
    /\ q \in Seq(waiting \cup {Gone})
    /\ \A d \in waiting : \E i \in DOMAIN q :
          q[i] = d /\ \A j \in DOMAIN q : q[j] = d => j = i

Queued(c) == {d \in Dispatches : at[d] = "queued" /\ Class(d) = c}

\* However dispatches are served, skipped, give up at their deadline or come back after a
\* denial, the tickets of a class are those of the dispatches that wait in it: none is lost,
\* and none is left behind for the others to wait for (ClassTicketQueue).
TicketsAreWaiters == \A c \in Classes : TicketsOf(queue[c], Queued(c))

\* Neither way in is lost: the limits count what is admitted, and the queues order what waits
\* (SharedPluginPool).
PoolSound == AdmissionSound /\ TicketsAreWaiters

\* In the end no dispatch is left in the loop, each was admitted or refused,
\* although admitted ones may hang and the others take turns with the slots.
DispatchesEnd == <>(\A d \in Dispatches : at[d] \notin Waiting)
=============================================================================
