----------------------------- MODULE ToolQueue -----------------------------
(* One queue of ToolDispatchGuard: the dispatches of one (project, plugin,  *)
(* verb) key, which the host runs one at a time.  Queues of different keys  *)
(* share nothing but a mutex and a condition variable, so one is modelled.  *)
(*                                                                          *)
(* The entry of the key in TOOL_INFLIGHT is absent, idle or active, and has *)
(* two ticket counters, here 0 while it is absent.  Each step below is one  *)
(* critical section of the map's mutex.  A waiter may re-check at any time  *)
(* (spurious wake-ups are allowed, and every release notifies all).         *)
EXTENDS Naturals

CONSTANTS
    Dispatches,   \* the threads that ask for this key
    Bounded,      \* those that call acquire_within; the others call acquire
    MaxTickets    \* bound: tickets one incarnation of the queue hands out

ASSUME BoundedAssumption == Bounded \subseteq Dispatches
ASSUME MaxTicketsAssumption == MaxTickets \in Nat

VARIABLES
    entry,         \* "absent", "idle" or "active"
    next_ticket,
    now_serving,
    place,         \* where each thread is with respect to the queue
    ticket,        \* the ticket of a waiting thread, else 0
    cut            \* history: threads whose give-up passed over or uprooted another

queueVars == <<entry, next_ticket, now_serving, place, ticket, cut>>

counters == <<entry, next_ticket, now_serving>>

QueuePlaces == {"outside", "waiting", "holding", "starved", "panicked"}

QueueTypeOK ==
    /\ entry \in {"absent", "idle", "active"}
    /\ next_ticket \in Nat
    /\ now_serving \in Nat
    /\ entry = "absent" => next_ticket = 0 /\ now_serving = 0
    /\ place \in [Dispatches -> QueuePlaces]
    /\ ticket \in [Dispatches -> Nat]
    /\ cut \subseteq Dispatches

QueueInit ==
    /\ entry = "absent"
    /\ next_ticket = 0
    /\ now_serving = 0
    /\ place = [d \in Dispatches |-> "outside"]
    /\ ticket = [d \in Dispatches |-> 0]
    /\ cut = {}

----
Holding == {d \in Dispatches : place[d] = "holding"}
InLine == {d \in Dispatches : place[d] = "waiting"}

RemoveEntry == entry' = "absent" /\ next_ticket' = 0 /\ now_serving' = 0

\* Mutant: the wait loop forgets the active flag.
ServedWhileActive(t) == now_serving = t

\* The test of the wait loop: the ticket is being served and nobody is active.
Served(t) == now_serving = t /\ entry # "active"

\* acquire and acquire_within: the ticket is drawn and tested for the first
\* time under one hold of the mutex.
Enter(d) ==
    /\ place[d] = "outside"
    /\ next_ticket < MaxTickets
    /\ next_ticket' = next_ticket + 1
    /\ \/ /\ Served(next_ticket)
          /\ entry' = "active"
          /\ now_serving' = now_serving + 1
          /\ place' = [place EXCEPT ![d] = "holding"]
          /\ UNCHANGED ticket
       \/ /\ ~Served(next_ticket)
          /\ place' = [place EXCEPT ![d] = "waiting"]
          /\ ticket' = [ticket EXCEPT ![d] = next_ticket]
          /\ UNCHANGED <<entry, now_serving>>
    /\ UNCHANGED cut

\* A waiter that wakes and finds its ticket served takes the queue.
Serve(d) ==
    /\ place[d] = "waiting"
    /\ entry # "absent"
    /\ Served(ticket[d])
    /\ entry' = "active"
    /\ now_serving' = now_serving + 1
    /\ place' = [place EXCEPT ![d] = "holding"]
    /\ ticket' = [ticket EXCEPT ![d] = 0]
    /\ UNCHANGED <<next_ticket, cut>>

\* The ticket served after thread d gave up: it is stepped over with every
\* earlier one.
Passed(d) == IF now_serving > ticket[d] THEN now_serving ELSE ticket[d] + 1

\* acquire_within past its budget.  wait_timeout returns "timed out" without a
\* further test, so a served waiter may give up too.  An entry left with no
\* outstanding ticket is removed, whoever still holds it or waits on it.
GiveUp(d) ==
    /\ d \in Bounded
    /\ place[d] = "waiting"
    /\ entry # "absent"
    /\ IF next_ticket = Passed(d)
       THEN RemoveEntry
       ELSE now_serving' = Passed(d) /\ UNCHANGED <<entry, next_ticket>>
    /\ cut' = IF \/ next_ticket = Passed(d) /\ Holding # {}
                 \/ \E e \in InLine \ {d} : ticket[e] < Passed(d)
              THEN cut \cup {d} ELSE cut
    /\ place' = [place EXCEPT ![d] = "starved"]
    /\ ticket' = [ticket EXCEPT ![d] = 0]

\* expect("tool queue exists for its assigned ticket") on a missing entry.
Panic(d) ==
    /\ place[d] = "waiting"
    /\ entry = "absent"
    /\ place' = [place EXCEPT ![d] = "panicked"]
    /\ ticket' = [ticket EXCEPT ![d] = 0]
    /\ UNCHANGED <<counters, cut>>

\* Mutant: Drop keeps the flag.
ReleaseStillActive(d) ==
    /\ place[d] = "holding"
    /\ IF next_ticket = now_serving THEN RemoveEntry ELSE UNCHANGED counters
    /\ place' = [place EXCEPT ![d] = "outside"]
    /\ UNCHANGED <<ticket, cut>>

\* Drop of the guard: whatever entry the key has now is marked idle, and
\* removed when no ticket is outstanding.
Release(d) ==
    /\ place[d] = "holding"
    /\ IF entry = "absent" \/ next_ticket = now_serving
       THEN RemoveEntry
       ELSE entry' = "idle" /\ UNCHANGED <<next_ticket, now_serving>>
    /\ place' = [place EXCEPT ![d] = "outside"]
    /\ UNCHANGED <<ticket, cut>>

\* The answer of a starved or panicked dispatch is out: its caller may ask again.
Reenter(d) ==
    /\ place[d] \in {"starved", "panicked"}
    /\ place' = [place EXCEPT ![d] = "outside"]
    /\ UNCHANGED <<counters, ticket, cut>>

QueueNext ==
    \E d \in Dispatches :
        \/ Enter(d) \/ Serve(d) \/ GiveUp(d)
        \/ Panic(d) \/ Release(d) \/ Reenter(d)

QueueFairness == \A d \in Dispatches : WF_queueVars(Serve(d)) /\ WF_queueVars(Release(d))

QueueSpec == QueueInit /\ [][QueueNext]_queueVars

FairQueueSpec == QueueSpec /\ QueueFairness

----
(* Properties.  A give-up is harmless only when the thread that gives up is  *)
(* the first in line and another one is behind it; "cut" records the first   *)
(* give-up that was not.                                                     *)

\* Until a cut, at most one dispatch of the key runs, and the entry exists and
\* is marked active exactly while it should be (tool_inflight, Drop).
OneHolderUntilCut ==
    cut = {} => /\ \A d, e \in Holding : d = e
                /\ entry = "active" <=> Holding # {}
                /\ entry # "absent" <=> Holding \cup InLine # {}

\* Until a cut, the tickets still to be served are those of the waiters, one
\* each: no ticket is served that nobody waits for, and none is lost.
TicketsOfWaiters ==
    cut = {} => /\ {ticket[d] : d \in InLine} = now_serving .. next_ticket - 1
                /\ \A d, e \in InLine : ticket[d] = ticket[e] => d = e

\* Until a cut, no thread dies on the expect of the wait loop.
NoPanicUntilCut == cut = {} => \A d \in Dispatches : place[d] # "panicked"

\* All of it: until the first harmful give-up the queue is one, whoever gives up,
\* releases or comes back (ToolDispatchGuard).
QueueSound == QueueTypeOK /\ OneHolderUntilCut /\ TicketsOfWaiters /\ NoPanicUntilCut

\* Dispatches are let in in the order in which they drew their tickets.
ServedInOrder ==
    [][\A d, e \in InLine :
          cut = {} /\ place'[d] = "holding" /\ ticket[e] < ticket[d] => d = e]_queueVars

\* Every waiter is let in or gives up, unless a cut left it behind: each
\* release wakes the thread whose ticket is next.
QueueWaitEnds ==
    \A d \in Dispatches : place[d] = "waiting" ~> place[d] # "waiting" \/ cut # {}

=============================================================================
