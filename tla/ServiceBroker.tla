---------------------------- MODULE ServiceBroker ----------------------------
(* One service of the broker: the providers that dispatches are routed to,  *)
(* their weights, and the rolling update that moves the traffic from one to *)
(* another in steps.  Every public function holds the mutex of the map of   *)
(* brokers throughout, so each is one action.                               *)
EXTENDS Integers, FiniteSets, Functions

CONSTANTS
    Providers,
    Dispatches, \* the calls, each with at most one RouteLease
    NoLease,    \* the lease of a call that has none
    Full        \* the weight of a provider that has all traffic (100 in the code)

ASSUME NoLeaseAssumption == NoLease \notin Providers
ASSUME FullAssumption == Full \in Nat \ {0}
ASSUME FiniteAssumption == IsFiniteSet(Dispatches) /\ IsFiniteSet(Providers)

VARIABLES
    policy,      \* of the entry in the map of brokers, "absent" when there is none
    providers,   \* the ids in the vector of providers
    before,      \* its order: pairs of ids, the first pushed earlier
    weight, draining, in_flight,   \* their fields, 0 and FALSE when not registered
    current,     \* round_robin_current
    lease        \* the provider that each call was routed to, or NoLease

vars == <<policy, providers, before, weight, draining, in_flight, current, lease>>

Policies == {"RoundRobin", "LeastLoaded"}

TypeOK ==
    /\ policy \in Policies \cup {"absent"}
    /\ providers \subseteq Providers
    /\ policy = "absent" => providers = {}
    /\ before \subseteq providers \X providers
    /\ weight \in [Providers -> 0 .. Full]
    /\ draining \subseteq {p \in providers : weight[p] = 0}
    /\ in_flight \in [Providers -> Nat]
    /\ \A p \in Providers \ providers : weight[p] = 0 /\ in_flight[p] = 0
    /\ current \in [Providers -> Int]
    /\ lease \in [Dispatches -> Providers \cup {NoLease}]

Init ==
    /\ policy = "absent"
    /\ providers = {}
    /\ before = {}
    /\ weight = [p \in Providers |-> 0]
    /\ draining = {}
    /\ in_flight = [p \in Providers |-> 0]
    /\ current = [p \in Providers |-> 0]
    /\ lease = [c \in Dispatches |-> NoLease]

----
Least(m, n) == IF m < n THEN m ELSE n

Total(ps) == SumFunctionOnSet(weight, ps)

Routable == {p \in providers \ draining : weight[p] > 0}

\* The first in the vector of those that satisfy a condition.
FirstOf(ps) == {p \in ps : \A q \in ps : <<q, p>> \notin before}

\* select under RoundRobin: each routable provider earns its weight, the
\* richest wins, and pays what all of them earned.
Earned(p) == current[p] + weight[p]

Richest == FirstOf({p \in Routable : \A q \in Routable : Earned(q) <= Earned(p)})

\* select under LeastLoaded
Idlest == FirstOf({p \in Routable : \A q \in Routable : in_flight[p] <= in_flight[q]})

\* Mutant: nothing is kept from turn to turn.
SettleNothing(p) == UNCHANGED current

Settle(p) ==
    current' = [q \in Providers |->
        (IF q \in Routable THEN Earned(q) ELSE current[q])
            - (IF q = p THEN Total(Routable) ELSE 0)]

\* route
Route(c) ==
    /\ lease[c] = NoLease
    /\ \E p \in Routable :
          /\ \/ policy = "RoundRobin" /\ p \in Richest /\ Settle(p)
             \/ policy = "LeastLoaded" /\ p \in Idlest /\ UNCHANGED current
          /\ in_flight' = [in_flight EXCEPT ![p] = @ + 1]
          /\ lease' = [lease EXCEPT ![c] = p]
    /\ UNCHANGED <<policy, providers, before, weight, draining>>

\* Drop of RouteLease: the provider is looked up by name.
DropLease(c) ==
    /\ lease[c] # NoLease
    /\ in_flight' = IF lease[c] \in providers
                    THEN [in_flight EXCEPT ![lease[c]] = @ - 1] ELSE in_flight
    /\ lease' = [lease EXCEPT ![c] = NoLease]
    /\ UNCHANGED <<policy, providers, before, weight, draining, current>>

\* register_provider_with_weight.  A known provider is left as it is, drained or
\* not.
Register(p, how, w) ==
    /\ p \notin providers
    /\ policy' = IF policy = "absent" THEN how ELSE policy
    /\ providers' = providers \cup {p}
    /\ before' = before \cup (providers \X {p})
    /\ weight' = [weight EXCEPT ![p] = Least(w, Full)]
    /\ UNCHANGED <<draining, in_flight, current, lease>>

\* begin_rolling_update
BeginRollingUpdate(p) == Register(p, "RoundRobin", 0)

Leave(ps) ==
    /\ providers' = providers \ ps
    /\ before' = {b \in before : b[1] \notin ps /\ b[2] \notin ps}
    /\ weight' = [p \in Providers |-> IF p \in ps THEN 0 ELSE weight[p]]
    /\ draining' = draining \ ps
    /\ in_flight' = [p \in Providers |-> IF p \in ps THEN 0 ELSE in_flight[p]]

\* unregister_provider.  The entry goes with its last provider, and its round
\* robin with it.
Unregister(p) ==
    /\ p \in providers
    /\ in_flight[p] = 0
    /\ Leave({p})
    /\ IF providers = {p}
       THEN policy' = "absent" /\ current' = [q \in Providers |-> 0]
       ELSE UNCHANGED <<policy, current>>
    /\ UNCHANGED lease

SetPolicy(how) ==
    /\ policy # "absent"
    /\ policy' = how
    /\ UNCHANGED <<providers, before, weight, draining, in_flight, current, lease>>

Others(t) == providers \ {t}

LastOf(ps) == {p \in ps : \A q \in ps : <<p, q>> \notin before}

\* Each provider loses its share of the reduction, rounded down; the last one
\* what remains of it, as far as it has it.  (The other two minima in the code
\* never bind: the shares add up to the reduction at most.)
Share(p, r, t) == (r * weight[p]) \div Total(Others(t))

\* Mutant: the last share is rounded down too.
LossRoundedDown(p, r, t) == Share(p, r, t)

Loss(p, r, t) ==
    IF p \in LastOf(Others(t))
    THEN Least(weight[p],
               r - SumFunctionOnSet([q \in Others(t) |-> Share(q, r, t)], Others(t) \ {p}))
    ELSE Share(p, r, t)

\* Mutant: the target stays drained.
ShiftTrafficDraining(t, step) ==
    LET r == Least(Least(step, Full), Total(Others(t)))
    IN  /\ t \in providers
        /\ weight' = [p \in Providers |->
              CASE p = t -> Least(weight[p] + r, Full)
                [] p \in Others(t) /\ r > 0 -> weight[p] - Loss(p, r, t)
                [] OTHER -> weight[p]]
        /\ draining' = draining \cup
              (IF r > 0 THEN {p \in Others(t) : weight'[p] = 0} ELSE {})
        /\ UNCHANGED <<policy, providers, before, in_flight, current, lease>>

\* shift_traffic.  Every provider without weight is drained, one that never had
\* any included.
ShiftTraffic(t, step) ==
    LET r == Least(Least(step, Full), Total(Others(t)))
    IN  /\ t \in providers
        /\ weight' = [p \in Providers |->
              CASE p = t -> Least(weight[p] + r, Full)
                [] p \in Others(t) /\ r > 0 -> weight[p] - Loss(p, r, t)
                [] OTHER -> weight[p]]
        /\ draining' = (draining \ {t}) \cup
              (IF r > 0 THEN {p \in Others(t) : weight'[p] = 0} ELSE {})
        /\ UNCHANGED <<policy, providers, before, in_flight, current, lease>>

\* Mutant: the leases are not looked at.
ReapBusy ==
    /\ policy # "absent"
    /\ Leave(draining)
    /\ UNCHANGED <<policy, current, lease>>

\* reap_drained.  The entry stays, empty or not.
Reap ==
    /\ policy # "absent"
    /\ Leave({p \in draining : weight[p] = 0 /\ in_flight[p] = 0})
    /\ UNCHANGED <<policy, current, lease>>

Next ==
    \/ Reap
    \/ \E c \in Dispatches : Route(c) \/ DropLease(c)
    \/ \E how \in Policies : SetPolicy(how)
    \/ \E p \in Providers :
          \/ BeginRollingUpdate(p)
          \/ Unregister(p)
          \/ \E how \in Policies, w \in 0 .. Full : Register(p, how, w)
          \/ \E step \in 0 .. Full : ShiftTraffic(p, step)

\* Dispatches keep coming and ending.
Fairness ==
    /\ WF_vars(\E c \in Dispatches : Route(c))
    /\ WF_vars(\E c \in Dispatches : DropLease(c))

Spec == Init /\ [][Next]_vars

FairSpec == Spec /\ Fairness

----
(* Properties.                                                             *)

LeasesOf(p) == {c \in Dispatches : lease[c] = p}

\* A provider's in_flight is the number of leases out on it, and no provider is
\* removed, unregistered or reaped, under a dispatch that was routed to it.
CountsAreLeases ==
    /\ \A p \in providers : in_flight[p] = Cardinality(LeasesOf(p))
    /\ \A c \in Dispatches : lease[c] # NoLease => lease[c] \in providers

\* Whatever providers came and went and whatever was shifted, what some have
\* earned beyond their turns in the round robin the others owe.
CreditsCancel == SumFunctionOnSet(current, Providers) = 0

\* A service that can be routed stays so through a rolling update: only an
\* unregistration makes it unroutable.
StaysRoutable ==
    [][Routable # {} /\ Routable' = {} =>
          \E p \in providers : p \notin providers' /\ weight[p] > 0]_vars

\* A step of an update never takes more than was asked for, and takes something
\* as long as the last of the other providers has weight: repeated steps get to
\* the end.  (When it has none a small step may be rounded to nothing.)
StepsAdvance ==
    \A t \in providers : \A r \in 1 .. Least(Full, Total(Others(t))) :
        LET lost == SumFunctionOnSet([p \in Others(t) |-> Loss(p, r, t)], Others(t))
        IN  /\ lost <= r
            /\ (\E p \in LastOf(Others(t)) : weight[p] > 0) => lost > 0

\* The arithmetic of routing and shifting, in every state that registrations, shifts,
\* leases and reaping reach (select, shift_traffic).
WeightsSound == TypeOK /\ CreditsCancel /\ StepsAdvance

\* Under RoundRobin a provider that stays routable is routed to again and again,
\* whatever is done to the others.
NobodyStarves ==
    \A p \in Providers :
        <>[](policy = "RoundRobin" /\ p \in Routable)
            => []<>(\E c \in Dispatches : lease[c] = p)
=============================================================================
