--------------------------- MODULE HostLeaseProofs ---------------------------
(* What TLAPS proves of the leases that the host gives out: of a provider to *)
(* a dispatch (ServiceBroker) and of a browser to an agent (BrowserLease),   *)
(* which share nothing.  For any providers, weights and calls, leases are    *)
(* counted exactly, the effective weights stay sound, and who could be       *)
(* routed to is not lost by a settlement.  The weights are sums over the     *)
(* providers, so the first part is about SumFunctionOnSet: each fact of a    *)
(* sum over a finite set is proved by looking at a smallest set for which    *)
(* it fails.  The second part is the invariant of the browser's lease.       *)
EXTENDS ServiceBroker, BrowserLease, FiniteSetTheorems, WellFoundedInduction, TLAPS

\* The part of TypeOK that the proof needs, and the property.
Leased ==
    /\ providers \subseteq Providers
    /\ in_flight \in [Providers -> Nat]
    /\ \A p \in Providers \ providers : in_flight[p] = 0
    /\ lease \in [Dispatches -> Providers \cup {NoLease}]
    /\ CountsAreLeases

\* The routes taken are those of the calls: so many leases, so many calls.
LEMMA LeasesFinite == \A p \in Providers : IsFiniteSet(LeasesOf(p)) /\ Cardinality(LeasesOf(p)) \in Nat
<1>1. TAKE p \in Providers
<1>2. LeasesOf(p) \subseteq Dispatches
  BY DEF LeasesOf
<1>3. IsFiniteSet(LeasesOf(p))
  BY <1>2, FiniteAssumption, FS_Subset
<1>4. QED
  BY <1>3, FS_CardinalityType

LEMMA LeasesEmpty ==
    ASSUME Leased, NEW p \in providers, in_flight[p] = 0
    PROVE  \A c \in Dispatches : lease[c] # p
<1>1. p \in Providers
  BY DEF Leased
<1>2. Cardinality(LeasesOf(p)) = 0
  BY DEF Leased, CountsAreLeases
<1>3. LeasesOf(p) = {}
  BY <1>1, <1>2, LeasesFinite, FS_EmptySet
<1>4. QED
  BY <1>3 DEF LeasesOf

LEMMA InitLeased == Init => Leased
<1>1. SUFFICES ASSUME Init PROVE Leased
  OBVIOUS
<1>2. QED
  BY <1>1 DEF Init, Leased, CountsAreLeases

LEMMA RouteKeeps ==
    ASSUME Leased, NEW c \in Dispatches, Route(c) PROVE Leased'
<1>1. PICK p \in Routable :
          /\ lease[c] = NoLease
          /\ in_flight' = [in_flight EXCEPT ![p] = @ + 1]
          /\ lease' = [lease EXCEPT ![c] = p]
  BY DEF Route
<1>2. p \in providers /\ p \in Providers /\ providers' = providers
  BY <1>1 DEF Routable, Leased, Route
<1>3. c \notin LeasesOf(p) /\ LeasesOf(p)' = LeasesOf(p) \cup {c}
  BY <1>1, <1>2, NoLeaseAssumption DEF LeasesOf, Leased
<1>4. Cardinality(LeasesOf(p)') = Cardinality(LeasesOf(p)) + 1
  BY <1>2, <1>3, LeasesFinite, FS_AddElement
<1>5. \A q \in Providers \ {p} : LeasesOf(q)' = LeasesOf(q)
  <2>1. TAKE q \in Providers \ {p}
  <2>2. q # NoLease
    BY NoLeaseAssumption
  <2>3. QED
    BY <1>1, <1>2, <2>2 DEF LeasesOf, Leased
<1>6. \A q \in providers' : in_flight'[q] = Cardinality(LeasesOf(q)')
  <2>1. TAKE q \in providers'
  <2>2. CASE q = p
    BY <1>1, <1>2, <1>4, <2>2 DEF Leased, CountsAreLeases
  <2>3. CASE q # p
    BY <1>1, <1>2, <1>5, <2>3 DEF Leased, CountsAreLeases
  <2>4. QED
    BY <2>2, <2>3
<1>7. \A d \in Dispatches : lease'[d] # NoLease => lease'[d] \in providers'
  BY <1>1, <1>2 DEF Leased, CountsAreLeases
<1>8. QED
  BY <1>1, <1>2, <1>6, <1>7 DEF Leased, CountsAreLeases

LEMMA DropLeaseKeeps ==
    ASSUME Leased, NEW c \in Dispatches, DropLease(c) PROVE Leased'
<1>1. PICK p \in providers :
          p = lease[c] /\ p \in Providers /\ p # NoLease /\ providers' = providers
  BY NoLeaseAssumption DEF Leased, CountsAreLeases, DropLease
<1>2. in_flight' = [in_flight EXCEPT ![p] = @ - 1] /\ lease' = [lease EXCEPT ![c] = NoLease]
  BY <1>1 DEF DropLease
<1>3. c \in LeasesOf(p) /\ LeasesOf(p)' = LeasesOf(p) \ {c}
  BY <1>1, <1>2 DEF LeasesOf, Leased
<1>4. Cardinality(LeasesOf(p)') = Cardinality(LeasesOf(p)) - 1 /\ Cardinality(LeasesOf(p)) \in Nat
  BY <1>1, <1>3, LeasesFinite, FS_RemoveElement
<1>5. Cardinality(LeasesOf(p)') \in Nat
  BY <1>1, <1>3, LeasesFinite, FS_RemoveElement, FS_CardinalityType
<1>6. \A q \in Providers \ {p} : LeasesOf(q)' = LeasesOf(q)
  <2>1. TAKE q \in Providers \ {p}
  <2>2. q # NoLease
    BY NoLeaseAssumption
  <2>3. QED
    BY <1>1, <1>2, <2>2 DEF LeasesOf, Leased
<1>7. \A q \in providers' : in_flight'[q] = Cardinality(LeasesOf(q)')
  <2>1. TAKE q \in providers'
  <2>2. CASE q = p
    BY <1>1, <1>2, <1>4, <2>2 DEF Leased, CountsAreLeases
  <2>3. CASE q # p
    BY <1>1, <1>2, <1>6, <2>3 DEF Leased, CountsAreLeases
  <2>4. QED
    BY <2>2, <2>3
<1>8. in_flight' \in [Providers -> Nat]
  <2>1. in_flight[p] - 1 \in Nat
    BY <1>1, <1>4, <1>5 DEF Leased, CountsAreLeases
  <2>2. QED
    BY <1>2, <2>1 DEF Leased
<1>9. \A d \in Dispatches : lease'[d] # NoLease => lease'[d] \in providers'
  BY <1>1, <1>2 DEF Leased, CountsAreLeases
<1>10. QED
  BY <1>1, <1>2, <1>7, <1>8, <1>9 DEF Leased, CountsAreLeases

LEMMA RegisterKeeps ==
    ASSUME Leased, NEW p \in Providers, NEW how, NEW w, Register(p, how, w) PROVE Leased'
<1>1. p \notin providers /\ providers' = providers \cup {p}
      /\ UNCHANGED <<in_flight, lease>>
  BY DEF Register
<1>2. \A c \in Dispatches : lease[c] # p
  BY <1>1, NoLeaseAssumption DEF Leased, CountsAreLeases
<1>3. LeasesOf(p) = {} /\ Cardinality(LeasesOf(p)) = 0
  BY <1>2, FS_EmptySet DEF LeasesOf
<1>4. \A q \in providers' : in_flight[q] = Cardinality(LeasesOf(q))
  BY <1>1, <1>3 DEF Leased, CountsAreLeases
<1>5. \A q \in providers' : in_flight'[q] = Cardinality(LeasesOf(q)')
  BY <1>1, <1>4 DEF LeasesOf
<1>6. QED
  BY <1>1, <1>5 DEF Leased, CountsAreLeases

\* Providers without a lease may go, one or many.
LEMMA LeaveKeeps ==
    ASSUME Leased, NEW ps, \A p \in ps : p \in providers => in_flight[p] = 0,
           Leave(ps), UNCHANGED lease
    PROVE  Leased'
<1>1. providers' = providers \ ps
      /\ in_flight' = [p \in Providers |-> IF p \in ps THEN 0 ELSE in_flight[p]]
  BY DEF Leave
<1>2. \A c \in Dispatches : lease[c] # NoLease => lease[c] \in providers \ ps
  BY LeasesEmpty DEF Leased, CountsAreLeases
<1>3. \A q \in providers' : in_flight'[q] = Cardinality(LeasesOf(q)')
  BY <1>1 DEF Leased, CountsAreLeases, LeasesOf
<1>4. in_flight' \in [Providers -> Nat] /\ \A p \in Providers \ providers' : in_flight'[p] = 0
  BY <1>1 DEF Leased
<1>5. QED
  BY <1>1, <1>2, <1>3, <1>4 DEF Leased, CountsAreLeases

LEMMA OthersKeep ==
    ASSUME Leased, UNCHANGED <<providers, in_flight, lease>> PROVE Leased'
BY DEF Leased, CountsAreLeases, LeasesOf

LEMMA NextKeeps == Leased /\ [Next]_vars => Leased'
<1>1. SUFFICES ASSUME Leased, [Next]_vars PROVE Leased'
  OBVIOUS
<1>2. CASE Reap
  <2>1. Leave({p \in draining : weight[p] = 0 /\ in_flight[p] = 0}) /\ UNCHANGED lease
    BY <1>2 DEF Reap
  <2>2. QED
    BY <1>1, <2>1, LeaveKeeps
<1>3. ASSUME NEW c \in Dispatches, Route(c) \/ DropLease(c) PROVE Leased'
  BY <1>1, <1>3, RouteKeeps, DropLeaseKeeps
<1>4. ASSUME NEW how \in Policies, SetPolicy(how) PROVE Leased'
  BY <1>1, <1>4, OthersKeep DEF SetPolicy
<1>5. ASSUME NEW p \in Providers, BeginRollingUpdate(p) PROVE Leased'
  BY <1>1, <1>5, RegisterKeeps DEF BeginRollingUpdate
<1>6. ASSUME NEW p \in Providers, Unregister(p) PROVE Leased'
  <2>1. Leave({p}) /\ in_flight[p] = 0 /\ UNCHANGED lease
    BY <1>6 DEF Unregister
  <2>2. QED
    BY <1>1, <2>1, LeaveKeeps
<1>7. ASSUME NEW p \in Providers, NEW how \in Policies, NEW w \in 0 .. Full,
             Register(p, how, w)
      PROVE  Leased'
  BY <1>1, <1>7, RegisterKeeps
<1>8. ASSUME NEW p \in Providers, NEW step \in 0 .. Full, ShiftTraffic(p, step)
      PROVE  Leased'
  BY <1>1, <1>8, OthersKeep DEF ShiftTraffic
<1>9. CASE UNCHANGED vars
  BY <1>1, <1>9, OthersKeep DEF vars
<1>10. QED
  BY <1>1, <1>2, <1>3, <1>4, <1>5, <1>6, <1>7, <1>8, <1>9 DEF Next

\* In every reachable state, with any number of providers, weights and calls, a
\* provider's in_flight is the number of its leases, and no leased provider is
\* gone: a route lease never outlives its provider, and no count goes below 0.
THEOREM LeasesAreCounted == Spec => []CountsAreLeases
<1>1. Init => Leased
  BY InitLeased
<1>2. Leased /\ [Next]_vars => Leased'
  BY NextKeeps
<1>3. Leased => CountsAreLeases
  BY DEF Leased
<1>4. QED
  BY <1>1, <1>2, <1>3, PTL DEF Spec

----
(* Sums over finite sets: a counterexample would have a smallest part. *)

First(S) == CHOOSE x \in S : TRUE

Iterates(f, g, S) ==
    g = [s \in SUBSET S |-> IF s = {} THEN 0 ELSE f[First(s)] + g[s \ {First(s)}]]

LEMMA SumIs == ASSUME NEW f, NEW S PROVE SumFunctionOnSet(f, S) = (CHOOSE g : Iterates(f, g, S))[S]
BY DEF SumFunctionOnSet, FoldFunctionOnSet, MapThenFoldSet, Iterates, First

\* A set of subsets has one that has none of it below.
LEMMA Smallest ==
    ASSUME NEW S, IsFiniteSet(S), NEW T \in SUBSET (SUBSET S), T # {}
    PROVE  \E x \in T : \A y \in T : ~(y \subseteq x /\ y # x)
<1>1. FiniteSubsetsOf(S) = SUBSET S
  BY FS_FiniteSubsetsOfFinite
<1>2. IsWellFoundedOn(StrictSubsetOrdering(S), SUBSET S)
  BY <1>1, FS_StrictSubsetOrderingWellFounded
<1>3. PICK x \in T : \A y \in T : ~ (<<y, x>> \in StrictSubsetOrdering(S))
  BY <1>2, WFMin
<1>4. ASSUME NEW y \in T, y \subseteq x, y # x PROVE FALSE
  <2>1. <<y, x>> \in (SUBSET S) \X (SUBSET S)
    OBVIOUS
  <2>2. <<y, x>> \in StrictSubsetOrdering(S)
    BY <1>4, <2>1 DEF StrictSubsetOrdering
  <2> QED BY <1>3, <2>2
<1>5. \A y \in T : ~(y \subseteq x /\ y # x)
  BY <1>4
<1> QED BY <1>5

LEMMA FirstIsIn == ASSUME NEW s, s # {} PROVE First(s) \in s
BY DEF First

LEMMA OneIteration ==
    ASSUME NEW f, NEW S, IsFiniteSet(S), NEW T, NEW g, NEW h,
           Iterates(f, g, S), Iterates(f, h, T), NEW U, U \subseteq S, U \subseteq T
    PROVE  g[U] = h[U]
<1> DEFINE bad == {V \in SUBSET S : V \subseteq T /\ g[V] # h[V]}
<1>1. SUFFICES ASSUME bad # {} PROVE FALSE
  OBVIOUS
<1>2. bad \in SUBSET (SUBSET S)
  OBVIOUS
<1> HIDE DEF bad
<1>3. PICK V \in bad : \A W \in bad : ~(W \subseteq V /\ W # V)
  BY <1>1, <1>2, Smallest
<1> USE DEF bad
<1>4. V # {}
  BY DEF Iterates
<1> DEFINE x == First(V)
           W == V \ {x}
<1>5. x \in V /\ W \subseteq V /\ W # V
  BY <1>4, FirstIsIn
<1>6. g[W] = h[W]
  BY <1>3, <1>5
<1>7. g[V] = f[x] + g[W] /\ h[V] = f[x] + h[W]
  BY <1>4 DEF Iterates
<1> QED BY <1>6, <1>7

LEMMA IterationExists ==
    ASSUME NEW f, NEW S, IsFiniteSet(S)
    PROVE  \E g : Iterates(f, g, S)
<1> DEFINE bad == {V \in SUBSET S : ~ \E g : Iterates(f, g, V)}
<1>1. SUFFICES ASSUME bad # {} PROVE FALSE
  OBVIOUS
<1>2. bad \in SUBSET (SUBSET S)
  OBVIOUS
<1> HIDE DEF bad
<1>3. PICK V \in bad : \A W \in bad : ~(W \subseteq V /\ W # V)
  BY <1>1, <1>2, Smallest
<1> USE DEF bad
<1> DEFINE G(W) == CHOOSE g : Iterates(f, g, W)
<1>4. ASSUME NEW W \in SUBSET V, W # V PROVE Iterates(f, G(W), W)
  BY <1>3, <1>4
<1> DEFINE g == [s \in SUBSET V |-> IF s = {} THEN 0
                     ELSE f[First(s)] + G(s \ {First(s)})[s \ {First(s)}]]
<1>5. ASSUME NEW s \in SUBSET V, s # {} PROVE G(s \ {First(s)})[s \ {First(s)}] = g[s \ {First(s)}]
  <2> DEFINE W == s \ {First(s)}
  <2>1. W \in SUBSET V /\ W # V /\ W # s
    BY <1>5, FirstIsIn
  <2>2. CASE W = {}
    <3>1. g[W] = 0
      BY <2>2
    <3>2. Iterates(f, G(W), W)
      BY <2>1, <1>4
    <3>3. G(W)[W] = 0
      BY <2>2, <3>2 DEF Iterates
    <3> QED BY <3>1, <3>3
  <2>3. CASE W # {}
    <3> DEFINE X == W \ {First(W)}
    <3>1. X \in SUBSET W /\ X # V
      BY <2>1, <2>3, FirstIsIn
    <3>2. Iterates(f, G(W), W) /\ Iterates(f, G(X), X)
      BY <1>4, <2>1, <3>1
    <3>3. IsFiniteSet(W)
      BY <1>3, <2>1, FS_Subset
    <3> HIDE DEF G
    <3>4. G(W)[X] = G(X)[X]
      <4>1. \A a, b : Iterates(f, a, W) /\ Iterates(f, b, X) => a[X] = b[X]
        BY <3>1, <3>3, OneIteration
      <4> HIDE DEF X, W
      <4> QED BY <3>2, <4>1
    <3>5. G(W)[W] = f[First(W)] + G(W)[X]
      BY <3>2, <2>3 DEF Iterates
    <3>6. g[W] = f[First(W)] + G(X)[X]
      BY <2>1, <2>3
    <3> QED BY <3>4, <3>5, <3>6
  <2> QED BY <2>2, <2>3
<1>6. g = [s \in SUBSET V |-> IF s = {} THEN 0 ELSE f[First(s)] + g[s \ {First(s)}]]
  <2> DEFINE r == [s \in SUBSET V |-> IF s = {} THEN 0 ELSE f[First(s)] + g[s \ {First(s)}]]
  <2>1. ASSUME NEW s \in SUBSET V PROVE g[s] = r[s]
    <3>1. CASE s = {}
      BY <3>1
    <3>2. CASE s # {}
      <4>1. g[s] = f[First(s)] + G(s \ {First(s)})[s \ {First(s)}]
        BY <3>2
      <4>2. r[s] = f[First(s)] + g[s \ {First(s)}]
        BY <3>2
      <4>3. G(s \ {First(s)})[s \ {First(s)}] = g[s \ {First(s)}]
        BY <3>2, <1>5
      <4> HIDE DEF g, r, G
      <4> QED BY <4>1, <4>2, <4>3
    <3> QED BY <3>1, <3>2
  <2> HIDE DEF G
  <2> QED BY <2>1
<1>7. Iterates(f, g, V)
  BY <1>6 DEF Iterates
<1> QED BY <1>3, <1>7

LEMMA SumUnfolds ==
    ASSUME NEW f, NEW S, IsFiniteSet(S)
    PROVE  /\ SumFunctionOnSet(f, {}) = 0
           /\ S # {} => SumFunctionOnSet(f, S) = f[First(S)] + SumFunctionOnSet(f, S \ {First(S)})
<1> DEFINE G(T) == CHOOSE g : Iterates(f, g, T)
<1>1. ASSUME NEW T, IsFiniteSet(T) PROVE Iterates(f, G(T), T)
  BY <1>1, IterationExists
<1>2. \A T : SumFunctionOnSet(f, T) = G(T)[T]
  BY SumIs
<1>3. IsFiniteSet({})
  BY FS_EmptySet
<1> HIDE DEF G
<1>4. SumFunctionOnSet(f, {}) = 0
  BY <1>1, <1>2, <1>3 DEF Iterates
<1>5. ASSUME S # {}
      PROVE  SumFunctionOnSet(f, S) = f[First(S)] + SumFunctionOnSet(f, S \ {First(S)})
  <2> DEFINE T == S \ {First(S)}
  <2>1. IsFiniteSet(T) /\ T \subseteq S
    BY FS_Subset
  <2>2. Iterates(f, G(S), S) /\ Iterates(f, G(T), T)
    BY <1>1, <2>1
  <2>3. G(S)[S] = f[First(S)] + G(S)[T]
    BY <1>5, <2>2 DEF Iterates
  <2>4. \A a, b : Iterates(f, a, S) /\ Iterates(f, b, T) => a[T] = b[T]
    BY <2>1, OneIteration
  <2>5. G(S)[T] = G(T)[T]
    BY <2>2, <2>4
  <2> HIDE DEF T
  <2>6. SumFunctionOnSet(f, S) = f[First(S)] + SumFunctionOnSet(f, T)
    BY <1>2, <2>3, <2>5
  <2> QED BY <2>6 DEF T
<1> QED BY <1>4, <1>5

LEMMA SumIsInt ==
    ASSUME NEW f, NEW S, IsFiniteSet(S), \A x \in S : f[x] \in Int
    PROVE  SumFunctionOnSet(f, S) \in Int
<1> DEFINE bad == {V \in SUBSET S : SumFunctionOnSet(f, V) \notin Int}
<1>1. SUFFICES ASSUME bad # {} PROVE FALSE
  OBVIOUS
<1>2. bad \in SUBSET (SUBSET S)
  OBVIOUS
<1> HIDE DEF bad
<1>3. PICK V \in bad : \A W \in bad : ~(W \subseteq V /\ W # V)
  BY <1>1, <1>2, Smallest
<1> USE DEF bad
<1>4. IsFiniteSet(V) /\ V \in SUBSET S
  BY FS_Subset
<1>5. V # {}
  <2>1. SumFunctionOnSet(f, {}) = 0
    BY FS_EmptySet, SumUnfolds
  <2>2. SumFunctionOnSet(f, {}) \in Int
    BY <2>1
  <2> QED BY <2>2
<1> DEFINE W == V \ {First(V)}
<1>6. First(V) \in V /\ W \subseteq V /\ W # V
  BY <1>5, FirstIsIn
<1>7. SumFunctionOnSet(f, W) \in Int
  BY <1>3, <1>6
<1>8. SumFunctionOnSet(f, V) = f[First(V)] + SumFunctionOnSet(f, W)
  BY <1>4, <1>5, SumUnfolds
<1> HIDE DEF W
<1>9. SumFunctionOnSet(f, V) \in Int
  BY <1>4, <1>6, <1>7, <1>8
<1> QED BY <1>3, <1>9

\* The order of the terms does not matter.
LEMMA SumSplits ==
    ASSUME NEW f, NEW S, IsFiniteSet(S), \A x \in S : f[x] \in Int, NEW p \in S
    PROVE  SumFunctionOnSet(f, S) = f[p] + SumFunctionOnSet(f, S \ {p})
<1> DEFINE Sum(V) == SumFunctionOnSet(f, V)
           bad == {V \in SUBSET S : \E q \in V : Sum(V) # f[q] + Sum(V \ {q})}
<1>1. SUFFICES ASSUME bad # {} PROVE FALSE
  BY DEF Sum
<1>2. bad \in SUBSET (SUBSET S)
  OBVIOUS
<1> HIDE DEF bad
<1>3. PICK V \in bad : \A W \in bad : ~(W \subseteq V /\ W # V)
  BY <1>1, <1>2, Smallest
<1> USE DEF bad
<1>4. \A W \in SUBSET S : IsFiniteSet(W) /\ Sum(W) \in Int
  <2>1. ASSUME NEW W \in SUBSET S PROVE IsFiniteSet(W) /\ \A x \in W : f[x] \in Int
    BY FS_Subset
  <2> QED BY <2>1, SumIsInt
<1>5. PICK q \in V : Sum(V) # f[q] + Sum(V \ {q})
  OBVIOUS
<1> DEFINE x == First(V)
<1>6. V \in SUBSET S /\ V # {} /\ x \in V
  BY FirstIsIn
<1>7. Sum(V) = f[x] + Sum(V \ {x})
  BY <1>4, <1>6, SumUnfolds
<1>8. x # q
  BY <1>5, <1>7
<1>9. /\ Sum(V \ {x}) = f[q] + Sum((V \ {x}) \ {q})
      /\ Sum(V \ {q}) = f[x] + Sum((V \ {q}) \ {x})
  <2>1. \A W \in SUBSET V : W # V => W \notin bad
    BY <1>3
  <2>2. V \ {x} \in SUBSET V /\ V \ {x} # V /\ V \ {q} \in SUBSET V /\ V \ {q} # V
    BY <1>6
  <2>3. q \in V \ {x} /\ x \in V \ {q}
    BY <1>6, <1>8
  <2>4. V \ {x} \in SUBSET S /\ V \ {q} \in SUBSET S
    BY <1>6
  <2> HIDE DEF Sum, x
  <2> QED BY <2>1, <2>2, <2>3, <2>4
<1>10. (V \ {x}) \ {q} = (V \ {q}) \ {x}
  OBVIOUS
<1> DEFINE R == (V \ {q}) \ {x}
<1>11. f[x] \in Int /\ f[q] \in Int /\ Sum(R) \in Int
  BY <1>4, <1>6
<1> HIDE DEF Sum, x, R
<1>12. Sum(V) = f[x] + (f[q] + Sum(R)) /\ Sum(V \ {q}) = f[x] + Sum(R)
  BY <1>7, <1>9, <1>10 DEF R
<1>13. Sum(V) = f[q] + Sum(V \ {q})
  BY <1>11, <1>12
<1> QED BY <1>5, <1>13

LEMMA SumScales ==
    ASSUME NEW f, NEW g, NEW S, IsFiniteSet(S), NEW d \in Nat, NEW r \in Nat,
           \A x \in S : f[x] \in Int /\ g[x] \in Int /\ d * f[x] <= r * g[x]
    PROVE  d * SumFunctionOnSet(f, S) <= r * SumFunctionOnSet(g, S)
<1> DEFINE F(V) == SumFunctionOnSet(f, V)
           G(V) == SumFunctionOnSet(g, V)
           bad == {V \in SUBSET S : ~(d * F(V) <= r * G(V))}
<1>1. SUFFICES ASSUME bad # {} PROVE FALSE
  OBVIOUS
<1>2. bad \in SUBSET (SUBSET S)
  OBVIOUS
<1> HIDE DEF bad
<1>3. PICK V \in bad : \A W \in bad : ~(W \subseteq V /\ W # V)
  BY <1>1, <1>2, Smallest
<1> USE DEF bad
<1>4. ASSUME NEW W \in SUBSET S
      PROVE  IsFiniteSet(W) /\ F(W) \in Int /\ G(W) \in Int
  <2>1. IsFiniteSet(W) /\ \A x \in W : f[x] \in Int /\ g[x] \in Int
    BY FS_Subset
  <2> QED BY <2>1, SumIsInt
<1>5. F({}) = 0 /\ G({}) = 0
  BY FS_EmptySet, SumUnfolds
<1>6. V # {}
  <2>1. d * 0 <= r * 0
    OBVIOUS
  <2> QED BY <1>5, <2>1
<1> DEFINE x == First(V)
           W == V \ {x}
<1>7. V \in SUBSET S /\ x \in V /\ W \in SUBSET S /\ W \subseteq V /\ W # V
  BY <1>6, FirstIsIn
<1>8. d * F(W) <= r * G(W)
  BY <1>3, <1>7
<1>9. F(V) = f[x] + F(W) /\ G(V) = g[x] + G(W)
  BY <1>4, <1>6, <1>7, SumUnfolds
<1>10. /\ f[x] \in Int /\ g[x] \in Int /\ d * f[x] <= r * g[x]
       /\ F(W) \in Int /\ G(W) \in Int
  BY <1>4, <1>7
<1>11. \A a, b \in Int : d * (a + b) = d * a + d * b /\ r * (a + b) = r * a + r * b
  OBVIOUS
<1> HIDE DEF F, G, x, W
<1>12. d * F(V) = d * f[x] + d * F(W) /\ r * G(V) = r * g[x] + r * G(W)
  BY <1>9, <1>10, <1>11
<1>13. /\ d * f[x] \in Int /\ d * F(W) \in Int /\ r * g[x] \in Int /\ r * G(W) \in Int
  BY <1>10
<1>14. d * F(V) <= r * G(V)
  BY <1>8, <1>10, <1>12, <1>13
<1> QED BY <1>3, <1>14

LEMMA SumAdds ==
    ASSUME NEW f, NEW g, NEW h, NEW S, IsFiniteSet(S),
           \A x \in S : f[x] \in Int /\ g[x] \in Int /\ h[x] = f[x] + g[x]
    PROVE  SumFunctionOnSet(h, S) = SumFunctionOnSet(f, S) + SumFunctionOnSet(g, S)
<1> DEFINE F(V) == SumFunctionOnSet(f, V)
           G(V) == SumFunctionOnSet(g, V)
           H(V) == SumFunctionOnSet(h, V)
           bad == {V \in SUBSET S : H(V) # F(V) + G(V)}
<1>1. SUFFICES ASSUME bad # {} PROVE FALSE
  OBVIOUS
<1>2. bad \in SUBSET (SUBSET S)
  OBVIOUS
<1> HIDE DEF bad
<1>3. PICK V \in bad : \A W \in bad : ~(W \subseteq V /\ W # V)
  BY <1>1, <1>2, Smallest
<1> USE DEF bad
<1>4. ASSUME NEW W \in SUBSET S
      PROVE  IsFiniteSet(W) /\ F(W) \in Int /\ G(W) \in Int
  <2>1. IsFiniteSet(W) /\ \A x \in W : f[x] \in Int /\ g[x] \in Int
    BY FS_Subset
  <2> QED BY <2>1, SumIsInt
<1>5. F({}) = 0 /\ G({}) = 0 /\ H({}) = 0
  BY FS_EmptySet, SumUnfolds
<1>6. V # {}
  <2>1. H({}) = F({}) + G({})
    BY <1>5
  <2> HIDE DEF F, G, H
  <2> QED BY <2>1
<1> DEFINE x == First(V)
           W == V \ {x}
<1>7. V \in SUBSET S /\ x \in V /\ W \in SUBSET S /\ W \subseteq V /\ W # V
  BY <1>6, FirstIsIn
<1>8. H(W) = F(W) + G(W)
  BY <1>3, <1>7
<1>9. F(V) = f[x] + F(W) /\ G(V) = g[x] + G(W) /\ H(V) = h[x] + H(W)
  BY <1>4, <1>6, <1>7, SumUnfolds
<1>10. /\ f[x] \in Int /\ g[x] \in Int /\ h[x] = f[x] + g[x]
       /\ F(W) \in Int /\ G(W) \in Int
  BY <1>4, <1>7
<1> HIDE DEF F, G, H, x, W
<1>11. H(V) = F(V) + G(V)
  BY <1>8, <1>9, <1>10
<1> QED BY <1>3, <1>11

\* Terms that are 0 may be left out.
LEMMA SumSkipsZeros ==
    ASSUME NEW f, NEW g, NEW S, IsFiniteSet(S), NEW T \in SUBSET S,
           \A x \in T : f[x] \in Int /\ g[x] = f[x],
           \A x \in S \ T : g[x] = 0
    PROVE  SumFunctionOnSet(g, S) = SumFunctionOnSet(f, T)
<1> DEFINE F(V) == SumFunctionOnSet(f, V \cap T)
           G(V) == SumFunctionOnSet(g, V)
           bad == {V \in SUBSET S : G(V) # F(V)}
<1>1. SUFFICES ASSUME bad # {} PROVE FALSE
  <2>1. S \cap T = T /\ S \in SUBSET S
    OBVIOUS
  <2>2. G(S) = F(S)
    BY <1>1, <2>1
  <2> QED BY <2>1, <2>2
<1>2. bad \in SUBSET (SUBSET S)
  OBVIOUS
<1> HIDE DEF bad
<1>3. PICK V \in bad : \A W \in bad : ~(W \subseteq V /\ W # V)
  BY <1>1, <1>2, Smallest
<1> USE DEF bad
<1>4. ASSUME NEW W \in SUBSET S
      PROVE  /\ IsFiniteSet(W) /\ IsFiniteSet(W \cap T)
             /\ \A x \in W : g[x] \in Int
             /\ \A x \in W \cap T : f[x] \in Int
             /\ G(W) \in Int /\ F(W) \in Int
  <2>1. IsFiniteSet(W) /\ \A x \in W : g[x] \in Int
    BY FS_Subset
  <2>2. IsFiniteSet(W \cap T) /\ \A x \in W \cap T : f[x] \in Int
    BY FS_Subset
  <2> QED BY <2>1, <2>2, SumIsInt
<1>5. V # {}
  <2>1. G({}) = 0 /\ F({}) = 0
    <3>1. {} \cap T = {}
      OBVIOUS
    <3> QED BY <3>1, FS_EmptySet, SumUnfolds
  <2>2. G({}) = F({})
    BY <2>1
  <2> HIDE DEF F, G
  <2> QED BY <2>2
<1> DEFINE x == First(V)
           W == V \ {x}
<1>6. V \in SUBSET S /\ x \in V /\ W \in SUBSET S /\ W \subseteq V /\ W # V
  BY <1>5, FirstIsIn
<1>7. G(W) = F(W)
  BY <1>3, <1>6
<1>8. G(V) = g[x] + G(W)
  BY <1>4, <1>5, <1>6, SumUnfolds
<1>9. CASE x \in T
  <2>1. x \in V \cap T /\ (V \cap T) \ {x} = W \cap T
    BY <1>6, <1>9
  <2>2. F(V) = f[x] + F(W)
    BY <1>4, <1>6, <2>1, SumSplits
  <2> QED BY <1>3, <1>7, <1>8, <1>9, <2>2
<1>10. CASE x \notin T
  <2>1. V \cap T = W \cap T /\ g[x] = 0
    BY <1>6, <1>10
  <2>2. F(V) = F(W) /\ G(V) = 0 + G(W) /\ G(W) \in Int
    BY <1>4, <1>6, <1>8, <2>1
  <2> HIDE DEF F, G, W
  <2>3. G(V) = F(V)
    BY <1>7, <2>2
  <2> QED BY <1>3, <2>3
<1> QED BY <1>9, <1>10

----
(* The arithmetic of the weights.                                           *)

\* The vector has an order: of two providers one was pushed first.
Ordered == \A p, q \in providers : p = q \/ <<p, q>> \in before \/ <<q, p>> \in before

LEMMA OneLast == ASSUME Ordered, NEW ps \in SUBSET providers, NEW p \in LastOf(ps), NEW q \in LastOf(ps)
                 PROVE  p = q
BY DEF Ordered, LastOf

LEMMA SubsetsFinite == \A ps \in SUBSET Providers : IsFiniteSet(ps)
BY FiniteAssumption, FS_Subset

LEMMA TotalType == ASSUME TypeOK, NEW ps \in SUBSET Providers PROVE Total(ps) \in Nat
<1>1. \A p \in ps : weight[p] \in Int
  BY FullAssumption DEF TypeOK
<1>2. Total(ps) \in Int
  BY <1>1, SubsetsFinite, SumIsInt DEF Total
<1> DEFINE z == [q \in Providers |-> 0]
<1>3. \A p \in ps : z[p] \in Int /\ weight[p] \in Int /\ 0 * z[p] <= 1 * weight[p]
  BY FullAssumption DEF TypeOK
<1>4. SumFunctionOnSet(z, ps) \in Int
  BY <1>3, SubsetsFinite, SumIsInt
<1>5. 0 * SumFunctionOnSet(z, ps) <= 1 * SumFunctionOnSet(weight, ps)
  BY <1>3, SubsetsFinite, SumScales
<1> HIDE DEF z
<1> QED BY <1>2, <1>4, <1>5 DEF Total

LEMMA Multiples ==
    /\ \A a, b, c \in Nat : a <= b => a * c <= b * c /\ c * a <= c * b
    /\ \A a, b \in Nat : a * b \in Nat /\ a * b = b * a /\ a * (b + 1) = a * b + a
OBVIOUS

LEMMA Quotients ==
    ASSUME NEW a \in Nat, NEW d \in Nat \ {0}
    PROVE  a \div d \in Nat /\ d * (a \div d) <= a
OBVIOUS

Shares(r, t) == [q \in Others(t) |-> Share(q, r, t)]

\* A share is no more than the weight it is taken from, and all shares together no more
\* than what is to be shifted.
LEMMA SharesBounded ==
    ASSUME TypeOK, NEW t \in providers, NEW r \in Nat, 0 < r, r <= Total(Others(t))
    PROVE  /\ \A p \in Others(t) : Shares(r, t)[p] \in 0 .. weight[p]
           /\ SumFunctionOnSet(Shares(r, t), Others(t)) <= r
<1> DEFINE O == Others(t)
           d == Total(O)
           s == Shares(r, t)
<1>1. O \in SUBSET Providers /\ IsFiniteSet(O) /\ d \in Nat \ {0}
  <2>1. O \in SUBSET Providers
    BY DEF TypeOK, Others
  <2>2. d \in Nat
    BY <2>1, TotalType
  <2> QED BY <2>1, <2>2, SubsetsFinite
<1>2. ASSUME NEW p \in O
      PROVE  /\ s[p] \in Nat /\ weight[p] \in Nat
             /\ d * s[p] <= r * weight[p] /\ s[p] <= weight[p]
  <2> DEFINE w == weight[p]
             q == s[p]
  <2>1. w \in Nat
    BY <1>1, FullAssumption DEF TypeOK
  <2>2. q = (r * w) \div d
    BY DEF Shares, Share
  <2> HIDE DEF w, q, d
  <2>3. r * w \in Nat /\ r * w <= d * w
    BY <1>1, <2>1, Multiples DEF d
  <2>4. q \in Nat /\ d * q <= r * w
    BY <1>1, <2>2, <2>3, Quotients
  <2>5. ASSUME w < q PROVE FALSE
    <3>1. d * (w + 1) <= d * q /\ d * (w + 1) = d * w + d /\ d * w \in Nat /\ d * q \in Nat
      BY <1>1, <2>1, <2>4, <2>5, Multiples
    <3> QED BY <1>1, <2>3, <2>4, <3>1
  <2> QED BY <2>1, <2>4, <2>5 DEF w, q
<1> HIDE DEF s
<1>3. d * SumFunctionOnSet(s, O) <= r * SumFunctionOnSet(weight, O)
  BY <1>1, <1>2, SumScales
<1>4. SumFunctionOnSet(s, O) \in Int
  BY <1>1, <1>2, SumIsInt
<1> DEFINE S == SumFunctionOnSet(s, O)
<1>5. d * S <= r * d
  BY <1>3 DEF Total
<1> HIDE DEF S, d, O
<1>6. S <= r
  <2>1. ASSUME r < S PROVE FALSE
    <3>1. S \in Nat
      BY <1>4, <2>1 DEF S
    <3>2. d * (r + 1) <= d * S /\ d * (r + 1) = d * r + d /\ d * r = r * d /\ r * d \in Nat
          /\ d * S \in Nat
      BY <1>1, <2>1, <3>1, Multiples
    <3> QED BY <1>1, <1>5, <3>2
  <2> QED BY <1>4, <2>1 DEF S
<1> QED BY <1>2, <1>6 DEF O, s, S

\* The last of the others pays what the shares leave, and never more than it has.
LEMMA LossesBounded ==
    ASSUME TypeOK, NEW t \in providers, NEW r \in Nat, 0 < r, r <= Total(Others(t)),
           NEW p \in Others(t)
    PROVE  /\ Loss(p, r, t) \in 0 .. weight[p]
           /\ p \notin LastOf(Others(t)) => Loss(p, r, t) = Shares(r, t)[p]
           /\ p \in LastOf(Others(t)) =>
                /\ SumFunctionOnSet(Shares(r, t), Others(t) \ {p}) \in 0 .. r
                /\ Loss(p, r, t) = Least(weight[p],
                       r - SumFunctionOnSet(Shares(r, t), Others(t) \ {p}))
<1> DEFINE O == Others(t)
           s == Shares(r, t)
           R == SumFunctionOnSet(s, O \ {p})
<1>1. /\ \A q \in O : s[q] \in 0 .. weight[q] /\ weight[q] \in Nat
      /\ SumFunctionOnSet(s, O) <= r
  BY SharesBounded, FullAssumption DEF TypeOK, Others
<1>2. IsFiniteSet(O) /\ IsFiniteSet(O \ {p}) /\ O \ {p} \in SUBSET Providers
  BY SubsetsFinite DEF TypeOK, Others
<1>3. p \notin LastOf(O) => Loss(p, r, t) = s[p]
  BY DEF Loss, Shares
<1>4. p \in LastOf(O) => Loss(p, r, t) = Least(weight[p], r - R)
  BY DEF Loss, Shares
<1> HIDE DEF s, O
<1>5. SumFunctionOnSet(s, O) = s[p] + R
  BY <1>1, <1>2, SumSplits DEF O
<1>6. R \in Int /\ 0 <= R
  <2> DEFINE z == [q \in O |-> 0]
  <2>1. \A q \in O \ {p} : z[q] \in Int /\ s[q] \in Int /\ 0 * z[q] <= 1 * s[q]
    BY <1>1
  <2>2. R \in Int /\ SumFunctionOnSet(z, O \ {p}) \in Int
    BY <1>2, <2>1, SumIsInt
  <2>3. 0 * SumFunctionOnSet(z, O \ {p}) <= 1 * R
    BY <1>2, <2>1, SumScales
  <2> HIDE DEF z, R
  <2> QED BY <2>2, <2>3
<1> HIDE DEF R
<1>7. R \in 0 .. r
  BY <1>1, <1>5, <1>6 DEF O
<1>8. Loss(p, r, t) \in 0 .. weight[p]
  BY <1>1, <1>3, <1>4, <1>7 DEF Least, O
<1> QED BY <1>3, <1>4, <1>7, <1>8 DEF O, s, R

\* What a shift takes from the others.
LEMMA LossesAddUp ==
    ASSUME TypeOK, Ordered, NEW t \in providers, NEW r \in Nat, 0 < r, r <= Total(Others(t))
    PROVE  LET lost == SumFunctionOnSet([p \in Others(t) |-> Loss(p, r, t)], Others(t))
           IN  /\ lost <= r
               /\ (\E p \in LastOf(Others(t)) : weight[p] > 0) => lost > 0
<1> DEFINE O == Others(t)
           s == Shares(r, t)
           l == [p \in O |-> Loss(p, r, t)]
           lost == SumFunctionOnSet(l, O)
<1>1. O \in SUBSET providers /\ IsFiniteSet(O)
  BY SubsetsFinite DEF TypeOK, Others
<1>2. \A p \in O : s[p] \in 0 .. weight[p] /\ l[p] \in 0 .. weight[p] /\ weight[p] \in Nat
  <2>1. \A p \in O : s[p] \in 0 .. weight[p]
    BY SharesBounded
  <2>2. \A p \in O : l[p] \in 0 .. weight[p]
    BY LossesBounded
  <2>3. \A p \in O : weight[p] \in Nat
    BY FullAssumption DEF TypeOK, Others
  <2> HIDE DEF s, l, O
  <2> QED BY <2>1, <2>2, <2>3
<1>3. SumFunctionOnSet(s, O) <= r
  BY SharesBounded
<1>4. CASE LastOf(O) = {}
  <2>1. \A p \in O : l[p] = s[p]
    BY <1>4, LossesBounded
  <2>2. /\ \A p \in O : l[p] \in Int /\ s[p] \in Int /\ 1 * l[p] <= 1 * s[p]
    <3> HIDE DEF s, l
    <3> QED BY <1>2, <2>1
  <2> HIDE DEF l, s, O
  <2>3. 1 * lost <= 1 * SumFunctionOnSet(s, O) /\ lost \in Int /\ SumFunctionOnSet(s, O) \in Int
    BY <1>1, <2>2, SumScales, SumIsInt
  <2> HIDE DEF lost
  <2>4. lost <= r
    BY <1>3, <2>3
  <2> QED BY <1>4, <2>4 DEF lost, l, O
<1>5. ASSUME NEW p \in LastOf(O)
      PROVE  lost <= r /\ (weight[p] > 0 => lost > 0)
  <2>1. p \in O
    BY DEF LastOf
  <2> DEFINE R == SumFunctionOnSet(s, O \ {p})
             L == SumFunctionOnSet(l, O \ {p})
  <2>2. R \in 0 .. r /\ l[p] = Least(weight[p], r - R)
    BY <2>1, LossesBounded
  <2>3. \A q \in O \ {p} : l[q] = s[q]
    BY <1>1, OneLast, LossesBounded
  <2>4. IsFiniteSet(O \ {p}) /\ O \ {p} \in SUBSET O
    BY <1>1, FS_Subset
  <2> HIDE DEF l, s, O
  <2>5. \A q \in O \ {p} : /\ l[q] \in Int /\ s[q] \in Int
                           /\ 1 * l[q] <= 1 * s[q] /\ 1 * s[q] <= 1 * l[q]
    BY <1>2, <2>3
  <2>6. /\ L \in Int /\ R \in Int /\ 1 * L <= 1 * R /\ 1 * R <= 1 * L
    BY <2>4, <2>5, SumScales, SumIsInt
  <2>7. lost = l[p] + L
    BY <1>1, <1>2, <2>1, SumSplits
  <2> HIDE DEF lost, L, R
  <2> QED BY <1>2, <2>1, <2>2, <2>6, <2>7 DEF Least
<1> QED BY <1>4, <1>5

----
(* The weights in every reachable state.                                    *)

\* What keeps the weights sound: the leases count the routes in flight, and the providers
\* have an order, so that a shift has one last share.
Weighed == Leased /\ TypeOK /\ CreditsCancel /\ Ordered

LEMMA InitWeighed == Init => Weighed
<1> SUFFICES ASSUME Init PROVE Weighed
  OBVIOUS
<1>1. TypeOK
  BY FullAssumption DEF Init, TypeOK
<1>2. CreditsCancel
  <2>1. \A p \in {} : current[p] \in Int /\ current[p] = current[p]
    OBVIOUS
  <2>2. \A p \in Providers \ {} : current[p] = 0
    BY DEF Init
  <2>3. SumFunctionOnSet(current, Providers) = SumFunctionOnSet(current, {})
    BY <2>1, <2>2, FiniteAssumption, SumSkipsZeros
  <2> QED BY <2>3, FS_EmptySet, SumUnfolds DEF CreditsCancel
<1>3. Ordered
  BY DEF Init, Ordered
<1> QED BY <1>1, <1>2, <1>3, InitLeased DEF Weighed

\* What the routable providers earn, the one that is chosen pays.
LEMMA SettleCancels ==
    ASSUME TypeOK, CreditsCancel, NEW p \in Routable, Settle(p)
    PROVE  current' \in [Providers -> Int] /\ CreditsCancel'
<1> DEFINE T == Total(Routable)
           w == [q \in Providers |-> IF q \in Routable THEN weight[q] ELSE 0]
           c == [q \in Providers |-> current[q] + w[q]]
           n == [q \in Providers |-> IF q = p THEN 0 - T ELSE 0]
<1>1. Routable \in SUBSET Providers /\ p \in Providers
  BY DEF Routable, TypeOK
<1>2. T \in Int
  BY <1>1, TotalType
<1>3. \A q \in Providers : current[q] \in Int /\ weight[q] \in Int
  BY FullAssumption DEF TypeOK
<1> HIDE DEF T
<1>4. \A q \in Providers : w[q] \in Int /\ c[q] \in Int /\ n[q] \in Int
  BY <1>2, <1>3
<1>5. \A q \in Providers : current'[q] = c[q] + n[q]
  BY <1>2, <1>3 DEF Settle, Earned, T
<1>6. current' \in [Providers -> Int]
  <2>1. current' = [q \in Providers |-> current'[q]]
    BY DEF Settle
  <2>2. \A q \in Providers : current'[q] \in Int
    <3> HIDE DEF c, n
    <3> QED BY <1>4, <1>5
  <2> QED BY <2>1, <2>2
<1>7. SumFunctionOnSet(w, Providers) = T
  <2>1. \A q \in Routable : weight[q] \in Int /\ w[q] = weight[q]
    BY <1>1, <1>3
  <2>2. \A q \in Providers \ Routable : w[q] = 0
    OBVIOUS
  <2> HIDE DEF w
  <2> QED BY <1>1, <2>1, <2>2, FiniteAssumption, SumSkipsZeros DEF T, Total
<1>8. SumFunctionOnSet(n, Providers) = 0 - T
  <2>1. \A q \in {p} : n[q] \in Int /\ n[q] = n[q]
    BY <1>1, <1>4
  <2>2. \A q \in Providers \ {p} : n[q] = 0
    OBVIOUS
  <2>3. n[p] = 0 - T
    BY <1>1
  <2> HIDE DEF n
  <2>4. SumFunctionOnSet(n, Providers) = SumFunctionOnSet(n, {p})
    BY <1>1, <2>1, <2>2, FiniteAssumption, SumSkipsZeros
  <2>5. SumFunctionOnSet(n, {p}) = n[p] + SumFunctionOnSet(n, {p} \ {p})
    <3>1. IsFiniteSet({p}) /\ p \in {p}
      BY FS_Singleton
    <3>2. \A q \in {p} : n[q] \in Int
      BY <2>1
    <3> QED BY <3>1, <3>2, SumSplits
  <2>6. {p} \ {p} = {} /\ SumFunctionOnSet(n, {}) = 0
    BY FS_EmptySet, SumUnfolds
  <2>7. SumFunctionOnSet(n, {p}) = n[p]
    BY <2>1, <2>5, <2>6
  <2> QED BY <2>3, <2>4, <2>7
<1>9. SumFunctionOnSet(c, Providers)
        = SumFunctionOnSet(current, Providers) + SumFunctionOnSet(w, Providers)
  <2>1. \A q \in Providers : c[q] = current[q] + w[q]
    OBVIOUS
  <2> HIDE DEF c, w
  <2> QED BY <1>3, <1>4, <2>1, FiniteAssumption, SumAdds
<1> HIDE DEF c, n, w
<1>10. SumFunctionOnSet(current', Providers)
         = SumFunctionOnSet(c, Providers) + SumFunctionOnSet(n, Providers)
  BY <1>4, <1>5, FiniteAssumption, SumAdds
<1>11. SumFunctionOnSet(current', Providers) = 0
  BY <1>2, <1>7, <1>8, <1>9, <1>10 DEF CreditsCancel
<1> QED BY <1>6, <1>11 DEF CreditsCancel

LEMMA ShiftKeepsTypes ==
    ASSUME TypeOK, NEW t \in Providers, NEW step \in 0 .. Full, ShiftTraffic(t, step)
    PROVE  TypeOK'
<1> DEFINE r == Least(Least(step, Full), Total(Others(t)))
<1>1. /\ t \in providers
      /\ weight' = [p \in Providers |->
              CASE p = t -> Least(weight[p] + r, Full)
                [] p \in Others(t) /\ r > 0 -> weight[p] - Loss(p, r, t)
                [] OTHER -> weight[p]]
      /\ draining' = (draining \ {t}) \cup
              (IF r > 0 THEN {p \in Others(t) : weight'[p] = 0} ELSE {})
      /\ UNCHANGED <<policy, providers, before, in_flight, current, lease>>
  BY DEF ShiftTraffic
<1>2. r \in Nat /\ r <= Total(Others(t))
  <2>1. Total(Others(t)) \in Nat
    BY TotalType DEF TypeOK, Others
  <2> QED BY <2>1, FullAssumption DEF Least
<1>3. ASSUME NEW p \in Others(t), r > 0
      PROVE  Loss(p, r, t) \in 0 .. weight[p]
  BY <1>1, <1>2, <1>3, LossesBounded
<1> HIDE DEF r
<1>4. \A p \in Providers : weight[p] \in 0 .. Full
  BY DEF TypeOK
<1>5. ASSUME NEW p \in Providers
      PROVE  /\ weight'[p] \in 0 .. Full
             /\ p # t /\ weight[p] = 0 => weight'[p] = 0
             /\ p \notin providers => weight'[p] = weight[p]
  <2>1. CASE p = t
    <3>1. weight'[p] = Least(weight[p] + r, Full)
      BY <1>1, <2>1 DEF Others
    <3> QED BY <1>1, <1>2, <1>4, <2>1, <3>1, FullAssumption DEF Least
  <2>2. CASE p # t /\ p \in Others(t) /\ r > 0
    <3>1. weight'[p] = weight[p] - Loss(p, r, t)
      BY <1>1, <2>2
    <3>2. p \in providers
      BY <2>2 DEF Others
    <3> QED BY <1>3, <1>4, <2>2, <3>1, <3>2, FullAssumption
  <2>3. CASE p # t /\ ~(p \in Others(t) /\ r > 0)
    <3>1. weight'[p] = weight[p]
      BY <1>1, <2>3
    <3> QED BY <1>4, <3>1
  <2> QED BY <2>1, <2>2, <2>3
<1>6. weight' \in [Providers -> 0 .. Full]
  BY <1>1, <1>5
<1>7. draining' \subseteq {p \in providers' : weight'[p] = 0}
  BY <1>1, <1>5 DEF TypeOK, Others
<1>8. \A p \in Providers \ providers : weight'[p] = 0
  BY <1>5 DEF TypeOK
<1> QED BY <1>1, <1>6, <1>7, <1>8 DEF TypeOK

LEMMA LeaveKeepsTypes ==
    ASSUME TypeOK, Ordered, NEW ps, Leave(ps)
    PROVE  /\ providers' \subseteq Providers /\ before' \subseteq providers' \X providers'
           /\ weight' \in [Providers -> 0 .. Full]
           /\ draining' \subseteq {p \in providers' : weight'[p] = 0}
           /\ in_flight' \in [Providers -> Nat]
           /\ \A p \in Providers \ providers' : weight'[p] = 0 /\ in_flight'[p] = 0
           /\ Ordered'
<1> USE DEF TypeOK, Leave
<1>1. providers' \subseteq Providers /\ before' \subseteq providers' \X providers'
  OBVIOUS
<1>2. weight' \in [Providers -> 0 .. Full] /\ in_flight' \in [Providers -> Nat]
  BY FullAssumption
<1>3. draining' \subseteq {p \in providers' : weight'[p] = 0}
  OBVIOUS
<1>4. \A p \in Providers \ providers' : weight'[p] = 0 /\ in_flight'[p] = 0
  OBVIOUS
<1>5. Ordered'
  BY DEF Ordered
<1> QED BY <1>1, <1>2, <1>3, <1>4, <1>5

LEMMA RegisterKeepsTypes ==
    ASSUME TypeOK, Ordered, NEW p \in Providers, NEW how \in Policies, NEW w \in 0 .. Full,
           Register(p, how, w)
    PROVE  TypeOK' /\ Ordered'
<1> USE DEF TypeOK, Register
<1>1. Least(w, Full) \in 0 .. Full
  BY FullAssumption DEF Least
<1>2. weight' \in [Providers -> 0 .. Full]
  BY <1>1
<1>3. before' \subseteq providers' \X providers' /\ providers' \subseteq Providers
  OBVIOUS
<1>4. policy' \in Policies /\ policy' # "absent"
  BY DEF Policies
<1>5. draining' \subseteq {q \in providers' : weight'[q] = 0}
  OBVIOUS
<1>6. \A q \in Providers \ providers' : weight'[q] = 0 /\ in_flight'[q] = 0
  OBVIOUS
<1>7. Ordered'
  BY DEF Ordered
<1> QED BY <1>2, <1>3, <1>4, <1>5, <1>6, <1>7

LEMMA WeighedStep == Weighed /\ [Next]_vars => Weighed'
<1> SUFFICES ASSUME Weighed, [Next]_vars PROVE Weighed'
  OBVIOUS
<1> USE DEF Weighed
<1>1. Leased'
  BY NextKeeps
<1>2. in_flight' \in [Providers -> Nat] /\ lease' \in [Dispatches -> Providers \cup {NoLease}]
  BY <1>1 DEF Leased
<1>3. ASSUME UNCHANGED current PROVE CreditsCancel'
  BY <1>3 DEF CreditsCancel
<1>4. CASE UNCHANGED vars
  BY <1>1, <1>4 DEF vars, TypeOK, CreditsCancel, Ordered
<1>5. ASSUME NEW c \in Dispatches, Route(c) PROVE Weighed'
  <2>1. PICK p \in Routable :
            /\ Settle(p) \/ UNCHANGED current
            /\ in_flight' = [in_flight EXCEPT ![p] = @ + 1]
    BY <1>5 DEF Route
  <2>2. UNCHANGED <<policy, providers, before, weight, draining>>
    BY <1>5 DEF Route
  <2>3. current' \in [Providers -> Int] /\ CreditsCancel'
    BY <1>3, <2>1, SettleCancels DEF TypeOK
  <2>4. \A q \in Providers \ providers : in_flight'[q] = 0
    BY <2>1 DEF TypeOK, Routable
  <2> QED BY <1>1, <1>2, <2>2, <2>3, <2>4 DEF TypeOK, Ordered
<1>6. ASSUME NEW c \in Dispatches, DropLease(c) PROVE Weighed'
  <2>1. UNCHANGED <<policy, providers, before, weight, draining, current>>
    BY <1>6 DEF DropLease
  <2>2. \A q \in Providers \ providers : in_flight'[q] = 0
    BY <1>6 DEF DropLease, TypeOK
  <2> QED BY <1>1, <1>2, <1>3, <2>1, <2>2 DEF TypeOK, Ordered
<1>7. ASSUME NEW how \in Policies, SetPolicy(how) PROVE Weighed'
  BY <1>1, <1>3, <1>7 DEF SetPolicy, Policies, TypeOK, Ordered
<1>8. ASSUME NEW p \in Providers, NEW how \in Policies, NEW w \in 0 .. Full, Register(p, how, w)
      PROVE  Weighed'
  BY <1>1, <1>3, <1>8, RegisterKeepsTypes DEF Register
<1>9. ASSUME NEW p \in Providers, BeginRollingUpdate(p) PROVE Weighed'
  BY <1>8, <1>9, FullAssumption DEF BeginRollingUpdate, Policies
<1>10. ASSUME NEW p \in Providers, Unregister(p) PROVE Weighed'
  <2>1. Leave({p}) /\ UNCHANGED lease
    BY <1>10 DEF Unregister
  <2>2. CASE providers = {p}
    <3>1. policy' = "absent" /\ current' = [q \in Providers |-> 0] /\ providers' = {}
      BY <1>10, <2>1, <2>2 DEF Unregister, Leave
    <3>2. CreditsCancel'
      <4>1. \A q \in Providers \ {} : current'[q] = 0
        BY <3>1
      <4>2. SumFunctionOnSet(current', Providers) = SumFunctionOnSet(current', {})
        BY <4>1, FiniteAssumption, SumSkipsZeros
      <4> QED BY <4>2, FS_EmptySet, SumUnfolds DEF CreditsCancel
    <3> QED BY <1>1, <2>1, <3>1, <3>2, LeaveKeepsTypes DEF TypeOK
  <2>3. CASE providers # {p}
    <3>1. UNCHANGED <<policy, current>> /\ providers # {}
      BY <1>10, <2>3 DEF Unregister
    <3> QED BY <1>1, <1>3, <2>1, <3>1, LeaveKeepsTypes DEF TypeOK
  <2> QED BY <2>2, <2>3
<1>11. CASE Reap
  <2>1. /\ Leave({p \in draining : weight[p] = 0 /\ in_flight[p] = 0})
        /\ policy # "absent" /\ UNCHANGED <<policy, current, lease>>
    BY <1>11 DEF Reap
  <2> QED BY <1>1, <1>3, <2>1, LeaveKeepsTypes DEF TypeOK
<1>12. ASSUME NEW p \in Providers, NEW step \in 0 .. Full, ShiftTraffic(p, step) PROVE Weighed'
  BY <1>1, <1>3, <1>12, ShiftKeepsTypes DEF ShiftTraffic, Ordered
<1> QED BY <1>4, <1>5, <1>6, <1>7, <1>8, <1>9, <1>10, <1>11, <1>12 DEF Next

LEMMA WeighedHolds == Spec => []Weighed
BY InitWeighed, WeighedStep, PTL DEF Spec

\* The registry of a service has its types, for any providers: only a provider without weight
\* drains, one that is gone has neither weight nor calls, and a lease is with a provider
\* (register_provider, unregister_provider, select, release).
THEOREM BrokerTypeCorrect == Spec => []TypeOK
<1>1. Weighed => TypeOK
  BY DEF Weighed
<1> QED BY <1>1, WeighedHolds, PTL

\* The arithmetic of select and shift_traffic is sound for any number of providers and any
\* full weight: weights stay between 0 and full, a drained provider has none, the credits
\* of the round robin cancel out, and a step of a rolling update moves some traffic, and
\* never more than it was asked to.
THEOREM WeightsAreSound == Spec => []WeightsSound
<1>1. Weighed => StepsAdvance
  <2> SUFFICES ASSUME Weighed, NEW t \in providers, NEW r \in 1 .. Least(Full, Total(Others(t)))
               PROVE  LET lost == SumFunctionOnSet([p \in Others(t) |-> Loss(p, r, t)], Others(t))
                      IN  /\ lost <= r
                          /\ (\E p \in LastOf(Others(t)) : weight[p] > 0) => lost > 0
    BY DEF StepsAdvance
  <2>1. Total(Others(t)) \in Nat
    BY TotalType DEF Weighed, TypeOK, Others
  <2>2. r \in Nat /\ 0 < r /\ r <= Total(Others(t))
    BY <2>1, FullAssumption DEF Least
  <2> QED BY <2>2, LossesAddUp DEF Weighed
<1>2. Weighed => WeightsSound
  BY <1>1 DEF Weighed, WeightsSound
<1> QED BY <1>2, WeighedHolds, PTL

\* A service that can be routed stays so, through every shift, drain and reaping of a
\* rolling update: only unregister_provider makes it unroutable.
THEOREM ServiceStaysRoutable == Spec => StaysRoutable
<1> DEFINE Kept == Routable # {} /\ Routable' = {} =>
                       \E p \in providers : p \notin providers' /\ weight[p] > 0
<1>1. ASSUME Weighed, [Next]_vars PROVE Kept
  <2> SUFFICES ASSUME NEW q \in Routable,
                      \A p \in providers : p \in providers' \/ ~(weight[p] > 0)
               PROVE  \E p \in Providers : p \in Routable'
    OBVIOUS
  <2>1. q \in Providers /\ q \in providers /\ q \notin draining /\ weight[q] > 0 /\ q \in providers'
    BY <1>1 DEF Routable, Weighed, TypeOK
  <2>2. ASSUME \/ UNCHANGED vars \/ (\E c \in Dispatches : Route(c) \/ DropLease(c))
               \/ (\E how \in Policies : SetPolicy(how))
        PROVE  q \in Routable'
    BY <2>1, <2>2 DEF vars, Route, DropLease, SetPolicy, Routable
  <2>3. ASSUME NEW p \in Providers, NEW how, NEW w, Register(p, how, w)
        PROVE  q \in Routable'
    BY <1>1, <2>1, <2>3 DEF Register, Routable, Weighed, TypeOK
  <2>4. ASSUME NEW ps, Leave(ps)
        PROVE  q \in Routable'
    BY <1>1, <2>1, <2>4 DEF Leave, Routable
  <2>5. ASSUME NEW t \in Providers, NEW step \in 0 .. Full, ShiftTraffic(t, step)
        PROVE  \E p \in Providers : p \in Routable'
    <3> DEFINE r == Least(Least(step, Full), Total(Others(t)))
    <3>1. /\ t \in providers /\ providers' = providers
          /\ weight' = [p \in Providers |->
                CASE p = t -> Least(weight[p] + r, Full)
                  [] p \in Others(t) /\ r > 0 -> weight[p] - Loss(p, r, t)
                  [] OTHER -> weight[p]]
          /\ draining' = (draining \ {t}) \cup
                (IF r > 0 THEN {p \in Others(t) : weight'[p] = 0} ELSE {})
      BY <2>5 DEF ShiftTraffic
    <3>2. r \in Nat
      BY <1>1, TotalType, FullAssumption DEF Weighed, TypeOK, Others, Least
    <3>3. weight[t] \in 0 .. Full /\ weight[q] \in 0 .. Full
      BY <1>1, <2>1 DEF Weighed, TypeOK
    <3> HIDE DEF r
    <3>4. weight'[t] = Least(weight[t] + r, Full) /\ t \notin draining'
      BY <3>1 DEF Others
    <3>5. CASE r > 0
      <4>1. weight'[t] > 0
        BY <3>2, <3>3, <3>4, <3>5, FullAssumption DEF Least
      <4> QED BY <3>1, <3>4, <4>1 DEF Routable
    <3>6. CASE r = 0
      <4>1. weight'[q] = weight[q]
        <5>1. CASE q = t
          BY <3>3, <3>4, <3>6, <5>1, FullAssumption DEF Least
        <5>2. CASE q # t
          BY <2>1, <3>1, <3>6, <5>2
        <5> QED BY <5>1, <5>2
      <4>2. q \notin draining'
        BY <2>1, <3>1, <3>6
      <4> QED BY <2>1, <3>1, <4>1, <4>2 DEF Routable
    <3> QED BY <3>2, <3>5, <3>6
  <2> QED BY <1>1, <2>1, <2>2, <2>3, <2>4, <2>5 DEF Next, Reap, Unregister, BeginRollingUpdate
<1>2. Weighed /\ [Next]_vars => [Kept]_vars
  BY <1>1
<1> QED BY <1>2, WeighedHolds, PTL DEF Spec, StaysRoutable

-----------------------------------------------------------------------------
(* The lease of a browser.                                                 *)

\* An agent that is being given the browser, and a call that drives it.  A client that uses
\* it may have lost the lease: it uses the browser only as long as it has not.
HasLease(a) == \/ agent[a].pc \in {"attach", "ready"}
               \/ a \in Calls /\ agent[a].pc = "use"

\* Whoever has the lease is named by the file, and nothing lapses under it.
LeaseIsHolders ==
    \A a \in Agents : HasLease(a) => OwnedBy(a) /\ ClaimIsOurs /\ claimed /\ beating /\ attended

\* One agent created the file, and has not written it yet.
OneWriter ==
    /\ \A a \in Agents : agent[a].pc = "write" => file = Unwritten
    /\ \A a, b \in Agents : agent[a].pc = "write" /\ agent[b].pc = "write" => a = b

CallsAreFresh == \A c \in Calls : HasLease(c) => file.fresh

\* A call is named by a file only while it has the lease or after it ended, and judged
\* stale only after: whoever evicts a call evicts one that is over.
CallsAreNamedLate ==
    /\ \A c \in Calls : \A holder \in {file, refresh} \ {None} :
          holder.owner = c => agent[c].pc = "out" \/ HasLease(c)
    /\ \A c \in Calls, a \in Agents : agent[a].prior = c => agent[c].pc = "out"

RefreshIsOurs == refresh # None => refresh.proc = proc /\ refresh.fresh /\ refresh.owner # None

LeaseHeld ==
    /\ RefreshIsOurs
    /\ ~overrun => LeaseIsHolders /\ OneWriter /\ CallsAreFresh /\ CallsAreNamedLate

\* Who has which browser in hand: an agent that launches it, and a call that drives it.
BrowsersAreHeld == \A a \in Agents :
    /\ agent[a].browser # None => agent[a].pc = "ready" \/ (a \in Calls /\ agent[a].pc = "use")
    /\ agent[a].pc = "ready" => agent[a].browser # None

\* The record on disk is of the browser in the map, and no younger than it.
RecordMatches == tracked # None /\ record # None =>
    record.browser = tracked.browser /\ tracked.idle \in {"no", record.idle}

\* The record of an idle browser outlives a claim only until the attach that adopts it.
ClaimedWithoutRecord == claimed /\ record # None => \E a \in Agents : agent[a].pc = "attach"

\* The browser that housekeeping closes is in nobody's hands, and nobody will be given it.
ClosingIsNobodys == closing # None =>
    /\ \A a \in Agents : agent[a].browser # closing
    /\ tracked # None => tracked.browser # closing
    /\ Adoptable => record.browser # closing

BrowserKnown ==
    /\ BrowsersAreHeld /\ RecordMatches
    /\ ~overrun => ClaimedWithoutRecord /\ ClosingIsNobodys

LeaseSafe == BrowserTypeOK /\ LeaseHeld /\ BrowserKnown

\* Release and the end of an attach keep the types of what they write.
LEMMA ReleaseTypes ==
    ASSUME BrowserTypeOK, Release
    PROVE  /\ file' \in Holder \cup {None} /\ claimed' \in BOOLEAN /\ beating' \in BOOLEAN
           /\ record' \in Entry \cup {None}
           /\ tracked' \in Entry \cup {None}
<1>1. CASE tracked = None
  BY <1>1 DEF BrowserTypeOK, Release, ReleaseClaim
<1>2. CASE tracked # None
  <2>1. tracked \in Entry
    BY <1>2 DEF BrowserTypeOK
  <2>2. tracked' \in Entry /\ record' \in Entry
    BY <1>2, <2>1 DEF Release, IdleRecord, Entry, IdleStates
  <2> QED BY <2>2 DEF BrowserTypeOK, Release, ReleaseClaim
<1> QED BY <1>1, <1>2

LEMMA JoinsTypes ==
    ASSUME BrowserTypeOK, NEW a \in Agents, NEW b \in Browsers, Joins(a, b)
    PROVE  /\ file' \in Holder \cup {None}
           /\ record' = None /\ UNCHANGED <<claimed, beating>>
           /\ tracked' \in Entry
           /\ agent' \in [Agents -> Thread]
<1>1. agent[a] \in Thread
  BY DEF BrowserTypeOK
<1>2. agent' \in [Agents -> Thread]
  BY <1>1 DEF BrowserTypeOK, Joins, Thread, AgentStates
<1> QED BY <1>2 DEF BrowserTypeOK, Joins, ClaimIsOurs, Readable, Holder, Entry, IdleStates

\* Every variable keeps its type.
LEMMA BrowserTypeStep == BrowserTypeOK /\ BrowsersAreHeld /\ [BrowserNext]_browserVars => BrowserTypeOK'
<1> SUFFICES ASSUME BrowserTypeOK, BrowsersAreHeld, BrowserNext PROVE BrowserTypeOK'
  BY DEF BrowserTypeOK, browserVars, memory
<1> USE DEF BrowserTypeOK, memory
<1>1. ASSUME NEW a \in Agents, Begin(a) PROVE BrowserTypeOK'
  BY <1>1 DEF Thread, AgentStates, Entry, IdleStates, Begin, Out, ClaimIsOurs
<1>2. ASSUME NEW a \in Agents, WaitTimesOut(a) PROVE BrowserTypeOK'
  BY <1>2 DEF Thread, AgentStates, WaitTimesOut, Leaves, Out
<1>3. ASSUME NEW a \in Agents, Create(a) PROVE BrowserTypeOK'
  BY <1>3 DEF Holder, Thread, AgentStates, Create, Goes, Unwritten
<1>4. ASSUME NEW a \in Agents, WriteClaim(a) PROVE BrowserTypeOK'
  BY <1>4 DEF Thread, AgentStates, Holder, WriteClaim, Goes, Claim
<1>5. ASSUME NEW a \in Agents, JudgeStale(a) PROVE BrowserTypeOK'
  <2>1. file.owner \in Agents \cup {None}
    BY <1>5 DEF JudgeStale, Holder
  <2> DEFINE t == [agent[a] EXCEPT !.pc = "evict", !.prior = file.owner]
  <2>2. t \in Thread
    <3>1. agent[a] \in Thread
      OBVIOUS
    <3> QED BY <2>1, <3>1 DEF Thread, AgentStates
  <2>3. /\ agent' = [agent EXCEPT ![a] = t]
        /\ UNCHANGED <<file, record, chrome, proc, claimed, beating, tracked, attended,
                       refresh, closing, overrun>>
    BY <1>5 DEF JudgeStale
  <2> HIDE DEF t
  <2>4. agent' \in [Agents -> Thread]
    BY <2>2, <2>3
  <2> QED BY <2>3, <2>4
<1>6. ASSUME NEW a \in Agents, Evict(a) PROVE BrowserTypeOK'
  BY <1>6 DEF Thread, AgentStates, Evict, Sweeps, TakenFrom
<1>7. ASSUME NEW a \in Agents, Reuse(a) PROVE BrowserTypeOK'
  BY <1>7, JoinsTypes, BrowserLeaseAssumption DEF Reuse, Found, Adoptable
<1>8. ASSUME NEW a \in Agents, Ready(a) PROVE BrowserTypeOK'
  <2>1. agent[a].browser \in Browsers
    BY <1>8 DEF Ready, BrowsersAreHeld, Thread
  <2> QED BY <1>8, <2>1, JoinsTypes DEF Ready
<1>9. ASSUME NEW a \in Agents, LaunchFails(a) PROVE BrowserTypeOK'
  BY <1>9 DEF Thread, AgentStates, LaunchFails, Closes, ReleaseClaim, Leaves, Out, TakenFrom
<1>10. ASSUME NEW a \in Agents, NEW b \in Browsers, Launch(a, b) PROVE BrowserTypeOK'
  BY <1>10 DEF Thread, AgentStates, Launch
<1>11. ASSUME NEW c \in Calls, CallTimesOut(c) PROVE BrowserTypeOK'
  BY <1>11, ReleaseTypes DEF CallTimesOut, ReleaseOwned
<1>12. ASSUME NEW c \in Calls, CallEnds(c) PROVE BrowserTypeOK'
  BY <1>12, ReleaseTypes DEF Thread, AgentStates, CallEnds, ReleaseOwned, Leaves, Out, Agents
<1>13. ASSUME NEW v \in Clients, ResetWedged(v) PROVE BrowserTypeOK'
  BY <1>13 DEF ResetWedged, Dropped, Closes, TakenFrom
<1>14. ASSUME NEW v \in Clients, Reset(v) PROVE BrowserTypeOK'
  BY <1>14 DEF Thread, AgentStates, Reset, Sweeps, ReleaseClaim, Leaves, Out, TakenFrom, Agents
<1>15. ASSUME NEW v \in Clients, Reconnect(v) PROVE BrowserTypeOK'
  BY <1>15 DEF Reconnect, Dropped, Closes
<1>16. ASSUME NEW v \in Clients, ClientReleases(v) PROVE BrowserTypeOK'
  BY <1>16, ReleaseTypes DEF Thread, AgentStates, ClientReleases, Leaves, Out, Agents
<1>17. ASSUME NEW v \in Clients, ClientAbandons(v) PROVE BrowserTypeOK'
  BY <1>17 DEF Thread, AgentStates, ClientAbandons, Leaves, Out, Agents
<1>18. CASE HeartbeatReads
  BY <1>18 DEF Holder, HeartbeatReads, ClaimIsOurs, Readable
<1>19. CASE HeartbeatWrites
  BY <1>19 DEF HeartbeatWrites, OwnedBy
<1>20. CASE AttendanceLapses
  BY <1>20 DEF AttendanceLapses
<1>21. CASE FileLapses
  BY <1>21 DEF Holder, FileLapses
<1>22. CASE IdleExpires
  BY <1>22 DEF Entry, IdleStates, IdleExpires, Lapses
<1>23. CASE HousekeepingDecides
  BY <1>23 DEF Entry, HousekeepingDecides
<1>24. CASE HousekeepingCloses
  BY <1>24 DEF HousekeepingCloses, Closes, ReleaseClaim, TakenFrom
<1>25. CASE AdoptKept
  BY <1>25 DEF AdoptKept, Adoptable
<1>26. CASE ReapUntracked
  BY <1>26 DEF ReapUntracked
<1>27. CASE Crash
  <2>1. Out \in Thread
    BY DEF Out, Thread, AgentStates
  <2>2. proc' \in 0 .. MaxExits
    BY <1>27, BrowserLeaseAssumption DEF Crash, Restarts
  <2> QED BY <1>27, <2>1, <2>2 DEF Crash, Restarts
<1>28. CASE Shutdown
  <2>1. Out \in Thread
    BY DEF Out, Thread, AgentStates
  <2>2. proc' \in 0 .. MaxExits
    BY <1>28, BrowserLeaseAssumption DEF Shutdown, Restarts
  <2> QED BY <1>28, <2>1, <2>2 DEF Shutdown, Restarts, IdleRecord, Entry, IdleStates
<1>29. CASE WindowCloses
  BY <1>29 DEF WindowCloses
<1> QED BY <1>1, <1>2, <1>3, <1>4, <1>5, <1>6, <1>7, <1>8, <1>9, <1>10, <1>11, <1>12, <1>13,
    <1>14, <1>15, <1>16, <1>17, <1>18, <1>19, <1>20, <1>21, <1>22, <1>23, <1>24, <1>25, <1>26,
    <1>27, <1>28, <1>29
      DEF BrowserNext, Claims, Attaches

\* The agent that joins had the lease before: it keeps it, or gives up nothing.
LEMMA JoinsKeeps ==
    ASSUME BrowserTypeOK, LeaseHeld, NEW a \in Agents, NEW b, Joins(a, b),
           agent[a].pc \in {"attach", "ready"}, UNCHANGED <<proc, attended, refresh, overrun>>
    PROVE  LeaseHeld'
<1> USE DEF BrowserTypeOK, LeaseHeld, RefreshIsOurs, LeaseIsHolders, OneWriter, CallsAreFresh,
            CallsAreNamedLate, HasLease, OwnedBy, ClaimIsOurs, Readable, Unwritten, Holder,
            Thread, Agents
<1>1. agent'[a].pc = "use" /\ agent'[a].prior = agent[a].prior
  BY DEF Joins
<1>2. \A e \in Agents \ {a} : agent'[e] = agent[e]
  BY DEF Joins
<1>3. ~overrun => file \in Holder /\ file' = [file EXCEPT !.fresh = TRUE]
  BY DEF Joins
<1>4. ~overrun => /\ file' \in Holder
                  /\ file'.owner = file.owner /\ file'.proc = file.proc /\ file'.fresh
  BY <1>3
<1>5. ASSUME ~overrun PROVE LeaseIsHolders'
  <2>1. \A e \in Agents : HasLease(e)' => HasLease(e)
    BY <1>1, <1>2
  <2>2. HasLease(a)
    OBVIOUS
  <2>3. ClaimIsOurs /\ claimed /\ beating /\ attended
    BY <1>5, <2>2
  <2>4. Readable' /\ ClaimIsOurs' /\ file'.owner = file.owner
    BY <1>4, <1>5, <2>3, NoneIsNoRecord
  <2>5. UNCHANGED <<claimed, beating, attended>>
    BY DEF Joins
  <2>6. \A e \in Agents : HasLease(e) => OwnedBy(e)
    BY <1>5
  <2> HIDE DEF HasLease, ClaimIsOurs
  <2> QED BY <2>1, <2>3, <2>4, <2>5, <2>6
<1>6. ASSUME ~overrun PROVE OneWriter'
  BY <1>1, <1>2, <1>4, <1>6, NoneIsNoRecord DEF Joins
<1>7. ASSUME ~overrun PROVE CallsAreFresh'
  BY <1>1, <1>2, <1>4, <1>7, NoneIsNoRecord DEF Joins
<1>8. ASSUME ~overrun PROVE CallsAreNamedLate'
  BY <1>1, <1>2, <1>4, <1>8, NoneIsNoRecord, BrowserLeaseAssumption DEF Joins
<1> QED BY <1>5, <1>6, <1>7, <1>8 DEF Joins

\* Every step keeps the lease with its holders, or is an overrun.
LEMMA LeaseHeldStep ==
    BrowserTypeOK /\ LeaseHeld /\ BrowserKnown /\ [BrowserNext]_browserVars => LeaseHeld'
<1> SUFFICES ASSUME BrowserTypeOK, LeaseHeld, BrowserKnown, BrowserNext PROVE LeaseHeld'
  BY DEF BrowserTypeOK, LeaseHeld, RefreshIsOurs, LeaseIsHolders, OneWriter, CallsAreFresh,
         CallsAreNamedLate, HasLease, OwnedBy, ClaimIsOurs, Readable, Unwritten, Holder,
         Thread, Agents, browserVars, memory
<1> USE DEF BrowserTypeOK, LeaseHeld, RefreshIsOurs, LeaseIsHolders, OneWriter, CallsAreFresh,
            CallsAreNamedLate, HasLease, OwnedBy, ClaimIsOurs, Readable, Unwritten, Holder,
            Thread, Agents, memory
<1>1. ASSUME NEW a \in Agents, Begin(a) PROVE LeaseHeld'
  BY <1>1, BrowserLeaseAssumption DEF Begin, Out, Unnamed
<1>2. ASSUME NEW a \in Agents, WaitTimesOut(a) PROVE LeaseHeld'
  BY <1>2, BrowserLeaseAssumption DEF WaitTimesOut, Leaves, Out
<1>3. ASSUME NEW a \in Agents, Create(a) PROVE LeaseHeld'
  <2>2. Unwritten \in Holder
    OBVIOUS
  <2>3. Unwritten # None
    BY <2>2, NoneIsNoRecord
  <2>1. ~overrun => \A e \in Agents : ~HasLease(e) /\ agent[e].pc # "write"
    BY <1>3, <2>3 DEF Create
  <2> QED BY <1>3, <2>1, BrowserLeaseAssumption, NoneIsNoRecord DEF Create, Goes
<1>4. ASSUME NEW a \in Agents, WriteClaim(a) PROVE LeaseHeld'
  <2>1. ~overrun => \A e \in Agents \ {a} : ~HasLease(e) /\ agent[e].pc # "write"
    BY <1>4, BrowserLeaseAssumption, NoneIsNoRecord DEF WriteClaim
  <2>2. ~overrun => file' = Claim(a)
    BY <1>4 DEF WriteClaim
  <2>3. Claim(a) \in Holder
    BY DEF Claim
  <2>4. \A e \in Agents \ {a} : agent'[e] = agent[e]
    BY <1>4 DEF WriteClaim, Goes
  <2>5. agent'[a].pc = "attach" /\ agent'[a].prior = agent[a].prior
    BY <1>4 DEF WriteClaim, Goes
  <2>6. ~overrun => file'.owner = a /\ file'.proc = proc /\ file'.fresh
    BY <2>2 DEF Claim
  <2>7. ASSUME ~overrun PROVE LeaseIsHolders'
    BY <1>4, <2>1, <2>2, <2>3, <2>4, <2>6, <2>7, BrowserLeaseAssumption, NoneIsNoRecord
       DEF WriteClaim
  <2>8. ASSUME ~overrun PROVE OneWriter'
    BY <1>4, <2>1, <2>4, <2>5, <2>8 DEF WriteClaim
  <2>9. ASSUME ~overrun PROVE CallsAreFresh'
    BY <2>1, <2>4, <2>6, <2>9
  <2>10. ASSUME ~overrun PROVE CallsAreNamedLate'
    BY <1>4, <2>1, <2>4, <2>5, <2>6, <2>10, BrowserLeaseAssumption DEF WriteClaim
  <2> QED BY <1>4, <2>7, <2>8, <2>9, <2>10 DEF WriteClaim
<1>5. ASSUME NEW a \in Agents, JudgeStale(a) PROVE LeaseHeld'
  BY <1>5 DEF JudgeStale
\* The file names the agent that was judged, an ended call or a client that nobody attends,
\* and then nobody has the lease; or somebody may lose it, which is an overrun.
<1>6. ASSUME NEW a \in Agents, Evict(a) PROVE LeaseHeld'
  BY <1>6, BrowserLeaseAssumption DEF Evict, TakenFrom, Holding, Owner
<1>7. ASSUME NEW a \in Agents, Reuse(a) PROVE LeaseHeld'
  <2> PICK b : Joins(a, b)
    BY <1>7 DEF Reuse
  <2> QED BY <1>7, JoinsKeeps DEF Reuse
<1>8. ASSUME NEW a \in Agents, Ready(a) PROVE LeaseHeld'
  <2> PICK b : Joins(a, b)
    BY <1>8 DEF Ready
  <2> QED BY <1>8, JoinsKeeps DEF Ready
<1>9. ASSUME NEW a \in Agents, LaunchFails(a) PROVE LeaseHeld'
  BY <1>9, BrowserLeaseAssumption DEF LaunchFails, ReleaseClaim, Leaves, Out, TakenFrom, Holding
<1>10. ASSUME NEW a \in Agents, NEW b \in Browsers, Launch(a, b) PROVE LeaseHeld'
  BY <1>10 DEF Launch
<1>11. ASSUME NEW c \in Calls, CallTimesOut(c) PROVE LeaseHeld'
  BY <1>11 DEF CallTimesOut
<1>12. ASSUME NEW c \in Calls, CallEnds(c) PROVE LeaseHeld'
  BY <1>12, BrowserLeaseAssumption DEF CallEnds, ReleaseOwned, Release, ReleaseClaim, Leaves,
         Out
<1>13. ASSUME NEW v \in Clients, ResetWedged(v) PROVE LeaseHeld'
  BY <1>13 DEF ResetWedged, TakenFrom, Holding
<1>14. ASSUME NEW v \in Clients, Reset(v) PROVE LeaseHeld'
  BY <1>14, BrowserLeaseAssumption DEF Reset, ReleaseClaim, Leaves, Out, TakenFrom, Holding
<1>15. ASSUME NEW v \in Clients, Reconnect(v) PROVE LeaseHeld'
  BY <1>15 DEF Reconnect
<1>16. ASSUME NEW v \in Clients, ClientReleases(v) PROVE LeaseHeld'
  BY <1>16, BrowserLeaseAssumption DEF ClientReleases, Release, ReleaseClaim, Leaves, Out
<1>17. ASSUME NEW v \in Clients, ClientAbandons(v) PROVE LeaseHeld'
  BY <1>17, BrowserLeaseAssumption DEF ClientAbandons, Leaves, Out
<1>18. CASE HeartbeatReads
  <2>1. CASE ClaimIsOurs /\ attended
    <3>1. refresh' = [file EXCEPT !.fresh = TRUE] /\ file \in Holder
      BY <1>18, <2>1 DEF HeartbeatReads
    <3> QED BY <1>18, <2>1, <3>1 DEF HeartbeatReads
  <2>2. CASE ~(ClaimIsOurs /\ attended)
    BY <1>18, <2>2 DEF HeartbeatReads
  <2> QED BY <2>1, <2>2
<1>19. CASE HeartbeatWrites
  BY <1>19 DEF HeartbeatWrites
<1>20. CASE AttendanceLapses
  BY <1>20 DEF AttendanceLapses
<1>21. CASE FileLapses
  BY <1>21 DEF FileLapses
<1>22. CASE IdleExpires
  BY <1>22 DEF IdleExpires
<1>23. CASE HousekeepingDecides
  BY <1>23 DEF HousekeepingDecides
\* The browser is nobody's, so whoever has the lease has another, and loses the claim.
<1>24. CASE HousekeepingCloses
  BY <1>24 DEF HousekeepingCloses, ReleaseClaim, TakenFrom, Holding, BrowserKnown,
               ClosingIsNobodys, BrowsersAreHeld
<1>25. CASE AdoptKept
  BY <1>25 DEF AdoptKept
<1>26. CASE ReapUntracked
  BY <1>26 DEF ReapUntracked
<1>27. CASE Crash
  BY <1>27 DEF Crash, Restarts, Out
<1>28. CASE Shutdown
  BY <1>28 DEF Shutdown, Restarts, Out
<1>29. CASE WindowCloses
  BY <1>29 DEF WindowCloses
<1> QED BY <1>1, <1>2, <1>3, <1>4, <1>5, <1>6, <1>7, <1>8, <1>9, <1>10, <1>11, <1>12, <1>13,
    <1>14, <1>15, <1>16, <1>17, <1>18, <1>19, <1>20, <1>21, <1>22, <1>23, <1>24, <1>25, <1>26,
    <1>27, <1>28, <1>29
      DEF BrowserNext, Claims, Attaches

\* Every step keeps the browsers apart that are used and that are closed.
LEMMA BrowserKnownStep ==
    BrowserTypeOK /\ LeaseHeld /\ BrowserKnown /\ [BrowserNext]_browserVars => BrowserKnown'
<1> SUFFICES ASSUME BrowserTypeOK, LeaseHeld, BrowserKnown, BrowserNext PROVE BrowserKnown'
  BY DEF BrowserTypeOK, BrowserKnown, BrowsersAreHeld, RecordMatches, ClaimedWithoutRecord,
         ClosingIsNobodys, Adoptable, Thread, Entry, Agents, browserVars, memory
<1> USE DEF BrowserTypeOK, BrowserKnown, BrowsersAreHeld, RecordMatches, ClaimedWithoutRecord,
            ClosingIsNobodys, Adoptable, Thread, Entry, Agents, memory
<1>1. ASSUME NEW a \in Agents, Begin(a) PROVE BrowserKnown'
  BY <1>1 DEF Begin, Out
<1>2. ASSUME NEW a \in Agents, WaitTimesOut(a) PROVE BrowserKnown'
  BY <1>2 DEF WaitTimesOut, Leaves, Out
<1>3. ASSUME NEW a \in Agents, Create(a) PROVE BrowserKnown'
  BY <1>3 DEF Create, Goes
<1>4. ASSUME NEW a \in Agents, WriteClaim(a) PROVE BrowserKnown'
  BY <1>4 DEF WriteClaim, Goes
<1>5. ASSUME NEW a \in Agents, JudgeStale(a) PROVE BrowserKnown'
  BY <1>5 DEF JudgeStale
<1>6. ASSUME NEW a \in Agents, Evict(a) PROVE BrowserKnown'
  BY <1>6 DEF Evict, Sweeps, TakenFrom
<1>7. ASSUME NEW a \in Agents, Reuse(a) PROVE BrowserKnown'
  BY <1>7 DEF Reuse, Joins, Found
<1>8. ASSUME NEW a \in Agents, Ready(a) PROVE BrowserKnown'
  BY <1>8 DEF Ready, Joins
<1>9. ASSUME NEW a \in Agents, LaunchFails(a) PROVE BrowserKnown'
  BY <1>9 DEF LaunchFails, Closes, ReleaseClaim, Leaves, Out, TakenFrom
<1>10. ASSUME NEW a \in Agents, NEW b \in Browsers, Launch(a, b) PROVE BrowserKnown'
  BY <1>10, BrowserLeaseAssumption DEF Launch
<1>11. ASSUME NEW c \in Calls, CallTimesOut(c) PROVE BrowserKnown'
  BY <1>11 DEF CallTimesOut, ReleaseOwned, Release, ReleaseClaim, IdleRecord
<1>12. ASSUME NEW c \in Calls, CallEnds(c) PROVE BrowserKnown'
  BY <1>12 DEF CallEnds, ReleaseOwned, Release, ReleaseClaim, IdleRecord, Leaves, Out
<1>13. ASSUME NEW v \in Clients, ResetWedged(v) PROVE BrowserKnown'
  BY <1>13 DEF ResetWedged, Dropped, Closes, TakenFrom
<1>14. ASSUME NEW v \in Clients, Reset(v) PROVE BrowserKnown'
  BY <1>14 DEF Reset, Sweeps, ReleaseClaim, Leaves, Out, TakenFrom
<1>15. ASSUME NEW v \in Clients, Reconnect(v) PROVE BrowserKnown'
  BY <1>15 DEF Reconnect, Dropped, Closes
<1>16. ASSUME NEW v \in Clients, ClientReleases(v) PROVE BrowserKnown'
  BY <1>16 DEF ClientReleases, Release, ReleaseClaim, IdleRecord, Leaves, Out
<1>17. ASSUME NEW v \in Clients, ClientAbandons(v) PROVE BrowserKnown'
  BY <1>17 DEF ClientAbandons, Leaves, Out
<1>18. CASE HeartbeatReads
  BY <1>18 DEF HeartbeatReads
<1>19. CASE HeartbeatWrites
  BY <1>19 DEF HeartbeatWrites
<1>20. CASE AttendanceLapses
  BY <1>20 DEF AttendanceLapses
<1>21. CASE FileLapses
  BY <1>21 DEF FileLapses
<1>22. CASE IdleExpires
  BY <1>22 DEF IdleExpires, Lapses
\* The claim is not this process's, so nobody has the lease, and a browser in hand is none.
<1>23. CASE HousekeepingDecides
  BY <1>23 DEF HousekeepingDecides, ClaimIsOurs, LeaseHeld, LeaseIsHolders, HasLease
<1>24. CASE HousekeepingCloses
  BY <1>24 DEF HousekeepingCloses, Closes, ReleaseClaim, TakenFrom
<1>25. CASE AdoptKept
  BY <1>25 DEF AdoptKept
<1>26. CASE ReapUntracked
  BY <1>26 DEF ReapUntracked
<1>27. CASE Crash
  BY <1>27 DEF Crash, Restarts, Out
<1>28. CASE Shutdown
  BY <1>28 DEF Shutdown, Restarts, Out, IdleRecord
<1>29. CASE WindowCloses
  BY <1>29 DEF WindowCloses
<1> QED BY <1>1, <1>2, <1>3, <1>4, <1>5, <1>6, <1>7, <1>8, <1>9, <1>10, <1>11, <1>12, <1>13,
    <1>14, <1>15, <1>16, <1>17, <1>18, <1>19, <1>20, <1>21, <1>22, <1>23, <1>24, <1>25, <1>26,
    <1>27, <1>28, <1>29
      DEF BrowserNext, Claims, Attaches

LEMMA LeaseSafeInit == BrowserInit => LeaseSafe
<1> SUFFICES ASSUME BrowserInit PROVE LeaseSafe
  OBVIOUS
<1> USE DEF BrowserInit
<1>1. Out \in Thread
  BY DEF Out, Thread, AgentStates
<1>2. BrowserTypeOK
  <2>1. proc \in 0 .. MaxExits
    BY BrowserLeaseAssumption
  <2>2. agent \in [Agents -> Thread]
    BY <1>1
  <2> QED BY <2>1, <2>2 DEF BrowserTypeOK
<1>3. LeaseHeld
  BY DEF LeaseHeld, RefreshIsOurs, LeaseIsHolders, OneWriter, CallsAreFresh, CallsAreNamedLate,
         HasLease, Out, Agents
<1>4. BrowserKnown
  BY DEF BrowserKnown, BrowsersAreHeld, RecordMatches, ClaimedWithoutRecord, ClosingIsNobodys,
         Out
<1> QED BY <1>2, <1>3, <1>4 DEF LeaseSafe

LEMMA LeaseSafeHolds == BrowserSpec => []LeaseSafe
<1>1. LeaseSafe /\ [BrowserNext]_browserVars => LeaseSafe'
  BY BrowserTypeStep, LeaseHeldStep, BrowserKnownStep DEF LeaseSafe, BrowserKnown
<1> QED BY <1>1, LeaseSafeInit, PTL DEF BrowserSpec

\* The browser of an identity has its types: the claim file, the record of the Chrome, what
\* the daemon tracks, and where each agent stands (claim_session, ensure, housekeeping).
THEOREM BrowserTypeCorrect == BrowserSpec => []BrowserTypeOK
<1>1. LeaseSafe => BrowserTypeOK
  BY DEF LeaseSafe
<1> QED BY <1>1, LeaseSafeHolds, PTL

\* For any agents, browsers and daemons: two agents use the browser of one identity only
\* after an overrun (claim_session, evict_stale_holder, housekeeping): who uses it is named
\* by the file.
THEOREM BrowserIsExclusive == BrowserSpec => []OneUserUnlessOverrun
<1>1. LeaseSafe => OneUserUnlessOverrun
  <2> SUFFICES ASSUME LeaseSafe, ~overrun PROVE Cardinality({a \in Agents : Using(a)}) <= 1
    BY DEF OneUserUnlessOverrun
  <2>1. \A a \in Agents : Using(a) => file.owner = a
    BY DEF LeaseSafe, LeaseHeld, LeaseIsHolders, HasLease, Using, OwnedBy
  <2>2. {a \in Agents : Using(a)} \subseteq {file.owner}
    BY <2>1
  <2>3. IsFiniteSet({file.owner}) /\ Cardinality({file.owner}) = 1
    BY FS_Singleton
  <2>4. Cardinality({a \in Agents : Using(a)}) <= Cardinality({file.owner})
    BY <2>2, <2>3, FS_Subset
  <2> QED BY <2>3, <2>4
<1> QED BY <1>1, LeaseSafeHolds, PTL

\* What was recorded stays recorded.
LEMMA OverrunStays == overrun /\ [BrowserNext]_browserVars => overrun'
<1> SUFFICES ASSUME overrun, BrowserNext PROVE overrun'
  BY DEF browserVars
<1>1. ASSUME NEW a \in Agents, Begin(a) \/ WaitTimesOut(a) \/ Claims(a) \/ Attaches(a)
      PROVE  overrun'
  BY <1>1 DEF Begin, WaitTimesOut, Claims, Create, WriteClaim, JudgeStale, Evict, TakenFrom,
              Attaches, Reuse, Ready, LaunchFails, Launch
<1>2. ASSUME NEW c \in Calls, CallTimesOut(c) \/ CallEnds(c) PROVE overrun'
  BY <1>2 DEF CallTimesOut, CallEnds
<1>3. ASSUME NEW v \in Clients, ResetWedged(v) \/ Reset(v) \/ Reconnect(v) \/ ClientReleases(v)
                               \/ ClientAbandons(v)
      PROVE  overrun'
  BY <1>3 DEF ResetWedged, Reset, Reconnect, ClientReleases, ClientAbandons, TakenFrom
<1>4. CASE HousekeepingCloses \/ HeartbeatWrites
  BY <1>4 DEF HousekeepingCloses, HeartbeatWrites, TakenFrom
<1>5. CASE Crash \/ Shutdown \/ WindowCloses
  BY <1>5 DEF Crash, Shutdown, WindowCloses
<1> QED
  BY <1>1, <1>2, <1>3, <1>4, <1>5
     DEF BrowserNext, HeartbeatReads, AttendanceLapses, FileLapses, IdleExpires, HousekeepingDecides,
         AdoptKept, ReapUntracked

\* Under a call that goes on, everything else that ends a Chrome needs the lease, finds
\* it taken, or is an overrun.
LEMMA ChromeStays ==
    ASSUME LeaseSafe, [BrowserNext]_browserVars, NEW c \in Calls,
           agent[c].pc = "use", agent'[c].pc = "use",
           agent[c].browser = chrome, agent[c].browser # chrome', ~overrun'
    PROVE  WindowCloses
<1>1. BrowserNext /\ chrome' # chrome
  BY DEF browserVars
<1>2. c \in Agents /\ \A v \in Clients : v # c
  BY BrowserLeaseAssumption DEF Agents
<1>3. overrun => overrun'
  BY OverrunStays
<1>4. HasLease(c) /\ OwnedBy(c) /\ ClaimIsOurs /\ claimed
  BY <1>2, <1>3 DEF HasLease, LeaseSafe, LeaseHeld, LeaseIsHolders
<1>5. \A a \in Agents : HasLease(a) => a = c
  BY <1>2, <1>3, <1>4 DEF OwnedBy, LeaseSafe, LeaseHeld, LeaseIsHolders
<1>6. \A a \in Agents : agent[a].pc \in {"attach", "ready"} => FALSE
  BY <1>5 DEF HasLease
<1>7. ASSUME NEW a \in Agents, Evict(a) PROVE FALSE
  <2>1. a # c /\ agent[a].prior # c
    BY <1>2, <1>3, <1>7 DEF Evict, LeaseSafe, LeaseHeld, CallsAreNamedLate
  <2> QED BY <1>2, <1>4, <1>7, <2>1 DEF Evict, TakenFrom, Holding, Owner, OwnedBy, Readable
<1>8. ASSUME NEW v \in Clients, ResetWedged(v) PROVE FALSE
  BY <1>2, <1>8 DEF ResetWedged, TakenFrom, Holding
<1>9. CASE HousekeepingCloses
  <2>1. agent[c].browser # closing
    BY <1>2, <1>3, <1>9 DEF HousekeepingCloses, LeaseSafe, BrowserKnown, ClosingIsNobodys
  <2> QED BY <1>2, <1>9, <2>1 DEF HousekeepingCloses, TakenFrom, Holding
<1>10. CASE Crash \/ Shutdown
  BY <1>2, <1>10 DEF Crash, Shutdown, Restarts, Out
<1>11. ~AdoptKept /\ ~ReapUntracked
  BY <1>4 DEF AdoptKept, ReapUntracked
<1>12. \A a \in Agents : /\ ~LaunchFails(a) /\ ~Reuse(a) /\ ~Ready(a)
                         /\ \A b \in Browsers : ~Launch(a, b)
  BY <1>6 DEF LaunchFails, Reuse, Ready, Launch
<1>13. \A v \in Clients : ~Reset(v) /\ ~Reconnect(v)
  BY <1>6 DEF Reset, Reconnect, Agents
<1> QED
  BY <1>1, <1>7, <1>8, <1>9, <1>10, <1>11, <1>12, <1>13
     DEF BrowserNext, Claims, Attaches, Begin, WaitTimesOut, Create, WriteClaim, JudgeStale,
         CallTimesOut, CallEnds, ClientReleases, ClientAbandons, HeartbeatReads, HeartbeatWrites,
         AttendanceLapses, FileLapses, IdleExpires, HousekeepingDecides

\* For any agents, browsers and daemons: no Chrome ends under a running call, except by the
\* user or with an overrun (evict_stale_holder, launch, housekeeping, reap_untracked).
THEOREM ChromeStaysUnderCalls == BrowserSpec => UserKeepsBrowser
<1>1. LeaseSafe /\ [BrowserNext]_browserVars =>
        \A c \in Calls :
            agent[c].pc = "use" /\ agent'[c].pc = "use"
            /\ agent[c].browser = chrome /\ agent[c].browser # chrome' => WindowCloses \/ overrun'
  BY ChromeStays
<1> QED BY <1>1, LeaseSafeHolds, PTL DEF UserKeepsBrowser, BrowserSpec

=============================================================================
