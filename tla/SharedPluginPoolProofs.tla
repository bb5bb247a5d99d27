----------------------- MODULE SharedPluginPoolProofs ------------------------
(* What the two models of a shared plugin's pool guarantee.  SlotPool: its  *)
(* admission counters are the numbers of the holds, for any number of       *)
(* dispatches, slots and limits.  HotReload: its slots and the bytes in     *)
(* them stay sound while the plugin's file is replaced, for any versions,   *)
(* slots, dispatches, callers and recompile threads.                        *)
EXTENDS SlotPool, HotReload, FiniteSetTheorems, SequenceTheorems, WellFoundedInduction, TLAPS

----
(* The admission.  The queues play no part.                                *)

\* The part of PoolTypeOK that the proof needs, and the properties.
Held ==
    /\ at \in [Dispatches -> Places]
    /\ hold \in [Dispatches -> Nat]
    /\ band \in [Dispatches -> Bands]
    /\ next_holder_id \in Nat
    /\ CountersAreHolds
    /\ OwnHold

HeavyHolds == InBand("General") \cap Heavies

LEMMA BandsFinite ==
    /\ \A b \in Bands : IsFiniteSet(InBand(b)) /\ Cardinality(InBand(b)) \in Nat
    /\ IsFiniteSet(HeavyHolds) /\ Cardinality(HeavyHolds) \in Nat
<1>1. \A b \in Bands : InBand(b) \subseteq Dispatches
  BY DEF InBand, Holders
<1>2. HeavyHolds \subseteq Dispatches
  BY <1>1 DEF HeavyHolds, Bands
<1> QED BY <1>1, <1>2, DispatchesAssumption, FS_Subset, FS_CardinalityType

\* A new hold is one more of its band and of no other.
LEMMA HoldAdded ==
    ASSUME Held, NEW d \in Dispatches, NEW b \in Bands, at[d] = "slot", Register(d, b)
    PROVE  /\ hold'[d] # 0 /\ band'[d] = b
           /\ d \notin InBand(b) /\ InBand(b)' = InBand(b) \cup {d}
           /\ \A c \in Bands \ {b} : InBand(c)' = InBand(c)
<1>1. hold[d] = 0
  BY DEF Held, OwnHold
<1>2. /\ hold' = [hold EXCEPT ![d] = next_holder_id + 1] /\ next_holder_id + 1 # 0
      /\ band' = [band EXCEPT ![d] = b]
  BY DEF Register, Held
<1>3. \A e \in Dispatches \ {d} : hold'[e] = hold[e] /\ band'[e] = band[e]
  BY <1>2 DEF Held
<1>4. hold'[d] # 0 /\ band'[d] = b
  BY <1>2 DEF Held
<1> QED BY <1>1, <1>3, <1>4 DEF InBand, Holders

\* A hold that is released is one less of its band and of no other.
LEMMA HoldReleased ==
    ASSUME Held, NEW e \in Dispatches, hold[e] # 0, ReleaseHolder(e), band' = band
    PROVE  /\ e \in InBand(band[e]) /\ InBand(band[e])' = InBand(band[e]) \ {e}
           /\ \A c \in Bands \ {band[e]} : InBand(c)' = InBand(c)
           /\ \A f \in Dispatches \ {e} : hold'[f] = hold[f]
           /\ hold' \in [Dispatches -> Nat] /\ hold'[e] = 0
<1>1. hold' = [hold EXCEPT ![e] = 0]
  BY DEF ReleaseHolder
<1>2. hold' \in [Dispatches -> Nat] /\ hold'[e] = 0
  BY <1>1 DEF Held
<1>3. \A f \in Dispatches \ {e} : hold'[f] = hold[f]
  BY <1>1 DEF Held
<1> QED BY <1>2, <1>3 DEF InBand, Holders

\* The counters follow a registration,
LEMMA CountedOn ==
    ASSUME Held, NEW d \in Dispatches, AdmitGeneral(d) \/ AdmitGit(d) \/ AdmitBlocking(d)
    PROVE  CountersAreHolds'
<1>1. CASE AdmitGeneral(d)
  <2>1. /\ d \notin InBand("General") /\ InBand("General")' = InBand("General") \cup {d}
        /\ InBand("GitBand")' = InBand("GitBand") /\ InBand("Blocking")' = InBand("Blocking")
    BY <1>1, HoldAdded DEF AdmitGeneral, Bands
  <2>2. Cardinality(InBand("General")') = Cardinality(InBand("General")) + 1
    BY <2>1, BandsFinite, FS_AddElement DEF Bands
  <2>3. HeavyHolds' = IF d \in Heavies THEN HeavyHolds \cup {d} ELSE HeavyHolds
    BY <2>1 DEF HeavyHolds
  <2>4. Cardinality(HeavyHolds') =
            Cardinality(HeavyHolds) + (IF d \in Heavies THEN 1 ELSE 0)
    <3>1. d \notin HeavyHolds /\ IsFiniteSet(HeavyHolds) /\ Cardinality(HeavyHolds) \in Nat
      BY <2>1, BandsFinite DEF HeavyHolds
    <3>2. Cardinality(HeavyHolds \cup {d}) = Cardinality(HeavyHolds) + 1
      BY <3>1, FS_AddElement
    <3> HIDE DEF HeavyHolds
    <3> QED BY <2>3, <3>1, <3>2
  <2> QED BY <1>1, <2>1, <2>2, <2>4 DEF AdmitGeneral, Held, CountersAreHolds, HeavyHolds
<1>2. CASE AdmitGit(d)
  <2>1. /\ d \notin InBand("GitBand") /\ InBand("GitBand")' = InBand("GitBand") \cup {d}
        /\ InBand("General")' = InBand("General") /\ InBand("Blocking")' = InBand("Blocking")
    BY <1>2, HoldAdded DEF AdmitGit, Bands
  <2>2. Cardinality(InBand("GitBand")') = Cardinality(InBand("GitBand")) + 1
    BY <2>1, BandsFinite, FS_AddElement DEF Bands
  <2> QED BY <1>2, <2>1, <2>2 DEF AdmitGit, Held, CountersAreHolds
<1>3. CASE AdmitBlocking(d)
  <2>1. /\ d \notin InBand("Blocking") /\ InBand("Blocking")' = InBand("Blocking") \cup {d}
        /\ InBand("General")' = InBand("General") /\ InBand("GitBand")' = InBand("GitBand")
    BY <1>3, HoldAdded DEF AdmitBlocking, Bands
  <2>2. Cardinality(InBand("Blocking")') = Cardinality(InBand("Blocking")) + 1
    BY <2>1, BandsFinite, FS_AddElement DEF Bands
  <2> QED BY <1>3, <2>1, <2>2 DEF AdmitBlocking, Held, CountersAreHolds
<1> QED BY <1>1, <1>2, <1>3

\* and a release: no counter saturates.
LEMMA CountedOff ==
    ASSUME Held, NEW e \in Dispatches, ReleaseHolder(e), band' = band
    PROVE  CountersAreHolds'
<1>1. CASE hold[e] = 0
  BY <1>1 DEF ReleaseHolder, inflightVars, Held, CountersAreHolds, InBand, Holders
<1>2. CASE hold[e] # 0
  <2> DEFINE b == band[e]
  <2>1. b \in Bands /\ e \in InBand(b) /\ InBand(b)' = InBand(b) \ {e}
    BY <1>2, HoldReleased DEF Held
  <2>2. \A c \in Bands \ {b} : InBand(c)' = InBand(c)
    BY <1>2, HoldReleased
  <2>3. Cardinality(InBand(b)') = Cardinality(InBand(b)) - 1 /\ Cardinality(InBand(b)) # 0
    <3>1. IsFiniteSet(InBand(b))
      BY <2>1, BandsFinite
    <3>2. Cardinality(InBand(b) \ {e}) = Cardinality(InBand(b)) - 1
      BY <2>1, <3>1, FS_RemoveElement
    <3>3. Cardinality(InBand(b)) # 0
      BY <2>1, <3>1, FS_EmptySet
    <3> QED BY <2>1, <3>2, <3>3
  <2>4. HeavyHolds' = IF b = "General" /\ e \in Heavies THEN HeavyHolds \ {e} ELSE HeavyHolds
    BY <2>1, <2>2 DEF HeavyHolds, Bands
  <2>5. CASE b = "General" /\ e \in Heavies
    <3>1. e \in HeavyHolds
      BY <2>1, <2>5 DEF HeavyHolds
    <3>2. Cardinality(HeavyHolds') = Cardinality(HeavyHolds) - 1 /\ Cardinality(HeavyHolds) # 0
      BY <2>4, <2>5, <3>1, BandsFinite, FS_RemoveElement, FS_EmptySet
    <3> QED BY <1>2, <2>2, <2>3, <2>5, <3>2, BandsFinite
            DEF ReleaseHolder, Uncount, Less, Held, CountersAreHolds, HeavyHolds, Bands
  <2>6. CASE ~(b = "General" /\ e \in Heavies)
    BY <1>2, <2>1, <2>2, <2>3, <2>4, <2>6, BandsFinite
       DEF ReleaseHolder, Uncount, Less, Held, CountersAreHolds, HeavyHolds, Bands
  <2> QED BY <2>5, <2>6
<1> QED BY <1>1, <1>2

LEMMA HeldInit == PoolInit => Held
<1>1. SUFFICES ASSUME PoolInit PROVE Held
  OBVIOUS
<1>2. \A b \in Bands : InBand(b) = {}
  BY <1>1 DEF PoolInit, InBand, Holders
<1> QED BY <1>1, <1>2, FS_EmptySet DEF PoolInit, Held, CountersAreHolds, OwnHold, Places, Bands

\* A step that leaves the holds alone.
LEMMA CountsKept ==
    ASSUME Held, UNCHANGED <<hold, band, inflightVars>>
    PROVE  CountersAreHolds'
BY DEF Held, CountersAreHolds, InBand, Holders, inflightVars

LEMMA HeldStep ==
    ASSUME Held, [PoolNext]_poolVars
    PROVE  Held'
<1>1. ASSUME NEW d \in Dispatches,
             \/ Enter(d) \/ Take(d) \/ GiveUp(d) \/ RefillFails(d) \/ Pass(d)
             \/ Deny(d) \/ Refuse(d) \/ StartsOver(d) \/ Return(d)
      PROVE  Held'
  <2>1. UNCHANGED <<hold, band, next_holder_id, over_age, inflightVars>>
    BY <1>1 DEF Enter, Take, GiveUp, RefillFails, Pass, Deny, Refuse, StartsOver, Return, holdVars
  <2>2. \E s \in Places \ {"done"} : at' = [at EXCEPT ![d] = s]
    BY <1>1 DEF Enter, Take, GiveUp, RefillFails, Pass, Deny, Refuse, StartsOver, Return,
                Moves, Places
  <2>3. OwnHold'
    BY <1>1, <2>1 DEF Enter, Take, GiveUp, RefillFails, Pass, Deny, Refuse, StartsOver, Return,
                      Moves, Held, OwnHold, Unmetered
  <2> QED BY <2>1, <2>2, <2>3, CountsKept DEF Held
<1>2. ASSUME NEW d \in Dispatches, NEW b \in Bands, at[d] = "slot", Register(d, b),
             CountersAreHolds'
      PROVE  Held'
  <2>1. /\ hold' \in [Dispatches -> Nat] /\ band' \in [Dispatches -> Bands]
        /\ next_holder_id' \in Nat /\ at' \in [Dispatches -> Places]
    BY <1>2 DEF Register, Moves, Held, Places
  <2>2. hold'[d] # 0 /\ at'[d] = "running" /\ over_age' = over_age
    BY <1>2, HoldAdded DEF Register, Moves, Held
  <2>3. \A e \in Dispatches \ {d} : hold'[e] = hold[e] /\ band'[e] = band[e] /\ at'[e] = at[e]
    BY <1>2 DEF Register, Moves, Held
  <2>4. OwnHold'
    BY <2>2, <2>3 DEF Held, OwnHold, Unmetered
  <2> QED BY <1>2, <2>1, <2>4 DEF Held
<1>3. ASSUME NEW d \in Dispatches, AdmitGeneral(d) \/ AdmitGit(d) \/ AdmitBlocking(d)
      PROVE  Held'
  <2>1. at[d] = "slot" /\ \E b \in Bands : Register(d, b)
    BY <1>3 DEF AdmitGeneral, AdmitGit, AdmitBlocking, Bands
  <2> QED BY <1>2, <1>3, <2>1, CountedOn
<1>4. ASSUME NEW d \in Dispatches, ReclaimOverAge(d)
      PROVE  Held'
  <2>1. PICK e \in Holders \cap over_age : band[e] = "General" /\ ReleaseHolder(e)
    BY <1>4 DEF ReclaimOverAge
  <2>2. e \in Dispatches /\ hold[e] # 0 /\ UNCHANGED <<at, band, next_holder_id, over_age>>
    BY <1>4, <2>1 DEF ReclaimOverAge, Holders
  <2>3. /\ hold' \in [Dispatches -> Nat] /\ hold'[e] = 0
        /\ \A f \in Dispatches \ {e} : hold'[f] = hold[f]
    BY <2>1, <2>2, HoldReleased
  <2>4. OwnHold'
    BY <2>1, <2>2, <2>3 DEF Held, OwnHold, Unmetered
  <2> QED BY <2>1, <2>2, <2>3, <2>4, CountedOff DEF Held
<1>5. ASSUME NEW d \in Dispatches, Leave(d)
      PROVE  Held'
  <2>1. /\ at[d] = "returned" /\ ReleaseHolder(d) /\ at' = [at EXCEPT ![d] = "done"]
        /\ over_age' = over_age \ {d} /\ UNCHANGED <<band, next_holder_id>>
    BY <1>5 DEF Leave, Moves
  <2>2. /\ hold' \in [Dispatches -> Nat] /\ hold'[d] = 0
        /\ \A f \in Dispatches \ {d} : hold'[f] = hold[f]
    BY <2>1, HoldReleased DEF ReleaseHolder, Held
  <2>3. OwnHold' /\ at' \in [Dispatches -> Places]
    BY <2>1, <2>2 DEF Held, OwnHold, Unmetered, Places
  <2> QED BY <2>1, <2>2, <2>3, CountedOff DEF Held
<1>6. ASSUME NEW d \in Dispatches, Age(d) \/ Expire(d)
      PROVE  Held'
  <2>1. /\ UNCHANGED <<at, hold, band, next_holder_id, inflightVars>>
        /\ over_age \subseteq over_age'
    BY <1>6 DEF Age, Expire, holdVars
  <2>2. OwnHold'
    BY <2>1 DEF Held, OwnHold, Unmetered
  <2> QED BY <2>1, <2>2, CountsKept DEF Held
<1>7. CASE UNCHANGED poolVars
  <2>1. UNCHANGED <<at, hold, band, next_holder_id, over_age, inflightVars>>
    BY <1>7 DEF poolVars, holdVars
  <2>2. OwnHold'
    BY <2>1 DEF Held, OwnHold, Unmetered
  <2> QED BY <2>1, <2>2, CountsKept DEF Held
<1> QED BY <1>1, <1>3, <1>4, <1>5, <1>6, <1>7 DEF PoolNext, ThreadStep

LEMMA HeldInvariant == PoolSpec => []Held
<1>1. Held /\ [PoolNext]_poolVars => Held'
  BY HeldStep
<1> QED BY HeldInit, <1>1, PTL DEF PoolSpec

\* The counters are exact: whichever way a hold ends, it is counted off once.
THEOREM CountersExact == PoolSpec => []CountersAreHolds
<1>1. Held => CountersAreHolds
  BY DEF Held
<1> QED BY <1>1, HeldInvariant, PTL

\* What runs is counted, unless it was over age in the general band, and nothing
\* else is.
THEOREM AdmissionsAreOwn == PoolSpec => []OwnHold
<1>1. Held => OwnHold
  BY DEF Held
<1> QED BY <1>1, HeldInvariant, PTL

\* Together: the admission of the pool is sound for any number of dispatches.
THEOREM AdmissionsAreSound == PoolSpec => []AdmissionSound
<1>1. CountersAreHolds /\ OwnHold => AdmissionSound
  BY DEF AdmissionSound
<1> QED BY <1>1, CountersExact, AdmissionsAreOwn, PTL

----
(* The queues of tickets.                                                  *)

\* A queue of tickets, as the facts about sequences give it.
LEMMA QueueFacts ==
    ASSUME NEW W, NEW q, TicketsOf(q, W)
    PROVE  /\ q \in Seq(W \cup {Gone}) /\ Len(q) \in Nat /\ DOMAIN q = 1 .. Len(q)
           /\ \A i \in 1 .. Len(q) : q[i] \in W \cup {Gone}
<1>1. q \in Seq(W \cup {Gone})
  BY DEF TicketsOf
<1> QED BY <1>1, LenProperties

\* What is left when the tickets before k are dropped, and nobody waits for them any more.
LEMMA DropTickets ==
    ASSUME NEW W, Gone \notin W, NEW q, TicketsOf(q, W), NEW V \in SUBSET W,
           NEW k \in 1 .. Len(q) + 1,
           \A j \in 1 .. k - 1 : q[j] \notin V,
           \A j \in k .. Len(q) : q[j] \in V \cup {Gone}
    PROVE  TicketsOf(SubSeq(q, k, Len(q)), V)
<1> DEFINE s == SubSeq(q, k, Len(q))
           n == Len(q) - k + 1
<1>1. Len(q) \in Nat /\ DOMAIN q = 1 .. Len(q) /\ k \in Nat
  BY QueueFacts
<1>2. n \in Nat /\ k + n - 1 = Len(q)
  BY <1>1
<1>3. /\ s \in Seq(V \cup {Gone}) /\ Len(s) = n
      /\ \A i \in 1 .. n : s[i] = q[k + i - 1]
  <2>1. /\ s \in Seq(V \cup {Gone})
        /\ Len(s) = IF k <= Len(q) THEN n ELSE 0
        /\ \A i \in 1 .. n : s[i] = q[k + i - 1]
    BY <1>1, SubSeqProperties
  <2> QED BY <1>1, <2>1
<1>4. DOMAIN s = 1 .. n
  BY <1>3, LenProperties
<1> HIDE DEF s
<1>5. ASSUME NEW d \in V
      PROVE  \E i \in DOMAIN s : s[i] = d /\ \A j \in DOMAIN s : s[j] = d => j = i
  <2>1. PICK i \in 1 .. Len(q) : q[i] = d /\ \A j \in 1 .. Len(q) : q[j] = d => j = i
    BY <1>1 DEF TicketsOf
  <2>2. i >= k
    BY <1>1, <2>1
  <2> DEFINE m == i - k + 1
  <2>3. m \in 1 .. n /\ s[m] = d
    BY <1>1, <1>3, <2>1, <2>2
  <2>4. ASSUME NEW j \in 1 .. n, s[j] = d PROVE j = m
    <3>1. q[k + j - 1] = d /\ k + j - 1 \in 1 .. Len(q)
      BY <1>1, <1>3, <2>4
    <3>2. k + j - 1 = i
      BY <2>1, <3>1
    <3> QED BY <1>1, <3>2
  <2> QED BY <1>4, <2>3, <2>4
<1> QED BY <1>3, <1>5 DEF TicketsOf, s

LEMMA LeastOfNat ==
    ASSUME NEW T, T \subseteq Nat, T # {}
    PROVE  \E i \in T : \A j \in T : i <= j
<1> DEFINE R == OpToRel(<, Nat)
<1>1. PICK i \in T : \A j \in T : ~(<<j, i>> \in R)
  BY NatLessThanWellFounded, WFMin
<1>2. R = {ss \in Nat \X Nat : ss[1] < ss[2]}
  BY DEF OpToRel
<1> HIDE DEF R
<1>3. ASSUME NEW j \in T PROVE i <= j
  <2>1. i \in Nat /\ j \in Nat
    OBVIOUS
  <2>2. <<j, i>> \in Nat \X Nat /\ <<j, i>>[1] = j /\ <<j, i>>[2] = i
    BY <2>1
  <2>3. ~(j < i)
    BY <1>1, <1>2, <2>2
  <2> QED BY <2>1, <2>3
<1> QED BY <1>3

\* skip_abandoned drops tickets that are given up, and stops at the first of one that waits.
LEMMA SkipKeeps ==
    ASSUME NEW W, Gone \notin W, NEW q, TicketsOf(q, W)
    PROVE  TicketsOf(Skip(q), W) /\ (W # {} => Skip(q) # <<>>)
<1> DEFINE live == {i \in DOMAIN q : q[i] # Gone}
           first == CHOOSE i \in live : \A j \in live : i <= j
<1>1. /\ q \in Seq(W \cup {Gone}) /\ Len(q) \in Nat /\ DOMAIN q = 1 .. Len(q)
      /\ \A i \in 1 .. Len(q) : q[i] \in W \cup {Gone}
  BY QueueFacts
<1>2. CASE live = {}
  <2>1. Skip(q) = <<>>
    BY <1>2 DEF Skip
  <2>2. W = {}
    BY <1>2 DEF TicketsOf
  <2> QED BY <2>1, <2>2, EmptySeq DEF TicketsOf
<1>3. CASE live # {}
  <2>1. live \subseteq Nat
    BY <1>1
  <2>2. \E i \in live : \A j \in live : i <= j
    BY <1>3, <2>1, LeastOfNat
  <2>3. first \in live /\ \A j \in live : first <= j
    BY <2>2
  <2>4. Skip(q) = SubSeq(q, first, Len(q))
    BY <1>3 DEF Skip
  <2> HIDE DEF first
  <2>5. first \in 1 .. Len(q) /\ \A j \in 1 .. first - 1 : q[j] = Gone
    BY <1>1, <2>3
  <2>6. TicketsOf(SubSeq(q, first, Len(q)), W)
    <3>1. \A j \in 1 .. first - 1 : q[j] \notin W
      BY <2>5
    <3>2. \A j \in first .. Len(q) : q[j] \in W \cup {Gone}
      BY <1>1, <2>5
    <3> QED BY <1>1, <2>5, <3>1, <3>2, DropTickets
  <2>7. Skip(q) # <<>>
    <3>1. Len(SubSeq(q, first, Len(q))) = Len(q) - first + 1
      <4>1. \A i \in first .. Len(q) : q[i] \in W \cup {Gone}
        BY <1>1, <2>5
      <4> QED BY <1>1, <2>5, <4>1, SubSeqProperties
    <3>2. Len(SubSeq(q, first, Len(q))) # 0
      BY <1>1, <2>5, <3>1
    <3> QED BY <2>4, <3>2, EmptySeq
  <2> QED BY <2>4, <2>6, <2>7
<1> QED BY <1>2, <1>3

\* The first ticket is taken: the others wait on.
LEMMA TailKeeps ==
    ASSUME NEW W, Gone \notin W, NEW q, TicketsOf(q, W), NEW d \in W, q # <<>>, Head(q) = d
    PROVE  TicketsOf(Tail(q), W \ {d})
<1>1. /\ q \in Seq(W \cup {Gone}) /\ Len(q) \in Nat /\ DOMAIN q = 1 .. Len(q)
      /\ \A i \in 1 .. Len(q) : q[i] \in W \cup {Gone}
  BY QueueFacts
<1>2. Len(q) >= 1 /\ q[1] = d
  BY <1>1, EmptySeq
<1>3. \A j \in 2 .. Len(q) : q[j] # d
  <2>1. PICK i \in 1 .. Len(q) : \A j \in 1 .. Len(q) : q[j] = d => j = i
    BY <1>1 DEF TicketsOf
  <2> QED BY <1>1, <1>2, <2>1
<1>4. Tail(q) = SubSeq(q, 2, Len(q))
  BY <1>1, TailIsSubSeq
<1>5. /\ \A j \in 1 .. 2 - 1 : q[j] \notin W \ {d}
      /\ \A j \in 2 .. Len(q) : q[j] \in (W \ {d}) \cup {Gone}
  BY <1>1, <1>2, <1>3
<1>6. 2 \in 1 .. Len(q) + 1
  BY <1>1, <1>2
<1> DEFINE V == W \ {d}
<1>7. V \in SUBSET W /\ \A j \in 1 .. 2 - 1 : q[j] \notin V
  BY <1>5
<1>8. \A j \in 2 .. Len(q) : q[j] \in V \cup {Gone}
  BY <1>5
<1> HIDE DEF V
<1>9. TicketsOf(SubSeq(q, 2, Len(q)), V)
  BY <1>6, <1>7, <1>8, DropTickets
<1> QED BY <1>4, <1>9 DEF V

\* ClassTicketQueue::abandon drops the ticket, or marks it.
LEMMA AbandonKeeps ==
    ASSUME NEW W, Gone \notin W, NEW q, TicketsOf(q, W), NEW d \in W
    PROVE  TicketsOf(Abandon(q, d), W \ {d})
<1>1. /\ q \in Seq(W \cup {Gone}) /\ Len(q) \in Nat /\ DOMAIN q = 1 .. Len(q)
      /\ \A i \in 1 .. Len(q) : q[i] \in W \cup {Gone}
  BY QueueFacts
<1>2. q # <<>>
  BY <1>1, EmptySeq DEF TicketsOf
<1>3. CASE Head(q) = d
  <2>1. TicketsOf(Tail(q), W \ {d})
    BY <1>2, <1>3, TailKeeps
  <2> QED BY <1>3, <2>1, SkipKeeps DEF Abandon
<1>4. CASE Head(q) # d
  <2> DEFINE s == [i \in DOMAIN q |-> IF q[i] = d THEN Gone ELSE q[i]]
  <2>1. DOMAIN s = DOMAIN q /\ \A i \in DOMAIN q : s[i] = IF q[i] = d THEN Gone ELSE q[i]
    OBVIOUS
  <2>2. s \in [1 .. Len(q) -> (W \ {d}) \cup {Gone}]
    BY <1>1
  <2>3. s \in Seq((W \ {d}) \cup {Gone})
    BY <1>1, <2>2, SeqDef
  <2> HIDE DEF s
  <2>4. ASSUME NEW e \in W \ {d}
        PROVE  \E i \in DOMAIN s : s[i] = e /\ \A j \in DOMAIN s : s[j] = e => j = i
    <3>1. PICK i \in DOMAIN q : q[i] = e /\ \A j \in DOMAIN q : q[j] = e => j = i
      BY DEF TicketsOf
    <3> QED BY <2>1, <2>4, <3>1
  <2>5. TicketsOf(s, W \ {d})
    BY <2>3, <2>4 DEF TicketsOf
  <2> QED BY <1>4, <2>5 DEF Abandon, s
<1> QED BY <1>3, <1>4

\* A ticket is drawn at the end.
LEMMA AppendKeeps ==
    ASSUME NEW W, NEW q, TicketsOf(q, W), NEW d, d \notin W, d # Gone
    PROVE  TicketsOf(Append(q, d), W \cup {d})
<1> DEFINE S == (W \cup {d}) \cup {Gone}
           s == Append(q, d)
<1>1. /\ Len(q) \in Nat /\ DOMAIN q = 1 .. Len(q)
      /\ \A i \in 1 .. Len(q) : q[i] \in W \cup {Gone}
  BY QueueFacts
<1>2. q \in Seq(S) /\ d \in S
  <2>1. q \in Seq(W \cup {Gone})
    BY QueueFacts
  <2> QED BY <2>1, SeqMonotonic
<1>3. /\ s \in Seq(S) /\ Len(s) = Len(q) + 1
      /\ \A i \in 1 .. Len(q) : s[i] = q[i]
      /\ s[Len(q) + 1] = d
  BY <1>2, AppendProperties
<1>4. DOMAIN s = 1 .. Len(q) + 1
  BY <1>3, LenProperties
<1> HIDE DEF s
<1>5. ASSUME NEW e \in W
      PROVE  \E i \in DOMAIN s : s[i] = e /\ \A j \in DOMAIN s : s[j] = e => j = i
  <2>1. PICK i \in 1 .. Len(q) : q[i] = e /\ \A j \in 1 .. Len(q) : q[j] = e => j = i
    BY <1>1 DEF TicketsOf
  <2>2. i \in DOMAIN s /\ s[i] = e
    BY <1>1, <1>3, <1>4, <2>1
  <2>3. ASSUME NEW j \in DOMAIN s, s[j] = e PROVE j = i
    <3>1. j \in 1 .. Len(q)
      BY <1>1, <1>3, <1>4, <2>3
    <3> QED BY <1>3, <2>1, <2>3, <3>1
  <2> QED BY <2>2, <2>3
<1>6. \E i \in DOMAIN s : s[i] = d /\ \A j \in DOMAIN s : s[j] = d => j = i
  <2>1. Len(q) + 1 \in DOMAIN s
    BY <1>1, <1>4
  <2>2. ASSUME NEW j \in DOMAIN s, s[j] = d PROVE j = Len(q) + 1
    <3>1. ASSUME j \in 1 .. Len(q) PROVE FALSE
      BY <1>1, <1>3, <2>2, <3>1
    <3> QED BY <1>1, <1>4, <3>1
  <2> QED BY <1>3, <2>1, <2>2
<1> QED BY <1>3, <1>5, <1>6 DEF TicketsOf, s

TicketsInv ==
    /\ Held
    /\ queue \in [Classes -> Seq(Dispatches \cup {Gone})]
    /\ TicketsAreWaiters

\* The step of one dispatch through the queue of its class leaves the other queues alone.
LEMMA OneQueueSteps ==
    ASSUME TicketsInv, NEW d \in Dispatches, NEW q, NEW V,
           queue' = [queue EXCEPT ![Class(d)] = q],
           \A c \in Classes \ {Class(d)} : Queued(c)' = Queued(c),
           Queued(Class(d))' = V, TicketsOf(q, V)
    PROVE  queue' \in [Classes -> Seq(Dispatches \cup {Gone})] /\ TicketsAreWaiters'
<1>1. Class(d) \in Classes
  BY DEF Class, Classes
<1>2. /\ queue'[Class(d)] = q
      /\ \A c \in Classes \ {Class(d)} : queue'[c] = queue[c]
  BY <1>1 DEF TicketsInv
<1>3. q \in Seq(Dispatches \cup {Gone})
  <2>1. V \subseteq Dispatches
    BY DEF Queued
  <2>2. q \in Seq(V \cup {Gone}) /\ V \cup {Gone} \subseteq Dispatches \cup {Gone}
    BY <2>1 DEF TicketsOf
  <2> QED BY <2>2, SeqMonotonic
<1>4. queue' \in [Classes -> Seq(Dispatches \cup {Gone})]
  BY <1>1, <1>3 DEF TicketsInv
<1>5. ASSUME NEW c \in Classes PROVE TicketsOf(queue'[c], Queued(c)')
  BY <1>2 DEF TicketsInv, TicketsAreWaiters
<1> QED BY <1>4, <1>5 DEF TicketsAreWaiters

LEMMA TicketsStep ==
    ASSUME TicketsInv, [PoolNext]_poolVars
    PROVE  TicketsInv'
<1>1. /\ Held' /\ at \in [Dispatches -> Places] /\ Gone \notin Dispatches
      /\ \A c \in Classes : TicketsOf(queue[c], Queued(c)) /\ Gone \notin Queued(c)
  BY HeldStep, DispatchesAssumption DEF TicketsInv, TicketsAreWaiters, Held, Queued
<1>2. ASSUME UNCHANGED queue,
             UNCHANGED at \/ \E d \in Dispatches, s \in Places \ {"queued"} :
                                at[d] # "queued" /\ at' = [at EXCEPT ![d] = s]
      PROVE  TicketsInv'
  <2>1. \A c \in Classes : Queued(c)' = Queued(c)
    BY <1>1, <1>2 DEF Queued
  <2> QED BY <1>1, <1>2, <2>1 DEF TicketsInv, TicketsAreWaiters
<1>3. ASSUME NEW d \in Dispatches, Enter(d) PROVE TicketsInv'
  <2> DEFINE W == Queued(Class(d))
  <2>1. /\ at[d] = "new" /\ at' = [at EXCEPT ![d] = "queued"]
        /\ queue' = [queue EXCEPT ![Class(d)] = Append(queue[Class(d)], d)]
    BY <1>3 DEF Enter, Moves
  <2>2. Class(d) \in Classes
    BY DEF Class, Classes
  <2>3. /\ d \notin W /\ d # Gone /\ Queued(Class(d))' = W \cup {d}
        /\ \A c \in Classes \ {Class(d)} : Queued(c)' = Queued(c)
    BY <1>1, <2>1 DEF Queued
  <2> HIDE DEF W
  <2>4. TicketsOf(queue[Class(d)], W)
    BY <1>1, <2>2 DEF W
  <2>5. TicketsOf(Append(queue[Class(d)], d), W \cup {d})
    BY <2>3, <2>4, AppendKeeps
  <2> QED BY <1>1, <2>1, <2>3, <2>5, OneQueueSteps DEF TicketsInv
\* A dispatch leaves the queue.
<1>4. ASSUME NEW d \in Dispatches, NEW s \in Places \ {"queued"},
             at[d] = "queued", at' = [at EXCEPT ![d] = s]
      PROVE  /\ d \in Queued(Class(d)) /\ Class(d) \in Classes
             /\ Queued(Class(d))' = Queued(Class(d)) \ {d}
             /\ \A c \in Classes \ {Class(d)} : Queued(c)' = Queued(c)
  BY <1>1, <1>4 DEF Queued, Class, Classes
<1>5. ASSUME NEW d \in Dispatches, Take(d) PROVE TicketsInv'
  <2> DEFINE W == Queued(Class(d))
             q == Skip(queue[Class(d)])
  <2>1. /\ at[d] = "queued" /\ at' = [at EXCEPT ![d] = "slot"] /\ Head(q) = d
        /\ queue' = [queue EXCEPT ![Class(d)] = Tail(q)]
    BY <1>5 DEF Take, Moves
  <2>2. /\ d \in W /\ Class(d) \in Classes /\ Queued(Class(d))' = W \ {d}
        /\ \A c \in Classes \ {Class(d)} : Queued(c)' = Queued(c)
    BY <1>4, <2>1 DEF Places
  <2>3. TicketsOf(queue[Class(d)], W) /\ Gone \notin W
    BY <1>1, <2>2
  <2> HIDE DEF W
  <2>4. TicketsOf(q, W) /\ q # <<>>
    BY <2>2, <2>3, SkipKeeps
  <2> HIDE DEF q
  <2>5. TicketsOf(Tail(q), W \ {d})
    BY <2>1, <2>2, <2>3, <2>4, TailKeeps
  <2> QED BY <1>1, <2>1, <2>2, <2>5, OneQueueSteps DEF TicketsInv
<1>6. ASSUME NEW d \in Dispatches, GiveUp(d) PROVE TicketsInv'
  <2> DEFINE W == Queued(Class(d))
  <2>1. /\ at[d] = "queued" /\ at' = [at EXCEPT ![d] = "refused"]
        /\ queue' = [queue EXCEPT ![Class(d)] = Abandon(queue[Class(d)], d)]
    BY <1>6 DEF GiveUp, Moves
  <2>2. /\ d \in W /\ Class(d) \in Classes /\ Queued(Class(d))' = W \ {d}
        /\ \A c \in Classes \ {Class(d)} : Queued(c)' = Queued(c)
    BY <1>4, <2>1 DEF Places
  <2>3. TicketsOf(queue[Class(d)], W) /\ Gone \notin W
    BY <1>1, <2>2
  <2> HIDE DEF W
  <2>4. TicketsOf(Abandon(queue[Class(d)], d), W \ {d})
    BY <2>2, <2>3, AbandonKeeps
  <2> QED BY <1>1, <2>1, <2>2, <2>4, OneQueueSteps DEF TicketsInv
<1>7. ASSUME NEW d \in Dispatches,
             \/ RefillFails(d) \/ Pass(d) \/ Deny(d) \/ Refuse(d) \/ StartsOver(d)
             \/ Return(d) \/ Leave(d) \/ AdmitGeneral(d) \/ AdmitGit(d) \/ AdmitBlocking(d)
      PROVE  TicketsInv'
  <2>1. UNCHANGED queue
    BY <1>7 DEF RefillFails, Pass, Deny, Refuse, StartsOver, Return, Leave, AdmitGeneral,
       AdmitGit, AdmitBlocking, Register
  <2>2. at[d] # "queued" /\ \E s \in Places \ {"queued"} : at' = [at EXCEPT ![d] = s]
    BY <1>7 DEF RefillFails, Pass, Deny, Refuse, StartsOver, Return, Leave, AdmitGeneral,
       AdmitGit, AdmitBlocking, Register, Moves, Places
  <2> QED BY <1>2, <2>1, <2>2
<1>8. ASSUME NEW d \in Dispatches, ReclaimOverAge(d) \/ Age(d) \/ Expire(d) PROVE TicketsInv'
  BY <1>2, <1>8 DEF ReclaimOverAge, Age, Expire
<1>9. CASE UNCHANGED poolVars
  BY <1>2, <1>9 DEF poolVars
<1> QED BY <1>3, <1>5, <1>6, <1>7, <1>8, <1>9 DEF PoolNext, ThreadStep

LEMMA TicketsInvHolds == PoolSpec => []TicketsInv
<1>1. PoolInit => TicketsInv
  <2> SUFFICES ASSUME PoolInit PROVE TicketsInv
    OBVIOUS
  <2>1. \A c \in Classes : Queued(c) = {} /\ queue[c] = <<>>
    BY DEF PoolInit, Queued
  <2>2. \A c \in Classes : TicketsOf(queue[c], Queued(c))
    BY <2>1, EmptySeq DEF TicketsOf
  <2>3. queue \in [Classes -> Seq(Dispatches \cup {Gone})]
    BY EmptySeq DEF PoolInit
  <2> QED BY <2>2, <2>3, HeldInit DEF TicketsInv, TicketsAreWaiters
<1> QED BY <1>1, TicketsStep, PTL DEF PoolSpec

\* However many dispatches wait, give up or come back, no ticket is lost, and none is left
\* behind (ClassTicketQueue, acquire_slot_until).
THEOREM TicketsAreKept == PoolSpec => []TicketsAreWaiters
<1>1. TicketsInv => TicketsAreWaiters
  BY DEF TicketsInv
<1> QED BY <1>1, TicketsInvHolds, PTL

\* Together: the pool is sound, both its admission and the order of those that wait for it, for
\* any number of dispatches, slots and limits (acquire_slot_until, admit_verb_within_lane).
THEOREM PoolIsSound == PoolSpec => []PoolSound
<1>1. AdmissionSound /\ TicketsAreWaiters => PoolSound
  BY DEF PoolSound
<1> QED BY <1>1, AdmissionsAreSound, TicketsAreKept, PTL

----
(* The types and the limits of the pool.                                   *)

LEMMA LimitsType ==
    NonShortLimit \in Nat /\ HeavyLimit \in Nat /\ GitBandLimit \in Nat /\ BlockingLimit \in Nat
<1>1. Size \in Nat /\ MaxHeavy \in Nat /\ 0 < Size
  BY SizeAssumption
<1>2. \A n \in Int : AtLeastOne(n) \in Nat
  BY DEF AtLeastOne
<1>3. Size \div 4 \in Int
  BY <1>1
<1>4. Reserved \in Nat
  BY <1>2, <1>3 DEF Reserved
<1>5. NonShortLimit \in Nat /\ GitBandLimit \in Nat /\ BlockingLimit \in Nat
  BY <1>1, <1>2, <1>4 DEF NonShortLimit, GitBandLimit, BlockingLimit
<1>6. \A m \in Int, n \in Int : Least(m, n) \in Int
  BY DEF Least
<1>7. Least(NonShortLimit - 1, Least(Size - 1, MaxHeavy)) \in Int
  <2>1. NonShortLimit - 1 \in Int /\ Size - 1 \in Int /\ MaxHeavy \in Int
    BY <1>1, <1>5
  <2>2. Least(Size - 1, MaxHeavy) \in Int
    BY <1>6, <2>1
  <2> QED BY <1>6, <2>1, <2>2
<1>8. HeavyLimit \in Nat
  BY <1>2, <1>7 DEF HeavyLimit
<1> QED BY <1>5, <1>8

\* A release leaves every counter within its limit.
LEMMA ReleaseTypes ==
    ASSUME PoolTypeOK, NEW d \in Dispatches, ReleaseHolder(d)
    PROVE  /\ hold' \in [Dispatches -> 0 .. next_holder_id]
           /\ non_short_inflight' \in 0 .. NonShortLimit /\ heavy_inflight' \in 0 .. HeavyLimit
           /\ git_band_inflight' \in 0 .. GitBandLimit
           /\ blocking_inflight' \in 0 .. BlockingLimit
<1>1. CASE hold[d] = 0
  BY <1>1 DEF PoolTypeOK, ReleaseHolder, inflightVars
<1>2. CASE hold[d] # 0
  <2>1. hold' = [hold EXCEPT ![d] = 0] /\ Uncount(d)
    BY <1>2 DEF ReleaseHolder
  <2>2. hold' \in [Dispatches -> 0 .. next_holder_id]
    BY <2>1 DEF PoolTypeOK
  <2>3. \A m \in Nat : \A n \in 0 .. m : Less(n) \in 0 .. m
    BY DEF Less
  <2> QED BY <2>1, <2>2, <2>3, LimitsType DEF PoolTypeOK, Uncount
<1> QED BY <1>1, <1>2

LEMMA PoolTypeStep ==
    ASSUME PoolTypeOK, TicketsInv, [PoolNext]_poolVars
    PROVE  PoolTypeOK'
<1> USE DEF PoolTypeOK
<1>1. /\ at' \in [Dispatches -> Places] /\ band' \in [Dispatches -> Bands]
      /\ next_holder_id' \in Nat
      /\ queue' \in [Classes -> Seq(Dispatches \cup {Gone})]
  BY TicketsStep DEF TicketsInv, Held
<1>2. ASSUME NEW d \in Dispatches, NEW s, Moves(d, s) PROVE overdue' \subseteq Dispatches
  BY <1>2 DEF Moves
<1>3. ASSUME NEW d \in Dispatches,
             \/ Enter(d) \/ Take(d) \/ GiveUp(d) \/ RefillFails(d) \/ Pass(d)
             \/ Deny(d) \/ Refuse(d) \/ StartsOver(d) \/ Return(d)
      PROVE  PoolTypeOK'
  <2>1. UNCHANGED <<hold, next_holder_id, over_age, inflightVars>>
    BY <1>3 DEF Enter, Take, GiveUp, RefillFails, Pass, Deny, Refuse, StartsOver, Return, holdVars
  <2>2. \E s \in Places : Moves(d, s)
    BY <1>3 DEF Enter, Take, GiveUp, RefillFails, Pass, Deny, Refuse, StartsOver, Return, Places
  <2> QED BY <1>1, <1>2, <2>1, <2>2 DEF inflightVars
<1>4. ASSUME NEW d \in Dispatches, NEW b, Register(d, b)
      PROVE  /\ hold' \in [Dispatches -> 0 .. next_holder_id']
             /\ over_age' \subseteq Dispatches /\ overdue' \subseteq Dispatches
  <2>1. /\ hold' = [hold EXCEPT ![d] = next_holder_id + 1] /\ over_age' = over_age
        /\ next_holder_id' = next_holder_id + 1 /\ Moves(d, "running")
    BY <1>4 DEF Register
  <2>2. next_holder_id + 1 \in 0 .. next_holder_id'
        /\ 0 .. next_holder_id \subseteq 0 .. next_holder_id'
    BY <2>1
  <2>3. \A e \in Dispatches : hold'[e] \in 0 .. next_holder_id'
    BY <2>1, <2>2
  <2>4. hold' \in [Dispatches -> 0 .. next_holder_id']
    BY <2>1, <2>3
  <2> QED BY <1>2, <2>1, <2>4
<1>5. ASSUME NEW d \in Dispatches, AdmitGeneral(d) PROVE PoolTypeOK'
  <2>1. non_short_inflight' \in 0 .. NonShortLimit
    BY <1>5, LimitsType DEF AdmitGeneral, RoomInGeneral
  <2>2. heavy_inflight' \in 0 .. HeavyLimit
    BY <1>5, LimitsType DEF AdmitGeneral, RoomInGeneral
  <2> QED BY <1>1, <1>4, <1>5, <2>1, <2>2 DEF AdmitGeneral
<1>6. ASSUME NEW d \in Dispatches, AdmitGit(d) PROVE PoolTypeOK'
  <2>1. git_band_inflight' \in 0 .. GitBandLimit
    BY <1>6, LimitsType DEF AdmitGit, RoomInGitBand
  <2> QED BY <1>1, <1>4, <1>6, <2>1 DEF AdmitGit
<1>7. ASSUME NEW d \in Dispatches, AdmitBlocking(d) PROVE PoolTypeOK'
  <2>1. blocking_inflight' \in 0 .. BlockingLimit
    BY <1>7, LimitsType DEF AdmitBlocking
  <2> QED BY <1>1, <1>4, <1>7, <2>1 DEF AdmitBlocking
<1>8. ASSUME NEW d \in Dispatches, ReclaimOverAge(d) PROVE PoolTypeOK'
  <2>1. \E e \in Dispatches : ReleaseHolder(e)
    BY <1>8 DEF ReclaimOverAge, Holders
  <2>2. UNCHANGED <<next_holder_id, over_age, overdue>>
    BY <1>8 DEF ReclaimOverAge
  <2> QED BY <1>1, <2>1, <2>2, ReleaseTypes
<1>9. ASSUME NEW d \in Dispatches, Leave(d) PROVE PoolTypeOK'
  <2>1. ReleaseHolder(d) /\ Moves(d, "done") /\ over_age' = over_age \ {d}
        /\ UNCHANGED next_holder_id
    BY <1>9 DEF Leave
  <2> QED BY <1>1, <1>2, <2>1, ReleaseTypes
<1>10. ASSUME NEW d \in Dispatches, Age(d) \/ Expire(d) PROVE PoolTypeOK'
  <2>1. UNCHANGED <<hold, next_holder_id, inflightVars>>
        /\ over_age' \subseteq Dispatches /\ overdue' \subseteq Dispatches
    BY <1>10 DEF Age, Expire, holdVars, Holders
  <2> QED BY <1>1, <2>1 DEF inflightVars
<1>11. CASE UNCHANGED poolVars
  BY <1>11 DEF poolVars, holdVars, inflightVars
<1> QED
  BY <1>3, <1>5, <1>6, <1>7, <1>8, <1>9, <1>10, <1>11 DEF PoolNext, ThreadStep

\* The pool has its types, for any number of dispatches and slots: no band admits more than
\* its limit, a hold has an id that was given out, and a queue holds tickets only
\* (admit_verb_within_lane, admit_blocking_within, release_holder).
THEOREM PoolTypeCorrect == PoolSpec => []PoolTypeOK
<1>1. PoolInit => PoolTypeOK
  BY LimitsType, EmptySeq DEF PoolInit, PoolTypeOK, Places, Bands
<1>2. PoolTypeOK /\ TicketsInv /\ [PoolNext]_poolVars => PoolTypeOK'
  BY PoolTypeStep
<1> QED BY <1>1, <1>2, TicketsInvHolds, PTL DEF PoolSpec

----
(* The shape of a state: what each place of the main loop, of a recompile   *)
(* thread and of a dispatch says of the other variables.                    *)

ThreadShape ==
    \A t \in Threads :
        /\ thread[t].pc \in {"load", "write", "done"} => thread[t].hash \in Hashes
        /\ thread[t].pc \in {"write", "done"} => thread[t].bytes \in Hashes

MainShape ==
    /\ main \in {"compile", "sweep", "owe", "swap"} => installing # None
    /\ main \in {"sweep", "owe"} => loaded # None /\ installing.hash # loaded.hash
    /\ main = "compile" => loaded = None
    /\ main = "note" => loaded # None

\* The busy slots that the sweep has met are among those it has visited.
SweepShape ==
    /\ main \notin {"sweep", "owe"} => deferred = 0
    /\ main = "sweep" => deferred + Cardinality(unswept) <= Cardinality(Slots)
    /\ main = "owe" => unswept = {}
    /\ main = "swap" /\ loaded # None /\ installing.hash # loaded.hash => unswept = {}

\* A store that is in use is there, and a dispatch brings the module to refill it with.
UserShape ==
    /\ \A u \in Users : user[u].pc \in {"run", "retry"} =>
          /\ user[u].slot \in Slots
          /\ holder[user[u].slot] = u
          /\ slot[user[u].slot] # None
    /\ \A d \in Dispatchers : user[d].pc \in {"acquire", "run", "retry"} => user[d].local # None
    /\ \A c \in Callers : user[c].pc = "fill" => user[c].local # None

\* Before the first load there is no store, and nothing to make one from.
BeforeLoad ==
    loaded = None =>
        /\ source = None
        /\ \A s \in Slots : slot[s] = None
        /\ \A u \in Users : user[u].pc \in {"idle", "ensure", "again"}
        /\ \A h \in Hashes : owed[h] = 0

\* As long as bytes are current, no eviction is owed to them, up to the write at the end
\* of a sweep.
NothingOwed ==
    main \in {"scan", "stat", "hash", "publish", "sweep", "owe"} /\ loaded # None
        => owed[loaded.hash] = 0

Shape ==
    /\ TypeOK
    /\ ThreadShape /\ MainShape /\ SweepShape /\ UserShape /\ BeforeLoad /\ NothingOwed

----
(* The bytes.                                                              *)

Genuine(m) == m.bytes = m.hash \/ m.hash \in mixed

NoneOrGenuine(m) == m = None \/ Genuine(m)

BytesInv ==
    /\ NoneOrGenuine(loaded) /\ NoneOrGenuine(installing) /\ NoneOrGenuine(source) /\ NoneOrGenuine(remembered)
    /\ \A s \in Slots : NoneOrGenuine(slot[s])
    /\ \A u \in Users : NoneOrGenuine(user[u].local)
    /\ \A t \in Threads : thread[t].pc \in {"write", "done"} => Genuine(thread[t])
    /\ \A h \in Hashes : artifacts[h] \in {None, h} \/ h \in mixed

----
(* The evictions owed.                                                     *)

\* The bytes that are being swapped out count as retired in the slots the sweep has passed.
Retiring(h) ==
    \/ h # loaded.hash
    \/ main \in {"sweep", "owe", "swap"} /\ installing.hash # loaded.hash

Left(h) == {s \in Slots : Holds(s, h) /\ (h = loaded.hash => s \notin unswept)}

Due(h) == owed[h] + late[h] + IF h = loaded.hash THEN deferred ELSE 0

OwedInv ==
    loaded # None => \A h \in Hashes : Retiring(h) => Cardinality(Left(h)) <= Due(h)

Inv == Shape /\ BytesInv /\ OwedInv

LEMMA SlotsCount ==
    /\ IsFiniteSet(Slots) /\ Cardinality(Slots) \in Nat
    /\ \A S \in SUBSET Slots : /\ IsFiniteSet(S) /\ Cardinality(S) \in Nat
                               /\ Cardinality(S) <= Cardinality(Slots)
BY HotReloadAssumption, FS_CardinalityType, FS_Subset

\* A count per hash.
LEMMA CountsKeep ==
    ASSUME NEW f \in [Hashes -> 0..Cardinality(Slots)], NEW h, NEW n,
           h \in Hashes => n \in 0..Cardinality(Slots)
    PROVE  [f EXCEPT ![h] = n] \in [Hashes -> 0..Cardinality(Slots)]
OBVIOUS

LEMMA NoneIsApart ==
    /\ None \notin Hashes /\ None \notin Slots /\ None \notin Users /\ None \notin Threads
    /\ None \notin Module
BY HotReloadAssumption

----
(* The types.                                                              *)

\* A refill keeps the types of what it changes.
LEMMA FillTypes ==
    ASSUME TypeOK, NEW s \in Slots, NEW m \in Source, Fill(s, m)
    PROVE  /\ slot' \in [Slots -> Source] /\ remembered' \in Source
           /\ late' \in [Hashes -> 0..Cardinality(Slots)]
<1> DEFINE N == Cardinality(Slots)
           n == IF Retired(s, m.hash) /\ late[m.hash] < N THEN late[m.hash] + 1
                ELSE late[m.hash]
<1>1. N \in Nat /\ late \in [Hashes -> 0..N]
  BY SlotsCount DEF TypeOK
<1>2. slot' = [slot EXCEPT ![s] = m] /\ remembered' = m /\ late' = [late EXCEPT ![m.hash] = n]
  BY DEF Fill, Counted
<1>3. m.hash \in Hashes => n \in 0..N
  BY <1>1
<1>4. late' \in [Hashes -> 0..N]
  BY <1>1, <1>2, <1>3, CountsKeep
<1> QED BY <1>2, <1>4 DEF TypeOK

LEMMA ReloadTypes == ASSUME TypeOK, NEW m \in Source PROVE ReloadEntry(m) \in Source
BY DEF TypeOK, ReloadEntry

LEMMA ConsumedTypes ==
    ASSUME TypeOK, NEW h
    PROVE  Consumed(h) \in [Hashes -> 0..Cardinality(Slots)]
<1> DEFINE N == Cardinality(Slots)
           n == IF owed[h] = 0 THEN 0 ELSE owed[h] - 1
<1>1. N \in Nat /\ owed \in [Hashes -> 0..N] /\ Consumed(h) = [owed EXCEPT ![h] = n]
  BY SlotsCount DEF TypeOK, Consumed
<1>2. h \in Hashes => n \in 0..N
  BY <1>1
<1> QED BY <1>1, <1>2, CountsKeep

LEMMA EvictTypes ==
    ASSUME TypeOK, NEW s \in Slots, EvictIfPending(s)
    PROVE  slot' \in [Slots -> Source] /\ owed' \in [Hashes -> 0..Cardinality(Slots)]
BY ConsumedTypes DEF TypeOK, EvictIfPending, Source

LEMMA MainTypeStep ==
    ASSUME Shape, Main
    PROVE  TypeOK'
<1> USE DEF Shape, TypeOK, MainStates, mainVars, slotVars, diskVars
<1>1. CASE AdoptNothing \/ CheckStat \/ HashIsAwaited
  BY <1>1 DEF AdoptNothing, CheckStat, HashIsAwaited
<1>2. CASE Adopt
  <2>1. recompiling \in Threads /\ thread[recompiling].hash \in Hashes
        /\ thread[recompiling].bytes \in Hashes
    BY <1>2 DEF Adopt, Awaits, ThreadShape
  <2>2. [hash |-> thread[recompiling].hash, bytes |-> thread[recompiling].bytes] \in Module
    BY <2>1 DEF Module
  <2>3. thread' \in [Threads -> [pc : ThreadStates, hash : Hashes \cup {None},
                                 bytes : Hashes \cup {None}]]
    BY <1>2 DEF Adopt, Off, ThreadStates
  <2>4. installing' \in Source /\ main' \in MainStates /\ unswept' \subseteq Slots
        /\ deferred' \in 0..Cardinality(Slots)
    BY <1>2, <2>2, SlotsCount DEF Adopt, Install, Source
  <2> QED BY <1>2, <2>3, <2>4 DEF Adopt
<1>3. CASE AdoptFailure
  BY <1>3 DEF AdoptFailure, Off, ThreadStates
<1>4. CASE HashIsLoaded
  BY <1>4 DEF HashIsLoaded, AbandonCompile, Off, ThreadStates
<1>5. CASE HashIsFirst
  BY <1>5 DEF HashIsFirst, Source, Module
<1>6. ASSUME NEW t \in Threads, HashIsNew(t)
      PROVE  TypeOK'
  BY <1>6 DEF HashIsNew, AbandonCompile, Off, ThreadStates
<1>7. CASE CompileFirst
  <2>1. installing.hash \in Hashes
    BY <1>7 DEF CompileFirst, MainShape, Source, Module
  <2>2. \A b \in Hashes : [hash |-> installing.hash, bytes |-> b] \in Source
    BY <2>1 DEF Source, Module
  <2>3. CASE Cached(installing.hash)
    <3>1. artifacts[installing.hash] \in Hashes
      BY <2>1, <2>3 DEF Cached
    <3> QED BY <1>7, <2>2, <2>3, <3>1, SlotsCount DEF CompileFirst, Install
  <2>4. CASE ~Cached(installing.hash)
    <3>1. mixed' \subseteq Hashes /\ artifacts' \in [Hashes -> Hashes \cup {None}]
      BY <1>7, <2>1, <2>4 DEF CompileFirst, ReadsDisk, WritesArtifact
    <3> QED BY <1>7, <2>2, <2>4, <3>1, SlotsCount DEF CompileFirst, Install
  <2> QED BY <2>3, <2>4
<1>8. CASE CompileFirstFails
  BY <1>8, HotReloadAssumption DEF CompileFirstFails, Source
<1>9. ASSUME NEW s \in Slots, Sweep(s)
      PROVE  TypeOK'
  <2>1. deferred + 1 \in 0..Cardinality(Slots)
    <3>1. unswept # {} /\ IsFiniteSet(unswept) /\ main = "sweep"
      BY <1>9, SlotsCount DEF Sweep
    <3>2. Cardinality(unswept) \in Nat /\ Cardinality(unswept) # 0
      BY <3>1, FS_CardinalityType, FS_EmptySet
    <3>3. deferred + Cardinality(unswept) <= Cardinality(Slots) /\ deferred \in Nat
      BY <3>1, SlotsCount DEF SweepShape
    <3> DEFINE N == Cardinality(Slots)
               n == Cardinality(unswept)
    <3>4. n \in Nat /\ n # 0 /\ N \in Nat /\ deferred \in Nat /\ deferred + n <= N
      BY <3>2, <3>3, SlotsCount
    <3> HIDE DEF N, n
    <3>5. deferred + 1 \in 0..N
      BY <3>4
    <3> QED BY <3>5 DEF N
  <2>2. slot' \in [Slots -> Source]
    BY <1>9 DEF Sweep, Source
  <2> QED BY <1>9, <2>1, <2>2 DEF Sweep
<1>10. CASE Owe
  <2>1. /\ loaded # None /\ loaded.hash \in Hashes /\ owed[loaded.hash] = 0
    BY <1>10 DEF Owe, MainShape, NothingOwed, Source, Module
  <2> QED BY <1>10, <2>1, SlotsCount DEF Owe
<1>11. CASE Swap
  <2>1. late' \in [Hashes -> 0..Cardinality(Slots)]
    BY <1>11, SlotsCount, CountsKeep DEF Swap
  <2> QED BY <1>11, <2>1 DEF Swap, Source
<1>12. CASE Note
  <2>1. owed' \in [Hashes -> 0..Cardinality(Slots)]
    BY <1>12, SlotsCount, CountsKeep DEF Note
  <2> QED BY <1>12, <2>1 DEF Note
<1>13. CASE PublishSource
  BY <1>13 DEF PublishSource
<1> QED BY <1>1, <1>2, <1>3, <1>4, <1>5, <1>6, <1>7, <1>8, <1>9, <1>10, <1>11, <1>12, <1>13
        DEF Main

\* The steps of the disk and of the recompile threads, and those that use the stores.
DiskStep == Publish \/ \E t \in Threads : Compiling(t)

UserStep ==
    \/ ReleaseShared
    \/ \E d \in Dispatchers : Prepare(d) \/ DispatchOk(d) \/ Poison(d) \/ Retry(d)
    \/ \E d \in Dispatchers, s \in Slots : Acquire(d, s)
    \/ \E c \in Callers : Ensure(c) \/ CallEnds(c) \/ EmbedFails(c)
    \/ \E c \in Callers, s \in Slots : Call(c, s) \/ FillForCall(c, s)

LEMMA DiskTypeStep ==
    ASSUME Shape, DiskStep
    PROVE  TypeOK'
<1> USE DEF Shape, TypeOK, mainVars, slotVars, diskVars, ThreadStates
<1>1. CASE Publish
  BY <1>1, HotReloadAssumption DEF Publish
<1>2. ASSUME NEW t \in Threads, ThreadLoad(t)
      PROVE  TypeOK'
  <2>1. thread[t].hash \in Hashes
    BY <1>2 DEF ThreadLoad, ThreadShape
  <2>2. CASE Cached(thread[t].hash)
    <3>1. artifacts[thread[t].hash] \in Hashes
      BY <2>1, <2>2 DEF Cached
    <3>2. thread' \in [Threads -> [pc : ThreadStates, hash : Hashes \cup {None},
                                   bytes : Hashes \cup {None}]]
      <4> DEFINE r == [thread[t] EXCEPT !.pc = "done", !.bytes = artifacts[thread[t].hash]]
                 T == [pc : ThreadStates, hash : Hashes \cup {None}, bytes : Hashes \cup {None}]
      <4>1. r \in T /\ Off \in T
        BY <3>1 DEF Off
      <4>2. thread' = [thread EXCEPT ![t] = IF recompiling = t THEN r ELSE Off]
        BY <1>2, <2>2 DEF ThreadLoad
      <4> HIDE DEF r
      <4> QED BY <4>1, <4>2
    <3> QED BY <1>2, <2>2, <3>2 DEF ThreadLoad
  <2>3. CASE ~Cached(thread[t].hash)
    <3>1. /\ thread' = [thread EXCEPT ![t].pc = "write", ![t].bytes = disk]
          /\ ReadsDisk(thread[t].hash)
          /\ UNCHANGED <<disk, gen, artifacts, mainVars, slotVars, source, registered, user,
                         fails>>
      BY <1>2, <2>3 DEF ThreadLoad
    <3>2. thread' \in [Threads -> [pc : ThreadStates, hash : Hashes \cup {None},
                                   bytes : Hashes \cup {None}]]
      <4> DEFINE r == [thread[t] EXCEPT !.pc = "write", !.bytes = disk]
      <4>1. r \in [pc : ThreadStates, hash : Hashes \cup {None}, bytes : Hashes \cup {None}]
        <5>1. /\ thread[t] \in [pc : ThreadStates, hash : Hashes \cup {None},
                                bytes : Hashes \cup {None}]
              /\ disk \in Hashes
          OBVIOUS
        <5> HIDE DEF TypeOK, Shape
        <5> QED BY <5>1
      <4>2. thread' = [thread EXCEPT ![t] = r]
        BY <3>1
      <4> HIDE DEF r
      <4> QED BY <4>1, <4>2
    <3>3. mixed' \subseteq Hashes
      BY <2>1, <3>1 DEF ReadsDisk
    <3> QED BY <3>1, <3>2, <3>3
  <2> QED BY <2>2, <2>3
<1>3. ASSUME NEW t \in Threads, ThreadWrite(t)
      PROVE  TypeOK'
  <2>1. thread[t].bytes \in Hashes
    BY <1>3 DEF ThreadWrite, ThreadShape
  <2> QED BY <1>3, <2>1 DEF ThreadWrite, WritesArtifact, Off
<1>4. ASSUME NEW t \in Threads, ThreadFail(t)
      PROVE  TypeOK'
  BY <1>4, HotReloadAssumption DEF ThreadFail, Off
<1> QED BY <1>1, <1>2, <1>3, <1>4 DEF DiskStep, Compiling

LEMMA UserTypeStep ==
    ASSUME Shape, UserStep
    PROVE  TypeOK'
<1> USE DEF Shape, TypeOK, mainVars, diskVars, others, UserStates
<1>1. CASE ReleaseShared
  BY <1>1 DEF ReleaseShared, Source
<1>2. ASSUME NEW d \in Dispatchers, Prepare(d)
      PROVE  TypeOK'
  <2>1. /\ user' = [user EXCEPT ![d] = [Idle EXCEPT !.pc = "acquire", !.local = loaded]]
        /\ registered' = registered \cup {d} /\ UNCHANGED <<holder, owed, others>>
        /\ \/ UNCHANGED <<slot, remembered, late>>
           \/ \E s \in Slots : Fill(s, loaded)
    BY <1>2 DEF Prepare
  <2>2. d \in Users /\ [Idle EXCEPT !.pc = "acquire", !.local = loaded]
                          \in [pc : UserStates, local : Source, slot : Slots \cup {None}]
    BY DEF Idle, Users
  <2>3. slot' \in [Slots -> Source] /\ remembered' \in Source
        /\ late' \in [Hashes -> 0..Cardinality(Slots)]
    BY <2>1, FillTypes
  <2> QED BY <2>1, <2>2, <2>3
<1>3. ASSUME NEW d \in Dispatchers, NEW s \in Slots, Acquire(d, s)
      PROVE  TypeOK'
  <2>1. /\ holder' = [holder EXCEPT ![s] = d]
        /\ user' = [user EXCEPT ![d].pc = "run", ![d].slot = s]
        /\ UNCHANGED <<owed, registered, others>>
        /\ UNCHANGED <<slot, remembered, late>> \/ Fill(s, ReloadEntry(user[d].local))
    BY <1>3 DEF Acquire
  <2>2. d \in Users /\ ReloadEntry(user[d].local) \in Source
    BY ReloadTypes DEF Users
  <2>3. slot' \in [Slots -> Source] /\ remembered' \in Source
        /\ late' \in [Hashes -> 0..Cardinality(Slots)]
    BY <2>1, <2>2, FillTypes
  <2>4. user' \in [Users -> [pc : UserStates, local : Source, slot : Slots \cup {None}]]
    <3> DEFINE r == [user[d] EXCEPT !.pc = "run", !.slot = s]
    <3>1. r \in [pc : UserStates, local : Source, slot : Slots \cup {None}]
      BY <2>2
    <3>2. user' = [user EXCEPT ![d] = r]
      BY <2>1
    <3> HIDE DEF r
    <3> QED BY <2>2, <3>1, <3>2
  <2>5. holder' \in [Slots -> Users \cup {None}]
    BY <2>1, <2>2
  <2> QED BY <2>1, <2>3, <2>4, <2>5
<1>4. ASSUME NEW u \in Users, user[u].pc = "run", EvictIfPending(user[u].slot),
             Release(user[u].slot), Ends(u),
             UNCHANGED <<remembered, late, registered, others>>
      PROVE  TypeOK'
  <2>1. user[u].slot \in Slots
    BY <1>4 DEF UserShape
  <2>2. slot' \in [Slots -> Source] /\ owed' \in [Hashes -> 0..Cardinality(Slots)]
    BY <1>4, <2>1, EvictTypes
  <2> QED BY <1>4, <2>1, <2>2 DEF Release, Ends, Idle, Source
<1>5. ASSUME NEW d \in Dispatchers, Poison(d)
      PROVE  TypeOK'
  <2> DEFINE s == user[d].slot
  <2>1. d \in Users /\ s \in Slots /\ ReloadEntry(user[d].local) \in Source
    BY <1>5, ReloadTypes DEF Poison, UserShape, Users
  <2>2. owed' \in [Hashes -> 0..Cardinality(Slots)]
    BY <1>5, ConsumedTypes DEF Poison
  <2>3. slot' \in [Slots -> Source] /\ remembered' \in Source
        /\ late' \in [Hashes -> 0..Cardinality(Slots)]
    BY <1>5, <2>1, FillTypes DEF Poison
  <2>4. /\ user' \in [Users -> [pc : UserStates, local : Source, slot : Slots \cup {None}]]
        /\ holder' \in [Slots -> Users \cup {None}]
    <3>1. CASE Goes(d, "retry") /\ UNCHANGED holder
      BY <2>1, <3>1 DEF Goes
    <3>2. CASE Ends(d) /\ Release(s)
      BY <2>1, <3>2 DEF Ends, Release, Idle, Source
    <3> QED BY <1>5, <3>1, <3>2 DEF Poison
  <2> QED BY <1>5, <2>2, <2>3, <2>4 DEF Poison
<1>6. ASSUME NEW u \in Users, user[u].slot \in Slots,
             slot' = slot \/ slot' = [slot EXCEPT ![user[u].slot] = None],
             Release(user[u].slot), Ends(u),
             UNCHANGED <<owed, remembered, late, registered, others>>
      PROVE  TypeOK'
  BY <1>6 DEF Release, Ends, Idle, Source
<1>7. ASSUME NEW d \in Dispatchers, DispatchOk(d) \/ Retry(d)
      PROVE  TypeOK'
  BY <1>4, <1>6, <1>7 DEF DispatchOk, Retry, UserShape, Users
<1>8. ASSUME NEW c \in Callers, CallEnds(c) \/ EmbedFails(c)
      PROVE  TypeOK'
  BY <1>4, <1>6, <1>8 DEF CallEnds, EmbedFails, UserShape, Users
<1>9. ASSUME NEW c \in Callers, Ensure(c)
      PROVE  TypeOK'
  BY <1>9 DEF Ensure, Idle, Source, Users, slotVars
<1>10. ASSUME NEW c \in Callers, NEW s \in Slots, Call(c, s)
       PROVE  TypeOK'
  <2>1. c \in Users
    BY DEF Users
  <2>2. CASE slot[s] # None
    <3>1. /\ holder' = [holder EXCEPT ![s] = c]
          /\ user' = [user EXCEPT ![c].pc = "run", ![c].slot = s]
          /\ UNCHANGED <<slot, owed, remembered, late, registered, others>>
      BY <1>10, <2>2 DEF Call
    <3>2. user' \in [Users -> [pc : UserStates, local : Source, slot : Slots \cup {None}]]
      <4> DEFINE r == [user[c] EXCEPT !.pc = "run", !.slot = s]
      <4>1. r \in [pc : UserStates, local : Source, slot : Slots \cup {None}]
        BY <2>1
      <4>2. user' = [user EXCEPT ![c] = r]
        BY <3>1
      <4> HIDE DEF r
      <4> QED BY <2>1, <4>1, <4>2
    <3>3. holder' \in [Slots -> Users \cup {None}]
      BY <2>1, <3>1
    <3> QED BY <3>1, <3>2, <3>3
  <2>3. CASE slot[s] = None
    <3>1. /\ UNCHANGED <<holder, slot, owed, remembered, late, registered, others>>
          /\ \/ user' = [user EXCEPT ![c] = [Idle EXCEPT !.pc = "ensure"]]
             \/ user' = [user EXCEPT ![c] = Idle]
      BY <1>10, <2>3 DEF Call
    <3>2. user' \in [Users -> [pc : UserStates, local : Source, slot : Slots \cup {None}]]
      <4> DEFINE T == [pc : UserStates, local : Source, slot : Slots \cup {None}]
      <4>1. Idle \in T /\ [Idle EXCEPT !.pc = "ensure"] \in T
        BY DEF Idle, Source
      <4> QED BY <2>1, <3>1, <4>1
    <3> QED BY <3>1, <3>2
  <2> QED BY <2>2, <2>3
<1>11. ASSUME NEW c \in Callers, NEW s \in Slots, FillForCall(c, s)
       PROVE  TypeOK'
  <2>1. c \in Users /\ user[c].local \in Source
    BY DEF Users
  <2>2. slot' \in [Slots -> Source] /\ remembered' \in Source
        /\ late' \in [Hashes -> 0..Cardinality(Slots)]
    BY <1>11, <2>1, FillTypes DEF FillForCall
  <2> QED BY <1>11, <2>1, <2>2 DEF FillForCall, Idle, Source
<1> QED BY <1>1, <1>2, <1>3, <1>5, <1>7, <1>8, <1>9, <1>10, <1>11 DEF UserStep

LEMMA TypeStep ==
    ASSUME Shape, [Next]_vars
    PROVE  TypeOK'
<1>1. CASE UNCHANGED vars
  BY <1>1 DEF vars, mainVars, slotVars, diskVars, Shape, TypeOK
<1> QED BY <1>1, MainTypeStep, DiskTypeStep, UserTypeStep DEF Next, DiskStep, UserStep

----
(* The shape.                                                              *)

LEMMA UserFrame == UserStep => UNCHANGED others
BY DEF UserStep, ReleaseShared, Prepare, DispatchOk, Poison, Retry, Acquire, Ensure,
       CallEnds, EmbedFails, Call, FillForCall

LEMMA DiskFrame == DiskStep => UNCHANGED <<mainVars, slotVars, source, registered, user>>
BY DEF DiskStep, Compiling, Publish, ThreadLoad, ThreadWrite, ThreadFail

LEMMA ThreadShapeStep ==
    ASSUME Shape, [Next]_vars
    PROVE  ThreadShape'
<1> USE DEF Shape, ThreadShape
<1>0. CASE UNCHANGED thread
  BY <1>0
<1>1. CASE UserStep \/ UNCHANGED vars \/ Publish
  BY <1>0, <1>1, UserFrame DEF others, vars, Publish
<1>2. ASSUME NEW t \in Threads, ThreadLoad(t)
      PROVE  ThreadShape'
  <2>1. thread[t].hash \in Hashes /\ disk \in Hashes
    BY <1>2 DEF ThreadLoad, TypeOK
  <2>2. CASE Cached(thread[t].hash)
    <3>1. artifacts[thread[t].hash] \in Hashes
      BY <2>1, <2>2 DEF Cached, TypeOK
    <3> DEFINE r == [thread[t] EXCEPT !.pc = "done", !.bytes = artifacts[thread[t].hash]]
    <3>2. /\ r.hash \in Hashes /\ r.bytes \in Hashes /\ Off.pc = "off"
      BY <2>1, <3>1 DEF Off, TypeOK
    <3>3. thread' = [thread EXCEPT ![t] = IF recompiling = t THEN r ELSE Off]
      BY <1>2, <2>2 DEF ThreadLoad
    <3> HIDE DEF r
    <3> QED BY <3>2, <3>3 DEF TypeOK
  <2>3. CASE ~Cached(thread[t].hash)
    BY <1>2, <2>1, <2>3 DEF ThreadLoad, TypeOK
  <2> QED BY <2>2, <2>3
<1>3. ASSUME NEW t \in Threads, ThreadWrite(t) \/ ThreadFail(t)
      PROVE  ThreadShape'
  <2>1. /\ \A u \in Threads \ {t} : thread'[u] = thread[u]
        /\ thread'[t].pc = "done" =>
              /\ thread'[t].hash = thread[t].hash /\ thread'[t].bytes = thread[t].bytes
              /\ thread[t].pc = "write"
        /\ thread'[t].pc \notin {"load", "write"}
    <3>1. CASE ThreadWrite(t)
      BY <3>1 DEF ThreadWrite, Off, TypeOK
    <3>2. CASE ThreadFail(t)
      BY <3>2 DEF ThreadFail, Off, TypeOK
    <3> QED BY <1>3, <3>1, <3>2
  <2> QED BY <2>1
<1>4. ASSUME \A u \in Threads : thread'[u] = Off \/ thread'[u] = thread[u]
      PROVE  ThreadShape'
  BY <1>4 DEF Off
<1>5. CASE Adopt \/ AdoptFailure \/ HashIsLoaded
  <2>1. CASE Adopt \/ AdoptFailure
    BY <1>4, <2>1 DEF Adopt, AdoptFailure, TypeOK
  <2>2. CASE HashIsLoaded
    BY <1>4, <2>2 DEF HashIsLoaded, AbandonCompile
  <2> QED BY <1>5, <2>1, <2>2
<1>7. ASSUME NEW t \in Threads, HashIsNew(t)
      PROVE  ThreadShape'
  BY <1>7 DEF HashIsNew, AbandonCompile, Off, TypeOK
<1>6. CASE \/ AdoptNothing \/ CheckStat \/ HashIsAwaited \/ HashIsFirst \/ CompileFirst
           \/ CompileFirstFails \/ (\E s \in Slots : Sweep(s)) \/ Owe \/ Swap \/ Note
           \/ PublishSource
  BY <1>0, <1>6 DEF AdoptNothing, CheckStat, HashIsAwaited, HashIsFirst, CompileFirst,
     CompileFirstFails, Sweep, Owe, Swap, Note, PublishSource
<1> QED BY <1>1, <1>2, <1>3, <1>5, <1>6, <1>7 DEF Next, Main, Compiling, UserStep

\* An eviction is paid only where one is owed.
LEMMA NothingIsPaid ==
    ASSUME TypeOK, UserStep, NEW h \in Hashes, owed[h] = 0
    PROVE  owed'[h] = 0
<1>1. \A g : Consumed(g)[h] = 0
  BY DEF Consumed, TypeOK
<1>2. ASSUME NEW s, EvictIfPending(s)
      PROVE  owed'[h] = 0
  BY <1>1, <1>2 DEF EvictIfPending
<1> QED BY <1>1, <1>2 DEF UserStep, ReleaseShared, Prepare, DispatchOk, Poison, Retry, Acquire,
        Ensure, CallEnds, EmbedFails, Call, FillForCall, slotVars

LEMMA MainShapeStep ==
    ASSUME Shape, [Next]_vars
    PROVE  MainShape' /\ SweepShape' /\ NothingOwed'
<1> USE DEF Shape, MainShape, SweepShape, NothingOwed
<1>1. CASE UserStep
  <2>1. UNCHANGED mainVars
    BY <1>1, UserFrame DEF others
  <2>2. loaded # None => loaded.hash \in Hashes
    BY DEF TypeOK, Source, Module
  <2> QED BY <1>1, <2>1, <2>2, NothingIsPaid DEF mainVars
<1>2. CASE DiskStep \/ UNCHANGED vars
  BY <1>2, DiskFrame DEF vars, mainVars, slotVars
<1>3. CASE AdoptNothing \/ CheckStat \/ HashIsAwaited \/ AdoptFailure \/ HashIsLoaded
  BY <1>3 DEF AdoptNothing, CheckStat, HashIsAwaited, AdoptFailure, HashIsLoaded, slotVars
<1>4. ASSUME NEW m \in Module, Install(m), UNCHANGED <<loaded, owed>>,
             loaded # None => owed[loaded.hash] = 0
      PROVE  MainShape' /\ SweepShape' /\ NothingOwed'
  BY <1>4, NoneIsApart, SlotsCount DEF Install
<1>5. CASE Adopt
  <2>1. [hash |-> thread[recompiling].hash, bytes |-> thread[recompiling].bytes] \in Module
    BY <1>5 DEF Adopt, Awaits, ThreadShape, TypeOK, Module
  <2> QED BY <1>4, <1>5, <2>1 DEF Adopt, slotVars
<1>6. ASSUME NEW t \in Threads, HashIsNew(t)
      PROVE  MainShape' /\ SweepShape' /\ NothingOwed'
  BY <1>6 DEF HashIsNew, slotVars
<1>7. CASE HashIsFirst
  <2>1. [hash |-> disk, bytes |-> disk] # None
    BY NoneIsApart DEF TypeOK, Module
  <2> QED BY <1>7, <2>1 DEF HashIsFirst, slotVars
<1>8. CASE CompileFirst
  <2>1. installing.hash \in Hashes /\ disk \in Hashes
    BY <1>8 DEF CompileFirst, TypeOK, Source, Module
  <2>2. Cached(installing.hash) => artifacts[installing.hash] \in Hashes
    BY <2>1 DEF Cached, TypeOK
  <2>3. \E m \in Module : Install(m)
    BY <1>8, <2>1, <2>2 DEF CompileFirst, Module
  <2> QED BY <1>4, <1>8, <2>3 DEF CompileFirst, slotVars
<1>9. CASE CompileFirstFails
  BY <1>9 DEF CompileFirstFails, slotVars
<1>10. ASSUME NEW s \in Slots, Sweep(s)
       PROVE  MainShape' /\ SweepShape' /\ NothingOwed'
  <2>1. /\ main = "sweep" /\ s \in unswept /\ unswept' = unswept \ {s}
        /\ UNCHANGED <<loaded, installing, owed>>
        /\ deferred' \in {deferred, deferred + 1}
        /\ main' = IF unswept = {s} THEN "owe" ELSE "sweep"
    BY <1>10 DEF Sweep
  <2>2. IsFiniteSet(unswept) /\ Cardinality(unswept \ {s}) = Cardinality(unswept) - 1
    BY <2>1, SlotsCount, FS_RemoveElement DEF TypeOK
  <2>3. Cardinality(unswept) \in Nat /\ Cardinality(Slots) \in Nat /\ deferred \in Nat
    BY SlotsCount DEF TypeOK
  <2>4. deferred' + Cardinality(unswept') <= Cardinality(Slots)
    BY <2>1, <2>2, <2>3
  <2> QED BY <2>1, <2>4
<1>11. CASE Owe
  BY <1>11 DEF Owe
<1>12. CASE Swap
  <2>1. loaded = None => owed'[loaded'.hash] = 0
    BY <1>12 DEF Swap, BeforeLoad, TypeOK, Source, Module
  <2> QED BY <1>12, <2>1 DEF Swap
<1>13. CASE Note
  <2>1. owed'[loaded.hash] = 0
    BY <1>13 DEF Note, TypeOK, Source, Module
  <2> QED BY <1>13, <2>1 DEF Note
<1>14. CASE PublishSource
  BY <1>14 DEF PublishSource, slotVars
<1> QED BY <1>1, <1>2, <1>3, <1>5, <1>6, <1>7, <1>8, <1>9, <1>10, <1>11, <1>12, <1>13, <1>14
        DEF Next, Main, DiskStep, UserStep

\* What a user finds in its slot does not change under another's hands.
LEMMA OthersKeepTheirSlots ==
    ASSUME Shape, NEW u \in Users, NEW s \in Slots, holder[s] \in {u, None},
           \A v \in Users \ {u} : user'[v] = user[v],
           \A q \in Slots \ {s} : slot'[q] = slot[q] /\ holder'[q] = holder[q]
    PROVE  /\ \A v \in Users \ {u} : user[v].pc \in {"run", "retry"} =>
                 /\ user'[v].slot \in Slots
                 /\ holder'[user'[v].slot] = v
                 /\ slot'[user'[v].slot] # None
           /\ \A d \in Dispatchers \ {u} :
                 user'[d].pc \in {"acquire", "run", "retry"} => user'[d].local # None
           /\ \A c \in Callers \ {u} : user'[c].pc = "fill" => user'[c].local # None
<1>1. \A v \in Users \ {u} : user[v].pc \in {"run", "retry"} => user[v].slot # s
  BY NoneIsApart DEF Shape, UserShape
<1> QED BY <1>1 DEF Shape, UserShape, Users

\* And so it is enough to look at the user that takes the step.
LEMMA OneUserSteps ==
    ASSUME Shape, NEW u \in Users, NEW s \in Slots, holder[s] \in {u, None},
           \A v \in Users \ {u} : user'[v] = user[v],
           \A q \in Slots \ {s} : slot'[q] = slot[q] /\ holder'[q] = holder[q],
           user'[u].pc \in {"run", "retry"} =>
               user'[u].slot = s /\ holder'[s] = u /\ slot'[s] # None,
           u \in Dispatchers /\ user'[u].pc \in {"acquire", "run", "retry"}
               => user'[u].local # None,
           u \in Callers /\ user'[u].pc = "fill" => user'[u].local # None
    PROVE  UserShape'
BY OthersKeepTheirSlots DEF UserShape

\* A step of a user that touches no slot.
LEMMA UserWaits ==
    ASSUME Shape, NEW u \in Users, UNCHANGED <<slot, holder>>,
           \A v \in Users \ {u} : user'[v] = user[v],
           user'[u].pc \notin {"run", "retry"},
           u \in Dispatchers /\ user'[u].pc = "acquire" => user'[u].local # None,
           u \in Callers /\ user'[u].pc = "fill" => user'[u].local # None
    PROVE  UserShape'
BY DEF Shape, UserShape, Users

LEMMA UserShapeStep ==
    ASSUME Shape, [Next]_vars
    PROVE  UserShape'
<1> USE DEF Shape
<1>0. CASE UNCHANGED <<user, slot, holder>>
  BY <1>0 DEF UserShape
<1>1. CASE DiskStep \/ UNCHANGED vars
  BY <1>0, <1>1, DiskFrame DEF vars, slotVars
<1>2. CASE \/ AdoptNothing \/ Adopt \/ AdoptFailure \/ CheckStat \/ HashIsLoaded
           \/ HashIsAwaited \/ HashIsFirst \/ (\E t \in Threads : HashIsNew(t))
           \/ CompileFirst \/ CompileFirstFails \/ Owe \/ Swap \/ Note \/ PublishSource
  BY <1>0, <1>2 DEF AdoptNothing, Adopt, AdoptFailure, CheckStat, HashIsLoaded,
     HashIsAwaited, HashIsFirst, HashIsNew, CompileFirst, CompileFirstFails, Owe, Swap,
     Note, PublishSource, slotVars
<1>3. ASSUME UNCHANGED <<user, holder>>, slot' \in [Slots -> Source],
             \A s \in Slots : ~Free(s) => slot'[s] = slot[s]
      PROVE  UserShape'
  BY <1>3, NoneIsApart DEF UserShape, Free, Users
<1>4. ASSUME NEW s \in Slots, Sweep(s)
      PROVE  UserShape'
  <2>1. \A q \in Slots : ~Free(q) => slot'[q] = slot[q]
    BY <1>4 DEF Sweep, TypeOK
  <2> QED BY <1>3, <1>4, <2>1, TypeStep DEF Sweep, Next, Main, TypeOK
<1>5. CASE ReleaseShared
  <2>1. \A q \in Slots : ~Free(q) => slot'[q] = slot[q]
    BY <1>5 DEF ReleaseShared
  <2> QED BY <1>3, <1>5, <2>1, TypeStep DEF ReleaseShared, Next, TypeOK
<1>6. ASSUME NEW d \in Dispatchers, Prepare(d)
      PROVE  UserShape'
  <2>1. /\ user' = [user EXCEPT ![d] = [Idle EXCEPT !.pc = "acquire", !.local = loaded]]
        /\ loaded # None /\ UNCHANGED holder
        /\ \/ UNCHANGED slot
           \/ \E s \in Slots : Free(s) /\ slot' = [slot EXCEPT ![s] = loaded]
    BY <1>6 DEF Prepare, Fill
  <2>2. /\ user'[d].pc = "acquire" /\ user'[d].local # None
        /\ \A v \in Users \ {d} : user'[v] = user[v]
    BY <2>1 DEF TypeOK, Idle, Users
  <2>3. d \in Users /\ d \notin Callers
    BY HotReloadAssumption DEF Users
  <2>4. CASE UNCHANGED slot
    BY <2>1, <2>2, <2>3, <2>4, UserWaits
  <2>5. ASSUME NEW s \in Slots, Free(s), slot' = [slot EXCEPT ![s] = loaded]
        PROVE  UserShape'
    BY <2>1, <2>2, <2>3, <2>5, OneUserSteps DEF Free, TypeOK
  <2> QED BY <2>1, <2>4, <2>5
<1>7. ASSUME NEW d \in Dispatchers, NEW s \in Slots, Acquire(d, s)
      PROVE  UserShape'
  <2>1. d \in Users /\ d \notin Callers /\ user[d].local # None
    BY <1>7, HotReloadAssumption DEF Users, Acquire, UserShape
  <2>2. /\ holder' = [holder EXCEPT ![s] = d] /\ holder[s] = None
        /\ user' = [user EXCEPT ![d].pc = "run", ![d].slot = s]
        /\ (slot' = slot /\ slot[s] # None) \/ slot' = [slot EXCEPT ![s] = user[d].local]
    BY <1>7, <2>1 DEF Acquire, Free, Fill, ReloadEntry
  <2>3. /\ user'[d].pc = "run" /\ user'[d].slot = s /\ user'[d].local = user[d].local
        /\ \A v \in Users \ {d} : user'[v] = user[v]
    BY <2>1, <2>2 DEF TypeOK
  <2> QED BY <2>1, <2>2, <2>3, OneUserSteps DEF TypeOK
<1>8. ASSUME NEW u \in Users, user[u].pc \in {"run", "retry"},
             \A q \in Slots \ {user[u].slot} : slot'[q] = slot[q],
             Release(user[u].slot), Ends(u)
      PROVE  UserShape'
  <2>1. user[u].slot \in Slots /\ holder[user[u].slot] = u
    BY <1>8 DEF UserShape
  <2>2. user'[u].pc = "idle" /\ \A v \in Users \ {u} : user'[v] = user[v]
    BY <1>8 DEF Ends, Idle, TypeOK
  <2>3. \A q \in Slots \ {user[u].slot} : holder'[q] = holder[q]
    BY <1>8 DEF Release, TypeOK
  <2> QED BY <1>8, <2>1, <2>2, <2>3, OneUserSteps
<1>9. ASSUME NEW s \in Slots, EvictIfPending(s)
      PROVE  \A q \in Slots \ {s} : slot'[q] = slot[q]
  BY <1>9 DEF EvictIfPending, TypeOK
<1>10. ASSUME NEW d \in Dispatchers, DispatchOk(d) \/ Retry(d)
       PROVE  UserShape'
  <2>1. d \in Users /\ user[d].pc \in {"run", "retry"} /\ user[d].slot \in Slots
    BY <1>10 DEF DispatchOk, Retry, Users, UserShape
  <2>2. \A q \in Slots \ {user[d].slot} : slot'[q] = slot[q]
    BY <1>9, <1>10, <2>1 DEF DispatchOk, Retry, TypeOK
  <2> QED BY <1>8, <1>10, <2>1, <2>2 DEF DispatchOk, Retry
<1>11. ASSUME NEW c \in Callers, CallEnds(c) \/ EmbedFails(c)
       PROVE  UserShape'
  <2>1. c \in Users /\ user[c].pc \in {"run", "retry"} /\ user[c].slot \in Slots
    BY <1>11 DEF CallEnds, EmbedFails, Users, UserShape
  <2>2. \A q \in Slots \ {user[c].slot} : slot'[q] = slot[q]
    BY <1>9, <1>11, <2>1 DEF CallEnds, EmbedFails, TypeOK
  <2> QED BY <1>8, <1>11, <2>1, <2>2 DEF CallEnds, EmbedFails
<1>12. ASSUME NEW d \in Dispatchers, Poison(d)
       PROVE  UserShape'
  <2> DEFINE s == user[d].slot
  <2>1. /\ d \in Users /\ d \notin Callers /\ user[d].local # None
        /\ s \in Slots /\ holder[s] = d
    BY <1>12, HotReloadAssumption DEF Users, Poison, UserShape
  <2>2. slot' = [slot EXCEPT ![s] = user[d].local]
    BY <1>12, <2>1 DEF Poison, Fill, ReloadEntry
  <2>3. CASE Ends(d) /\ Release(s)
    BY <1>8, <1>12, <2>1, <2>2, <2>3 DEF Poison, TypeOK
  <2>4. CASE Goes(d, "retry") /\ UNCHANGED holder
    <3>1. /\ user'[d].slot = s /\ user'[d].local = user[d].local
          /\ \A v \in Users \ {d} : user'[v] = user[v]
      BY <2>1, <2>4 DEF Goes, TypeOK
    <3> HIDE DEF s
    <3> QED BY <2>1, <2>2, <2>4, <3>1, OneUserSteps DEF TypeOK
  <2> QED BY <1>12, <2>3, <2>4 DEF Poison
<1>13. ASSUME NEW c \in Callers, Ensure(c)
       PROVE  UserShape'
  <2>1. /\ c \in Users /\ c \notin Dispatchers /\ UNCHANGED <<slot, holder>>
        /\ user' = [user EXCEPT ![c] = IF AnyInstantiated \/ source = None
                                         THEN [Idle EXCEPT !.pc = "again"]
                                         ELSE [Idle EXCEPT !.pc = "fill", !.local = source]]
    BY <1>13, HotReloadAssumption DEF Ensure, Users, slotVars
  <2>2. /\ \A v \in Users \ {c} : user'[v] = user[v]
        /\ user'[c].pc \in {"again", "fill"}
        /\ user'[c].pc = "fill" => user'[c].local # None
    BY <2>1 DEF TypeOK, Idle
  <2> QED BY <2>1, <2>2, UserWaits
<1>14. ASSUME NEW c \in Callers, NEW s \in Slots, Call(c, s)
       PROVE  UserShape'
  <2>1. c \in Users /\ c \notin Dispatchers /\ holder[s] = None /\ slot' = slot
    BY <1>14, HotReloadAssumption DEF Call, Users, Free
  <2>2. CASE slot[s] # None
    <3>1. /\ holder' = [holder EXCEPT ![s] = c]
          /\ user' = [user EXCEPT ![c].pc = "run", ![c].slot = s]
      BY <1>14, <2>2 DEF Call
    <3>2. /\ user'[c].pc = "run" /\ user'[c].slot = s
          /\ \A v \in Users \ {c} : user'[v] = user[v]
      BY <2>1, <3>1 DEF TypeOK
    <3> QED BY <2>1, <2>2, <3>1, <3>2, OneUserSteps DEF TypeOK
  <2>3. CASE slot[s] = None
    <3>1. /\ holder' = holder
          /\ \/ user' = [user EXCEPT ![c] = [Idle EXCEPT !.pc = "ensure"]]
             \/ user' = [user EXCEPT ![c] = Idle]
      BY <1>14, <2>3 DEF Call
    <3>2. /\ user'[c].pc \in {"ensure", "idle"}
          /\ \A v \in Users \ {c} : user'[v] = user[v]
      BY <2>1, <3>1 DEF TypeOK, Idle
    <3> QED BY <2>1, <3>1, <3>2, UserWaits
  <2> QED BY <2>2, <2>3
<1>15. ASSUME NEW c \in Callers, NEW s \in Slots, FillForCall(c, s)
       PROVE  UserShape'
  <2>1. /\ c \in Users /\ c \notin Dispatchers /\ holder[s] = None /\ holder' = holder
        /\ \A q \in Slots \ {s} : slot'[q] = slot[q]
        /\ user' = [user EXCEPT ![c] = [Idle EXCEPT !.pc = "again"]]
    BY <1>15, HotReloadAssumption DEF FillForCall, Fill, Users, Free, TypeOK
  <2>2. user'[c].pc = "again" /\ \A v \in Users \ {c} : user'[v] = user[v]
    BY <2>1 DEF TypeOK, Idle
  <2> QED BY <2>1, <2>2, OneUserSteps
<1> QED BY <1>1, <1>2, <1>4, <1>5, <1>6, <1>7, <1>10, <1>11, <1>12, <1>13, <1>14, <1>15
        DEF Next, Main, DiskStep

LEMMA BeforeLoadStep ==
    ASSUME Shape, [Next]_vars
    PROVE  BeforeLoad'
<1> SUFFICES ASSUME loaded' = None
             PROVE  BeforeLoad'
  BY DEF BeforeLoad
<1> USE DEF Shape, MainShape
<1>1. loaded = None
  <2>1. ASSUME loaded # None, UNCHANGED loaded PROVE FALSE
    BY <2>1
  <2>2. CASE DiskStep \/ UserStep \/ UNCHANGED vars
    BY <2>1, <2>2, DiskFrame, UserFrame DEF mainVars, others, vars
  <2>3. CASE \/ AdoptNothing \/ Adopt \/ AdoptFailure \/ CheckStat \/ HashIsLoaded
             \/ HashIsAwaited \/ HashIsFirst \/ (\E t \in Threads : HashIsNew(t))
             \/ CompileFirst \/ CompileFirstFails \/ (\E s \in Slots : Sweep(s)) \/ Owe
             \/ Note \/ PublishSource
    BY <2>1, <2>3 DEF AdoptNothing, Adopt, AdoptFailure, CheckStat, HashIsLoaded,
       HashIsAwaited, HashIsFirst, HashIsNew, CompileFirst, CompileFirstFails, Sweep, Owe,
       Note, PublishSource
  <2>4. CASE Swap
    BY <2>4 DEF Swap
  <2> QED BY <2>2, <2>3, <2>4 DEF Next, Main, DiskStep, UserStep
<1> USE <1>1 DEF BeforeLoad
<1>2. CASE DiskStep \/ UNCHANGED vars
  BY <1>2, DiskFrame DEF vars, slotVars
<1>3. CASE \/ AdoptNothing \/ Adopt \/ AdoptFailure \/ CheckStat \/ HashIsLoaded
           \/ HashIsAwaited \/ HashIsFirst \/ (\E t \in Threads : HashIsNew(t))
           \/ CompileFirst \/ CompileFirstFails \/ PublishSource
  BY <1>3 DEF AdoptNothing, Adopt, AdoptFailure, CheckStat, HashIsLoaded, HashIsAwaited,
     HashIsFirst, HashIsNew, CompileFirst, CompileFirstFails, PublishSource, slotVars
<1>4. ~Owe /\ ~Swap /\ ~Note /\ \A s \in Slots : ~Sweep(s)
  BY DEF Owe, Swap, Note, Sweep
<1>5. \A u \in Users : user[u].pc \notin {"acquire", "run", "retry", "fill"}
  OBVIOUS
<1>6. ASSUME NEW d \in Dispatchers
      PROVE  /\ ~Prepare(d) /\ ~DispatchOk(d) /\ ~Poison(d) /\ ~Retry(d)
             /\ \A s \in Slots : ~Acquire(d, s)
  BY <1>5 DEF Users, Prepare, DispatchOk, Poison, Retry, Acquire
<1>7. ASSUME NEW c \in Callers
      PROVE  ~CallEnds(c) /\ ~EmbedFails(c) /\ \A s \in Slots : ~FillForCall(c, s)
  BY <1>5 DEF Users, CallEnds, EmbedFails, FillForCall
<1>8. ~ReleaseShared
  BY DEF ReleaseShared
<1>9. ASSUME NEW c \in Callers, Ensure(c) \/ \E s \in Slots : Call(c, s)
      PROVE  BeforeLoad'
  <2>1. /\ UNCHANGED <<slot, owed, source>>
        /\ \/ user' = [user EXCEPT ![c] = [Idle EXCEPT !.pc = "again"]]
           \/ user' = [user EXCEPT ![c] = [Idle EXCEPT !.pc = "ensure"]]
           \/ user' = [user EXCEPT ![c] = Idle]
    BY <1>9 DEF Ensure, Call, slotVars, others
  <2>2. \A u \in Users : user'[u].pc \in {"idle", "ensure", "again"}
    BY <2>1 DEF TypeOK, Idle
  <2> QED BY <2>1, <2>2
<1> QED BY <1>2, <1>3, <1>4, <1>6, <1>7, <1>8, <1>9 DEF Next, Main, DiskStep

LEMMA ShapeStep == Shape /\ [Next]_vars => Shape'
BY TypeStep, ThreadShapeStep, MainShapeStep, UserShapeStep, BeforeLoadStep DEF Shape

LEMMA InitShape == Init => Shape
<1> SUFFICES ASSUME Init PROVE Shape
  OBVIOUS
<1> USE DEF Init
<1>1. TypeOK
  BY HotReloadAssumption, SlotsCount DEF TypeOK, MainStates, Source, Off, Idle, ThreadStates,
     UserStates
<1>2. ThreadShape
  BY DEF ThreadShape, Off
<1>3. MainShape /\ SweepShape /\ BeforeLoad /\ NothingOwed
  BY DEF MainShape, SweepShape, BeforeLoad, NothingOwed, Idle
<1>4. UserShape
  BY DEF UserShape, Idle, Users
<1> QED BY <1>1, <1>2, <1>3, <1>4 DEF Shape

----
(* The bytes keep their hash.                                              *)

LEMMA BytesStep ==
    ASSUME Shape, BytesInv, [Next]_vars
    PROVE  BytesInv'
<1> USE DEF Shape, BytesInv, NoneOrGenuine, Genuine
<1>1. CASE Publish \/ UNCHANGED vars
  BY <1>1 DEF Publish, mainVars, slotVars, diskVars, vars
<1>2. ASSUME NEW t \in Threads, ThreadLoad(t)
      PROVE  BytesInv'
  <2>1. /\ UNCHANGED <<loaded, installing, source, remembered, slot, user, artifacts>>
        /\ thread[t].hash \in Hashes
    BY <1>2 DEF ThreadLoad, ThreadShape, mainVars, slotVars
  <2>2. CASE Cached(thread[t].hash)
    <3> DEFINE r == [thread[t] EXCEPT !.pc = "done", !.bytes = artifacts[thread[t].hash]]
    <3>1. /\ mixed' = mixed
          /\ thread' = [thread EXCEPT ![t] = IF recompiling = t THEN r ELSE Off]
      BY <1>2, <2>2 DEF ThreadLoad
    <3>2. Genuine(r) /\ Off.pc = "off"
      BY <2>1, <2>2 DEF TypeOK, Cached, Off
    <3> HIDE DEF r
    <3> QED BY <2>1, <3>1, <3>2 DEF TypeOK
  <2>3. CASE ~Cached(thread[t].hash)
    <3> DEFINE r == [thread[t] EXCEPT !.pc = "write", !.bytes = disk]
    <3>1. /\ mixed' = IF disk = thread[t].hash THEN mixed ELSE mixed \cup {thread[t].hash}
          /\ thread' = [thread EXCEPT ![t] = r]
      BY <1>2, <2>3 DEF ThreadLoad, ReadsDisk, TypeOK
    <3>2. r.bytes = r.hash \/ r.hash \in mixed'
      BY <3>1 DEF TypeOK
    <3> HIDE DEF r
    <3> QED BY <2>1, <3>1, <3>2 DEF TypeOK
  <2> QED BY <2>2, <2>3
<1>3. ASSUME NEW t \in Threads, ThreadWrite(t)
      PROVE  BytesInv'
  <2>1. /\ UNCHANGED <<loaded, installing, source, remembered, slot, user, mixed>>
        /\ thread[t].pc = "write"
        /\ artifacts' = [g \in Hashes |-> IF g = thread[t].hash THEN thread[t].bytes ELSE None]
        /\ thread' = [thread EXCEPT ![t] = IF recompiling = t THEN [@ EXCEPT !.pc = "done"]
                                           ELSE Off]
    BY <1>3 DEF ThreadWrite, WritesArtifact, mainVars, slotVars
  <2>2. \A q \in Threads : thread'[q].pc \in {"write", "done"} =>
           thread[q].pc \in {"write", "done"} /\ (Genuine(thread[q]) => Genuine(thread'[q]))
    BY <2>1 DEF TypeOK, Off
  <2> QED BY <2>1, <2>2
<1>4. ASSUME UNCHANGED <<source, remembered, slot, user, mixed, artifacts>>,
             NoneOrGenuine(loaded'), NoneOrGenuine(installing'),
             \A q \in Threads : thread'[q].pc \in {"write", "done"} => thread'[q] = thread[q]
      PROVE  BytesInv'
  BY <1>4
<1>5. ASSUME NEW t \in Threads, ThreadFail(t)
      PROVE  BytesInv'
  BY <1>4, <1>5 DEF ThreadFail, Off, TypeOK, mainVars, slotVars, diskVars
<1>6. CASE Adopt
  <2>1. recompiling \in Threads /\ thread[recompiling].pc = "done"
    BY <1>6 DEF Adopt, Awaits, TypeOK
  <2>2. NoneOrGenuine(installing')
    BY <1>6, <2>1 DEF Adopt, Install
  <2> QED BY <1>4, <1>6, <2>2 DEF Adopt, Off, TypeOK, slotVars, diskVars
<1>7. CASE AdoptFailure \/ HashIsLoaded
  BY <1>4, <1>7 DEF AdoptFailure, HashIsLoaded, AbandonCompile, Off, TypeOK, slotVars, diskVars
<1>8. ASSUME NEW t \in Threads, HashIsNew(t)
      PROVE  BytesInv'
  BY <1>4, <1>8 DEF HashIsNew, AbandonCompile, Off, TypeOK, slotVars, diskVars
<1>9. CASE HashIsFirst \/ CompileFirstFails \/ Swap
  BY <1>4, <1>9 DEF HashIsFirst, CompileFirstFails, Swap, slotVars, diskVars
<1>10. CASE CompileFirst
  <2>1. installing.hash \in Hashes /\ UNCHANGED <<loaded, source, remembered, slot, user, thread>>
    BY <1>10 DEF CompileFirst, MainShape, TypeOK, Source, Module, slotVars
  <2>2. CASE Cached(installing.hash)
    <3>1. /\ installing' = [hash |-> installing.hash, bytes |-> artifacts[installing.hash]]
          /\ UNCHANGED <<artifacts, mixed>>
      BY <1>10, <2>2 DEF CompileFirst, Install
    <3>2. NoneOrGenuine(installing')
      BY <2>1, <2>2, <3>1 DEF Cached
    <3> QED BY <1>4, <2>1, <3>1, <3>2
  <2>3. CASE ~Cached(installing.hash)
    <3>1. /\ installing' = [hash |-> installing.hash, bytes |-> disk]
          /\ artifacts' = [g \in Hashes |-> IF g = installing.hash THEN disk ELSE None]
          /\ mixed' = IF disk = installing.hash THEN mixed ELSE mixed \cup {installing.hash}
      BY <1>10, <2>3 DEF CompileFirst, Install, WritesArtifact, ReadsDisk
    <3>2. NoneOrGenuine(installing)' /\ \A h \in Hashes : artifacts'[h] \in {None, h} \/ h \in mixed'
      BY <2>1, <3>1
    <3> QED BY <2>1, <3>1, <3>2
  <2> QED BY <2>2, <2>3
<1>11. CASE \/ AdoptNothing \/ CheckStat \/ HashIsAwaited \/ Owe \/ Note
  BY <1>4, <1>11 DEF AdoptNothing, CheckStat, HashIsAwaited, Owe, Note, slotVars, diskVars
<1>12. ASSUME NEW s \in Slots, Sweep(s)
       PROVE  BytesInv'
  <2>1. /\ UNCHANGED <<loaded, installing, source, remembered, user, mixed, artifacts, thread>>
        /\ slot' = slot \/ slot' = [slot EXCEPT ![s] = None]
    BY <1>12 DEF Sweep, diskVars, TypeOK
  <2> QED BY <2>1 DEF TypeOK
<1>13. CASE PublishSource
  BY <1>13 DEF PublishSource, slotVars, diskVars
<1>14. CASE UserStep
  <2>1. UNCHANGED <<loaded, installing, source, mixed, artifacts, thread>>
    BY <1>14, UserFrame DEF others, mainVars, diskVars
  <2>2. ASSUME NEW u \in Users
        PROVE  NoneOrGenuine(ReloadEntry(user[u].local))
    BY DEF ReloadEntry
  <2>3. ASSUME NEW s, NEW m, Fill(s, m), NoneOrGenuine(m)
        PROVE  NoneOrGenuine(remembered') /\ \A q \in Slots : NoneOrGenuine(slot'[q])
    BY <2>3 DEF Fill, TypeOK
  <2>4. ASSUME NEW s, EvictIfPending(s)
        PROVE  \A q \in Slots : NoneOrGenuine(slot'[q])
    BY <2>4 DEF EvictIfPending, TypeOK
  <2>5. NoneOrGenuine(remembered') /\ \A q \in Slots : NoneOrGenuine(slot'[q])
    <3>1. CASE ReleaseShared
      BY <3>1 DEF ReleaseShared
    <3>2. ASSUME NEW d \in Dispatchers, \/ Prepare(d) \/ DispatchOk(d) \/ Poison(d) \/ Retry(d)
                                       \/ \E s \in Slots : Acquire(d, s)
          PROVE  NoneOrGenuine(remembered') /\ \A q \in Slots : NoneOrGenuine(slot'[q])
      <4>1. d \in Users
        BY DEF Users
      <4> QED BY <2>2, <2>3, <2>4, <3>2, <4>1 DEF Prepare, DispatchOk, Poison, Retry, Acquire,
                 TypeOK
    <3>3. ASSUME NEW c \in Callers,
                 \/ Ensure(c) \/ CallEnds(c) \/ EmbedFails(c)
                 \/ \E s \in Slots : Call(c, s) \/ FillForCall(c, s)
          PROVE  NoneOrGenuine(remembered') /\ \A q \in Slots : NoneOrGenuine(slot'[q])
      <4>1. c \in Users
        BY DEF Users
      <4> QED BY <2>3, <2>4, <3>3, <4>1 DEF Ensure, CallEnds, EmbedFails, Call, FillForCall,
                 TypeOK, slotVars
    <3> QED BY <1>14, <3>1, <3>2, <3>3 DEF UserStep
  <2>6. \A u \in Users : user'[u].local \in {None, loaded, source, user[u].local}
    <3>1. ASSUME NEW d \in Dispatchers, \/ Prepare(d) \/ DispatchOk(d) \/ Poison(d) \/ Retry(d)
                                       \/ \E s \in Slots : Acquire(d, s)
          PROVE  \A u \in Users : user'[u].local \in {None, loaded, source, user[u].local}
      <4>1. \/ user' = [user EXCEPT ![d] = [Idle EXCEPT !.pc = "acquire", !.local = loaded]]
            \/ user' = [user EXCEPT ![d] = Idle]
            \/ user' = [user EXCEPT ![d].pc = "retry"]
            \/ \E s \in Slots : user' = [user EXCEPT ![d].pc = "run", ![d].slot = s]
        BY <3>1 DEF Prepare, DispatchOk, Poison, Retry, Acquire, Ends, Goes
      <4>2. d \in Users
        BY DEF Users
      <4>3. CASE user' = [user EXCEPT ![d] = [Idle EXCEPT !.pc = "acquire", !.local = loaded]]
        BY <4>2, <4>3 DEF TypeOK, Idle
      <4>4. CASE user' = [user EXCEPT ![d] = Idle]
        BY <4>2, <4>4 DEF TypeOK, Idle
      <4>5. CASE user' = [user EXCEPT ![d].pc = "retry"]
        BY <4>2, <4>5 DEF TypeOK
      <4>6. CASE \E s \in Slots : user' = [user EXCEPT ![d].pc = "run", ![d].slot = s]
        BY <4>2, <4>6 DEF TypeOK
      <4> QED BY <4>1, <4>3, <4>4, <4>5, <4>6
    <3>2. ASSUME NEW c \in Callers,
                 \/ Ensure(c) \/ CallEnds(c) \/ EmbedFails(c)
                 \/ \E s \in Slots : Call(c, s) \/ FillForCall(c, s)
          PROVE  \A u \in Users : user'[u].local \in {None, loaded, source, user[u].local}
      <4>1. \/ user' = [user EXCEPT ![c] = [Idle EXCEPT !.pc = "fill", !.local = source]]
            \/ user' = [user EXCEPT ![c] = Idle]
            \/ \E pc : user' = [user EXCEPT ![c] = [Idle EXCEPT !.pc = pc]]
            \/ \E s \in Slots : user' = [user EXCEPT ![c].pc = "run", ![c].slot = s]
        BY <3>2 DEF Ensure, CallEnds, EmbedFails, Call, FillForCall, Ends
      <4>2. c \in Users
        BY DEF Users
      <4>3. CASE user' = [user EXCEPT ![c] = [Idle EXCEPT !.pc = "fill", !.local = source]]
        BY <4>2, <4>3 DEF TypeOK, Idle
      <4>4. CASE user' = [user EXCEPT ![c] = Idle]
        BY <4>2, <4>4 DEF TypeOK, Idle
      <4>5. CASE \E pc : user' = [user EXCEPT ![c] = [Idle EXCEPT !.pc = pc]]
        BY <4>2, <4>5 DEF TypeOK, Idle
      <4>6. CASE \E s \in Slots : user' = [user EXCEPT ![c].pc = "run", ![c].slot = s]
        BY <4>2, <4>6 DEF TypeOK
      <4> QED BY <4>1, <4>3, <4>4, <4>5, <4>6
    <3> QED BY <1>14, <3>1, <3>2 DEF UserStep, ReleaseShared
  <2> QED BY <2>1, <2>5, <2>6
<1> QED BY <1>1, <1>2, <1>3, <1>5, <1>6, <1>7, <1>8, <1>9, <1>10, <1>11, <1>12, <1>13, <1>14
        DEF Next, Main, DiskStep, UserStep, Compiling

----
(* The evictions owed keep up with the stores left on retired bytes.        *)

LEMMA Fewer ==
    ASSUME NEW T \in SUBSET Slots, NEW S \in SUBSET T
    PROVE  Cardinality(S) \in Nat /\ Cardinality(T) \in Nat /\ Cardinality(S) <= Cardinality(T)
BY SlotsCount, FS_Subset

LEMMA OneMore ==
    ASSUME NEW T \in SUBSET Slots, NEW s \in Slots, NEW S \in SUBSET (T \cup {s})
    PROVE  /\ Cardinality(S) \in Nat /\ Cardinality(T) \in Nat
           /\ Cardinality(S) <= Cardinality(T) + 1
<1>1. IsFiniteSet(T) /\ Cardinality(T) \in Nat
  BY SlotsCount
<1>2. /\ IsFiniteSet(T \cup {s})
      /\ Cardinality(T \cup {s}) = IF s \in T THEN Cardinality(T) ELSE Cardinality(T) + 1
  BY <1>1, FS_AddElement
<1>3. T \cup {s} \in SUBSET Slots
  OBVIOUS
<1> HIDE DEF Cardinality
<1>4. Cardinality(S) \in Nat /\ Cardinality(S) <= Cardinality(T \cup {s})
  BY <1>3, Fewer
<1> QED BY <1>1, <1>2, <1>4

LEMMA OneLess ==
    ASSUME NEW T \in SUBSET Slots, NEW s \in T, NEW S \in SUBSET (T \ {s})
    PROVE  /\ Cardinality(S) \in Nat /\ Cardinality(T) \in Nat
           /\ Cardinality(S) + 1 <= Cardinality(T)
<1>1. IsFiniteSet(T) /\ Cardinality(T) \in Nat
  BY SlotsCount
<1>2. Cardinality(T \ {s}) = Cardinality(T) - 1
  BY <1>1, FS_RemoveElement
<1>3. T \ {s} \in SUBSET Slots
  OBVIOUS
<1>4. Cardinality(S) \in Nat /\ Cardinality(S) <= Cardinality(T \ {s})
  BY <1>3, Fewer
<1> QED BY <1>1, <1>2, <1>4

\* The numbers that OwedInv compares.
LEMMA DueTypes ==
    ASSUME TypeOK, NEW h \in Hashes
    PROVE  /\ Left(h) \in SUBSET Slots
           /\ owed[h] \in Nat /\ late[h] \in Nat /\ deferred \in Nat
           /\ late[h] <= Cardinality(Slots)
<1> DEFINE N == Cardinality(Slots)
<1>1. N \in Nat /\ owed \in [Hashes -> 0..N] /\ late \in [Hashes -> 0..N] /\ deferred \in 0..N
  BY SlotsCount DEF TypeOK
<1> HIDE DEF N
<1>2. owed[h] \in Nat /\ late[h] \in Nat /\ deferred \in Nat /\ late[h] <= N
  BY <1>1
<1> QED BY <1>2 DEF N, Left

\* A step that lets no store come back to the bytes h and pays no eviction owed to them.
LEMMA LeftShrinks ==
    ASSUME Shape, OwedInv, loaded # None, NEW h \in Hashes, Retiring(h),
           Left(h)' \in SUBSET Left(h), Due(h)' = Due(h)
    PROVE  Cardinality(Left(h)') <= Due(h)'
<1>1. Left(h) \in SUBSET Slots
  BY DEF Left
<1>2. /\ Cardinality(Left(h)) \in Nat /\ Cardinality(Left(h)') \in Nat
      /\ Cardinality(Left(h)') <= Cardinality(Left(h))
  BY <1>1, Fewer
<1>3. Cardinality(Left(h)) <= Due(h)
  BY DEF OwedInv
<1>4. Due(h) \in Nat
  BY DueTypes DEF Due, Shape
<1> QED BY <1>2, <1>3, <1>4

\* A step of a user that changes one store.
LEMMA OneSlotChanges ==
    ASSUME TypeOK, UNCHANGED mainVars, loaded # None, NEW s \in Slots,
           \A q \in Slots \ {s} : slot'[q] = slot[q],
           NEW h \in Hashes, Retiring(h)
    PROVE  /\ Left(h)' \in SUBSET (Left(h) \cup {s})
           /\ s \in Left(h)' => slot'[s] # None /\ slot'[s].hash = h /\ Retired(s, h)
BY DEF TypeOK, mainVars, Left, Holds, Retiring, Retired

\* An eviction that is paid was owed to the bytes the slot was left on.
LEMMA PaidWasLeft ==
    ASSUME Shape, loaded # None, NEW s \in Slots, slot[s] # None, NEW h \in Hashes, Retiring(h),
           slot[s].hash = h, owed[h] # 0
    PROVE  s \in Left(h)
BY DEF Shape, SweepShape, NothingOwed, Retiring, Left, Holds

\* A slot that pays an eviction owed to its bytes is emptied, or is refilled.
LEMMA PaymentOwes ==
    ASSUME Shape, OwedInv, loaded # None, UNCHANGED <<mainVars, late>>, NEW s \in Slots,
           slot' = [slot EXCEPT ![s] = None],
           slot[s] # None, owed' = Consumed(slot[s].hash),
           NEW h \in Hashes, Retiring(h)
    PROVE  Cardinality(Left(h)') <= Due(h)'
<1> USE DEF Shape
<1>1. Left(h)' \in SUBSET (Left(h) \ {s})
  BY OneSlotChanges DEF TypeOK, Left, Holds
<1>2. CASE slot[s].hash = h /\ owed[h] # 0
  <2>1. s \in Left(h)
    BY <1>2, PaidWasLeft
  <2> DEFINE n == IF h = loaded.hash THEN deferred ELSE 0
             c == Cardinality(Left(h))
             d == Cardinality(Left(h)')
  <2>2. c \in Nat /\ d \in Nat /\ d + 1 <= c
    BY <1>1, <2>1, DueTypes, OneLess
  <2>3. owed'[h] = owed[h] - 1 /\ late'[h] = late[h] /\ UNCHANGED n
    BY <1>2 DEF Consumed, TypeOK, mainVars
  <2>4. owed[h] \in Nat /\ late[h] \in Nat /\ n \in Nat
    BY DueTypes
  <2>5. c <= owed[h] + late[h] + n
    BY DEF OwedInv, Due
  <2>6. Due(h)' = owed'[h] + late'[h] + n'
    BY DEF Due
  <2> HIDE DEF n, c
  <2>7. d <= (owed[h] - 1) + late[h] + n
    <3> HIDE DEF d
    <3> QED BY <2>2, <2>4, <2>5
  <2> QED BY <2>3, <2>6, <2>7
<1>3. CASE ~(slot[s].hash = h /\ owed[h] # 0)
  <2>1. owed'[h] = owed[h] /\ late'[h] = late[h]
    BY <1>3 DEF Consumed, TypeOK
  <2>2. Due(h)' = Due(h)
    BY <2>1 DEF Due, mainVars
  <2> QED BY <1>1, <2>2, LeftShrinks
<1> QED BY <1>2, <1>3

\* A refill with retired bytes is counted, and may follow an eviction that was paid.
LEMMA RefillOwes ==
    ASSUME Shape, OwedInv, loaded # None, UNCHANGED mainVars, NEW s \in Slots,
           NEW m \in Module, Fill(s, m),
           owed' = owed \/ (slot[s] # None /\ owed' = Consumed(slot[s].hash)),
           NEW h \in Hashes, Retiring(h)
    PROVE  Cardinality(Left(h)') <= Due(h)'
<1> USE DEF Shape
<1> DEFINE N == Cardinality(Slots)
           n == IF h = loaded.hash THEN deferred ELSE 0
           c == Cardinality(Left(h))
           d == Cardinality(Left(h)')
           back == m.hash = h /\ Retired(s, h)
<1>1. slot' = [slot EXCEPT ![s] = m] /\ m # None
  BY NoneIsApart DEF Fill
<1>2. /\ Left(h)' \in SUBSET (Left(h) \cup {s})
      /\ ~back => Left(h)' \in SUBSET (Left(h) \ {s})
      /\ Left(h)' \in SUBSET Slots
  BY <1>1, OneSlotChanges DEF TypeOK, Left
<1>3. /\ N \in Nat /\ owed[h] \in Nat /\ late[h] \in Nat /\ n \in Nat /\ late[h] <= N
      /\ Left(h) \in SUBSET Slots
  BY DueTypes, SlotsCount
<1>4. /\ back => late'[h] = IF late[h] < N THEN late[h] + 1 ELSE N
      /\ ~back => late'[h] = late[h]
  <2>1. late' = [late EXCEPT ![m.hash] = IF Retired(s, m.hash) /\ @ < N THEN @ + 1 ELSE @]
    BY DEF Fill, Counted
  <2>2. late \in [Hashes -> 0..N]
    BY DEF TypeOK
  <2> HIDE DEF N
  <2> QED BY <1>3, <2>1, <2>2
<1>5. c <= owed[h] + late[h] + n /\ n' = n
  BY DEF OwedInv, Due, mainVars
<1>6. c \in Nat /\ d \in Nat /\ d <= N
  BY <1>2, <1>3, SlotsCount
<1>7. d <= c + 1 /\ (s \in Left(h) => d <= c)
  <2>1. d <= c + 1
    BY <1>2, <1>3, OneMore
  <2>2. s \in Left(h) => Left(h)' \in SUBSET Left(h)
    BY <1>2
  <2> QED BY <1>3, <2>1, <2>2, Fewer
<1>8. ~back => d <= c /\ (s \in Left(h) => d + 1 <= c)
  <2>1. ~back => Left(h)' \in SUBSET Left(h)
    BY <1>2
  <2>2. ~back => d <= c
    BY <1>3, <2>1, Fewer
  <2>3. ~back /\ s \in Left(h) => d + 1 <= c
    BY <1>2, <1>3, OneLess
  <2> QED BY <2>2, <2>3
<1>9. \/ owed'[h] = owed[h]
      \/ s \in Left(h) /\ owed[h] # 0 /\ owed'[h] = owed[h] - 1
  <2>1. CASE owed' = owed \/ slot[s].hash # h \/ owed[h] = 0
    BY <2>1 DEF Consumed, TypeOK
  <2>2. CASE slot[s].hash = h /\ owed[h] # 0 /\ slot[s] # None /\ owed' = Consumed(slot[s].hash)
    BY <2>2, PaidWasLeft DEF Consumed, TypeOK
  <2> QED BY <2>1, <2>2
<1>10. Due(h)' = owed'[h] + late'[h] + n'
  BY DEF Due
<1> HIDE DEF N, n, c, back
<1>11. d <= owed'[h] + late'[h] + n'
  <2> HIDE DEF d
  <2>1. CASE back
    BY <1>3, <1>4, <1>5, <1>6, <1>7, <1>9, <2>1
  <2>2. CASE ~back
    BY <1>3, <1>4, <1>5, <1>6, <1>8, <1>9, <2>2
  <2> QED BY <2>1, <2>2
<1> QED BY <1>10, <1>11

LEMMA UserOwedStep ==
    ASSUME Shape, OwedInv, UserStep, loaded # None, NEW h \in Hashes, Retiring(h)
    PROVE  Cardinality(Left(h)') <= Due(h)'
<1> USE DEF Shape
<1>1. UNCHANGED mainVars
  BY UserFrame DEF others
<1>2. ASSUME UNCHANGED <<owed, late>>, \A q \in Slots : slot'[q] \in {slot[q], None}
      PROVE  Cardinality(Left(h)') <= Due(h)'
  <2>1. Left(h)' \in SUBSET Left(h) /\ Due(h)' = Due(h)
    BY <1>1, <1>2 DEF mainVars, Left, Holds, Due
  <2> QED BY <2>1, LeftShrinks
<1>3. loaded \in Module
  BY DEF TypeOK, Source
<1>4. ASSUME NEW u \in Users, user[u].pc = "run", EvictIfPending(user[u].slot), late' = late
      PROVE  Cardinality(Left(h)') <= Due(h)'
  <2> DEFINE s == user[u].slot
  <2>1. s \in Slots /\ slot[s] # None
    BY <1>4 DEF UserShape
  <2>2. CASE slot' = [slot EXCEPT ![s] = None] /\ owed' = Consumed(slot[s].hash)
    BY <1>1, <1>4, <2>1, <2>2, PaymentOwes
  <2>3. CASE UNCHANGED <<slot, owed>>
    BY <1>2, <1>4, <2>3
  <2> QED BY <1>4, <2>2, <2>3 DEF EvictIfPending
<1>5. CASE ReleaseShared
  <2>1. UNCHANGED <<owed, late>> /\ \A q \in Slots : slot'[q] \in {slot[q], None}
    BY <1>5 DEF ReleaseShared
  <2> QED BY <1>2, <2>1
<1>6. ASSUME NEW d \in Dispatchers, Prepare(d)
      PROVE  Cardinality(Left(h)') <= Due(h)'
  <2>1. owed' = owed /\ (UNCHANGED <<slot, late>> \/ \E s \in Slots : Fill(s, loaded))
    BY <1>6 DEF Prepare
  <2>2. CASE UNCHANGED <<slot, late>>
    BY <1>2, <2>1, <2>2
  <2>3. ASSUME NEW s \in Slots, Fill(s, loaded)
        PROVE  Cardinality(Left(h)') <= Due(h)'
    <3>1. owed' = owed \/ (slot[s] # None /\ owed' = Consumed(slot[s].hash))
      BY <2>1
    <3> HIDE DEF Shape
    <3> QED BY <1>1, <1>3, <2>3, <3>1, RefillOwes
  <2> QED BY <2>1, <2>2, <2>3
<1>7. ASSUME NEW d \in Dispatchers, NEW s \in Slots, Acquire(d, s)
      PROVE  Cardinality(Left(h)') <= Due(h)'
  <2>1. ReloadEntry(user[d].local) \in Module
    BY <1>7 DEF Acquire, ReloadEntry, UserShape, TypeOK, Source, Users
  <2>2. owed' = owed /\ (UNCHANGED <<slot, late>> \/ Fill(s, ReloadEntry(user[d].local)))
    BY <1>7 DEF Acquire
  <2>3. CASE UNCHANGED <<slot, late>>
    BY <1>2, <2>2, <2>3
  <2>4. CASE Fill(s, ReloadEntry(user[d].local))
    <3>1. owed' = owed \/ (slot[s] # None /\ owed' = Consumed(slot[s].hash))
      BY <2>2
    <3> HIDE DEF Shape
    <3> QED BY <1>1, <2>1, <2>4, <3>1, RefillOwes
  <2> QED BY <2>2, <2>3, <2>4
<1>8. ASSUME NEW d \in Dispatchers, DispatchOk(d)
      PROVE  Cardinality(Left(h)') <= Due(h)'
  BY <1>4, <1>8 DEF DispatchOk, Users
<1>9. ASSUME NEW d \in Dispatchers, Poison(d)
      PROVE  Cardinality(Left(h)') <= Due(h)'
  <2> DEFINE s == user[d].slot
  <2>1. s \in Slots /\ slot[s] # None /\ d \in Users
    BY <1>9 DEF Poison, UserShape, Users
  <2>2. ReloadEntry(user[d].local) \in Module
    BY <1>9, <2>1 DEF Poison, ReloadEntry, UserShape, TypeOK, Source
  <2>3. owed' = Consumed(slot[s].hash) /\ Fill(s, ReloadEntry(user[d].local))
    BY <1>9 DEF Poison
  <2> QED BY <1>1, <2>1, <2>2, <2>3, RefillOwes
<1>10. ASSUME NEW d \in Dispatchers, Retry(d)
       PROVE  Cardinality(Left(h)') <= Due(h)'
  <2>1. UNCHANGED <<owed, late>> /\ \A q \in Slots : slot'[q] \in {slot[q], None}
    BY <1>10 DEF Retry, TypeOK
  <2> QED BY <1>2, <2>1
<1>11. ASSUME NEW c \in Callers, Ensure(c) \/ \E s \in Slots : Call(c, s)
       PROVE  Cardinality(Left(h)') <= Due(h)'
  <2>1. UNCHANGED <<slot, owed, late>>
    BY <1>11 DEF Ensure, Call, slotVars
  <2> QED BY <1>2, <2>1
<1>12. ASSUME NEW c \in Callers, NEW s \in Slots, FillForCall(c, s)
       PROVE  Cardinality(Left(h)') <= Due(h)'
  <2>1. user[c].local \in Module
    BY <1>12 DEF FillForCall, UserShape, TypeOK, Source, Users
  <2>2. owed' = owed /\ (UNCHANGED <<slot, late>> \/ Fill(s, user[c].local))
    BY <1>12 DEF FillForCall
  <2>3. CASE UNCHANGED <<slot, late>>
    BY <1>2, <2>2, <2>3
  <2>4. CASE Fill(s, user[c].local)
    <3>1. owed' = owed \/ (slot[s] # None /\ owed' = Consumed(slot[s].hash))
      BY <2>2
    <3> HIDE DEF Shape
    <3> QED BY <1>1, <2>1, <2>4, <3>1, RefillOwes
  <2> QED BY <2>2, <2>3, <2>4
<1>13. ASSUME NEW c \in Callers, CallEnds(c)
       PROVE  Cardinality(Left(h)') <= Due(h)'
  BY <1>4, <1>13 DEF CallEnds, Users
<1>14. ASSUME NEW c \in Callers, EmbedFails(c)
       PROVE  Cardinality(Left(h)') <= Due(h)'
  <2>1. UNCHANGED <<owed, late>> /\ \A q \in Slots : slot'[q] \in {slot[q], None}
    BY <1>14 DEF EmbedFails, TypeOK
  <2> QED BY <1>2, <2>1
<1> QED BY <1>5, <1>6, <1>7, <1>8, <1>9, <1>10, <1>11, <1>12, <1>13, <1>14 DEF UserStep

\* The main loop meets each busy slot once, and writes down what it met.
LEMMA SweepOwes ==
    ASSUME Shape, OwedInv, NEW s \in Slots, Sweep(s)
    PROVE  OwedInv'
<1> USE DEF Shape
<1>1. SUFFICES ASSUME NEW h \in Hashes, Retiring(h)'
               PROVE  Cardinality(Left(h)') <= Due(h)'
  BY DEF OwedInv
<1>2. /\ loaded # None /\ UNCHANGED <<loaded, installing, owed, late>>
      /\ unswept' = unswept \ {s} /\ main = "sweep" /\ main' \in {"sweep", "owe"}
      /\ installing.hash # loaded.hash
  BY DEF Sweep, MainShape
<1>3. Retiring(h)
  BY <1>2 DEF Retiring
<1>4. CASE Free(s)
  <2>1. deferred' = deferred /\ slot' = [slot EXCEPT ![s] = IF Holds(s, loaded.hash) THEN None ELSE @]
    BY <1>4 DEF Sweep
  <2>2. Due(h)' = Due(h)
    BY <1>2, <2>1 DEF Due
  <2>3. Left(h)' \in SUBSET Left(h)
    BY <1>2, <2>1 DEF Left, Holds, TypeOK
  <2> QED BY <1>2, <1>3, <2>2, <2>3, LeftShrinks
<1>5. CASE ~Free(s) /\ h # loaded.hash
  <2>1. Due(h)' = Due(h) /\ Left(h)' \in SUBSET Left(h)
    BY <1>2, <1>5 DEF Due, Left, Holds, Sweep
  <2> QED BY <1>2, <1>3, <2>1, LeftShrinks
<1>6. CASE ~Free(s) /\ h = loaded.hash
  <2> DEFINE c == Cardinality(Left(h))
             d == Cardinality(Left(h)')
  <2>1. deferred' = deferred + 1 /\ slot' = slot
    BY <1>6 DEF Sweep
  <2>2. Left(h)' \in SUBSET (Left(h) \cup {s})
    BY <1>2, <2>1 DEF Left, Holds
  <2>3. c \in Nat /\ d \in Nat /\ d <= c + 1
    BY <2>2, DueTypes, OneMore
  <2>4. c <= owed[h] + late[h] + deferred
    BY <1>2, <1>3, <1>6 DEF OwedInv, Due
  <2>5. Due(h)' = owed[h] + late[h] + (deferred + 1)
    BY <1>2, <1>6, <2>1 DEF Due
  <2>6. owed[h] \in Nat /\ late[h] \in Nat /\ deferred \in Nat
    BY DueTypes
  <2> HIDE DEF c
  <2>7. d <= owed[h] + late[h] + (deferred + 1)
    <3> HIDE DEF d
    <3> QED BY <2>3, <2>4, <2>6
  <2> QED BY <2>5, <2>7
<1> QED BY <1>4, <1>5, <1>6

LEMMA SwapOwes ==
    ASSUME Shape, OwedInv, Swap
    PROVE  OwedInv'
<1> USE DEF Shape
<1>1. SUFFICES ASSUME NEW h \in Hashes, Retiring(h)'
               PROVE  Cardinality(Left(h)') <= Due(h)'
  BY DEF OwedInv
<1>2. /\ main = "swap" /\ main' \in {"publish", "note"} /\ loaded' = installing
      /\ installing \in Module /\ UNCHANGED <<slot, owed, deferred>> /\ deferred = 0
      /\ unswept' = {} /\ late' = [late EXCEPT ![installing.hash] = 0]
  BY DEF Swap, MainShape, SweepShape, TypeOK, Source
<1>3. h # installing.hash
  BY <1>1, <1>2 DEF Retiring
<1>4. late'[h] = late[h]
  BY <1>2, <1>3 DEF TypeOK
<1>5. Due(h)' = Due(h)
  BY <1>2, <1>3, <1>4, DueTypes DEF Due
<1>6. CASE loaded = None
  <2>1. Left(h)' = {}
    BY <1>2, <1>6 DEF BeforeLoad, Left, Holds
  <2>2. Due(h) \in Nat
    BY DueTypes DEF Due
  <2> QED BY <1>5, <2>1, <2>2, FS_EmptySet
<1>7. CASE loaded # None
  <2>1. Retiring(h)
    BY <1>2, <1>3 DEF Retiring
  <2>2. h = loaded.hash => unswept = {}
    BY <1>2, <1>3, <1>7 DEF SweepShape
  <2>3. Left(h)' \in SUBSET Left(h)
    BY <1>2, <2>2 DEF Left, Holds
  <2> QED BY <1>5, <1>7, <2>1, <2>3, LeftShrinks
<1> QED BY <1>6, <1>7

LEMMA OwedStep ==
    ASSUME Shape, OwedInv, [Next]_vars
    PROVE  OwedInv'
<1> USE DEF Shape
<1>0. SUFFICES ASSUME loaded' # None
               PROVE  OwedInv'
  BY DEF OwedInv
<1>1. CASE UserStep
  <2>1. UNCHANGED mainVars
    BY <1>1, UserFrame DEF others
  <2>2. ASSUME NEW h \in Hashes, Retiring(h)'
        PROVE  Cardinality(Left(h)') <= Due(h)'
    <3>1. loaded # None /\ Retiring(h)
      BY <1>0, <2>1, <2>2 DEF mainVars, Retiring
    <3> QED BY <1>1, <3>1, UserOwedStep
  <2> QED BY <2>2 DEF OwedInv
<1>2. CASE DiskStep \/ UNCHANGED vars
  <2>1. UNCHANGED <<mainVars, slotVars>>
    BY <1>2, DiskFrame DEF vars
  <2> QED BY <2>1 DEF OwedInv, Retiring, Left, Holds, Due, mainVars, slotVars
<1>3. ASSUME UNCHANGED <<loaded, slot, late>>, loaded # None,
             main' \notin {"sweep", "owe", "swap"} \/ main \notin {"sweep", "owe", "swap"},
             \A h \in Hashes \ {loaded.hash} : owed'[h] = owed[h],
             Retiring(loaded.hash)' => Left(loaded.hash)' = {}
      PROVE  OwedInv'
  <2>1. SUFFICES ASSUME NEW h \in Hashes, Retiring(h)'
                 PROVE  Cardinality(Left(h)') <= Due(h)'
    BY DEF OwedInv
  <2>2. CASE h # loaded.hash
    <3>1. Retiring(h) /\ Due(h)' = Due(h) /\ Left(h)' \in SUBSET Left(h)
      BY <1>3, <2>2 DEF Retiring, Due, Left, Holds
    <3> QED BY <1>3, <3>1, LeftShrinks
  <2>3. CASE h = loaded.hash
    <3>1. Due(h)' \in Nat
      <4>1. TypeOK'
        BY TypeStep
      <4>2. owed'[h] \in Nat /\ late'[h] \in Nat /\ deferred' \in Nat
        BY <4>1, SlotsCount DEF TypeOK
      <4> QED BY <4>2 DEF Due
    <3> QED BY <1>3, <2>1, <2>3, <3>1, FS_EmptySet
  <2> QED BY <2>2, <2>3
<1>4. CASE \/ AdoptNothing \/ AdoptFailure \/ CheckStat \/ HashIsLoaded \/ HashIsAwaited
           \/ (\E t \in Threads : HashIsNew(t)) \/ PublishSource
  <2>1. /\ UNCHANGED <<loaded, slotVars>> /\ main' \notin {"sweep", "owe", "swap"}
    BY <1>4 DEF AdoptNothing, AdoptFailure, CheckStat, HashIsLoaded, HashIsAwaited, HashIsNew,
       PublishSource
  <2> QED BY <1>0, <1>3, <2>1 DEF Retiring, slotVars
<1>5. ~HashIsFirst /\ ~CompileFirst /\ ~CompileFirstFails
  BY <1>0 DEF HashIsFirst, CompileFirst, CompileFirstFails, MainShape
<1>6. CASE Adopt
  <2>1. /\ UNCHANGED <<loaded, slotVars>> /\ main = "scan" /\ unswept' = Slots
    BY <1>6 DEF Adopt, Install
  <2>2. Left(loaded.hash)' = {}
    BY <2>1 DEF Left
  <2> QED BY <1>0, <1>3, <2>1, <2>2 DEF slotVars
<1>7. CASE Note
  <2>1. /\ UNCHANGED <<loaded, slot, late>> /\ main' = "stat"
        /\ owed' = [owed EXCEPT ![loaded.hash] = 0]
    BY <1>7 DEF Note
  <2> QED BY <1>0, <1>3, <2>1 DEF Retiring, TypeOK
<1>8. CASE Owe
  <2>1. /\ UNCHANGED <<loaded, installing, slot, late, unswept>> /\ main' = "swap"
        /\ main = "owe" /\ deferred' = 0 /\ installing.hash # loaded.hash /\ loaded # None
        /\ owed' = [owed EXCEPT ![loaded.hash] = @ + deferred]
    BY <1>8 DEF Owe, MainShape
  <2>2. SUFFICES ASSUME NEW h \in Hashes, Retiring(h)'
                 PROVE  Cardinality(Left(h)') <= Due(h)'
    BY DEF OwedInv
  <2>3. owed \in [Hashes -> 0..Cardinality(Slots)]
    BY DEF TypeOK
  <2>4. owed'[h] = IF h = loaded.hash THEN owed[h] + deferred ELSE owed[h]
    BY <2>1, <2>3
  <2>5. owed[h] \in Nat /\ late[h] \in Nat /\ deferred \in Nat
    BY DueTypes
  <2>6. Due(h)' = Due(h)
    BY <2>1, <2>4, <2>5 DEF Due
  <2>7. Retiring(h) /\ Left(h)' \in SUBSET Left(h)
    BY <2>1 DEF Retiring, Left, Holds
  <2> QED BY <2>1, <2>6, <2>7, LeftShrinks
<1> QED BY <1>1, <1>2, <1>4, <1>5, <1>6, <1>7, <1>8, SweepOwes, SwapOwes
        DEF Next, Main, DiskStep, UserStep

----
(* The theorems.                                                           *)

LEMMA InvHolds == Spec => []Inv
<1>1. Init => Inv
  <2> SUFFICES ASSUME Init PROVE Inv
    OBVIOUS
  <2>1. BytesInv
    BY DEF Init, BytesInv, NoneOrGenuine, Genuine, Idle, Off
  <2>2. OwedInv
    BY DEF Init, OwedInv
  <2> QED BY <2>1, <2>2, InitShape DEF Inv
<1>2. Inv /\ [Next]_vars => Inv'
  BY ShapeStep, BytesStep, OwedStep DEF Inv
<1> QED BY <1>1, <1>2, PTL DEF Spec

\* PluginModules and SharedPluginPool keep the types of their state: the evictions owed to
\* a hash never exceed the number of slots, and none is paid that is not owed.
THEOREM HotReloadTypeCorrect == Spec => []TypeOK
<1>1. Inv => TypeOK
  BY DEF Inv, Shape
<1> QED BY <1>1, InvHolds, PTL

\* A store that the swap to a new version left on the old bytes, because a dispatch was in
\* it, has an eviction owed to it or is a refill with an old module map
\* (request_store_swap, evict_if_swap_pending, note_pending_eviction_consumed).
THEOREM RetiredStoresAreOwed == Spec => []StoresAreOwed
<1>1. Inv => StoresAreOwed
  <2> SUFFICES ASSUME Inv, loaded # None, NEW h \in Hashes \ {loaded.hash}
               PROVE  Cardinality({s \in Slots : Holds(s, h)}) <= owed[h] + late[h]
    BY DEF StoresAreOwed
  <2>1. Left(h) = {s \in Slots : Holds(s, h)} /\ Retiring(h)
    BY DEF Left, Retiring
  <2>2. Due(h) = owed[h] + late[h]
    BY DueTypes DEF Due, Inv, Shape
  <2> QED BY <2>1, <2>2 DEF Inv, OwedInv
<1> QED BY <1>1, InvHolds, PTL

\* When get_or_compile has nothing left to swap, no eviction is owed to the bytes it loaded:
\* a dispatch that ends keeps its current store (note_bytes_current).
THEOREM CurrentStoresAreKept == Spec => []CurrentIsKept
<1>1. Inv => CurrentIsKept
  BY DEF Inv, Shape, NothingOwed, CurrentIsKept
<1> QED BY <1>1, InvHolds, PTL

\* Recompiles that are abandoned, fail or finish late, and the artifact cache, never lend
\* the bytes of one version to the hash of another (load_module_file_backed).
THEOREM ModulesGoByTheirHash == Spec => []BytesAreTheirHash
<1>1. Inv => BytesAreTheirHash
  BY DEF Inv, BytesInv, NoneOrGenuine, Genuine, BytesAreTheirHash
<1> QED BY <1>1, InvHolds, PTL
=============================================================================
