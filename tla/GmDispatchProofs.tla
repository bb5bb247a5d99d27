-------------------------- MODULE GmDispatchProofs --------------------------
(* Proofs about the dispatch threads of a project and about the two guards  *)
(* they are composed of, the queue of a verb (ToolQueue) and the serial     *)
(* lane (SerialLane), for any tasks, identities, budgets, times and bounds. *)
EXTENDS GmDispatch, TLAPS

----
(* The queue of a verb: ToolQueue.                                         *)

\* The counters never cross.  This is what keeps a fresh ticket off those that
\* are already waited for, and the reason the invariants are inductive.
InOrder == cut = {} => now_serving <= next_ticket

QueueInv ==
    /\ QueueTypeOK
    /\ OneHolderUntilCut
    /\ TicketsOfWaiters
    /\ NoPanicUntilCut
    /\ InOrder

\* TypeOK is inductive by itself.
LEMMA QueueTypeStep == QueueTypeOK /\ [QueueNext]_queueVars => QueueTypeOK'
<1> SUFFICES ASSUME QueueTypeOK, [QueueNext]_queueVars PROVE QueueTypeOK'
  OBVIOUS
<1> USE DEF QueueTypeOK, QueuePlaces
<1>1. CASE UNCHANGED queueVars
  BY <1>1 DEF queueVars
<1>2. ASSUME NEW d \in Dispatches, Enter(d) PROVE QueueTypeOK'
  BY <1>2 DEF Enter, Served
<1>3. ASSUME NEW d \in Dispatches, Serve(d) PROVE QueueTypeOK'
  BY <1>3 DEF Serve
<1>4. ASSUME NEW d \in Dispatches, GiveUp(d) PROVE QueueTypeOK'
  BY <1>4 DEF GiveUp, Passed, RemoveEntry
<1>5. ASSUME NEW d \in Dispatches, Panic(d) PROVE QueueTypeOK'
  BY <1>5 DEF Panic, counters
<1>6. ASSUME NEW d \in Dispatches, Release(d) PROVE QueueTypeOK'
  BY <1>6 DEF Release, RemoveEntry
<1>7. ASSUME NEW d \in Dispatches, Reenter(d) PROVE QueueTypeOK'
  BY <1>7 DEF Reenter, counters
<1> QED BY <1>1, <1>2, <1>3, <1>4, <1>5, <1>6, <1>7 DEF QueueNext

\* The variables keep their types (registry.rs, ToolQueue and its waiters).
THEOREM QueueTypeCorrect == QueueSpec => []QueueTypeOK
<1>1. QueueInit => QueueTypeOK
  BY DEF QueueInit, QueueTypeOK, QueuePlaces
<1> QED BY <1>1, QueueTypeStep, PTL DEF QueueSpec

LEMMA EmptyRange == \A n \in Nat : n .. n - 1 = {}
OBVIOUS

\* The inductive invariant holds initially.
LEMMA QueueInvInit == QueueInit => QueueInv
BY DEF QueueInit, QueueInv, QueueTypeOK, QueuePlaces, OneHolderUntilCut, TicketsOfWaiters,
       NoPanicUntilCut, InOrder, Holding, InLine

\* A ticket drawn joins the tickets of the waiters at their end, or is served
\* at once because there are none.
LEMMA EnterQueueInv ==
    ASSUME QueueInv, NEW d \in Dispatches, Enter(d), cut' = {}, QueueTypeOK'
    PROVE  QueueInv'
<1> USE DEF QueueInv, QueueTypeOK, QueuePlaces, Holding, InLine
<1>0. cut = {}
  BY DEF Enter
<1>1. CASE Served(next_ticket)
  <2>1. entry # "active" /\ now_serving = next_ticket
    BY <1>1 DEF Served
  <2>2. Holding = {} /\ InLine = {}
    <3>1. Holding = {}
      BY <2>1, <1>0 DEF OneHolderUntilCut
    <3>2. now_serving .. next_ticket - 1 = {}
      BY <2>1
    <3>3. \A e \in InLine : ticket[e] \in now_serving .. next_ticket - 1
      BY <1>0 DEF TicketsOfWaiters
    <3> QED BY <3>1, <3>2, <3>3
  <2>3. /\ entry' = "active"
        /\ now_serving' = next_ticket'
        /\ place' = [place EXCEPT ![d] = "holding"]
    BY <1>1, <2>1 DEF Enter
  <2>4. Holding' = {d} /\ InLine' = {}
    BY <2>2, <2>3
  <2>5. now_serving' .. next_ticket' - 1 = {}
    <3>1. next_ticket' \in Nat
      OBVIOUS
    <3> QED BY <2>3, <3>1, EmptyRange
  <2>6. TicketsOfWaiters'
    BY <2>4, <2>5 DEF TicketsOfWaiters
  <2>7. OneHolderUntilCut' /\ InOrder' /\ NoPanicUntilCut'
    BY <2>3, <2>4, <1>0 DEF OneHolderUntilCut, InOrder, NoPanicUntilCut
  <2> QED BY <2>6, <2>7
<1>2. CASE ~Served(next_ticket)
  <2>1. /\ place' = [place EXCEPT ![d] = "waiting"]
        /\ ticket' = [ticket EXCEPT ![d] = next_ticket]
        /\ next_ticket' = next_ticket + 1
        /\ UNCHANGED <<entry, now_serving>>
        /\ place[d] = "outside"
    BY <1>2 DEF Enter
  <2>2. entry # "absent"
    BY <1>2 DEF Served
  <2>3. Holding' = Holding /\ InLine' = InLine \cup {d} /\ d \notin InLine
    BY <2>1
  <2>4. \A e \in InLine : ticket'[e] = ticket[e] /\ ticket[e] < next_ticket
    BY <2>1, <2>3, <1>0 DEF TicketsOfWaiters
  <2>5. {ticket'[e] : e \in InLine'} = {ticket[e] : e \in InLine} \cup {next_ticket}
    BY <2>1, <2>3, <2>4
  <2>6. now_serving' .. next_ticket' - 1 = (now_serving .. next_ticket - 1) \cup {next_ticket}
    BY <2>1, <1>0 DEF InOrder
  <2>7. TicketsOfWaiters'
    <3>1. \A e \in InLine : ticket'[e] # ticket'[d]
      BY <2>1, <2>4
    <3> QED BY <2>3, <2>4, <2>5, <2>6, <3>1, <1>0 DEF TicketsOfWaiters
  <2>8. OneHolderUntilCut' /\ InOrder' /\ NoPanicUntilCut'
    BY <2>1, <2>2, <2>3, <1>0 DEF OneHolderUntilCut, InOrder, NoPanicUntilCut
  <2> QED BY <2>7, <2>8
<1> QED BY <1>1, <1>2

\* The waiter let in has the smallest ticket; the others keep theirs.
LEMMA ServeQueueInv ==
    ASSUME QueueInv, NEW d \in Dispatches, Serve(d), cut' = {}, QueueTypeOK'
    PROVE  QueueInv'
<1> USE DEF QueueInv, QueueTypeOK, QueuePlaces, Holding, InLine
<1>1. /\ cut = {}
      /\ place[d] = "waiting"
      /\ entry # "absent" /\ entry # "active" /\ entry' = "active"
      /\ now_serving = ticket[d] /\ now_serving' = now_serving + 1
      /\ place' = [place EXCEPT ![d] = "holding"]
      /\ ticket' = [ticket EXCEPT ![d] = 0]
      /\ next_ticket' = next_ticket
  BY DEF Serve, Served
<1>2. Holding = {}
  BY <1>1 DEF OneHolderUntilCut
<1>3. Holding' = {d} /\ InLine' = InLine \ {d} /\ d \in InLine
  BY <1>1, <1>2
<1>4. \A e \in InLine' : ticket'[e] = ticket[e] /\ ticket[e] # ticket[d]
  BY <1>1, <1>3 DEF TicketsOfWaiters
<1>5. {ticket'[e] : e \in InLine'} = {ticket[e] : e \in InLine} \ {ticket[d]}
  BY <1>3, <1>4
<1>6. now_serving' .. next_ticket' - 1 = (now_serving .. next_ticket - 1) \ {ticket[d]}
  BY <1>1
<1>7. TicketsOfWaiters'
  BY <1>1, <1>3, <1>4, <1>5, <1>6 DEF TicketsOfWaiters
<1>8. now_serving < next_ticket
  BY <1>1, <1>3 DEF TicketsOfWaiters
<1>9. OneHolderUntilCut' /\ InOrder' /\ NoPanicUntilCut'
  BY <1>1, <1>3, <1>8 DEF OneHolderUntilCut, InOrder, NoPanicUntilCut
<1> QED BY <1>7, <1>9

\* A give-up that cuts nobody off is that of the first waiter, with another
\* waiter behind it, or with no holder: its ticket alone is stepped over.
LEMMA GiveUpQueueInv ==
    ASSUME QueueInv, NEW d \in Dispatches, GiveUp(d), cut' = {}, QueueTypeOK'
    PROVE  QueueInv'
<1> USE DEF QueueInv, QueueTypeOK, QueuePlaces, Holding, InLine
<1>1. /\ cut = {}
      /\ place[d] = "waiting" /\ entry # "absent"
      /\ place' = [place EXCEPT ![d] = "starved"]
      /\ ticket' = [ticket EXCEPT ![d] = 0]
      /\ next_ticket = Passed(d) => Holding = {}
      /\ \A e \in InLine \ {d} : ~(ticket[e] < Passed(d))
  BY DEF GiveUp
<1>2. d \in InLine /\ InLine' = InLine \ {d} /\ Holding' = Holding
  BY <1>1
<1>3. ticket[d] \in now_serving .. next_ticket - 1
  BY <1>1, <1>2 DEF TicketsOfWaiters
<1>4. Passed(d) = ticket[d] + 1
  BY <1>3 DEF Passed
<1>5. ticket[d] = now_serving
  <2>1. SUFFICES ASSUME ticket[d] # now_serving PROVE FALSE
    OBVIOUS
  <2>2. now_serving \in now_serving .. next_ticket - 1
    BY <1>3
  <2>3. PICK e \in InLine : ticket[e] = now_serving
    <3>1. {ticket[e] : e \in InLine} = now_serving .. next_ticket - 1
      BY <1>1 DEF TicketsOfWaiters
    <3> HIDE DEF InLine
    <3> QED BY <2>2, <3>1
  <2> QED BY <2>1, <2>3, <1>1, <1>3, <1>4
<1>6. \A e \in InLine' : ticket'[e] = ticket[e] /\ ticket[e] # ticket[d]
  BY <1>1, <1>2 DEF TicketsOfWaiters
<1>7. {ticket'[e] : e \in InLine'} = (now_serving .. next_ticket - 1) \ {now_serving}
  BY <1>1, <1>2, <1>5, <1>6 DEF TicketsOfWaiters
<1>8. (now_serving .. next_ticket - 1) \ {now_serving} = now_serving + 1 .. next_ticket - 1
  OBVIOUS
<1>9. CASE next_ticket = Passed(d)
  <2>1. entry' = "absent" /\ next_ticket' = 0 /\ now_serving' = 0
    BY <1>9 DEF GiveUp, RemoveEntry
  <2>2. {ticket'[e] : e \in InLine'} = {}
    BY <1>4, <1>5, <1>7, <1>8, <1>9
  <2>3. InLine' = {} /\ Holding' = {}
    BY <2>2, <1>1, <1>2, <1>9
  <2>4. now_serving' .. next_ticket' - 1 = {}
    BY <2>1
  <2>5. TicketsOfWaiters'
    BY <2>2, <2>3, <2>4 DEF TicketsOfWaiters
  <2>6. OneHolderUntilCut' /\ InOrder' /\ NoPanicUntilCut'
    BY <2>1, <2>3, <1>1 DEF OneHolderUntilCut, InOrder, NoPanicUntilCut
  <2> QED BY <2>5, <2>6
<1>10. CASE next_ticket # Passed(d)
  <2>1. now_serving' = now_serving + 1 /\ next_ticket' = next_ticket /\ entry' = entry
    BY <1>4, <1>5, <1>10 DEF GiveUp
  <2>2. TicketsOfWaiters'
    BY <2>1, <1>1, <1>2, <1>6, <1>7, <1>8 DEF TicketsOfWaiters
  <2>3. InLine' # {}
    <3>1. ticket[d] + 1 \in now_serving .. next_ticket - 1
      BY <1>3, <1>4, <1>5, <1>10
    <3>2. PICK e \in InLine : ticket[e] = ticket[d] + 1
      BY <3>1, <1>1 DEF TicketsOfWaiters
    <3> QED BY <3>2, <1>2
  <2>4. OneHolderUntilCut' /\ InOrder' /\ NoPanicUntilCut'
    BY <2>1, <2>3, <1>1, <1>2, <1>3 DEF OneHolderUntilCut, InOrder, NoPanicUntilCut
  <2> QED BY <2>2, <2>4
<1> QED BY <1>9, <1>10

\* Without a cut the entry of a waiter exists, so nobody panics.
LEMMA PanicQueueInv ==
    ASSUME QueueInv, NEW d \in Dispatches, Panic(d), cut' = {}
    PROVE  FALSE
BY DEF QueueInv, Panic, counters, OneHolderUntilCut, InLine

\* The holder is the only one, so its release leaves an idle entry, or none
\* when nobody waits.
LEMMA ReleaseQueueInv ==
    ASSUME QueueInv, NEW d \in Dispatches, Release(d), cut' = {}, QueueTypeOK'
    PROVE  QueueInv'
<1> USE DEF QueueInv, QueueTypeOK, QueuePlaces, Holding, InLine
<1>1. /\ cut = {} /\ place[d] = "holding" /\ ticket' = ticket
      /\ place' = [place EXCEPT ![d] = "outside"]
  BY DEF Release
<1>2. Holding = {d} /\ Holding' = {} /\ InLine' = InLine
  BY <1>1 DEF OneHolderUntilCut
<1>3. entry = "active"
  BY <1>1, <1>2 DEF OneHolderUntilCut
<1>4. CASE next_ticket = now_serving
  <2>1. entry' = "absent" /\ next_ticket' = 0 /\ now_serving' = 0
    BY <1>4 DEF Release, RemoveEntry
  <2>2. now_serving .. next_ticket - 1 = {} /\ now_serving' .. next_ticket' - 1 = {}
    BY <2>1, <1>4
  <2>3. InLine' = {}
    BY <2>2, <1>1, <1>2 DEF TicketsOfWaiters
  <2> QED BY <2>1, <2>2, <2>3, <1>1, <1>2
          DEF TicketsOfWaiters, OneHolderUntilCut, InOrder, NoPanicUntilCut
<1>5. CASE next_ticket # now_serving
  <2>1. entry' = "idle" /\ next_ticket' = next_ticket /\ now_serving' = now_serving
    BY <1>3, <1>5 DEF Release
  <2>2. InLine # {}
    <3>1. now_serving \in now_serving .. next_ticket - 1
      BY <1>1, <1>5 DEF InOrder
    <3> QED BY <3>1, <1>1 DEF TicketsOfWaiters
  <2>3. TicketsOfWaiters'
    BY <2>1, <1>1, <1>2 DEF TicketsOfWaiters
  <2>4. OneHolderUntilCut' /\ InOrder' /\ NoPanicUntilCut'
    BY <2>1, <2>2, <1>1, <1>2 DEF OneHolderUntilCut, InOrder, NoPanicUntilCut
  <2> QED BY <2>3, <2>4
<1> QED BY <1>4, <1>5

\* Every step keeps the inductive invariant.  After a cut it only says that
\* the types are right.
LEMMA QueueInvStep == QueueInv /\ [QueueNext]_queueVars => QueueInv'
<1> SUFFICES ASSUME QueueInv, [QueueNext]_queueVars PROVE QueueInv'
  OBVIOUS
<1>1. QueueTypeOK'
  BY QueueTypeStep DEF QueueInv
<1>2. CASE cut' # {}
  BY <1>1, <1>2 DEF QueueInv, OneHolderUntilCut, TicketsOfWaiters, NoPanicUntilCut, InOrder
<1>3. CASE cut' = {}
  <2>1. CASE UNCHANGED queueVars
    BY <2>1, <1>1 DEF queueVars, QueueInv, OneHolderUntilCut, TicketsOfWaiters,
                      NoPanicUntilCut, InOrder, Holding, InLine
  <2>2. ASSUME NEW d \in Dispatches, Enter(d) PROVE QueueInv'
    BY <2>2, <1>1, <1>3, EnterQueueInv
  <2>3. ASSUME NEW d \in Dispatches, Serve(d) PROVE QueueInv'
    BY <2>3, <1>1, <1>3, ServeQueueInv
  <2>4. ASSUME NEW d \in Dispatches, GiveUp(d) PROVE QueueInv'
    BY <2>4, <1>1, <1>3, GiveUpQueueInv
  <2>5. ASSUME NEW d \in Dispatches, Panic(d) PROVE QueueInv'
    BY <2>5, <1>1, <1>3, PanicQueueInv
  <2>6. ASSUME NEW d \in Dispatches, Release(d) PROVE QueueInv'
    BY <2>6, <1>1, <1>3, ReleaseQueueInv
  <2>7. ASSUME NEW d \in Dispatches, Reenter(d) PROVE QueueInv'
    <3>1. /\ UNCHANGED <<entry, next_ticket, now_serving, ticket, cut>>
          /\ Holding' = Holding /\ InLine' = InLine
      BY <2>7 DEF Reenter, counters, Holding, InLine, QueueInv, QueueTypeOK
    <3> QED BY <3>1, <2>7, <1>1 DEF Reenter, QueueInv, QueueTypeOK, OneHolderUntilCut,
                TicketsOfWaiters, NoPanicUntilCut, InOrder
  <2> QED BY <2>1, <2>2, <2>3, <2>4, <2>5, <2>6, <2>7 DEF QueueNext
<1> QED BY <1>2, <1>3

LEMMA QueueInvHolds == QueueSpec => []QueueInv
BY QueueInvInit, QueueInvStep, PTL DEF QueueSpec

\* At most one dispatch of a key runs, and its entry says so, until a timed-out
\* wait cuts another thread off (ToolDispatchGuard::acquire_within and Drop).
THEOREM MutualExclusion == QueueSpec => []OneHolderUntilCut
<1>1. QueueInv => OneHolderUntilCut
  BY DEF QueueInv
<1> QED BY <1>1, QueueInvHolds, PTL

\* The outstanding tickets are the waiters', one each, until a cut.
THEOREM NoTicketLost == QueueSpec => []TicketsOfWaiters
<1>1. QueueInv => TicketsOfWaiters
  BY DEF QueueInv
<1> QED BY <1>1, QueueInvHolds, PTL

\* The expect of the wait loop cannot fail until a cut.
THEOREM NoPanic == QueueSpec => []NoPanicUntilCut
<1>1. QueueInv => NoPanicUntilCut
  BY DEF QueueInv
<1> QED BY <1>1, QueueInvHolds, PTL

\* Dispatches are let in in ticket order until a cut.
THEOREM FirstComeFirstServed == QueueSpec => ServedInOrder
<1>1. QueueInv /\ [QueueNext]_queueVars =>
        [\A d, e \in InLine :
           cut = {} /\ place'[d] = "holding" /\ ticket[e] < ticket[d] => d = e]_queueVars
  <2> SUFFICES ASSUME QueueInv, [QueueNext]_queueVars,
                      NEW d \in InLine, NEW e \in InLine,
                      cut = {}, place'[d] = "holding", ticket[e] < ticket[d]
               PROVE  d = e \/ UNCHANGED queueVars
    OBVIOUS
  <2> USE DEF QueueInv, QueueTypeOK, InLine
  <2>1. ticket[e] >= now_serving
    BY DEF TicketsOfWaiters
  <2>2. ASSUME NEW f \in Dispatches, Serve(f) PROVE d = e
    <3>1. d = f /\ ticket[f] = now_serving
      BY <2>2 DEF Serve, Served
    <3> QED BY <3>1, <2>1
  <2>3. ASSUME NEW f \in Dispatches,
               Enter(f) \/ GiveUp(f) \/ Panic(f) \/ Release(f) \/ Reenter(f)
        PROVE  d = e
    BY <2>3 DEF Enter, GiveUp, Panic, Release, Reenter
  <2> QED BY <2>2, <2>3 DEF QueueNext
<1> QED BY <1>1, QueueInvHolds, PTL DEF QueueSpec, ServedInOrder

\* Together: until the first harmful give-up the queue of a verb is sound.
THEOREM QueueIsSound == QueueSpec => []QueueSound
<1>1. QueueTypeOK /\ OneHolderUntilCut /\ TicketsOfWaiters /\ NoPanicUntilCut => QueueSound
  BY DEF QueueSound
<1> QED BY <1>1, QueueTypeCorrect, MutualExclusion, NoTicketLost, NoPanic, PTL

----
(* The serial lane: SerialLane.                                            *)

\* A claim that waits or is in the lane has drawn its token, and the ticket of
\* no such claim counts as left behind: this is what makes taking a parked
\* ticket over safe.
TokensDrawn == \A c \in Live : token[c] \in 1 .. next_token - 1

ParkedAreFree ==
    \A v \in waiters : v.by = Nobody => \A c \in Live : token[c] # v.token

LaneInv ==
    /\ LaneTypeOK
    /\ TokensDrawn
    /\ TokensDistinct
    /\ ParkedAreFree
    /\ OwnerWillDrop

LEMMA LaneTypeStep == LaneTypeOK /\ [LaneNext]_laneVars => LaneTypeOK'
<1> SUFFICES ASSUME LaneTypeOK, [LaneNext]_laneVars PROVE LaneTypeOK'
  OBVIOUS
<1> USE DEF LaneTypeOK, Phases, Tickets
<1>1. CASE UNCHANGED laneVars
  BY <1>1 DEF laneVars
<1>2. CASE LaneTick
  <2> DEFINE older(v) == [v EXCEPT !.claimed = Older(@), !.seen = Older(@)]
  <2>1. \A n \in Nat : Older(n) \in Nat
    BY DEF Older
  <2>2. \A v \in waiters : /\ older(v) \in Tickets
                           /\ older(v).token = v.token
                           /\ older(v).rank = v.rank
    BY <2>1
  <2>3. /\ waiters' = {older(v) : v \in waiters}
        /\ UNCHANGED <<owner, next_token, phase, token, awake>>
    BY <1>2 DEF LaneTick
  <2>4. held' \in Nat /\ waited' \in [Claims -> Nat]
    BY <1>2, <2>1 DEF LaneTick
  <2> HIDE DEF older
  <2> QED BY <2>2, <2>3, <2>4
<1>3. CASE Revoke
  BY <1>3 DEF Revoke, Give, NotifyAll, Waiting, queue
<1>4. ASSUME NEW c \in Claims, Enqueue(c) PROVE LaneTypeOK'
  <2>1. /\ owner' = owner /\ held' = held /\ waited' = waited
        /\ phase' = [phase EXCEPT ![c] = "waiting"]
        /\ awake' = awake \cup {c}
    BY <1>4 DEF Enqueue, Becomes, lane
  <2>2. CASE TakeOver(c)
    <3>1. PICK w \in First(Parked(c)) :
            /\ waiters' = (Kept \ {w}) \cup {[w EXCEPT !.seen = 0, !.by = c]}
            /\ token' = [token EXCEPT ![c] = w.token]
            /\ UNCHANGED next_token
      BY <2>2 DEF TakeOver
    <3>2. w \in waiters /\ Kept \subseteq waiters
      BY DEF First, Parked, Kept
    <3>3. [w EXCEPT !.seen = 0, !.by = c] \in Tickets
      BY <3>2
    <3> QED BY <2>1, <3>1, <3>2, <3>3
  <2>3. CASE PushBack(c)
    <3>1. Kept \subseteq waiters
      BY DEF Kept
    <3>2. IdentityOf[c] \in Identities
      BY IdentityAssumption
    <3> QED BY <2>1, <2>3, <3>1, <3>2 DEF PushBack
  <2> QED BY <1>4, <2>2, <2>3 DEF Enqueue
<1>5. ASSUME NEW c \in Claims, Admit(c) PROVE LaneTypeOK'
  BY <1>5 DEF Admit, Becomes, Waited, queue
<1>6. ASSUME NEW c \in Claims, Refuse(c) PROVE LaneTypeOK'
  BY <1>6 DEF Refuse, Becomes, Waited, lane, queue
<1>7. ASSUME NEW c \in Claims, Wake(c) PROVE LaneTypeOK'
  BY <1>7 DEF Wake, lane, queue
<1>8. ASSUME NEW c \in Claims, Settle(c) PROVE LaneTypeOK'
  BY <1>8 DEF Settle, Becomes, lane
<1>9. ASSUME NEW c \in Claims, Park(c) PROVE LaneTypeOK'
  BY <1>9 DEF Park, Ends, Becomes, NotifyAll, Waiting, lane
<1>10. ASSUME NEW c \in Claims, Run(c) PROVE LaneTypeOK'
  BY <1>10 DEF Run, Becomes, lane, queue
<1>11. ASSUME NEW c \in Claims, Displace(c) PROVE LaneTypeOK'
  <2>1. IdentityOf[c] \in Identities
    BY IdentityAssumption
  <2> QED BY <1>11, <2>1 DEF Displace, Becomes, lane, queue
<1>12. ASSUME NEW c \in Claims, Drop(c) PROVE LaneTypeOK'
  BY <1>12 DEF Drop, Ends, Give, Becomes, NotifyAll, Waiting, lane, queue
<1> QED BY <1>1, <1>2, <1>3, <1>4, <1>5, <1>6, <1>7, <1>8, <1>9, <1>10, <1>11, <1>12
        DEF LaneNext

\* The variables keep their types, and no token is above the counter
\* (registry.rs, LaneWaiter and LaneOwner).
THEOREM LaneTypeCorrect == LaneSpec => []LaneTypeOK
<1>1. LaneInit => LaneTypeOK
  BY DEF LaneInit, LaneTypeOK, Phases, Tickets
<1> QED BY <1>1, LaneTypeStep, PTL DEF LaneSpec

LEMMA LaneInvInit == LaneInit => LaneInv
BY DEF LaneInit, LaneInv, LaneTypeOK, Phases, Tickets, TokensDrawn, TokensDistinct,
       ParkedAreFree, OwnerWillDrop, Live, Entered

\* A claim enters the queue with a token of its own: a fresh one, or that of a
\* ticket nobody waits with.
LEMMA EnqueueLaneInv ==
    ASSUME LaneInv, NEW c \in Claims, Enqueue(c), LaneTypeOK'
    PROVE  LaneInv'
<1> USE DEF LaneInv, LaneTypeOK, Phases, Tickets, Live, Entered
<1>1. /\ owner' = owner
      /\ phase[c] = "new" /\ phase' = [phase EXCEPT ![c] = "waiting"]
  BY DEF Enqueue, Becomes, lane
<1>2. Live' = Live \cup {c} /\ c \notin Live /\ Entered' = Entered
  BY <1>1
<1>3. Kept \subseteq waiters
  BY DEF Kept
<1>4. CASE TakeOver(c)
  <2>1. PICK w \in First(Parked(c)) :
          /\ waiters' = (Kept \ {w}) \cup {[w EXCEPT !.seen = 0, !.by = c]}
          /\ token' = [token EXCEPT ![c] = w.token]
          /\ next_token' = next_token
    BY <1>4 DEF TakeOver
  <2> DEFINE u == [w EXCEPT !.seen = 0, !.by = c]
  <2>2. w \in waiters /\ w.by = Nobody
    BY <1>3 DEF First, Parked
  <2>3. u.token = w.token /\ u.by = c
    BY <2>2
  <2>4. token'[c] = w.token /\ \A d \in Live : token'[d] = token[d] /\ token[d] # w.token
    BY <1>2, <2>1, <2>2 DEF ParkedAreFree
  <2>5. TokensDrawn'
    BY <1>2, <2>1, <2>2, <2>4 DEF TokensDrawn
  <2>6. \A v1, v2 \in waiters' : v1.token = v2.token => v1 = v2
    <3>1. waiters' = (Kept \ {w}) \cup {u}
      BY <2>1
    <3>2. \A v \in Kept \ {w} : v.token # u.token
      BY <1>3, <2>2, <2>3 DEF TokensDistinct
    <3>3. \A v1, v2 \in Kept \ {w} : v1.token = v2.token => v1 = v2
      BY <1>3 DEF TokensDistinct
    <3> HIDE DEF u
    <3> QED BY <3>1, <3>2, <3>3
  <2>7. TokensDistinct'
    BY <1>2, <2>4, <2>6 DEF TokensDistinct
  <2>8. ParkedAreFree'
    <3> SUFFICES ASSUME NEW v \in waiters', v.by = Nobody, NEW d \in Live'
                 PROVE  token'[d] # v.token
      BY DEF ParkedAreFree
    <3>1. v \in waiters /\ v # w
      BY <1>3, <2>1, <2>3, NobodyAssumption
    <3>2. v.token # w.token
      BY <2>2, <3>1 DEF TokensDistinct
    <3> QED BY <1>2, <2>4, <3>1, <3>2 DEF ParkedAreFree
  <2>9. OwnerWillDrop'
    BY <1>1, <1>2, <2>4 DEF OwnerWillDrop
  <2> QED BY <2>5, <2>7, <2>8, <2>9
<1>5. CASE PushBack(c)
  <2> DEFINE u == [token |-> next_token, rank |-> next_token,
                   identity |-> IdentityOf[c], claimed |-> 0,
                   seen |-> 0, by |-> c]
  <2>1. /\ waiters' = Kept \cup {u}
        /\ token' = [token EXCEPT ![c] = next_token]
        /\ next_token' = next_token + 1
    BY <1>5 DEF PushBack
  <2>2. u.token = next_token /\ u.by = c
    OBVIOUS
  <2>3. token'[c] = next_token
        /\ \A d \in Live : token'[d] = token[d] /\ token[d] \in 1 .. next_token - 1
    BY <1>2, <2>1 DEF TokensDrawn
  <2>4. TokensDrawn'
    BY <1>2, <2>1, <2>3 DEF TokensDrawn
  <2>5. \A v1, v2 \in waiters' : v1.token = v2.token => v1 = v2
    BY <1>3, <2>1, <2>2 DEF TokensDistinct
  <2>6. TokensDistinct'
    BY <1>2, <2>3, <2>5 DEF TokensDistinct
  <2>7. ParkedAreFree'
    <3> SUFFICES ASSUME NEW v \in waiters', v.by = Nobody, NEW d \in Live'
                 PROVE  token'[d] # v.token
      BY DEF ParkedAreFree
    <3>1. v \in waiters
      BY <1>3, <2>1, <2>2, NobodyAssumption
    <3> QED BY <1>2, <2>3, <3>1 DEF ParkedAreFree
  <2>8. OwnerWillDrop'
    BY <1>1, <1>2, <2>3 DEF OwnerWillDrop
  <2> QED BY <2>4, <2>6, <2>7, <2>8
<1> QED BY <1>4, <1>5 DEF Enqueue

\* A displaced claim leaves a ticket with a fresh token at the head.
LEMMA DisplaceLaneInv ==
    ASSUME LaneInv, NEW c \in Claims, Displace(c), LaneTypeOK'
    PROVE  LaneInv'
<1> USE DEF LaneInv, LaneTypeOK, Phases, Tickets, Live, Entered
<1>1. /\ owner' = owner /\ token' = token
      /\ phase[c] = "holding" /\ phase' = [phase EXCEPT ![c] = "displaced"]
  BY DEF Displace, Becomes, lane
<1>2. Live' = Live /\ Entered' = Entered
  BY <1>1
<1>3. OwnerWillDrop'
  BY <1>1, <1>2 DEF OwnerWillDrop
<1>4. CASE \E v \in waiters : v.identity = IdentityOf[c]
  <2>1. waiters' = waiters /\ next_token' = next_token
    BY <1>4 DEF Displace, queue
  <2> QED BY <1>1, <1>2, <1>3, <2>1 DEF TokensDrawn, TokensDistinct, ParkedAreFree
<1>5. CASE ~\E v \in waiters : v.identity = IdentityOf[c]
  <2> DEFINE u == [token |-> next_token, rank |-> -next_token,
                   identity |-> IdentityOf[c], claimed |-> 0,
                   seen |-> 0, by |-> Nobody]
  <2>1. waiters' = waiters \cup {u} /\ next_token' = next_token + 1
    BY <1>5 DEF Displace
  <2>2. u.token = next_token
    OBVIOUS
  <2>3. TokensDrawn'
    BY <1>1, <1>2, <2>1 DEF TokensDrawn
  <2>4. TokensDistinct'
    BY <1>1, <1>2, <2>1, <2>2 DEF TokensDistinct
  <2>5. ParkedAreFree'
    BY <1>1, <1>2, <2>1, <2>2 DEF ParkedAreFree, TokensDrawn
  <2> QED BY <1>3, <2>3, <2>4, <2>5
<1> QED BY <1>4, <1>5

\* The other steps draw no token: they take tickets away, mark one as left
\* behind when its claim stops waiting, or end a claim.
LEMMA ParkLaneInv ==
    ASSUME LaneInv, NEW c \in Claims, Park(c), LaneTypeOK'
    PROVE  LaneInv'
<1> USE DEF LaneInv, LaneTypeOK, Phases, Tickets, Live, Entered
<1> DEFINE left(v) == IF v.token = token[c] THEN [v EXCEPT !.by = Nobody] ELSE v
<1>1. /\ owner' = owner /\ next_token' = next_token
      /\ phase[c] = "starved" /\ phase' = [phase EXCEPT ![c] = "done"]
      /\ token' = [token EXCEPT ![c] = 0]
      /\ waiters' = {left(v) : v \in waiters}
  BY DEF Park, Ends, Becomes, lane
<1>2. Live' = Live \ {c} /\ c \in Live /\ Entered' = Entered /\ c \notin Entered
  BY <1>1
<1>3. \A d \in Live' : token'[d] = token[d] /\ token[d] # token[c]
  BY <1>1, <1>2 DEF TokensDistinct
<1>4. \A v \in waiters : left(v).token = v.token
  OBVIOUS
<1>5. TokensDrawn' /\ OwnerWillDrop'
  BY <1>1, <1>2, <1>3 DEF TokensDrawn, OwnerWillDrop
<1>6. TokensDistinct'
  BY <1>1, <1>2, <1>3, <1>4 DEF TokensDistinct
<1>7. ParkedAreFree'
  <2> SUFFICES ASSUME NEW v \in waiters', v.by = Nobody, NEW d \in Live'
               PROVE  token'[d] # v.token
    BY DEF ParkedAreFree
  <2>1. PICK w \in waiters : v = left(w)
    BY <1>1
  <2>2. CASE w.token = token[c]
    BY <1>3, <1>4, <2>1, <2>2
  <2>3. CASE w.token # token[c]
    BY <1>2, <1>3, <2>1, <2>3 DEF ParkedAreFree
  <2> QED BY <2>2, <2>3
<1> QED BY <1>5, <1>6, <1>7

LEMMA DropLaneInv ==
    ASSUME LaneInv, NEW c \in Claims, Drop(c), LaneTypeOK'
    PROVE  LaneInv'
<1> USE DEF LaneInv, LaneTypeOK, Phases, Live, Entered
<1>1. /\ waiters' = waiters /\ next_token' = next_token
      /\ c \in Entered
      /\ phase' = [phase EXCEPT ![c] = "done"]
      /\ token' = [token EXCEPT ![c] = 0]
      /\ owner' = IF owner = token[c] THEN 0 ELSE owner
  BY DEF Drop, Ends, Becomes, Give, lane, queue
<1>2. Live' = Live \ {c} /\ Entered' = Entered \ {c}
  BY <1>1
<1>3. \A d \in Live' : token'[d] = token[d]
  BY <1>1, <1>2
<1>4. TokensDrawn' /\ TokensDistinct' /\ ParkedAreFree'
  BY <1>1, <1>2, <1>3 DEF TokensDrawn, TokensDistinct, ParkedAreFree
<1>5. OwnerWillDrop'
  BY <1>1, <1>2, <1>3 DEF OwnerWillDrop
<1> QED BY <1>4, <1>5

LEMMA LaneInvStep == LaneInv /\ [LaneNext]_laneVars => LaneInv'
<1> SUFFICES ASSUME LaneInv, [LaneNext]_laneVars PROVE LaneInv'
  OBVIOUS
<1>0. LaneTypeOK'
  BY LaneTypeStep DEF LaneInv
<1> USE DEF LaneInv, LaneTypeOK, Phases, Live, Entered, TokensDrawn, TokensDistinct,
            ParkedAreFree, OwnerWillDrop
<1>1. CASE UNCHANGED laneVars
  BY <1>0, <1>1 DEF laneVars
<1>2. CASE LaneTick
  <2> DEFINE older(v) == [v EXCEPT !.claimed = Older(@), !.seen = Older(@)]
  <2>1. /\ waiters' = {older(v) : v \in waiters}
        /\ UNCHANGED <<owner, next_token, phase, token>>
    BY <1>2 DEF LaneTick
  <2>2. \A v \in waiters : older(v).token = v.token /\ older(v).by = v.by
    BY DEF Tickets
  <2> HIDE DEF older
  <2> QED BY <1>0, <2>1, <2>2
<1>3. CASE Revoke
  BY <1>0, <1>3 DEF Revoke, Give, queue
<1>4. ASSUME NEW c \in Claims, Enqueue(c) PROVE LaneInv'
  BY <1>0, <1>4, EnqueueLaneInv
<1>5. ASSUME NEW c \in Claims, Admit(c) PROVE LaneInv'
  <2>1. /\ owner' = token[c] /\ token' = token /\ waiters' = waiters
        /\ next_token' = next_token
        /\ phase[c] = "waiting" /\ phase' = [phase EXCEPT ![c] = "admitted"]
    BY <1>5 DEF Admit, Becomes, queue
  <2>2. Live' = Live /\ c \in Entered'
    BY <2>1
  <2> QED BY <1>0, <2>1, <2>2
<1>6. ASSUME NEW c \in Claims, Refuse(c) PROVE LaneInv'
  <2>1. /\ owner' = owner /\ token' = token /\ waiters' = waiters
        /\ next_token' = next_token /\ phase[c] = "waiting"
        /\ phase' = phase \/ phase' = [phase EXCEPT ![c] = "starved"]
    BY <1>6 DEF Refuse, Becomes, lane, queue
  <2>2. Live' = Live /\ Entered' = Entered
    BY <2>1
  <2> QED BY <1>0, <2>1, <2>2
<1>7. ASSUME NEW c \in Claims, Wake(c) PROVE LaneInv'
  BY <1>0, <1>7 DEF Wake, lane, queue
<1>8. ASSUME NEW c \in Claims, Settle(c) PROVE LaneInv'
  <2>1. /\ owner' = owner /\ token' = token /\ waiters' \subseteq waiters
        /\ next_token' = next_token
        /\ phase[c] = "admitted" /\ phase' = [phase EXCEPT ![c] = "holding"]
    BY <1>8 DEF Settle, Becomes, lane
  <2>2. Live' = Live /\ Entered' = Entered
    BY <2>1
  <2> QED BY <1>0, <2>1, <2>2
<1>9. ASSUME NEW c \in Claims, Park(c) PROVE LaneInv'
  BY <1>0, <1>9, ParkLaneInv
<1>10. ASSUME NEW c \in Claims, Run(c) PROVE LaneInv'
  <2>1. /\ owner' = owner /\ token' = token /\ waiters' = waiters
        /\ next_token' = next_token
        /\ phase[c] = "holding" /\ phase' = [phase EXCEPT ![c] = "running"]
    BY <1>10 DEF Run, Becomes, lane, queue
  <2>2. Live' = Live /\ Entered' = Entered
    BY <2>1
  <2> QED BY <1>0, <2>1, <2>2
<1>11. ASSUME NEW c \in Claims, Displace(c) PROVE LaneInv'
  BY <1>0, <1>11, DisplaceLaneInv
<1>12. ASSUME NEW c \in Claims, Drop(c) PROVE LaneInv'
  BY <1>0, <1>12, DropLaneInv
<1> QED BY <1>1, <1>2, <1>3, <1>4, <1>5, <1>6, <1>7, <1>8, <1>9, <1>10, <1>11, <1>12
        DEF LaneNext

LEMMA LaneInvHolds == LaneSpec => []LaneInv
BY LaneInvInit, LaneInvStep, PTL DEF LaneSpec

\* No hold of a lane outlives its guard (GmFairnessGuard and its Drop), in
\* every interleaving of waits, re-dispatches, displacements and revocations.
THEOREM LaneNeverLeaks == LaneSpec => []OwnerWillDrop
<1>1. LaneInv => OwnerWillDrop
  BY DEF LaneInv
<1> QED BY <1>1, LaneInvHolds, PTL

\* still_owns() and Drop compare tokens, and no two live claims share one.
THEOREM TokensIdentify == LaneSpec => []TokensDistinct
<1>1. LaneInv => TokensDistinct
  BY DEF LaneInv
<1> QED BY <1>1, LaneInvHolds, PTL

\* A hold ends by its holder, or by a watchdog that waited for its age.
THEOREM HoldsEnd == LaneSpec => HoldEndsByHolderOrAge
<1>1. LaneTypeOK /\ [LaneNext]_laneVars =>
        [owner # 0 /\ owner' # owner =>
            \/ held >= MinHeld
            \/ \E c \in Entered : token[c] = owner /\ phase'[c] = "done"]_laneVars
  <2> SUFFICES ASSUME LaneTypeOK, LaneNext, owner # 0, owner' # owner
               PROVE  \/ held >= MinHeld
                      \/ \E c \in Entered : token[c] = owner /\ phase'[c] = "done"
    OBVIOUS
  <2>1. CASE Revoke
    BY <2>1 DEF Revoke
  <2>2. ASSUME NEW c \in Claims, Drop(c)
        PROVE  \E d \in Entered : token[d] = owner /\ phase'[d] = "done"
    <3>1. c \in Entered /\ token[c] = owner
      BY <2>2 DEF Drop, Entered, lane
    <3>2. phase'[c] = "done"
      BY <2>2 DEF Drop, Ends, Becomes, LaneTypeOK
    <3> QED BY <3>1, <3>2
  <2>3. ~LaneTick /\ \A c \in Claims : /\ ~Enqueue(c) /\ ~Admit(c) /\ ~Refuse(c) /\ ~Wake(c)
                                  /\ ~Settle(c) /\ ~Park(c) /\ ~Run(c) /\ ~Displace(c)
    BY DEF LaneTick, Enqueue, Admit, Free, Refuse, Wake, Settle, Park, Run, Displace, lane
  <2> QED BY <2>1, <2>2, <2>3 DEF LaneNext
<1> QED BY <1>1, LaneTypeCorrect, PTL DEF LaneSpec, HoldEndsByHolderOrAge

\* A waiter's ticket is as old as its wait, so that no claim within its budget
\* loses it to the time to live.
SeenSinceWaiting ==
    \A c \in Waiting : ~Spent(c) =>
        \E v \in waiters : v.token = token[c] /\ v.by = c /\ v.seen = waited[c]

\* A claim that is not in the queue has no waiting time.
IdleUnwaited == \A c \in Claims : phase[c] # "waiting" => waited[c] = 0

LEMMA IdleStep ==
    ASSUME LaneTypeOK, IdleUnwaited, [LaneNext]_laneVars
    PROVE  IdleUnwaited'
<1> USE DEF LaneTypeOK, IdleUnwaited, Becomes, Waited
<1>1. CASE UNCHANGED laneVars
  BY <1>1 DEF laneVars
<1>2. CASE LaneTick \/ Revoke
  BY <1>2 DEF LaneTick, Revoke
<1>3. ASSUME NEW c \in Claims,
             Enqueue(c) \/ Admit(c) \/ Refuse(c) \/ Wake(c) \/ Settle(c)
      PROVE  IdleUnwaited'
  BY <1>3 DEF Enqueue, Admit, Refuse, Wake, Settle
<1>4. ASSUME NEW c \in Claims, Park(c) \/ Run(c) \/ Displace(c) \/ Drop(c)
      PROVE  IdleUnwaited'
  BY <1>4 DEF Park, Run, Displace, Drop, Ends
<1> QED BY <1>1, <1>2, <1>3, <1>4 DEF LaneNext

LEMMA SeenStep ==
    ASSUME LaneInv, SeenSinceWaiting, IdleUnwaited, [LaneNext]_laneVars
    PROVE  SeenSinceWaiting'
<1> SUFFICES ASSUME NEW e \in Waiting', ~Spent(e)'
             PROVE  \E v \in waiters' : /\ v.token = token'[e] /\ v.by = e
                                        /\ v.seen = waited'[e]
  BY DEF SeenSinceWaiting
<1> USE DEF LaneInv, LaneTypeOK, Phases, Waiting
<1>1. ASSUME e \in Waiting, waited'[e] = waited[e]
      PROVE  \E v \in waiters : v.token = token[e] /\ v.by = e /\ v.seen = waited[e]
  BY <1>1 DEF SeenSinceWaiting, Spent
<1>2. ASSUME UNCHANGED <<waiters, token, waited>>, e \in Waiting
      PROVE  \E v \in waiters' : v.token = token'[e] /\ v.by = e /\ v.seen = waited'[e]
  BY <1>1, <1>2
<1>3. CASE UNCHANGED laneVars
  BY <1>2, <1>3 DEF laneVars
<1>4. CASE LaneTick
  <2> DEFINE older(v) == [v EXCEPT !.claimed = Older(@), !.seen = Older(@)]
  <2>1. /\ waiters' = {older(v) : v \in waiters}
        /\ token' = token /\ e \in Waiting /\ waited'[e] = Older(waited[e])
    BY <1>4 DEF LaneTick
  <2>2. \A n \in Nat : Older(n) \in Nat /\ n <= Older(n)
    BY DEF Older
  <2>3. ~Spent(e)
    <3>1. ~(waited'[e] >= Budget[e])
      BY DEF Spent
    <3>2. waited[e] \in Nat /\ Budget[e] \in Nat /\ waited'[e] \in Nat
      BY <2>1, <2>2, BudgetAssumption
    <3>3. waited[e] <= waited'[e]
      BY <2>1, <2>2, <3>2
    <3>4. ~(waited[e] >= Budget[e])
      BY <3>1, <3>2, <3>3
    <3> QED BY <3>4 DEF Spent
  <2>4. PICK v \in waiters : v.token = token[e] /\ v.by = e /\ v.seen = waited[e]
    BY <2>1, <2>3 DEF SeenSinceWaiting
  <2>5. /\ older(v).token = v.token /\ older(v).by = v.by
        /\ older(v).seen = Older(v.seen)
    BY <2>4 DEF Tickets
  <2>6. older(v) \in waiters'
    BY <2>1
  <2> HIDE DEF older
  <2> QED BY <2>1, <2>4, <2>5, <2>6
<1>5. CASE Revoke
  BY <1>2, <1>5 DEF Revoke, queue
<1>6. ASSUME NEW c \in Claims, Enqueue(c), e # c
      PROVE  \E v \in waiters' : v.token = token'[e] /\ v.by = e /\ v.seen = waited'[e]
  <2>1. e \in Waiting /\ waited' = waited
    BY <1>6 DEF Enqueue, Becomes
  <2>2. PICK v \in waiters : v.token = token[e] /\ v.by = e /\ v.seen = waited[e]
    BY <1>1, <2>1
  <2>3. v \in Kept
    BY <2>1, <2>2, BudgetAssumption, TimesAssumption DEF Kept, Spent, Tickets
  <2>4. v \in waiters' /\ token'[e] = token[e]
    <3>1. v.by # Nobody
      BY <2>2, NobodyAssumption
    <3>2. CASE TakeOver(c)
      BY <1>6, <2>3, <3>1, <3>2 DEF TakeOver, First, Parked
    <3>3. CASE PushBack(c)
      BY <1>6, <2>3, <3>3 DEF PushBack
    <3> QED BY <1>6, <3>2, <3>3 DEF Enqueue
  <2> QED BY <2>1, <2>2, <2>4
<1>7. ASSUME Enqueue(e)
      PROVE  \E v \in waiters' : v.token = token'[e] /\ v.by = e /\ v.seen = waited'[e]
  <2>1. waited' = waited /\ phase[e] = "new"
    BY <1>7 DEF Enqueue
  <2>2. waited[e] = 0
    BY <2>1 DEF IdleUnwaited
  <2>3. CASE TakeOver(e)
    <3>1. PICK w \in First(Parked(e)) :
            /\ waiters' = (Kept \ {w}) \cup {[w EXCEPT !.seen = 0, !.by = e]}
            /\ token' = [token EXCEPT ![e] = w.token]
      BY <2>3 DEF TakeOver
    <3>2. w \in Tickets
      BY DEF First, Parked, Kept
    <3> DEFINE u == [w EXCEPT !.seen = 0, !.by = e]
    <3>3. u.token = w.token /\ u.by = e /\ u.seen = 0 /\ u \in waiters'
      BY <3>1, <3>2 DEF Tickets
    <3> QED BY <2>1, <2>2, <3>1, <3>3
  <2>4. CASE PushBack(e)
    <3> DEFINE u == [token |-> next_token, rank |-> next_token,
                     identity |-> IdentityOf[e], claimed |-> 0,
                     seen |-> 0, by |-> e]
    <3>1. u \in waiters' /\ token'[e] = next_token
      BY <2>4 DEF PushBack
    <3> QED BY <2>1, <2>2, <3>1
  <2> QED BY <1>7, <2>3, <2>4 DEF Enqueue
<1>8. ASSUME NEW c \in Claims, Admit(c) \/ Refuse(c) \/ Wake(c) \/ Run(c) \/ Drop(c)
      PROVE  \E v \in waiters' : v.token = token'[e] /\ v.by = e /\ v.seen = waited'[e]
  <2>1. waiters' = waiters /\ token'[e] = token[e] /\ e \in Waiting
    BY <1>8 DEF Admit, Refuse, Wake, Run, Drop, Ends, Becomes, queue
  <2>2. waited'[e] = waited[e]
    BY <1>8 DEF Admit, Refuse, Wake, Run, Drop, Ends, Becomes, Waited
  <2> QED BY <1>1, <2>1, <2>2
<1>9. ASSUME NEW c \in Claims, Settle(c) \/ Displace(c) \/ Park(c)
      PROVE  \E v \in waiters' : v.token = token'[e] /\ v.by = e /\ v.seen = waited'[e]
  <2>1. /\ e \in Waiting /\ e # c /\ c \in Live /\ e \in Live
        /\ token'[e] = token[e] /\ waited'[e] = waited[e]
    BY <1>9 DEF Settle, Displace, Park, Ends, Becomes, Live, Entered
  <2>2. PICK v \in waiters : v.token = token[e] /\ v.by = e /\ v.seen = waited[e]
    BY <1>1, <2>1
  <2>3. v.token # token[c]
    BY <2>1, <2>2 DEF TokensDistinct
  <2>4. v \in waiters'
    BY <1>9, <2>3 DEF Settle, Displace, Park, queue
  <2> QED BY <2>1, <2>2, <2>4
<1> QED BY <1>3, <1>4, <1>5, <1>6, <1>7, <1>8, <1>9 DEF LaneNext

\* A claim that waits within its budget has an active ticket of its own in the
\* queue (acquire_within, which drops expired tickets as others arrive).
THEOREM WaitersKeepTickets == LaneSpec => []WaiterKeepsTicket
<1>1. LaneInit => SeenSinceWaiting /\ IdleUnwaited
  BY DEF LaneInit, SeenSinceWaiting, IdleUnwaited, Waiting
<1>2. LaneInv /\ SeenSinceWaiting /\ IdleUnwaited /\ [LaneNext]_laneVars
        => SeenSinceWaiting' /\ IdleUnwaited'
  BY SeenStep, IdleStep DEF LaneInv
<1>3. SeenSinceWaiting => WaiterKeepsTicket
  BY DEF SeenSinceWaiting, WaiterKeepsTicket
<1> QED BY <1>1, <1>2, <1>3, LaneInvHolds, PTL DEF LaneSpec

\* Together: the lane is not leaked, its tokens identify, and its waiters keep their
\* places, for any number of claims, identities and budgets.
THEOREM LaneIsSound == LaneSpec => []LaneSound
<1>1. LaneTypeOK /\ OwnerWillDrop /\ TokensDistinct /\ WaiterKeepsTicket => LaneSound
  BY DEF LaneSound
<1> QED BY <1>1, LaneTypeCorrect, LaneNeverLeaks, TokensIdentify, WaitersKeepTickets, PTL

----
(* No wake-up is lost.                                                     *)

\* The ticket of a claim that was admitted and has not settled yet is as old as its hold,
\* and so, when the hold was revoked, old enough to be passed.
AdmittedAge ==
    \A d \in Claims : phase[d] = "admitted" =>
        \A v \in waiters : v.token = token[d] =>
            v.seen >= IF owner = token[d] THEN held ELSE MinHeld

\* A ticket that keeps a claim asleep was not stale when it looked, and nobody takes it
\* away without a notification.
Keeps(v, c) ==
    /\ v.seen < waited[c] + Stale
    /\ \A d \in Claims : phase[d] = "admitted" => token[d] # v.token

SleepsBehind ==
    owner = 0 =>
        \A c \in Waiting \ awake : ~Spent(c) /\ Budget[c] + Stale <= Ttl =>
            \A w \in waiters : w.token = token[c] => \E v \in Ahead(w) : Keeps(v, c)

LEMMA AgesGrow ==
    /\ \A n \in Nat : Older(n) \in Nat /\ Older(n) >= n
    /\ \A m, n \in Nat : m >= n => Older(m) >= Older(n)
BY TimesAssumption DEF Older

\* What a claim that enters the queue does to the tickets: it drops those that expired,
\* and takes one over that is parked, or adds one with a fresh token.
LEMMA EnqueueTickets ==
    ASSUME LaneInv, NEW c \in Claims, Enqueue(c)
    PROVE  \E u : /\ u.by = c /\ u.token = token'[c]
                  /\ \A d \in Live : token[d] # u.token
                  /\ \/ waiters' = Kept \cup {u} /\ u.token = next_token
                     \/ \E w \in Kept : /\ w.by = Nobody /\ waiters' = (Kept \ {w}) \cup {u}
                                        /\ u.token = w.token /\ u.rank = w.rank /\ u.seen = 0
<1> USE DEF LaneInv, LaneTypeOK, Tickets
<1>1. CASE TakeOver(c)
  <2>1. PICK w \in First(Parked(c)) :
          /\ waiters' = (Kept \ {w}) \cup {[w EXCEPT !.seen = 0, !.by = c]}
          /\ token' = [token EXCEPT ![c] = w.token]
    BY <1>1 DEF TakeOver
  <2>2. w \in Kept /\ w \in waiters /\ w.by = Nobody
    BY DEF First, Parked, Kept
  <2> DEFINE u == [w EXCEPT !.seen = 0, !.by = c]
  <2>3. u.by = c /\ u.token = w.token /\ u.rank = w.rank /\ u.seen = 0
    BY <2>2
  <2>4. \A d \in Live : token[d] # w.token
    BY <2>2 DEF ParkedAreFree
  <2>5. token'[c] = w.token /\ waiters' = (Kept \ {w}) \cup {u}
    BY <2>1
  <2> HIDE DEF u
  <2> QED BY <2>2, <2>3, <2>4, <2>5
<1>2. CASE PushBack(c)
  <2> DEFINE u == [token |-> next_token, rank |-> next_token, identity |-> IdentityOf[c],
                   claimed |-> 0, seen |-> 0, by |-> c]
  <2>1. waiters' = Kept \cup {u} /\ token'[c] = next_token
    BY <1>2 DEF PushBack
  <2>2. u.by = c /\ u.token = next_token
    OBVIOUS
  <2>3. \A d \in Live : token[d] # next_token
    BY DEF TokensDrawn, Live, Entered
  <2> HIDE DEF u
  <2> QED BY <2>1, <2>2, <2>3
<1> QED BY <1>1, <1>2 DEF Enqueue

LEMMA AdmittedAgeStep ==
    ASSUME LaneInv, AdmittedAge, [LaneNext]_laneVars, LaneTypeOK'
    PROVE  AdmittedAge'
<1> SUFFICES ASSUME NEW d \in Claims, phase'[d] = "admitted",
                    NEW v \in waiters', v.token = token'[d]
             PROVE  v.seen >= IF owner' = token'[d] THEN held' ELSE MinHeld
  BY DEF AdmittedAge
<1> USE DEF LaneInv, LaneTypeOK, Phases
<1> MinHeld \in Nat
  BY TimesAssumption
<1>1. ASSUME phase[d] = "admitted", token'[d] = token[d],
             \/ UNCHANGED lane
             \/ owner # token[d] /\ owner' # token[d]
             \/ owner' = 0 /\ held >= MinHeld,
             NEW w \in waiters, w.token = v.token, w.seen = v.seen
      PROVE  v.seen >= IF owner' = token'[d] THEN held' ELSE MinHeld
  <2>1. w.seen >= IF owner = token[d] THEN held ELSE MinHeld
    BY <1>1 DEF AdmittedAge
  <2>2. token[d] # 0 /\ v.seen \in Nat
    BY <1>1 DEF TokensDrawn, Live, Entered, Tickets
  <2> QED BY <1>1, <2>1, <2>2 DEF lane
<1>2. CASE UNCHANGED laneVars
  BY <1>1, <1>2 DEF laneVars, lane
<1>3. CASE LaneTick
  <2> DEFINE older(w) == [w EXCEPT !.claimed = Older(@), !.seen = Older(@)]
  <2>1. /\ waiters' = {older(w) : w \in waiters}
        /\ held' = IF owner = 0 THEN 0 ELSE Older(held)
        /\ UNCHANGED <<owner, phase, token>>
    BY <1>3 DEF LaneTick
  <2>2. PICK w \in waiters : v = older(w)
    BY <2>1
  <2>3. w \in Tickets /\ v.token = w.token /\ v.seen = Older(w.seen) /\ w.seen \in Nat
    BY <2>2 DEF Tickets
  <2>4. w.seen >= IF owner = token[d] THEN held ELSE MinHeld
    BY <2>1, <2>3 DEF AdmittedAge
  <2>5. /\ Older(w.seen) \in Nat /\ Older(w.seen) >= w.seen
        /\ w.seen >= held => Older(w.seen) >= Older(held)
    BY <2>3, AgesGrow
  <2>6. d \in Live
    BY <2>1 DEF Live, Entered
  <2>7. token[d] # 0
    BY <2>6 DEF TokensDrawn
  <2>8. CASE owner = token[d]
    <3>1. w.seen >= held /\ held' = Older(held)
      BY <2>1, <2>4, <2>7, <2>8
    <3> QED BY <2>1, <2>3, <2>5, <2>8, <3>1
  <2>9. CASE owner # token[d]
    <3>1. w.seen >= MinHeld
      BY <2>4, <2>9
    <3>2. v.seen >= MinHeld
      BY <2>3, <2>5, <3>1
    <3> QED BY <2>1, <2>9, <3>2
  <2> QED BY <2>8, <2>9
<1>4. CASE Revoke
  BY <1>1, <1>4 DEF Revoke, Give, queue
<1>5. ASSUME NEW c \in Claims, Enqueue(c)
      PROVE  v.seen >= IF owner' = token'[d] THEN held' ELSE MinHeld
  <2>1. /\ phase[d] = "admitted" /\ d # c /\ d \in Live /\ UNCHANGED lane
        /\ token'[d] = token[d]
    BY <1>5 DEF Enqueue, Becomes, TakeOver, PushBack, Live, Entered
  <2>2. v \in Kept
    BY <1>5, <2>1, EnqueueTickets
  <2>3. v \in waiters
    BY <2>2 DEF Kept
  <2> QED BY <1>1, <2>1, <2>3
<1>6. ASSUME NEW c \in Claims, Admit(c)
      PROVE  v.seen >= IF owner' = token'[d] THEN held' ELSE MinHeld
  <2>1. /\ UNCHANGED <<token, waiters>> /\ owner = 0 /\ owner' = token[c] /\ held' = 0
        /\ phase[c] = "waiting" /\ phase' = [phase EXCEPT ![c] = "admitted"]
    BY <1>6 DEF Admit, Free, Becomes, queue
  <2>2. CASE d = c
    BY <2>1, <2>2 DEF Tickets
  <2>3. CASE d # c
    <3>1. phase[d] = "admitted" /\ d \in Live /\ c \in Live
      BY <2>1, <2>3 DEF Live, Entered
    <3>2. token[d] # 0 /\ token[d] # token[c]
      BY <2>3, <3>1 DEF TokensDrawn, TokensDistinct
    <3> QED BY <1>1, <2>1, <3>1, <3>2
  <2> QED BY <2>2, <2>3
<1>7. ASSUME NEW c \in Claims, Refuse(c) \/ Wake(c) \/ Settle(c) \/ Run(c)
      PROVE  v.seen >= IF owner' = token'[d] THEN held' ELSE MinHeld
  <2>1. /\ UNCHANGED <<token, lane>> /\ waiters' \subseteq waiters
        /\ phase[d] = "admitted"
    BY <1>7 DEF Refuse, Wake, Settle, Run, Becomes, queue
  <2> QED BY <1>1, <2>1
<1>8. ASSUME NEW c \in Claims, Drop(c)
      PROVE  v.seen >= IF owner' = token'[d] THEN held' ELSE MinHeld
  <2>1. /\ UNCHANGED waiters
        /\ d # c /\ phase[d] = "admitted" /\ token'[d] = token[d]
        /\ c \in Live /\ d \in Live
        /\ UNCHANGED lane \/ (owner = token[c] /\ owner' = 0)
    BY <1>8 DEF Drop, Give, Ends, Becomes, Live, Entered, queue
  <2>2. token[d] # 0 /\ token[d] # token[c]
    BY <2>1 DEF TokensDrawn, TokensDistinct
  <2> QED BY <1>1, <2>1, <2>2
<1>9. ASSUME NEW c \in Claims, Park(c)
      PROVE  v.seen >= IF owner' = token'[d] THEN held' ELSE MinHeld
  <2>1. /\ d # c /\ phase[d] = "admitted" /\ token'[d] = token[d] /\ UNCHANGED lane
        /\ waiters' = {IF w.token = token[c] THEN [w EXCEPT !.by = Nobody] ELSE w :
                          w \in waiters}
    BY <1>9 DEF Park, Ends, Becomes
  <2>2. \E w \in waiters : w.token = v.token /\ w.seen = v.seen
    BY <2>1 DEF Tickets
  <2> QED BY <1>1, <2>1, <2>2
<1>10. ASSUME NEW c \in Claims, Displace(c)
       PROVE  v.seen >= IF owner' = token'[d] THEN held' ELSE MinHeld
  <2>1. /\ phase[d] = "admitted" /\ UNCHANGED <<token, lane>>
        /\ v \in waiters \/ v.token = next_token
    BY <1>10 DEF Displace, Becomes, queue
  <2>2. token[d] # next_token
    BY <2>1 DEF TokensDrawn, Live, Entered
  <2> QED BY <1>1, <2>1, <2>2
<1> QED BY <1>2, <1>3, <1>4, <1>5, <1>6, <1>7, <1>8, <1>9, <1>10 DEF LaneNext

LEMMA SleepsBehindStep ==
    ASSUME LaneInv, SeenSinceWaiting, AdmittedAge, SleepsBehind, [LaneNext]_laneVars, LaneTypeOK'
    PROVE  SleepsBehind'
<1> SUFFICES ASSUME owner' = 0, NEW c \in Waiting' \ awake', ~Spent(c)',
                    Budget[c] + Stale <= Ttl,
                    NEW w \in waiters', w.token = token'[c]
             PROVE  \E v \in Ahead(w)' : Keeps(v, c)'
  BY DEF SleepsBehind
<1> USE DEF LaneInv, LaneTypeOK, Phases, Waiting
<1> c \in Claims /\ MinHeld \in Nat /\ Stale \in Nat /\ Budget[c] \in Nat
  BY TimesAssumption, BudgetAssumption
\* What is left to do when no ticket goes: the one that keeps c asleep does.
<1>1. ASSUME owner = 0, c \in Waiting \ awake, UNCHANGED <<token, waited>>,
             waiters \subseteq waiters', w \in waiters,
             \A d \in Claims : phase'[d] = "admitted" => phase[d] = "admitted"
      PROVE  \E v \in Ahead(w)' : Keeps(v, c)'
  <2>1. PICK v \in Ahead(w) : Keeps(v, c)
    BY <1>1 DEF SleepsBehind, Spent
  <2> QED BY <1>1, <2>1 DEF Ahead, Keeps
<1>2. CASE UNCHANGED laneVars
  BY <1>1, <1>2 DEF laneVars
<1>3. CASE LaneTick
  <2> DEFINE older(v) == [v EXCEPT !.claimed = Older(@), !.seen = Older(@)]
  <2>1. /\ waiters' = {older(v) : v \in waiters}
        /\ UNCHANGED <<owner, phase, token, awake>>
        /\ c \in Waiting \ awake /\ waited'[c] = Older(waited[c])
    BY <1>3 DEF LaneTick
  <2>2. waited[c] \in Nat /\ waited'[c] < Budget[c] /\ waited[c] <= waited'[c]
    <3>1. ~(waited'[c] >= Budget[c])
      BY DEF Spent
    <3>2. waited[c] \in Nat
      OBVIOUS
    <3>3. Older(waited[c]) \in Nat /\ Older(waited[c]) >= waited[c]
      BY <3>2, AgesGrow
    <3>4. waited'[c] \in Nat /\ waited'[c] >= waited[c]
      BY <2>1, <3>3
    <3> QED BY <3>1, <3>2, <3>4
  <2>3. waited'[c] = waited[c] + 1
    <3>1. Budget[c] <= Ttl /\ Ttl <= MaxAge /\ Ttl \in Nat /\ MaxAge \in Nat
      BY TimesAssumption, BudgetAssumption
    <3>2. waited[c] < MaxAge
      BY <2>2, <3>1
    <3> QED BY <2>1, <3>2 DEF Older
  <2>4. PICK x \in waiters : w = older(x)
    BY <2>1
  <2>5. \A v \in waiters : /\ older(v).token = v.token /\ older(v).rank = v.rank
                           /\ older(v).seen = Older(v.seen) /\ v.seen \in Nat
    BY DEF Tickets
  <2>6. \A v \in waiters : older(v) \in waiters'
    BY <2>1
  <2> HIDE DEF older
  <2>7. x.token = token[c] /\ ~Spent(c)
    BY <2>1, <2>2, <2>4, <2>5 DEF Spent
  <2>8. PICK v \in Ahead(x) : Keeps(v, c)
    BY <2>1, <2>7 DEF SleepsBehind
  <2>9. v \in waiters /\ older(v) \in Ahead(w)'
    BY <2>4, <2>5, <2>6, <2>8 DEF Ahead
  <2>10. Older(v.seen) <= v.seen + 1 /\ v.seen < waited[c] + Stale
    BY <2>5, <2>8, <2>9 DEF Older, Keeps
  <2>11. older(v).seen < waited'[c] + Stale
    <3>1. Older(v.seen) \in Nat /\ v.seen \in Nat /\ older(v).seen = Older(v.seen)
      BY <2>5, <2>9, AgesGrow
    <3> QED BY <2>2, <2>3, <2>10, <3>1
  <2>12. Keeps(older(v), c)'
    BY <2>1, <2>5, <2>8, <2>9, <2>11 DEF Keeps
  <2> QED BY <2>9, <2>12
<1>4. CASE Revoke
  BY <1>4 DEF Revoke, NotifyAll
<1>5. ASSUME NEW e \in Claims, Enqueue(e)
      PROVE  \E v \in Ahead(w)' : Keeps(v, c)'
  <2>1. /\ c # e /\ c \in Waiting \ awake /\ UNCHANGED <<owner, waited>>
        /\ phase' = [phase EXCEPT ![e] = "waiting"]
        /\ \A d \in Claims : d # e => token'[d] = token[d]
    BY <1>5 DEF Enqueue, Becomes, lane, TakeOver, PushBack
  <2>2. c \in Live
    BY <2>1 DEF Live
  <2>3. PICK u : /\ \A d \in Live : token[d] # u.token
                 /\ \/ waiters' = Kept \cup {u}
                    \/ \E x \in Kept : /\ waiters' = (Kept \ {x}) \cup {u}
                                       /\ u.token = x.token /\ u.rank = x.rank /\ u.seen = 0
    BY <1>5, EnqueueTickets
  <2>4. w \in Kept /\ w \in waiters
    BY <2>1, <2>2, <2>3 DEF Kept
  <2>5. PICK v \in Ahead(w) : Keeps(v, c)
    BY <2>1, <2>4 DEF SleepsBehind, Spent
  <2>6. v \in waiters /\ v.rank < w.rank /\ v.seen \in Nat /\ v.seen < waited[c] + Stale
    BY <2>5 DEF Ahead, Keeps, Tickets
  <2>7. v \in Kept
    <3>1. waited[c] \in Nat /\ waited[c] < Budget[c] /\ Ttl \in Nat
      BY <2>1, TimesAssumption DEF Spent
    <3>2. v.seen < Ttl
      BY <2>6, <3>1
    <3> QED BY <2>6, <3>2 DEF Kept
  <2>8. CASE v \in waiters'
    BY <2>1, <2>5, <2>6, <2>8 DEF Ahead, Keeps
  <2>9. CASE v \notin waiters'
    <3>1. u \in waiters' /\ u.token = v.token /\ u.rank = v.rank /\ u.seen = 0
      BY <2>3, <2>7, <2>9
    <3>2. u.seen < waited[c] + Stale
      BY <2>1, <2>6, <3>1
    <3> QED BY <2>1, <2>5, <2>6, <3>1, <3>2 DEF Ahead, Keeps
  <2> QED BY <2>8, <2>9
<1>6. ASSUME NEW e \in Claims, Admit(e)
      PROVE  \E v \in Ahead(w)' : Keeps(v, c)'
  <2>1. owner' = token[e] /\ e \in Live
    BY <1>6 DEF Admit, Live
  <2> QED BY <2>1 DEF TokensDrawn
<1>7. ASSUME NEW e \in Claims, Refuse(e)
      PROVE  \E v \in Ahead(w)' : Keeps(v, c)'
  <2>1. /\ UNCHANGED <<token, waiters, owner>> /\ ~Free(e) /\ c \in Waiting
        /\ waited'[c] = waited[c] /\ awake' = awake \ {e}
        /\ \A d \in Claims : phase'[d] = "admitted" => phase[d] = "admitted"
    BY <1>7 DEF Refuse, Becomes, Waited, lane, queue
  <2>2. CASE c # e
    <3>1. PICK v \in Ahead(w) : Keeps(v, c)
      BY <2>1, <2>2 DEF SleepsBehind, Spent
    <3> QED BY <2>1, <3>1 DEF Ahead, Keeps
  <2>3. CASE c = e
    <3>1. PICK v \in Ahead(w) : ~Passable(v, w)
      BY <2>1, <2>3 DEF Free, Admissible
    <3>2. v \in waiters /\ v.seen \in Nat /\ ~(v.seen >= Stale) /\ waited[c] \in Nat
      BY <3>1 DEF Ahead, Passable, Tickets
    <3>3. v.seen < waited[c] + Stale
      BY <3>2
    <3>4. ASSUME NEW d \in Claims, phase[d] = "admitted"
          PROVE  token[d] # v.token
      <4>1. d \in Live
        BY <3>4 DEF Live, Entered
      <4>2. token[d] # owner
        BY <2>1, <4>1 DEF TokensDrawn
      <4>3. v.token = token[d] => v.seen >= MinHeld
        BY <3>2, <3>4, <4>2 DEF AdmittedAge
      <4> QED BY <3>2, <4>3, StaleAssumption
    <3> QED BY <2>1, <3>1, <3>3, <3>4 DEF Ahead, Keeps
  <2> QED BY <2>2, <2>3
<1>8. ASSUME NEW e \in Claims, Wake(e) \/ Run(e)
      PROVE  \E v \in Ahead(w)' : Keeps(v, c)'
  <2>1. /\ UNCHANGED <<token, waiters, waited, owner>> /\ c \in Waiting \ awake
        /\ \A d \in Claims : phase'[d] = "admitted" => phase[d] = "admitted"
    BY <1>8 DEF Wake, Run, Becomes, lane, queue
  <2> QED BY <1>1, <2>1
<1>9. ASSUME NEW e \in Claims, Drop(e) \/ Park(e)
      PROVE  \E v \in Ahead(w)' : Keeps(v, c)'
  BY <1>9 DEF Drop, Park, NotifyAll, Ends, Becomes
<1>10. ASSUME NEW e \in Claims, Settle(e)
       PROVE  \E v \in Ahead(w)' : Keeps(v, c)'
  <2>1. /\ phase[e] = "admitted" /\ phase' = [phase EXCEPT ![e] = "holding"]
        /\ waiters' = {v \in waiters : v.token # token[e]}
        /\ UNCHANGED <<token, waited, owner, awake>>
    BY <1>10 DEF Settle, Becomes, lane
  <2>2. c \in Waiting \ awake /\ w \in waiters
    BY <2>1
  <2>3. PICK v \in Ahead(w) : Keeps(v, c)
    BY <2>1, <2>2 DEF SleepsBehind, Spent
  <2>4. v.token # token[e]
    BY <2>1, <2>3 DEF Keeps
  <2> QED BY <2>1, <2>3, <2>4 DEF Ahead, Keeps
<1>11. ASSUME NEW e \in Claims, Displace(e)
       PROVE  \E v \in Ahead(w)' : Keeps(v, c)'
  <2>1. /\ UNCHANGED <<token, waited, owner>> /\ c \in Waiting \ awake
        /\ waiters \subseteq waiters'
        /\ w \in waiters \/ w.token = next_token
        /\ \A d \in Claims : phase'[d] = "admitted" => phase[d] = "admitted"
    BY <1>11 DEF Displace, Becomes, lane, queue
  <2>2. c \in Live
    BY <2>1 DEF Live
  <2>3. w \in waiters
    BY <2>1, <2>2 DEF TokensDrawn
  <2> QED BY <1>1, <2>1, <2>3
<1> QED BY <1>2, <1>3, <1>4, <1>5, <1>6, <1>7, <1>8, <1>9, <1>10, <1>11 DEF LaneNext

\* Nobody sleeps at the head of a free lane: the last of those in front of a sleeping claim
\* does not go without a notification (acquire_within, remove_lane_waiter, lane_admissible).
THEOREM WakeUpsAreNotLost == LaneSpec => []FirstIsAwake
<1>1. LaneInit => AdmittedAge /\ SleepsBehind /\ SeenSinceWaiting /\ IdleUnwaited
  BY DEF LaneInit, AdmittedAge, SleepsBehind, SeenSinceWaiting, IdleUnwaited, Waiting
<1>2. LaneInv /\ SeenSinceWaiting /\ IdleUnwaited /\ AdmittedAge /\ SleepsBehind /\ [LaneNext]_laneVars
        => (SeenSinceWaiting /\ IdleUnwaited /\ AdmittedAge /\ SleepsBehind)'
  BY SeenStep, IdleStep, LaneTypeStep, AdmittedAgeStep, SleepsBehindStep DEF LaneInv
<1>3. SleepsBehind => FirstIsAwake
  BY DEF SleepsBehind, FirstIsAwake
<1> QED BY <1>1, <1>2, <1>3, LaneInvHolds, PTL DEF LaneSpec

----
(* The threads: GmDispatch.                                                *)

\* How far a thread is says what it has of the lane and of the queue.
HasItsGuards ==
    /\ \A c \in Claims :
          /\ at[c] = "tool" => phase[c] = "holding"
          /\ c \in Executing => phase[c] = "running"
    /\ \A c \in Dispatches : c \in Executing => place[c] = "holding"

\* A hold that was not taken is the owner's; one that was taken never is again.
OwnsOrLost(c) ==
    /\ phase[c] \in {"admitted", "holding", "running"} /\ ~Lost(c) => owner = token[c]
    /\ Lost(c) => phase[c] = "done" \/ (c \in Entered /\ owner # token[c])

OwnsUnlessLost ==
    /\ \A c \in Tasks \ Claims : ~Lost(c)
    /\ \A c \in Claims : OwnsOrLost(c)

\* Who has no place in the lane has no token.
NoTokenOutside == \A c \in Claims \ Live : token[c] = 0

\* A record that stays is of a thread that died in the queue, as soon as it leaves.
RecordsOfDead ==
    \A c \in Tasks : at[c] \in {"leaving", "dropping", "done"} /\ stage[c] # "none" =>
        c \in Dispatches /\ place[c] = "panicked"

ThreadInv ==
    /\ TypeOK
    /\ HasItsGuards /\ OwnsUnlessLost /\ NoTokenOutside /\ RecordsOfDead
    /\ DisplacedNeverRuns

\* A step of a thread, of the clock or of the watchdog is for the lane one of its own, or none,
LEMMA LaneStepOrNone == [Next]_vars => [LaneNext]_laneVars
<1> SUFFICES ASSUME [Next]_vars PROVE LaneNext \/ UNCHANGED laneVars
  OBVIOUS
<1>1. CASE UNCHANGED vars
  BY <1>1 DEF vars
<1>2. CASE Tick \/ Judge \/ Remove
  BY <1>2 DEF Tick, Judge, Remove, LaneNext
<1>3. ASSUME NEW c \in Tasks, WakeAtLane(c) \/ Convert(c)
      PROVE  LaneNext \/ UNCHANGED laneVars
  BY <1>3 DEF WakeAtLane, Convert, LaneNext
<1>4. ASSUME NEW c \in Tasks, Step(c) PROVE LaneNext \/ UNCHANGED laneVars
  BY <1>4 DEF Step, TakeSlot, WaitForLane, StarveAtLane, WinLane, WaitForTool, StarveAtTool,
              Pass, AnswerDisplaced, Start, Finish, DropTool, DropLane, LaneNext
<1> QED BY <1>1, <1>2, <1>3, <1>4 DEF Next

\* and for the queue of the verb.
LEMMA QueueStepOrNone == [Next]_vars => [QueueNext]_queueVars
<1> SUFFICES ASSUME [Next]_vars PROVE QueueNext \/ UNCHANGED queueVars
  OBVIOUS
<1>1. CASE UNCHANGED vars
  BY <1>1 DEF vars
<1>2. CASE Tick \/ Judge \/ Remove
  BY <1>2 DEF Tick, Judge, Remove
<1>3. ASSUME NEW c \in Tasks, WakeAtLane(c) \/ Convert(c)
      PROVE  QueueNext \/ UNCHANGED queueVars
  BY <1>3 DEF WakeAtLane, Convert
<1>4. ASSUME NEW c \in Tasks, Step(c) PROVE QueueNext \/ UNCHANGED queueVars
  BY <1>4 DEF Step, TakeSlot, WaitForLane, StarveAtLane, WinLane, WaitForTool, StarveAtTool,
              Pass, AnswerDisplaced, Start, Finish, DropTool, DropLane, QueueNext
<1> QED BY <1>1, <1>2, <1>3, <1>4 DEF Next

\* Put together in run_gm_dispatch_to_file the two guards do what each does alone: whatever is
\* proved of a lane or of a queue holds in the dispatch threads.
THEOREM GuardsCompose == Spec => LaneSpec /\ QueueSpec
<1>1. Init => LaneInit /\ QueueInit
  BY DEF Init
<1> QED BY <1>1, LaneStepOrNone, QueueStepOrNone, PTL DEF Spec, LaneSpec, QueueSpec

\* The variables of the threads, the ledger and the watchdog keep their types.
LEMMA ThreadTypeStep ==
    ASSUME TypeOK, [Next]_vars
    PROVE  TypeOK'
<1> USE DEF TypeOK, Places, Takings, Goes, Note, Forget, watchVars
<1>1. LaneTypeOK' /\ QueueTypeOK'
  BY LaneTypeStep, QueueTypeStep, LaneStepOrNone, QueueStepOrNone
<1>2. MaxAge \in Nat /\ \A n \in 0 .. MaxAge : Older(n) \in 0 .. MaxAge
  BY TimesAssumption DEF Older
<1>3. CASE UNCHANGED vars
  BY <1>1, <1>3 DEF vars
<1>4. CASE Tick
  BY <1>1, <1>2, <1>4 DEF Tick
<1>5. CASE Judge
  BY <1>1, <1>5 DEF Judge, LaneTypeOK
<1>6. CASE Remove
  <2>1. CASE owner # verdict
    BY <1>1, <1>6, <2>1 DEF Remove
  <2>2. CASE owner = verdict
    <3>1. PICK c \in Claims, t \in Takings :
             /\ taken' = [taken EXCEPT ![c] = t]
             /\ Forget(c) \/ UNCHANGED <<stage, since>>
      BY <1>6, <2>2 DEF Remove
    <3>2. c \in Tasks
      BY TasksAssumption
    <3> QED BY <1>1, <1>2, <1>6, <3>1, <3>2 DEF Remove
  <2> QED BY <2>1, <2>2
<1>7. ASSUME NEW c \in Tasks, WakeAtLane(c) \/ Convert(c) PROVE TypeOK'
  BY <1>1, <1>7 DEF WakeAtLane, Convert
<1>8. ASSUME NEW c \in Tasks, Step(c) PROVE TypeOK'
  <2>1. CASE TakeSlot(c) \/ WaitForLane(c) \/ StarveAtLane(c) \/ WinLane(c) \/ WaitForTool(c)
    BY <1>1, <1>2, <2>1 DEF TakeSlot, WaitForLane, StarveAtLane, WinLane, WaitForTool
  <2>2. CASE StarveAtTool(c) \/ Pass(c) \/ AnswerDisplaced(c) \/ Start(c)
    BY <1>1, <1>2, <2>2 DEF StarveAtTool, Pass, AnswerDisplaced, Start
  <2>3. CASE Finish(c) \/ DropTool(c) \/ DropLane(c)
    BY <1>1, <1>2, <2>3 DEF Finish, DropTool, DropLane
  <2> QED BY <1>8, <2>1, <2>2, <2>3 DEF Step
<1> QED BY <1>3, <1>4, <1>5, <1>6, <1>7, <1>8 DEF Next

LEMMA NoTokenOutsideStep ==
    ASSUME LaneInv, NoTokenOutside, [LaneNext]_laneVars
    PROVE  NoTokenOutside'
<1> USE DEF LaneInv, LaneTypeOK, Phases, NoTokenOutside, Live, Entered
<1>1. CASE UNCHANGED laneVars
  BY <1>1 DEF laneVars
<1>2. CASE LaneTick \/ Revoke
  BY <1>2 DEF LaneTick, Revoke, Give, queue
<1>3. ASSUME NEW c \in Claims, Enqueue(c) PROVE NoTokenOutside'
  BY <1>3 DEF Enqueue, Becomes, TakeOver, PushBack
<1>4. ASSUME NEW c \in Claims,
             Admit(c) \/ Refuse(c) \/ Wake(c) \/ Settle(c) \/ Run(c) \/ Displace(c)
      PROVE  NoTokenOutside'
  BY <1>4 DEF Admit, Refuse, Wake, Settle, Run, Displace, Becomes
<1>5. ASSUME NEW c \in Claims, Park(c) \/ Drop(c) PROVE NoTokenOutside'
  BY <1>5 DEF Park, Drop, Ends, Becomes
<1> QED BY <1>1, <1>2, <1>3, <1>4, <1>5 DEF LaneNext

\* What the steps of a claim do to the hold of any claim, as long as the watchdog takes none.
LEMMA OwnsOrLostStep ==
    ASSUME LaneInv, NEW d \in Claims, OwnsOrLost(d), taken'[d] = taken[d], NEW c \in Claims,
           \/ Enqueue(c) \/ Admit(c) \/ Refuse(c) \/ Wake(c) \/ Settle(c) \/ Park(c)
           \/ Run(c) \/ Displace(c) \/ Drop(c)
    PROVE  OwnsOrLost(d)'
<1> USE DEF LaneInv, LaneTypeOK, Phases, OwnsOrLost, Lost, Live, Entered, lane, queue
<1>1. CASE Enqueue(c)
  <2>1. /\ phase[c] = "new" /\ phase' = [phase EXCEPT ![c] = "waiting"] /\ owner' = owner
        /\ d # c => token'[d] = token[d]
    BY <1>1 DEF Enqueue, Becomes, TakeOver, PushBack
  <2> QED BY <2>1
<1>2. CASE Admit(c)
  <2>1. /\ phase[c] = "waiting" /\ phase' = [phase EXCEPT ![c] = "admitted"]
        /\ owner = 0 /\ owner' = token[c] /\ token' = token
    BY <1>2 DEF Admit, Free, Becomes
  <2>2. d # c /\ d \in Entered => token[d] # token[c] /\ token[d] # 0
    BY <2>1 DEF TokensDistinct, TokensDrawn
  <2> QED BY <2>1, <2>2
<1>3. CASE Refuse(c) \/ Wake(c) \/ Settle(c) \/ Run(c)
  BY <1>3 DEF Refuse, Wake, Settle, Run, Becomes
<1>4. CASE Park(c)
  BY <1>4 DEF Park, Ends, Becomes
<1>5. CASE Displace(c)
  BY <1>5 DEF Displace, Becomes
<1>6. CASE Drop(c)
  <2>1. /\ c \in Entered /\ phase' = [phase EXCEPT ![c] = "done"]
        /\ token' = [token EXCEPT ![c] = 0]
        /\ owner' = IF owner = token[c] THEN 0 ELSE owner
    BY <1>6 DEF Drop, Ends, Becomes, Give
  <2>2. d # c /\ d \in Entered => token[d] # token[c] /\ token[d] # 0
    BY <2>1 DEF TokensDistinct, TokensDrawn
  <2> QED BY <2>1, <2>2
<1> QED BY <1>1, <1>2, <1>3, <1>4, <1>5, <1>6

\* What the watchdog takes, under the owners' lock, is the hold of the claim whose token it is.
LEMMA RemoveTakes ==
    ASSUME TypeOK, LaneInv, NoTokenOutside, Remove, owner = verdict
    PROVE  \E c \in Entered, t \in Takings \ {"no"} :
              /\ token[c] = owner
              /\ taken' = [taken EXCEPT ![c] = t]
              /\ t = "waiting" <=> at[c] \in {"lane", "tool"}
              /\ Forget(c) \/ UNCHANGED <<stage, since>>
              /\ owner' = 0 /\ UNCHANGED <<phase, token>>
<1> USE DEF LaneInv, LaneTypeOK, TypeOK
<1>1. /\ owner # 0 /\ owner' = 0 /\ UNCHANGED <<phase, token>>
  BY DEF Remove, Revoke, Give
<1>2. PICK c \in Claims, t \in Takings \ {"no"} :
         /\ token[c] = owner
         /\ taken' = [taken EXCEPT ![c] = t]
         /\ t = "waiting" <=> at[c] \in {"lane", "tool"}
         /\ Forget(c) \/ UNCHANGED <<stage, since>>
  BY DEF Remove, Takings
<1>3. PICK e \in Entered : token[e] = owner
  BY <1>1 DEF OwnerWillDrop
<1>4. c \in Live /\ e \in Live
  BY <1>1, <1>2, <1>3 DEF NoTokenOutside, Live, Entered
<1>5. c = e
  BY <1>2, <1>3, <1>4 DEF TokensDistinct
<1> QED BY <1>1, <1>2, <1>3, <1>5

LEMMA OwnsUnlessLostStep ==
    ASSUME TypeOK, LaneInv, NoTokenOutside, OwnsUnlessLost, [Next]_vars
    PROVE  OwnsUnlessLost'
<1> USE DEF OwnsUnlessLost
<1>1. ASSUME UNCHANGED taken, UNCHANGED <<owner, phase, token>> PROVE OwnsUnlessLost'
  BY <1>1 DEF OwnsOrLost, Lost, Entered
<1>2. ASSUME UNCHANGED taken, NEW c \in Claims,
             \/ Enqueue(c) \/ Admit(c) \/ Refuse(c) \/ Wake(c) \/ Settle(c) \/ Park(c)
             \/ Run(c) \/ Displace(c) \/ Drop(c)
      PROVE  OwnsUnlessLost'
  <2>1. ASSUME NEW d \in Claims PROVE OwnsOrLost(d)'
    BY <1>2, <2>1, OwnsOrLostStep
  <2> QED BY <1>2, <2>1 DEF Lost
<1>3. CASE UNCHANGED vars \/ Tick \/ Judge
  BY <1>1, <1>3 DEF vars, laneVars, watchVars, Tick, LaneTick, Judge
<1>4. CASE Remove
  <2>1. CASE owner # verdict
    BY <1>1, <1>4, <2>1 DEF Remove, laneVars
  <2>2. CASE owner = verdict
    <3>1. PICK c \in Entered, t \in Takings \ {"no"} :
             /\ token[c] = owner /\ taken' = [taken EXCEPT ![c] = t]
             /\ owner' = 0 /\ UNCHANGED <<phase, token>>
      BY <1>4, <2>2, RemoveTakes
    <3>2. c \in Tasks /\ Lost(c)' /\ \A d \in Tasks \ {c} : Lost(d)' <=> Lost(d)
      BY <3>1, TasksAssumption DEF TypeOK, Lost, Entered
    <3>3. \A d \in Entered : token[d] # 0 /\ (token[d] = owner => d = c)
      BY <3>1 DEF LaneInv, TokensDrawn, TokensDistinct, Live
    <3> QED BY <3>1, <3>2, <3>3, TasksAssumption DEF OwnsOrLost, Entered
  <2> QED BY <2>1, <2>2
<1>5. ASSUME NEW c \in Tasks, WakeAtLane(c) \/ Convert(c) PROVE OwnsUnlessLost'
  BY <1>1, <1>2, <1>5 DEF WakeAtLane, Convert, watchVars, laneVars
<1>6. ASSUME NEW c \in Tasks, Step(c) PROVE OwnsUnlessLost'
  <2>1. CASE TakeSlot(c) \/ WaitForLane(c) \/ StarveAtLane(c) \/ Pass(c)
             \/ AnswerDisplaced(c) \/ DropLane(c)
    BY <1>1, <1>2, <2>1 DEF TakeSlot, WaitForLane, StarveAtLane, Pass, AnswerDisplaced, DropLane,
                            watchVars, laneVars
  <2>2. CASE WinLane(c) \/ WaitForTool(c) \/ StarveAtTool(c) \/ Start(c) \/ Finish(c)
             \/ DropTool(c)
    BY <1>1, <2>2 DEF WinLane, WaitForTool, StarveAtTool, Start, Finish, DropTool,
                      watchVars, laneVars
  <2> QED BY <1>6, <2>1, <2>2 DEF Step
<1> QED BY <1>3, <1>4, <1>5, <1>6 DEF Next

\* A step of one thread leaves the others where they are.
LEMMA OthersStay ==
    ASSUME TypeOK, NEW c \in Tasks, Step(c) \/ WakeAtLane(c) \/ Convert(c),
           NEW d \in Tasks, d # c
    PROVE  /\ at'[d] = at[d] /\ stage'[d] = stage[d] /\ taken'[d] = taken[d]
           /\ d \in Claims => phase'[d] = phase[d]
           /\ d \in Dispatches => place'[d] = place[d]
<1> USE DEF TypeOK, LaneTypeOK, QueueTypeOK, Goes, Note, Forget, watchVars, laneVars, queueVars
<1>1. CASE TakeSlot(c) \/ WaitForLane(c) \/ WakeAtLane(c) \/ StarveAtLane(c)
  BY <1>1 DEF TakeSlot, WaitForLane, WakeAtLane, StarveAtLane, Enqueue, Admit, Refuse, Settle,
              Wake, Park, Ends, Becomes
<1>2. CASE WinLane(c) \/ WaitForTool(c) \/ StarveAtTool(c)
  BY <1>2 DEF WinLane, WaitForTool, StarveAtTool, Enter, Serve, GiveUp, Panic
<1>3. CASE Pass(c) \/ AnswerDisplaced(c) \/ Start(c) \/ Finish(c)
  BY <1>3 DEF Pass, AnswerDisplaced, Start, Finish, Run, Displace, Becomes
<1>4. CASE DropTool(c) \/ DropLane(c) \/ Convert(c)
  BY <1>4 DEF DropTool, DropLane, Convert, Release, Drop, Ends, Becomes
<1> QED BY <1>1, <1>2, <1>3, <1>4 DEF Step

LEMMA HasItsGuardsStep ==
    ASSUME TypeOK, HasItsGuards, [Next]_vars
    PROVE  HasItsGuards'
<1> USE DEF TypeOK, LaneTypeOK, QueueTypeOK, Places, HasItsGuards, Executing
<1>1. ASSUME UNCHANGED <<at, phase, place>> PROVE HasItsGuards'
  BY <1>1
<1>2. CASE UNCHANGED vars \/ Tick \/ Judge \/ Remove
  BY <1>1, <1>2 DEF vars, laneVars, queueVars, Tick, LaneTick, Judge, Remove, Revoke
<1>3. ASSUME NEW c \in Tasks, Step(c) \/ WakeAtLane(c) \/ Convert(c)
      PROVE  HasItsGuards'
  <2>1. \A d \in Tasks \ {c} : /\ at'[d] = at[d]
                               /\ d \in Claims => phase'[d] = phase[d]
                               /\ d \in Dispatches => place'[d] = place[d]
    BY <1>3, OthersStay
  <2>2. /\ c \in Claims /\ at'[c] = "tool" => phase'[c] = "holding"
        /\ c \in Claims /\ at'[c] \in {"passed", "running"} => phase'[c] = "running"
        /\ c \in Dispatches /\ at'[c] \in {"passed", "running"} => place'[c] = "holding"
    <3> USE DEF Goes, laneVars, queueVars
    <3>1. CASE TakeSlot(c) \/ WaitForLane(c) \/ WakeAtLane(c) \/ StarveAtLane(c)
               \/ StarveAtTool(c) \/ AnswerDisplaced(c) \/ Finish(c) \/ DropTool(c)
               \/ DropLane(c)
      BY <3>1 DEF TakeSlot, WaitForLane, WakeAtLane, StarveAtLane, StarveAtTool,
                  AnswerDisplaced, Finish, DropTool, DropLane
    <3>2. CASE WinLane(c) \/ WaitForTool(c)
      BY <3>2 DEF WinLane, WaitForTool
    <3>3. CASE Pass(c)
      BY <3>3 DEF Pass, HasTool, Run, Becomes
    <3>4. CASE Start(c) \/ Convert(c)
      BY <3>4 DEF Start, Convert
    <3> QED BY <1>3, <3>1, <3>2, <3>3, <3>4 DEF Step
  <2> QED BY <2>1, <2>2, TasksAssumption
<1> QED BY <1>2, <1>3 DEF Next

LEMMA RecordsOfDeadStep ==
    ASSUME TypeOK, LaneInv, NoTokenOutside, RecordsOfDead, [Next]_vars
    PROVE  RecordsOfDead'
<1> USE DEF TypeOK, QueueTypeOK, Places, RecordsOfDead
<1>1. CASE UNCHANGED vars \/ Tick \/ Judge
  BY <1>1 DEF vars, queueVars, Tick, Judge
<1>2. CASE Remove
  <2>1. UNCHANGED <<at, place>> /\ (UNCHANGED stage \/ \E c \in Tasks : Forget(c))
    <3>1. CASE owner # verdict
      BY <1>2, <3>1 DEF Remove, queueVars
    <3>2. CASE owner = verdict
      BY <1>2, <3>2, RemoveTakes, TasksAssumption DEF Remove, queueVars, Entered
    <3> QED BY <3>1, <3>2
  <2> QED BY <2>1 DEF Forget, Note
<1>3. ASSUME NEW c \in Tasks, Step(c) \/ WakeAtLane(c) \/ Convert(c)
      PROVE  RecordsOfDead'
  <2>1. \A d \in Tasks \ {c} : /\ at'[d] = at[d] /\ stage'[d] = stage[d]
                               /\ d \in Dispatches => place'[d] = place[d]
    BY <1>3, OthersStay
  <2>2. at'[c] \in {"leaving", "dropping", "done"} /\ stage'[c] # "none" =>
            c \in Dispatches /\ place'[c] = "panicked"
    <3> USE DEF Goes, Note, Forget, queueVars
    <3>1. CASE TakeSlot(c) \/ WaitForLane(c) \/ WakeAtLane(c) \/ WinLane(c) \/ WaitForTool(c)
               \/ Pass(c) \/ Start(c)
      BY <3>1 DEF TakeSlot, WaitForLane, WakeAtLane, WinLane, WaitForTool, Pass, Start
    <3>2. CASE StarveAtLane(c) \/ AnswerDisplaced(c) \/ Finish(c)
      BY <3>2 DEF StarveAtLane, AnswerDisplaced, Finish
    <3>3. CASE StarveAtTool(c)
      BY <3>3 DEF StarveAtTool
    <3>4. CASE DropTool(c) \/ DropLane(c) \/ Convert(c)
      BY <3>4 DEF DropTool, DropLane, Convert
    <3> QED BY <1>3, <3>1, <3>2, <3>3, <3>4 DEF Step
  <2> QED BY <2>1, <2>2
<1> QED BY <1>1, <1>2, <1>3 DEF Next

\* A thread passes only with the lane it owns, so one that lost it does not.
LEMMA DisplacedNeverRunsStep ==
    ASSUME TypeOK, LaneInv, NoTokenOutside, OwnsUnlessLost, DisplacedNeverRuns, [Next]_vars
    PROVE  DisplacedNeverRuns'
<1> USE DEF TypeOK, Places, Takings, DisplacedNeverRuns, Executing
<1>1. CASE UNCHANGED vars \/ Tick \/ Judge
  BY <1>1 DEF vars, watchVars, Tick, Judge
<1>2. CASE Remove
  <2>1. CASE owner # verdict
    BY <1>2, <2>1 DEF Remove
  <2>2. CASE owner = verdict
    <3>1. PICK c \in Entered, t \in Takings \ {"no"} :
             /\ taken' = [taken EXCEPT ![c] = t]
             /\ t = "waiting" <=> at[c] \in {"lane", "tool"}
      BY <1>2, <2>2, RemoveTakes
    <3>2. at' = at
      BY <1>2 DEF Remove
    <3> QED BY <3>1, <3>2
  <2> QED BY <2>1, <2>2
<1>3. ASSUME NEW c \in Tasks, Step(c) \/ WakeAtLane(c) \/ Convert(c)
      PROVE  DisplacedNeverRuns'
  <2>1. \A d \in Tasks \ {c} : at'[d] = at[d] /\ taken'[d] = taken[d]
    BY <1>3, OthersStay
  <2>2. at'[c] \in {"passed", "running"} => taken'[c] # "waiting"
    <3> USE DEF Goes, watchVars
    <3>1. CASE Pass(c)
      <4>1. taken[c] = "no"
        BY <3>1 DEF Pass, Run, OwnsUnlessLost, OwnsOrLost, Lost
      <4> QED BY <3>1, <4>1 DEF Pass
    <3>2. CASE TakeSlot(c) \/ WaitForLane(c) \/ WakeAtLane(c) \/ StarveAtLane(c) \/ WinLane(c)
               \/ WaitForTool(c) \/ StarveAtTool(c) \/ AnswerDisplaced(c) \/ Finish(c)
               \/ DropTool(c) \/ DropLane(c)
      BY <3>2 DEF TakeSlot, WaitForLane, WakeAtLane, StarveAtLane, WinLane, WaitForTool,
                  StarveAtTool, AnswerDisplaced, Finish, DropTool, DropLane
    <3>3. CASE Start(c) \/ Convert(c)
      BY <3>3 DEF Start, Convert
    <3> QED BY <1>3, <3>1, <3>2, <3>3 DEF Step
  <2> QED BY <2>1, <2>2
<1> QED BY <1>1, <1>2, <1>3 DEF Next

LEMMA ThreadInvHolds == Spec => []ThreadInv
<1>1. Init => ThreadInv
  <2> SUFFICES ASSUME Init PROVE ThreadInv
    OBVIOUS
  <2>1. LaneTypeOK /\ QueueTypeOK
    BY LaneInvInit, QueueInvInit DEF Init, LaneInv, QueueInv
  <2>2. TypeOK
    BY <2>1, TimesAssumption DEF Init, TypeOK, Places, Takings
  <2>3. HasItsGuards /\ RecordsOfDead /\ DisplacedNeverRuns
    BY TasksAssumption DEF Init, HasItsGuards, RecordsOfDead, DisplacedNeverRuns, Executing
  <2>4. OwnsUnlessLost /\ NoTokenOutside
    BY TasksAssumption DEF Init, LaneInit, OwnsUnlessLost, OwnsOrLost, Lost, NoTokenOutside
  <2> QED BY <2>2, <2>3, <2>4 DEF ThreadInv
<1>2. ThreadInv /\ LaneInv /\ [Next]_vars => ThreadInv'
  BY ThreadTypeStep, HasItsGuardsStep, OwnsUnlessLostStep, NoTokenOutsideStep, LaneStepOrNone,
     RecordsOfDeadStep, DisplacedNeverRunsStep DEF ThreadInv
<1> QED BY <1>1, <1>2, GuardsCompose, LaneInvHolds, PTL DEF Spec

\* A thread of a dispatch, its two guards and the record of its heavy work have their types
\* (run_gm_dispatch_to_file, reap_overaged_lane_holders).
THEOREM DispatchTypeCorrect == Spec => []TypeOK
<1>1. ThreadInv => TypeOK
  BY DEF ThreadInv
<1> QED BY <1>1, ThreadInvHolds, PTL

\* The dispatches of a project do not get into each other's way: they share a lane only when
\* the watchdog took it, do not run once they lost it in the queue, keep apart within a verb,
\* and leave no record of a thread that ended (run_gm_dispatch_to_file).
THEOREM DispatchesAreSound == Spec => []DispatchesSound
<1>1. ThreadInv /\ LaneInv /\ QueueInv => DispatchesSound
  <2> SUFFICES ASSUME ThreadInv, LaneInv, QueueInv PROVE DispatchesSound
    OBVIOUS
  <2> USE DEF ThreadInv
  <2>1. OneWriter
    <3> SUFFICES ASSUME NEW c \in Executing \cap Claims, NEW d \in Executing \cap Claims,
                        ~Lost(c), ~Lost(d)
                 PROVE  c = d
      BY DEF OneWriter
    <3>1. phase[c] = "running" /\ phase[d] = "running"
      BY DEF HasItsGuards
    <3>2. token[c] = owner /\ token[d] = owner
      BY <3>1 DEF OwnsUnlessLost, OwnsOrLost
    <3> QED BY <3>1, <3>2 DEF LaneInv, TokensDistinct, Live, Entered
  <2>2. SameVerbApart
    BY DEF SameVerbApart, HasItsGuards, QueueInv, OneHolderUntilCut, Holding
  <2>3. RecordsEnd
    BY DEF RecordsOfDead, RecordsEnd
  <2> QED BY <2>1, <2>2, <2>3 DEF DispatchesSound
<1> QED BY <1>1, ThreadInvHolds, GuardsCompose, LaneInvHolds, QueueInvHolds, PTL

=============================================================================
